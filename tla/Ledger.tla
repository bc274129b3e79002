------------------------------- MODULE Ledger -------------------------------
(***************************************************************************)
(* The Stellar network as the faucet sees it through its RPC node: the     *)
(* sequence number of the funding account, the transactions waiting to be  *)
(* included, and the ones a ledger has included.  External: modelled from  *)
(* how faucet/src/tx.rs uses it.                                           *)
(*                                                                         *)
(* A transaction hash identifies the content of a transaction, so a        *)
(* transaction is its own hash: the same receivers under the same sequence *)
(* number and with the same resources are the same transaction.            *)
(***************************************************************************)
EXTENDS Naturals, Sequences

CONSTANTS Address,       \* well-formed G... strkeys
          Resources,     \* outcomes of simulating a batch
          MetaForms,     \* forms of result_meta the RPC node returns
          MaxOperatorSeq \* bound on the operator's own transactions

(* "V4" stands for every form parse_results_from_meta does not look into,  *)
(* "misfit" for a V3 with a vector that is not one result per receiver, as *)
(* a contract other than batch_transfer may return.                        *)
ASSUME MetaAssumption == MetaForms \subseteq {"V3", "V4", "absent", "misfit"}
ASSUME ResourceAssumption == Resources \subseteq Nat \ {0}
ASSUME OperatorAssumption == MaxOperatorSeq \in Nat

VARIABLES seq,      \* sequence number of the funding account
          mempool,  \* transactions submitted and not yet included
          applied   \* transactions included in a ledger, with their outcome

ledgerVars == <<seq, mempool, applied>>

Tx == [seq : Nat, receivers : Seq(Address), resources : Nat]

NoTx == [seq |-> 0, receivers |-> << >>, resources |-> 0]

Included == [tx : Tx, ok : BOOLEAN, results : Seq(BOOLEAN), meta : MetaForms]

LedgerTypeOK ==
    /\ seq \in Nat
    /\ mempool \subseteq Tx
    /\ applied \subseteq Included

LedgerInit ==
    /\ seq = 0
    /\ mempool = {}
    /\ applied = {}

(* A node queues a transaction unless its sequence number is used up. *)
Admit(t) ==
    /\ t.seq > seq
    /\ mempool' = mempool \union {t}
    /\ UNCHANGED <<seq, applied>>

(* Transactions that can still be included once the account is at n. *)
StillValid(n) == {t \in mempool : t.seq > n}

(***************************************************************************)
(* The next transaction of the account is included.  It consumes its       *)
(* sequence number in any case.  If it succeeds, the contract returns one  *)
(* Boolean per receiver, TRUE where the tokens moved; if it fails (out of  *)
(* resources, a trap) nothing moved.                                       *)
(***************************************************************************)
Include(t) ==
    /\ t \in mempool
    /\ t.seq = seq + 1
    /\ \E meta \in MetaForms :
         \/ \E results \in [1 .. Len(t.receivers) -> BOOLEAN] :
              applied' = applied \union
                {[tx |-> t, ok |-> TRUE, results |-> results, meta |-> meta]}
         \/ applied' = applied \union
              {[tx |-> t, ok |-> FALSE, results |-> << >>, meta |-> meta]}
    /\ seq' = t.seq
    /\ mempool' = StillValid(t.seq)

(* A node drops a transaction it has held for too long. *)
Evict(t) ==
    /\ t \in mempool
    /\ mempool' = mempool \ {t}
    /\ UNCHANGED <<seq, applied>>

(* The owner of the funding account uses it for something else. *)
OperatorTransaction ==
    /\ seq < MaxOperatorSeq
    /\ seq' = seq + 1
    /\ mempool' = StillValid(seq + 1)
    /\ UNCHANGED applied

(* Ledger entry p moved tokens to address a. *)
Pays(p, a) ==
    /\ p.ok
    /\ \E i \in DOMAIN p.results : p.tx.receivers[i] = a /\ p.results[i]

=============================================================================
