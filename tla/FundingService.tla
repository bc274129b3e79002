--------------------------- MODULE FundingService ---------------------------
(***************************************************************************)
(* What the faucet promises its clients, without queue, batches, channels  *)
(* or transactions: a request is refused, or taken and answered at most    *)
(* once; it is decided by at most one payment, and an answer about that    *)
(* payment is true and stays true.                                         *)
(***************************************************************************)
EXTENDS Naturals

CONSTANTS Request,
          Recipient   \* the address each request asks for

VARIABLES stage,    \* how far each request has come
          payment,  \* the number of the payment that decided it, or 0
          last,     \* the number of the account's last transaction
          ledger,   \* what was paid: pairs of a payment's number and an address
          opaque    \* the payments whose transfers the service cannot tell apart

vars == <<stage, payment, last, ledger, opaque>>

Paid(r) == <<payment[r], Recipient[r]>> \in ledger

Init ==
    /\ stage = [r \in Request |-> "new"]
    /\ payment = [r \in Request |-> 0]
    /\ last \in Nat
    /\ ledger = {}
    /\ opaque = {}

-----------------------------------------------------------------------------
Moves(S, from, to) ==
    /\ \A r \in S : stage[r] = from
    /\ stage' = [r \in Request |-> IF r \in S THEN to ELSE stage[r]]
    /\ UNCHANGED <<payment, last, ledger, opaque>>

Refuse(r) == Moves({r}, "new", "refused")

Accept(r) == Moves({r}, "new", "open")

(* The client hears of a success, for a payment no other client of its      *)
(* address was told of, and which paid it as far as the service can tell.   *)
Confirm(r) ==
    /\ payment[r] # 0
    /\ Paid(r) \/ payment[r] \in opaque
    /\ \A s \in Request \ {r} :
          stage[s] = "confirmed" /\ Recipient[s] = Recipient[r]
              => payment[s] # payment[r]
    /\ Moves({r}, "open", "confirmed")

(* The client hears that its transfer was tried and failed. *)
Deny(r) ==
    /\ payment[r] # 0
    /\ ~Paid(r)
    /\ Moves({r}, "open", "denied")

(* The client hears of an error: its request may still be paid. *)
GiveUp(r) == Moves({r}, "open", "unknown")

(* Clients hang up, or lose the service. *)
Abandon(S) == Moves(S, "open", "gone")

(* Requests that a payment may still decide. *)
Undecided == {r \in Request : /\ stage[r] \in {"open", "unknown", "gone"}
                              /\ payment[r] = 0}

DecidedBy(S, n) == payment' = [r \in Request |-> IF r \in S THEN n ELSE payment[r]]

(* The account's next transaction decides the requests in S and pays those  *)
(* in P.  Without any it is a transaction of the account's owner.           *)
Settle(S, P) ==
    /\ last' \in Nat
    /\ last' > last
    /\ DecidedBy(S, last')
    /\ ledger' = ledger \union {<<last', Recipient[r]>> : r \in P}
    /\ opaque' \in {opaque, opaque \union {last'}}
    /\ UNCHANGED stage

(* Requests are found to be decided by a payment that was made already: a   *)
(* transaction built for them is the very one built for others before.      *)
Join(S, r) ==
    /\ payment[r] # 0
    /\ DecidedBy(S, payment[r])
    /\ UNCHANGED <<stage, last, ledger, opaque>>

Next ==
    \/ \E r \in Request :
          Refuse(r) \/ Accept(r) \/ Confirm(r) \/ Deny(r) \/ GiveUp(r)
    \/ \E S \in SUBSET Request : Abandon(S)
    \/ \E S \in SUBSET Undecided :
          \/ \E P \in SUBSET S : Settle(S, P)
          \/ \E r \in Request : Join(S, r)

Spec == Init /\ [][Next]_vars

=============================================================================
