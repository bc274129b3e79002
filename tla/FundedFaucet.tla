---------------------------- MODULE FundedFaucet ----------------------------
(***************************************************************************)
(* The whole path of a payment: the faucet of Faucet, whose transactions   *)
(* call the batch_transfer contract on the token of Token.  What a ledger  *)
(* makes of a transaction is no longer any outcome: it is what the         *)
(* contract returns for the balances at that moment.                       *)
(***************************************************************************)
EXTENDS Faucet, Token

CONSTANTS Funder,    \* the faucet's account
          Amount,    \* AMOUNT: what every receiver is sent
          Limits,    \* what a receiver may hold at most; 0 has no trustline
          Funds,     \* what the faucet's account holds at first
          MaxFunds   \* bound on what its owner adds

(* AMOUNT is any i128 that parses, and the funding account's own address is *)
(* as good as any other.                                                    *)
ASSUME TokenAssumption ==
    Amount \in Int /\ Limits \subseteq Nat /\ MaxFunds \in Nat /\ Funds \in 0 .. MaxFunds

VARIABLES balance,   \* the token's ledger
          limit

tokenVars  == <<balance, limit>>
fundedVars == <<vars, tokenVars>>

FundedInit ==
    /\ Init
    /\ \E room \in [Address -> Limits] :
         limit = [h \in Address \union {Funder} |->
                    IF h = Funder THEN MaxFunds ELSE room[h]]
    /\ balance = [h \in DOMAIN limit |-> IF h = Funder THEN Funds ELSE 0]

-----------------------------------------------------------------------------
(* dispatch_batch pairs every receiver with the amount. *)
Receivers(t) == [i \in DOMAIN t.receivers |-> [to |-> t.receivers[i], amount |-> Amount]]

(* What the call made by transaction t comes to. *)
Invoke(t) == batch_transfer(balance, limit, Funder, Receivers(t))

(* A step of the faucet or of the network: a transaction that it includes   *)
(* moves tokens as the contract does, unless it fails as a whole.           *)
FaucetStep ==
    /\ Next
    /\ \A p \in applied' \ applied : p.ok => p.results = Invoke(p.tx).results
    /\ balance' \in IF \E p \in applied' \ applied : p.ok
                    THEN {Invoke(p.tx).balance : p \in applied' \ applied}
                    ELSE {balance}
    /\ UNCHANGED limit

(* The owner of the funding account adds tokens. *)
TopUp ==
    /\ \E n \in balance[Funder] + 1 .. MaxFunds :
         balance' = [balance EXCEPT ![Funder] = n]
    /\ UNCHANGED <<vars, limit>>

FundedNext == FaucetStep \/ TopUp

FundedSpec == FundedInit /\ [][FundedNext]_fundedVars

-----------------------------------------------------------------------------
(* r was told of a success that the faucet read from its transaction's meta *)
(* (with a meta it cannot read, it reports a success unseen).               *)
SucceededAsRead(r) ==
    /\ Succeeded(r)
    /\ \E p \in applied : p.tx = reply[r].hash /\ p.meta = "V3"

(* scripts/test_faucet.sh: "Receivers started with 0 of the custom token,   *)
(* so balance should == AMOUNT".  A receiver other than the funding account *)
(* holds the amount at least once for every success it was told of, and at  *)
(* most once for every request it made that went into a transaction: what   *)
(* the clients are told adds up to what the token says.                     *)
BalancesMatchAnswers ==
    \A a \in Address \ {Funder} :
        \E k \in Cardinality({r \in Request : addr(r) = a /\ SucceededAsRead(r)})
               .. Cardinality({r \in Request : addr(r) = a /\ carriedBy[r] # NoTx}) :
            balance[a] = Amount * k

(* When the funds run out within a batch, they go to those who asked first: *)
(* a receiver that is told its transfer failed, while one behind it in the  *)
(* same transaction is told it was paid, has no room for the amount, and is *)
(* not the funding account.                                                 *)
FirstComeFirstPaid ==
    \A r, s \in Request :
        /\ reply[r] = transfer_failed
        /\ Succeeded(s)
        /\ carriedBy[r] = carriedBy[s]
        /\ \E i, j \in DOMAIN carriedBy[r].receivers :
              /\ i < j
              /\ carriedBy[r].receivers[i] = addr(r)
              /\ carriedBy[r].receivers[j] = addr(s)
        => addr(r) # Funder /\ balance[addr(r)] + Amount > limit[addr(r)]

=============================================================================
