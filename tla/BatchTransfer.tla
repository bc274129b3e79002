--------------------------- MODULE BatchTransfer ---------------------------
(***************************************************************************)
(* The batch_transfer contract of contracts/batch_transfer/src/lib.rs, one *)
(* step per turn of its loop, on top of a token.                           *)
(***************************************************************************)
EXTENDS Token, FiniteSets, FiniteSetsExt

CONSTANTS Account,      \* token holders
          Sender,       \* the one the batch is paid from
          Amounts,      \* amounts a receiver may be sent
          Limits,       \* what a holder may hold at most; 0 has no trustline
          MaxReceivers, \* bound on the length of a batch
          MaxBalance    \* bound on initial balances

ASSUME SenderAssumption == Sender \in Account
ASSUME AmountAssumption == Amounts \subseteq Int /\ Limits \subseteq Nat

VARIABLES balance,    \* the token's ledger
          limit,
          stage,      \* "idle", "running", "returned" or "trapped"
          receivers,  \* the argument of the call
          results,    \* the vector it returns
          before      \* history: the balances when the call started

vars == <<balance, limit, stage, receivers, results, before>>

Receiver == [to : Account, amount : Amounts]

TypeOK ==
    /\ balance \in [Account -> Nat]
    /\ limit \in [Account -> Limits]
    /\ stage \in {"idle", "running", "returned", "trapped"}
    /\ receivers \in Seq(Receiver)
    /\ results \in Seq(BOOLEAN)
    /\ Len(results) <= Len(receivers)
    /\ before \in [Account -> Nat]

Init ==
    /\ limit \in [Account -> Limits]
    /\ balance \in [Account -> 0 .. MaxBalance]
    /\ \A a \in Account : balance[a] <= limit[a]
    /\ stage = "idle"
    /\ receivers = << >>
    /\ results = << >>
    /\ before = balance

-----------------------------------------------------------------------------
(* The call, authorized by the sender: without that it traps at once. *)
Call ==
    /\ stage = "idle"
    /\ \E n \in 0 .. MaxReceivers : receivers' \in [1 .. n -> Receiver]
    /\ stage' \in {"running", "trapped"}
    /\ before' = balance
    /\ UNCHANGED <<balance, limit, results>>

Turn == receivers[Len(results) + 1]

Succeeds == CanTransfer(balance, limit, Sender, Turn.to, Turn.amount)

(* A turn of the loop, after which the results are new. *)
TurnWith(new) ==
    /\ stage = "running"
    /\ Len(results) < Len(receivers)
    /\ balance' = IF Succeeds THEN Transferred(balance, Sender, Turn.to, Turn.amount)
                              ELSE balance
    /\ results' = new
    /\ UNCHANGED <<limit, stage, receivers, before>>

(* Mutants: the loop is left at the first failure; results are pushed to    *)
(* the front; a result is pushed twice.                                     *)
StopAtFirstFailure ==
    TurnWith(IF Succeeds THEN Append(results, TRUE)
             ELSE [i \in 1 .. Len(receivers) |-> i <= Len(results)])

PushFront == TurnWith(<<Succeeds>> \o results)

PushTwice == TurnWith(results \o <<Succeeds, Succeeds>>)

(* try_transfer for the next receiver; a failure is recorded, not raised. *)
TryTransfer == TurnWith(Append(results, Succeeds))

Return ==
    /\ stage = "running"
    /\ Len(results) = Len(receivers)
    /\ stage' = "returned"
    /\ UNCHANGED <<balance, limit, receivers, results, before>>

(* The transaction runs out of resources: the host undoes all of it. *)
OutOfResources ==
    /\ stage = "running"
    /\ stage' = "trapped"
    /\ balance' = before
    /\ results' = << >>
    /\ UNCHANGED <<limit, receivers, before>>

Next == Call \/ TryTransfer \/ Return \/ OutOfResources

Spec == Init /\ [][Next]_vars

-----------------------------------------------------------------------------
Sum(S) == MapThenSumSet(LAMBDA i : receivers[i].amount, S)

(* The transfers among the first n that are reported to have gone through. *)
Paid(n) == {i \in 1 .. n : results[i]}

PaidTo(a, n) == {i \in Paid(n) : receivers[i].to = a}

(* The results tell exactly what moved, throughout the call: a holder has   *)
(* what it had and every transfer reported as made to it, less what was     *)
(* made from it; so nothing is created or lost.  A caller can answer every  *)
(* receiver from the results alone.                                         *)
ResultsTellWhatMoved ==
    \A a \in Account :
        balance[a] = before[a] + Sum(PaidTo(a, Len(results)))
                       - IF a = Sender THEN Sum(Paid(Len(results))) ELSE 0

(* README: "Individual transfers can fail without affecting the rest of the *)
(* batch".  A transfer goes through exactly if the funds the earlier ones   *)
(* that succeeded left cover it and its receiver has room for it: failures  *)
(* before it, a negative amount among them, make no difference.             *)
FailuresAreIsolated ==
    \A i \in DOMAIN results :
        LET left == before[Sender] - Sum(Paid(i - 1) \ PaidTo(Sender, i - 1))
            held == IF receivers[i].to = Sender
                    THEN left - receivers[i].amount
                    ELSE before[receivers[i].to] + Sum(PaidTo(receivers[i].to, i - 1))
        IN  results[i] <=> /\ receivers[i].amount \in 0 .. left
                           /\ held + receivers[i].amount <= limit[receivers[i].to]

=============================================================================
