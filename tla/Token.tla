------------------------------- MODULE Token -------------------------------
(***************************************************************************)
(* A token (external: a Stellar asset contract, modelled from how          *)
(* contracts/batch_transfer uses it) and what a whole call of the          *)
(* batch_transfer contract makes of its balances.                          *)
(***************************************************************************)
EXTENDS Integers, Sequences

Spent(balance, from, amount) == [balance EXCEPT ![from] = @ - amount]

(* Spending and receiving are one operation, which fails as a whole. *)
CanTransfer(balance, limit, from, to, amount) ==
    /\ amount >= 0
    /\ balance[from] >= amount
    /\ Spent(balance, from, amount)[to] + amount <= limit[to]

Transferred(balance, from, to, amount) ==
    [Spent(balance, from, amount) EXCEPT ![to] = @ + amount]

(* A turn of the contract's loop: a failure is recorded and moves nothing. *)
AfterTurn(so_far, limit, sender, receiver) ==
    LET is_ok == CanTransfer(so_far.balance, limit, sender, receiver.to, receiver.amount)
    IN  [balance |-> IF is_ok
                     THEN Transferred(so_far.balance, sender, receiver.to, receiver.amount)
                     ELSE so_far.balance,
         results |-> Append(so_far.results, is_ok)]

(* The contract's loop over receivers, from its first turn to its last. *)
batch_transfer(balance, limit, sender, receivers) ==
    LET after[n \in 0 .. Len(receivers)] ==
          IF n = 0 THEN [balance |-> balance, results |-> << >>]
                   ELSE AfterTurn(after[n - 1], limit, sender, receivers[n])
    IN  after[Len(receivers)]

=============================================================================
