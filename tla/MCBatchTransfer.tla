-------------------------- MODULE MCBatchTransfer --------------------------
(* A small instance of BatchTransfer for TLC. *)
EXTENDS BatchTransfer

CONSTANTS s, a, b

(* AMOUNT is any i128. *)
MCAmounts == {-1, 1, 2}

=============================================================================
