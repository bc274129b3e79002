---------------------------- MODULE MCTxAssembly ----------------------------
(* Small instances of TxAssembly for TLC: a u32 has ten bits. *)
EXTENDS TxAssembly

CONSTANTS c1, instructions, write_bytes, auth1

(* Figures around the divisor and the top of the range. *)
MCFigures == {0, 6, 7, 100, 895, 896, 1023}

(* 808 is the largest fee that fits with its buffer and the base fee; 809,  *)
(* 1704 and 8191 are cut to 0, to the largest u32 and to 99.                *)
MCFees == {0, 7, 808, 809, 1704, 8191}

MCDrifts == {0, 1, 14, 15, 127, 128}

=============================================================================
