--------------------------- MODULE MCFundedFaucet ---------------------------
(* A small instance of FundedFaucet for TLC. *)
EXTENDS FundedFaucet, TLC

CONSTANTS r1, r2, r3, a, b, f

(* Two addresses, one of them twice. *)
MCQuery ==
    LET Plain(text) == [given |-> TRUE, text |-> text, padded |-> FALSE]
    IN  r1 :> Plain(a) @@ r2 :> Plain(a) @@ r3 :> Plain(b)

(* Requests with the same parameter are interchangeable. *)
RequestSymmetry == Permutations({r1, r2})

=============================================================================
