------------------------------ MODULE MCFaucet ------------------------------
(* Small instances of Faucet for TLC. *)
EXTENDS Faucet, TLC

CONSTANTS r1, r2, r3, r4, a, b, x

Plain(text)  == [given |-> TRUE, text |-> text, padded |-> FALSE]
Padded(text) == [given |-> TRUE, text |-> text, padded |-> TRUE]
Missing      == [given |-> FALSE, text |-> x, padded |-> FALSE]

(* One address asked for three times: a client that retries. *)
MCRetries == r1 :> Plain(a) @@ r2 :> Padded(a) @@ r3 :> Plain(a)

(* Two addresses, one of them twice: the queue fills up. *)
MCMixed == r1 :> Plain(a) @@ r2 :> Plain(a) @@ r3 :> Padded(b)

(* One address twice, a malformed one, and a request without the parameter. *)
MCMalformed == r1 :> Plain(a) @@ r2 :> Padded(a) @@ r3 :> Plain(x) @@ r4 :> Missing

(* Requests with the same parameter are interchangeable. *)
RetrySymmetry == Permutations({r1, r3})
MixedSymmetry == Permutations({r1, r2})

=============================================================================
