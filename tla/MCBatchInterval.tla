-------------------------- MODULE MCBatchInterval --------------------------
(* Small instances of BatchInterval for TLC. *)
EXTENDS BatchInterval

=============================================================================
