-------------------------- MODULE MCMaxBatchSearch --------------------------
(* A small instance of MaxBatchSearch for TLC. *)
EXTENDS MaxBatchSearch

(* Two limits the search looks at and one it does not. *)
MCResource == {"instructions", "contract_events_size_bytes", "mem_bytes"}

=============================================================================
