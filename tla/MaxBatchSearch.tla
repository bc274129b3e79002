--------------------------- MODULE MaxBatchSearch ---------------------------
(***************************************************************************)
(* find_max_batch_size of contracts/batch_transfer/src/test.rs: a binary   *)
(* search for the largest batch whose measured resources fit the limits of *)
(* the network.  What a batch of n transfers consumes is measured in the   *)
(* SDK's test environment (external); the search only learns whether it    *)
(* exceeds a limit.                                                        *)
(***************************************************************************)
EXTENDS Naturals

CONSTANTS Resource,   \* resources of an invocation that have a limit
          Largest     \* the largest batch considered: 199

ASSUME LargestAssumption == Largest \in Nat \ {0}

VARIABLES over,       \* the batch sizes that exceed the limit of a resource
          lo, hi      \* the bounds of the search

vars == <<over, lo, hi>>

Sizes == 1 .. Largest

(* The resources fits_limits compares, of those live_network_limits lists;  *)
(* mem_bytes and the sizes of single entries are not among them.            *)
Checked == {"instructions", "write_entries", "ledger_entries",
            "contract_events_size_bytes", "write_bytes", "disk_read_bytes"}

(* Mutant: one of the comparisons is lost. *)
fits_without_events(n) ==
    \A k \in Resource \intersect (Checked \ {"contract_events_size_bytes"}) :
        n \notin over[k]

fits_limits(n) == \A k \in Resource \intersect Checked : n \notin over[k]

TypeOK ==
    /\ over \in [Resource -> SUBSET Sizes]
    /\ lo \in Sizes
    /\ hi \in Sizes
    /\ lo <= hi

Init ==
    /\ over \in [Resource -> SUBSET Sizes]
    /\ lo = 1
    /\ hi = Largest

-----------------------------------------------------------------------------
(* Mutant: the middle is rounded down. *)
LowerMid == (lo + hi) \div 2

Mid == (lo + hi + 1) \div 2

(* Mutant: the size that fits is stepped over. *)
StepOver ==
    /\ lo < hi
    /\ fits_limits(Mid)
    /\ lo' = Mid + 1
    /\ UNCHANGED <<over, hi>>

(* The two branches of the loop. *)
Raise ==
    /\ lo < hi
    /\ fits_limits(Mid)
    /\ lo' = Mid
    /\ UNCHANGED <<over, hi>>

Lower ==
    /\ lo < hi
    /\ ~fits_limits(Mid)
    /\ hi' = Mid - 1
    /\ UNCHANGED <<over, lo>>

Next == Raise \/ Lower

Spec == Init /\ [][Next]_vars

(* The test runs in one thread, and measuring ends. *)
FairSpec == Spec /\ WF_vars(Next)

-----------------------------------------------------------------------------
Done == lo = hi

(* A batch of n exceeds a limit that is looked at. *)
Exceeds(n) == \E k \in Resource \intersect Checked : n \in over[k]

(* Whatever was measured, the result is a size at which the limits begin to *)
(* bind: it fits, unless it is 1, which is never tried, and the next size   *)
(* does not, unless it is out of range.                                     *)
ResultIsABoundary ==
    Done => /\ lo = 1 \/ ~Exceeds(lo)
            /\ lo = Largest \/ Exceeds(lo + 1)

(* A batch of n fits every limit, the ones never looked at included. *)
Fits(n) == \A k \in Resource : n \notin over[k]

Grows == \A k \in Resource : \A m, n \in Sizes : m < n /\ m \in over[k] => n \in over[k]

(* test.rs prints it as "MAX SAC TRANSFERS PER INVOCATION".  If consumption *)
(* grows with the size of the batch, it is an upper bound: no larger size   *)
(* fits all limits, and no smaller one exceeds a limit that is looked at.   *)
(* That it fits all limits itself is more than the search shows.            *)
ResultIsAnUpperBound ==
    Done /\ Grows => /\ \A n \in Sizes : Fits(n) => n <= lo
                     /\ \A n \in 2 .. lo : ~Exceeds(n)

(* test.rs: "finding exact max N where all resources fit within live        *)
(* limits".  A result that was tried fits.                                  *)
AllResourcesFit == Done /\ Grows /\ lo # 1 => Fits(lo)

(* The search ends. *)
SearchEnds == <>Done

=============================================================================
