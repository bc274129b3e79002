------------------------- MODULE BatchIntervalProofs -------------------------
(***************************************************************************)
(* Proofs about BatchInterval, for every period, tolerance, lag and        *)
(* duration of a batch.                                                    *)
(*                                                                         *)
(* What is known about the wait of an entry comes from the last drain:     *)
(* whatever is queued arrived since, so Timing bounds the time since the   *)
(* drain from above, by the next tick or by the batch, and keeps the       *)
(* deadline within a tolerance of a period after it.                       *)
(***************************************************************************)
EXTENDS BatchInterval, TLAPS

(* The next tick is due about a period after the last drain, and not much   *)
(* later than that, or than a batch takes, it has happened.                 *)
Timing ==
    /\ drained <= now
    /\ deadline <= drained + Period
    /\ deadline >= drained + Period - Tolerance
    /\ now - drained <= LongestInQueue
    /\ loop = "dispatch" => now - drained <= Longest

(* Entries of the queue arrived since the last drain, and those in flight   *)
(* had waited no longer than an entry can when they were drained.           *)
Arrivals ==
    /\ oldest # None => drained <= oldest
    /\ flight # None => drained - flight <= LongestInQueue

IInv == TypeOK /\ Timing /\ Arrivals

LEMMA InitIInv == Init => IInv
  BY TimeAssumption DEF Init, IInv, TypeOK, Timing, Arrivals, LongestInQueue, None

LEMMA NextIInv == IInv /\ [Next]_vars => IInv'
<1> SUFFICES ASSUME IInv, [Next]_vars PROVE IInv'
  OBVIOUS
<1> USE TimeAssumption DEF IInv, TypeOK, Timing, Arrivals, LongestInQueue, None
<1>1. CASE Enqueue
  BY <1>1 DEF Enqueue
<1>2. CASE Tick
  BY <1>2 DEF Tick, NextTick
<1>3. CASE Dispatched
  BY <1>3 DEF Dispatched
<1>4. CASE Advance
  BY <1>4 DEF Advance
<1>5. CASE UNCHANGED vars
  BY <1>5 DEF vars
<1> QED
  BY <1>1, <1>2, <1>3, <1>4, <1>5 DEF Next

LEMMA Inductive == Spec => []IInv
  BY InitIInv, NextIInv, PTL DEF Spec

(* The clock, the deadline and the arrivals have their types, and a batch   *)
(* is being dispatched exactly while it has entries.                        *)
THEOREM TypeCorrect == Spec => []TypeOK
<1>1. IInv => TypeOK
  BY DEF IInv
<1> QED
  BY <1>1, Inductive, PTL

(* A request waits for at most one other batch and a period, and then for   *)
(* its own batch.                                                           *)
THEOREM BoundedWait == Spec => []WaitIsBounded
<1>1. IInv => WaitIsBounded
  BY TimeAssumption
  DEF IInv, TypeOK, Timing, Arrivals, WaitIsBounded, Waited, LongestInQueue, None
<1> QED
  BY <1>1, Inductive, PTL

(* The queue is not drained twice within a period, however late a tick is.  *)
THEOREM SpacedDrains == Spec => DrainsAreSpaced
<1>1. IInv /\ [Next]_vars => [Tick => now - drained >= Period - Tolerance]_vars
  BY TimeAssumption DEF IInv, TypeOK, Timing, Tick
<1> QED
  BY <1>1, Inductive, PTL DEF Spec, DrainsAreSpaced

=============================================================================
