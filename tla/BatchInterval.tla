---------------------------- MODULE BatchInterval ----------------------------
(***************************************************************************)
(* The timing of batch_loop in faucet/src/batch.rs: an interval whose      *)
(* missed ticks are delayed, a queue that is drained at every tick, and a  *)
(* batch that holds up the next tick for as long as it takes.              *)
(*                                                                         *)
(* Of the queue and of the batch in flight only the oldest entry counts:   *)
(* it is the one that has waited longest.                                  *)
(***************************************************************************)
EXTENDS Integers

CONSTANTS Period,    \* of the interval
          Tolerance, \* how late a tick may be without counting as missed
          Lag,       \* how late the runtime may notice that a tick is due
          Longest,   \* what the RPC calls of a batch take at most
          MaxTime    \* bound on the clock

ASSUME TimeAssumption ==
    /\ Period \in Nat \ {0}
    /\ Tolerance \in Nat /\ Lag \in Nat /\ Longest \in Nat /\ MaxTime \in Nat

VARIABLES now,
          deadline, \* when the interval's next tick is due
          loop,     \* "tick" or "dispatch"
          drained,  \* when the queue was last drained
          oldest,   \* when the first entry of the queue arrived, or None
          flight    \* the same of the batch in flight

vars == <<now, deadline, loop, drained, oldest, flight>>

None == -1

TypeOK ==
    /\ now \in Nat
    /\ deadline \in Nat
    /\ loop \in {"tick", "dispatch"}
    /\ drained \in Int
    /\ oldest \in Nat \union {None}
    /\ flight \in Nat \union {None}
    /\ loop = "dispatch" <=> flight # None

(* An interval ticks at once for the first time. *)
Init ==
    /\ now = 0
    /\ deadline = 0
    /\ loop = "tick"
    /\ drained = -Period
    /\ oldest = None
    /\ flight = None

-----------------------------------------------------------------------------
(* enqueue pushes to the back. *)
Enqueue ==
    /\ oldest' = IF oldest = None THEN now ELSE oldest
    /\ UNCHANGED <<now, deadline, loop, drained, flight>>

(* Mutant: MissedTickBehavior::Burst, which is the default. *)
BurstTick == deadline + Period

(* When the tick that completes now is followed by the next: a period after *)
(* the time it was due or, if it was missed, a period from now.             *)
NextTick == IF now > deadline + Tolerance THEN now + Period ELSE deadline + Period

(* Mutant: the loop sleeps for a period when a batch is done. *)
SleepAfterBatch ==
    /\ loop = "dispatch"
    /\ loop' = "tick"
    /\ deadline' = now + Period
    /\ flight' = None
    /\ UNCHANGED <<now, drained, oldest>>

(* Mutant: an empty batch is dispatched as well. *)
TickDispatchesAlways ==
    /\ loop = "tick"
    /\ now >= deadline
    /\ deadline' = NextTick
    /\ drained' = now
    /\ flight' = oldest
    /\ oldest' = None
    /\ loop' = "dispatch"
    /\ UNCHANGED now

(* A tick completes and the queue is drained; if it was empty, on to the    *)
(* next tick.                                                               *)
Tick ==
    /\ loop = "tick"
    /\ now >= deadline
    /\ deadline' = NextTick
    /\ drained' = now
    /\ flight' = oldest
    /\ oldest' = None
    /\ loop' = IF oldest = None THEN "tick" ELSE "dispatch"
    /\ UNCHANGED now

(* dispatch_batch returns: everybody in the batch has been answered. *)
Dispatched ==
    /\ loop = "dispatch"
    /\ loop' = "tick"
    /\ flight' = None
    /\ UNCHANGED <<now, deadline, drained, oldest>>

(* Time passes while nothing is due: RPC calls end by their timeouts, and   *)
(* the runtime runs a ready task.                                           *)
Advance ==
    /\ now < MaxTime
    /\ loop = "tick" => now < deadline + Lag
    /\ loop = "dispatch" => now < drained + Longest
    /\ now' = now + 1
    /\ UNCHANGED <<deadline, loop, drained, oldest, flight>>

Next == Enqueue \/ Tick \/ Dispatched \/ Advance

Spec == Init /\ [][Next]_vars

-----------------------------------------------------------------------------
(* What an entry waits in the queue at most: for the next tick, or for the  *)
(* batch ahead of it, whichever takes longer.                               *)
LongestInQueue == IF Longest > Period + Lag THEN Longest ELSE Period + Lag

Waited(arrival) == IF arrival = None THEN 0 ELSE now - arrival

(* However long batches take, a request waits for at most one other batch   *)
(* and for no more than a period besides, and is answered as soon as its    *)
(* own batch is done: delays never add up.                                  *)
WaitIsBounded ==
    /\ Waited(oldest) <= LongestInQueue
    /\ Waited(flight) <= LongestInQueue + Longest

(* Batches that outlast the interval are never followed by a burst of       *)
(* ticks: the queue is not drained twice within a period.                   *)
DrainsAreSpaced ==
    [][Tick => now - drained >= Period - Tolerance]_vars

=============================================================================
