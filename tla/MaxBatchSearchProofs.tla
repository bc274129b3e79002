------------------------ MODULE MaxBatchSearchProofs ------------------------
(***************************************************************************)
(* Proofs about MaxBatchSearch, for every range and whatever is measured.  *)
(* The bounds keep what the search has learnt: lo fits, or has not been    *)
(* raised, and the size above hi does not fit, or hi has not been lowered. *)
(***************************************************************************)
EXTENDS MaxBatchSearch, TLAPS

Learnt ==
    /\ lo = 1 \/ ~Exceeds(lo)
    /\ hi = Largest \/ Exceeds(hi + 1)

IInv == TypeOK /\ Learnt

(* The size tried is in the part of the range the search can drop. *)
LEMMA MidBetween == TypeOK /\ lo < hi => Mid \in Sizes /\ lo < Mid /\ Mid <= hi
  BY LargestAssumption DEF TypeOK, Mid, Sizes

LEMMA FitsOrExceeds == \A n : fits_limits(n) <=> ~Exceeds(n)
  BY DEF fits_limits, Exceeds

LEMMA InitIInv == Init => IInv
  BY LargestAssumption DEF Init, IInv, TypeOK, Learnt, Sizes

LEMMA NextIInv == IInv /\ [Next]_vars => IInv'
<1> SUFFICES ASSUME IInv, [Next]_vars PROVE IInv'
  OBVIOUS
<1>t. TypeOK /\ Learnt
  BY DEF IInv
<1>1. CASE Raise
  <2>1. TypeOK'
    BY <1>t, <1>1, MidBetween DEF Raise, TypeOK, Sizes
  <2>2. (lo = 1 \/ ~Exceeds(lo))'
    BY <1>1, FitsOrExceeds DEF Raise, Exceeds
  <2>3. (hi = Largest \/ Exceeds(hi + 1))'
    BY <1>t, <1>1 DEF Raise, Learnt, Exceeds
  <2> QED
    BY <2>1, <2>2, <2>3 DEF IInv, Learnt
<1>2. CASE Lower
  <2>m. Mid \in Nat /\ lo < Mid /\ Mid <= hi /\ hi <= Largest
    BY <1>t, <1>2, MidBetween, LargestAssumption DEF Lower, TypeOK, Sizes
  <2>1. TypeOK'
    BY <1>t, <1>2, <2>m, LargestAssumption DEF Lower, TypeOK, Sizes
  <2>2. (lo = 1 \/ ~Exceeds(lo))'
    BY <1>t, <1>2 DEF Lower, Learnt, Exceeds
  <2>3. hi' + 1 = Mid
    BY <1>2, <2>m DEF Lower
  <2>4. Exceeds(Mid)
    BY <1>2, FitsOrExceeds DEF Lower
  <2>5. Exceeds(hi + 1)'
    BY <1>2, <2>3, <2>4 DEF Lower, Exceeds
  <2> QED
    BY <2>1, <2>2, <2>5 DEF IInv, Learnt
<1>3. CASE UNCHANGED vars
  BY <1>t, <1>3 DEF vars, IInv, TypeOK, Learnt, Exceeds
<1> QED
  BY <1>1, <1>2, <1>3 DEF Next

LEMMA Inductive == Spec => []IInv
  BY InitIInv, NextIInv, PTL DEF Spec

(* The bounds stay in the range and never cross. *)
THEOREM TypeCorrect == Spec => []TypeOK
<1>1. IInv => TypeOK
  BY DEF IInv
<1> QED
  BY <1>1, Inductive, PTL

(* Whatever was measured, the limits begin to bind at the result. *)
THEOREM Boundary == Spec => []ResultIsABoundary
<1>1. IInv => ResultIsABoundary
  BY DEF IInv, Learnt, ResultIsABoundary, Done
<1> QED
  BY <1>1, Inductive, PTL

(* If consumption grows with the batch, no size above the result fits all   *)
(* the limits, and none below it exceeds a limit the search looks at.       *)
THEOREM UpperBound == Spec => []ResultIsAnUpperBound
<1>1. ASSUME IInv PROVE ResultIsAnUpperBound
  <2>1. SUFFICES ASSUME lo = hi, Grows, NEW n \in Sizes
                 PROVE  /\ Fits(n) => n <= lo
                        /\ n \in 2 .. lo => ~Exceeds(n)
    BY <1>1, LargestAssumption DEF ResultIsAnUpperBound, Done, Sizes, IInv, TypeOK
  <2>2. /\ lo \in Sizes
        /\ lo = 1 \/ ~Exceeds(lo)
        /\ lo = Largest \/ Exceeds(lo + 1)
    BY <1>1, <2>1 DEF IInv, TypeOK, Learnt
  <2>3. \A m \in Sizes : \A l \in Sizes : m < l /\ Exceeds(m) => Exceeds(l)
    BY <2>1 DEF Grows, Exceeds
  <2>4. ASSUME n \in 2 .. lo PROVE ~Exceeds(n)
    <3>1. lo # 1 /\ ~Exceeds(lo) /\ (n < lo \/ n = lo)
      BY <2>2, <2>4, LargestAssumption DEF Sizes
    <3> QED
      BY <2>2, <2>3, <3>1
  <2>5. ASSUME ~(n <= lo) PROVE ~Fits(n)
    <3>1. /\ lo + 1 \in Sizes /\ Exceeds(lo + 1)
          /\ lo + 1 < n \/ lo + 1 = n
      BY <2>2, <2>5, LargestAssumption DEF Sizes
    <3>2. Exceeds(n)
      BY <2>3, <3>1
    <3> QED
      BY <3>2 DEF Exceeds, Fits
  <2> QED
    BY <2>4, <2>5
<1> QED
  BY <1>1, Inductive, PTL

=============================================================================
