---------------------------- MODULE TokenProofs ----------------------------
(***************************************************************************)
(* What the loop of the batch_transfer contract makes of the balances of a *)
(* token, turn by turn, for every set of holders and every batch.          *)
(*                                                                         *)
(* The loop is a recursive function.  That it exists, and what holds after *)
(* each of its turns, is shown by induction: a set of naturals that has no *)
(* smallest element is empty, because strict inclusion among finite sets   *)
(* is well founded.                                                        *)
(***************************************************************************)
EXTENDS Token, FiniteSetTheorems, WellFoundedInduction, TLAPS

-----------------------------------------------------------------------------
(* Induction over the naturals: if some k were missing from T, the smallest *)
(* of the intervals 0 .. k for such k would have a smaller one.             *)
LEMMA NatSetInduction ==
    ASSUME NEW T, 0 \in T, \A n \in Nat : n \in T => n + 1 \in T
    PROVE  Nat \subseteq T
<1> SUFFICES ASSUME ~ (Nat \subseteq T) PROVE FALSE
  OBVIOUS
<1> DEFINE Missing == {0 .. k : k \in Nat \ T}
           Smaller == StrictSubsetOrdering(Nat)
           Finite  == FiniteSubsetsOf(Nat)
<1>1. Missing \subseteq Finite /\ Missing # {}
  <2>1. \A k \in Nat : IsFiniteSet(0 .. k) /\ 0 .. k \in SUBSET Nat
    BY FS_Interval
  <2>2. Missing \subseteq Finite
    BY <2>1 DEF FiniteSubsetsOf
  <2> QED
    BY <2>2
<1>2. IsWellFoundedOn(Smaller, Finite)
  BY FS_StrictSubsetOrderingWellFounded
<1> HIDE DEF Finite
<1>3. PICK X \in Missing : \A Y \in Missing : ~ (<<Y, X>> \in Smaller)
  <2> HIDE DEF Missing, Smaller
  <2> QED
    BY <1>1, <1>2, WFMin
<1>4. PICK m \in Nat \ T : X = 0 .. m
  OBVIOUS
<1>5. m - 1 \in Nat \ T
  BY <1>4
<1>6. 0 .. m - 1 \in Missing
  BY <1>5
<1>7. <<0 .. m - 1, 0 .. m>> \in Smaller
  <2>1. m \in 0 .. m /\ m \notin 0 .. m - 1 /\ 0 .. m - 1 \subseteq 0 .. m
    BY <1>4
  <2> QED
    BY <2>1, <1>4, <1>5 DEF StrictSubsetOrdering
<1> QED
  BY <1>3, <1>4, <1>6, <1>7

LEMMA IntervalInduction ==
    ASSUME NEW N \in Nat, NEW T, 0 \in T, \A n \in 0 .. N - 1 : n \in T => n + 1 \in T
    PROVE  0 .. N \subseteq T
<1> DEFINE Upto == {n \in Nat : n <= N => n \in T}
<1>1. 0 \in Upto
  OBVIOUS
<1>2. \A n \in Nat : n \in Upto => n + 1 \in Upto
  OBVIOUS
<1>3. Nat \subseteq Upto
  <2> HIDE DEF Upto
  <2> QED
    BY <1>1, <1>2, NatSetInduction
<1> QED
  BY <1>3

-----------------------------------------------------------------------------
(* The loop before its first turn. *)
Start(balance) == [balance |-> balance, results |-> << >>]

(* f tells what the first N turns of the loop come to. *)
IsRun(f, balance, limit, sender, receivers, N) ==
    f = [n \in 0 .. N |->
           IF n = 0 THEN Start(balance)
                    ELSE AfterTurn(f[n - 1], limit, sender, receivers[n])]

LEMMA RunStarts ==
    ASSUME NEW balance, NEW limit, NEW sender, NEW receivers, NEW N \in Nat, NEW f,
           IsRun(f, balance, limit, sender, receivers, N)
    PROVE  f[0] = Start(balance)
BY DEF IsRun

LEMMA RunTurns ==
    ASSUME NEW balance, NEW limit, NEW sender, NEW receivers, NEW N \in Nat, NEW f,
           IsRun(f, balance, limit, sender, receivers, N), NEW n \in 0 .. N - 1
    PROVE  f[n + 1] = AfterTurn(f[n], limit, sender, receivers[n + 1])
<1>1. \A k \in 0 .. N :
        f[k] = IF k = 0 THEN Start(balance)
                        ELSE AfterTurn(f[k - 1], limit, sender, receivers[k])
  BY Zenon DEF IsRun
<1>2. n + 1 \in 0 .. N /\ n + 1 # 0 /\ n + 1 - 1 = n
  OBVIOUS
<1> QED
  BY <1>1, <1>2

(* The loop can always take its turns. *)
LEMMA RunExists ==
    ASSUME NEW balance, NEW limit, NEW sender, NEW receivers, NEW N \in Nat
    PROVE  \E f : IsRun(f, balance, limit, sender, receivers, N)
<1> DEFINE T == {n \in Nat : \E f : IsRun(f, balance, limit, sender, receivers, n)}
<1>1. 0 \in T
  <2> DEFINE f == [n \in 0 .. 0 |-> Start(balance)]
  <2>1. f = [n \in 0 .. 0 |-> IF n = 0 THEN Start(balance)
                               ELSE AfterTurn(f[n - 1], limit, sender, receivers[n])]
    OBVIOUS
  <2> HIDE DEF f
  <2> QED
    BY <2>1 DEF IsRun
<1>2. ASSUME NEW n \in Nat, n \in T PROVE n + 1 \in T
  <2>1. PICK f : IsRun(f, balance, limit, sender, receivers, n)
    BY <1>2
  <2> DEFINE g == [k \in 0 .. n + 1 |->
                     IF k <= n THEN f[k]
                               ELSE AfterTurn(f[n], limit, sender, receivers[n + 1])]
  <2>2. ASSUME NEW k \in 0 .. n + 1
        PROVE  g[k] = IF k = 0 THEN Start(balance)
                               ELSE AfterTurn(g[k - 1], limit, sender, receivers[k])
    <3>1. \A j \in 0 .. n :
            f[j] = IF j = 0 THEN Start(balance)
                            ELSE AfterTurn(f[j - 1], limit, sender, receivers[j])
      BY <2>1, Zenon DEF IsRun
    <3>2. CASE k <= n
      BY <3>1, <3>2
    <3>3. CASE k = n + 1
      BY <3>3
    <3> QED
      BY <3>2, <3>3
  <2>3. g = [k \in 0 .. n + 1 |-> g[k]]
    OBVIOUS
  <2> HIDE DEF g
  <2>4. g = [k \in 0 .. n + 1 |->
               IF k = 0 THEN Start(balance)
                        ELSE AfterTurn(g[k - 1], limit, sender, receivers[k])]
    BY <2>2, <2>3
  <2> QED
    BY <2>4 DEF IsRun
<1> HIDE DEF T
<1>3. Nat \subseteq T
  BY <1>1, <1>2, NatSetInduction
<1> QED
  BY <1>3 DEF T

(* The call comes to what its last turn comes to. *)
LEMMA CallRuns ==
    ASSUME NEW balance, NEW limit, NEW sender, NEW receivers, Len(receivers) \in Nat
    PROVE  \E f : /\ IsRun(f, balance, limit, sender, receivers, Len(receivers))
                  /\ batch_transfer(balance, limit, sender, receivers) = f[Len(receivers)]
<1> DEFINE f == CHOOSE g : IsRun(g, balance, limit, sender, receivers, Len(receivers))
<1>1. IsRun(f, balance, limit, sender, receivers, Len(receivers))
  BY RunExists
<1>2. batch_transfer(balance, limit, sender, receivers) = f[Len(receivers)]
  BY DEF batch_transfer, IsRun, Start
<1> HIDE DEF f
<1> QED
  BY <1>1, <1>2

-----------------------------------------------------------------------------
(* What a set of holders may hold, and be paid. *)
Holdings(H) == [H -> Nat]

Payment(H) == [to : H, amount : Int]

(* A transfer that goes through leaves nobody with less than nothing. *)
LEMMA TransferIsTyped ==
    ASSUME NEW H, NEW balance \in Holdings(H), NEW limit \in Holdings(H),
           NEW from \in H, NEW to \in H, NEW amount \in Int,
           CanTransfer(balance, limit, from, to, amount)
    PROVE  Transferred(balance, from, to, amount) \in Holdings(H)
<1>1. balance[from] - amount \in Nat /\ amount \in Nat
  BY DEF CanTransfer, Holdings
<1>2. Spent(balance, from, amount) \in Holdings(H)
  BY <1>1 DEF Spent, Holdings
<1> QED
  BY <1>1, <1>2 DEF Transferred, Holdings

(* Appending a result leaves the earlier ones alone. *)
LEMMA Appended ==
    ASSUME NEW S, NEW s \in Seq(S), NEW e \in S
    PROVE  /\ Append(s, e) \in Seq(S)
           /\ Len(Append(s, e)) = Len(s) + 1
           /\ \A i \in 1 .. Len(s) : Append(s, e)[i] = s[i]
           /\ Append(s, e)[Len(s) + 1] = e
OBVIOUS

(* A turn keeps the earlier results and adds what the token makes of its    *)
(* transfer.                                                                *)
AddsResult(after, so_far, limit, sender, receiver) ==
    /\ after.results \in Seq(BOOLEAN)
    /\ Len(after.results) = Len(so_far.results) + 1
    /\ \A i \in 1 .. Len(so_far.results) : after.results[i] = so_far.results[i]
    /\ after.results[Len(so_far.results) + 1] =
          CanTransfer(so_far.balance, limit, sender, receiver.to, receiver.amount)

LEMMA TurnIsTyped ==
    ASSUME NEW H, NEW limit \in Holdings(H), NEW sender \in H,
           NEW receiver \in Payment(H),
           NEW so_far, so_far.balance \in Holdings(H), so_far.results \in Seq(BOOLEAN),
           NEW after, after = AfterTurn(so_far, limit, sender, receiver)
    PROVE  /\ after.balance \in Holdings(H)
           /\ AddsResult(after, so_far, limit, sender, receiver)
<1> DEFINE to     == receiver.to
           amount == receiver.amount
           bal    == so_far.balance
           is_ok  == CanTransfer(bal, limit, sender, to, amount)
           res    == so_far.results
<1>1. to \in H /\ amount \in Int
  BY DEF Payment
<1>2. is_ok \in BOOLEAN
  BY DEF CanTransfer
<1>3. after.balance = IF is_ok THEN Transferred(bal, sender, to, amount) ELSE bal
  BY DEF AfterTurn
<1>4. after.results = Append(res, is_ok)
  BY DEF AfterTurn
<1>5. after.balance \in Holdings(H)
  <2> HIDE DEF to, amount, bal
  <2>1. bal \in Holdings(H)
    BY DEF bal
  <2>2. CASE is_ok
    <3>1. Transferred(bal, sender, to, amount) \in Holdings(H)
      BY <1>1, <2>1, <2>2, TransferIsTyped
    <3> QED
      BY <1>3, <2>2, <3>1
  <2>3. CASE ~is_ok
    BY <1>3, <2>1, <2>3
  <2> QED
    BY <2>2, <2>3
<1>6. res \in Seq(BOOLEAN)
  OBVIOUS
<1> HIDE DEF is_ok, res
<1>7. /\ Append(res, is_ok) \in Seq(BOOLEAN)
      /\ Len(Append(res, is_ok)) = Len(res) + 1
      /\ \A i \in 1 .. Len(res) : Append(res, is_ok)[i] = res[i]
      /\ Append(res, is_ok)[Len(res) + 1] = is_ok
  BY <1>2, <1>6, Appended, Zenon
<1> QED
  BY <1>4, <1>5, <1>7, Zenon DEF AddsResult, res, is_ok

(* After n turns there are n results, each of them what the token makes of  *)
(* the transfer at its turn.                                                *)
LEMMA RunIsTyped ==
    ASSUME NEW H, NEW balance \in Holdings(H), NEW limit \in Holdings(H),
           NEW sender \in H, NEW receivers \in Seq(Payment(H)),
           NEW f, IsRun(f, balance, limit, sender, receivers, Len(receivers))
    PROVE  \A n \in 0 .. Len(receivers) :
             /\ f[n].balance \in Holdings(H)
             /\ f[n].results \in Seq(BOOLEAN)
             /\ Len(f[n].results) = n
             /\ \A i \in 1 .. n :
                  f[n].results[i] = CanTransfer(f[i - 1].balance, limit, sender,
                                               receivers[i].to, receivers[i].amount)
<1> DEFINE Typed(n) ==
             /\ f[n].balance \in Holdings(H)
             /\ f[n].results \in Seq(BOOLEAN)
             /\ Len(f[n].results) = n
           Made(i) == CanTransfer(f[i - 1].balance, limit, sender,
                                  receivers[i].to, receivers[i].amount)
           Told(n) == \A i \in 1 .. n : f[n].results[i] = Made(i)
           T == {n \in Nat : Typed(n) /\ Told(n)}
<1>1. Len(receivers) \in Nat
  OBVIOUS
<1>2. f[0] = Start(balance)
  BY <1>1, RunStarts
<1>3. 0 \in T
  <2>1. f[0].balance = balance /\ f[0].results = << >>
    BY <1>2 DEF Start
  <2>2. Typed(0)
    BY <2>1
  <2>3. Told(0)
    OBVIOUS
  <2> HIDE DEF Typed, Told
  <2> QED
    BY <2>2, <2>3
<1>4. ASSUME NEW n \in 0 .. Len(receivers) - 1, n \in T PROVE n + 1 \in T
  <2>1. /\ n \in Nat /\ n + 1 \in Nat /\ n + 1 \in 1 .. Len(receivers)
        /\ n + 1 - 1 = n /\ \A i \in 1 .. n + 1 : i \in 1 .. n \/ i = n + 1
    BY <1>1
  <2>2. receivers[n + 1] \in Payment(H)
    BY <2>1
  <2>3. Typed(n) /\ Told(n)
    BY <1>4
  <2>4. f[n + 1] = AfterTurn(f[n], limit, sender, receivers[n + 1])
    BY <1>1, RunTurns
  <2>5. /\ Typed(n + 1)
        /\ \A i \in 1 .. n : f[n + 1].results[i] = f[n].results[i]
        /\ f[n + 1].results[n + 1] = Made(n + 1)
    <3>1. f[n].balance \in Holdings(H) /\ f[n].results \in Seq(BOOLEAN)
      BY <2>3, Zenon
    <3>2. /\ f[n + 1].balance \in Holdings(H)
          /\ AddsResult(f[n + 1], f[n], limit, sender, receivers[n + 1])
      BY <2>2, <2>4, <3>1, TurnIsTyped
    <3>3. Len(f[n].results) = n
      BY <2>3, Zenon
    <3>4. Typed(n + 1)
      BY <3>2, <3>3, Zenon DEF AddsResult
    <3>5. \A i \in 1 .. n : f[n + 1].results[i] = f[n].results[i]
      BY <3>2, <3>3 DEF AddsResult
    <3>6. f[n + 1].results[n + 1] = Made(n + 1)
      <4>1. f[n + 1].results[Len(f[n].results) + 1] =
              CanTransfer(f[n].balance, limit, sender,
                          receivers[n + 1].to, receivers[n + 1].amount)
        BY <3>2, Zenon DEF AddsResult
      <4>2. f[n + 1 - 1].balance = f[n].balance
        BY <2>1
      <4>3. f[n + 1].results[n + 1] = f[n + 1].results[Len(f[n].results) + 1]
        BY <3>3
      <4> QED
        BY <4>1, <4>2, <4>3
    <3> HIDE DEF Typed, Made
    <3> QED
      BY <3>4, <3>5, <3>6, Zenon
  <2> HIDE DEF Typed, Made
  <2>6. Told(n + 1)
    BY <2>1, <2>3, <2>5, Zenon
  <2> QED
    BY <2>1, <2>5, <2>6, Zenon
<1>5. 0 .. Len(receivers) \subseteq T
  <2> HIDE DEF T
  <2> QED
    BY <1>1, <1>3, <1>4, IntervalInduction
<1> QED
  BY <1>5

=============================================================================
