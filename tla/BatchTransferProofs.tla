------------------------ MODULE BatchTransferProofs ------------------------
(***************************************************************************)
(* The results of a batch_transfer call tell what moved, failures are      *)
(* isolated and the call is one step of the token, proved for every set of *)
(* holders, every amount, and batches of every length.                     *)
(***************************************************************************)
EXTENDS BatchTransfer, TokenProofs

-----------------------------------------------------------------------------
(* The inductive invariant. *)

(* Before the call, and once it trapped, nothing has moved; when it returns *)
(* every receiver had its turn.                                             *)
StageInv ==
    /\ stage \in {"idle", "trapped"} => results = << >> /\ balance = before
    /\ stage = "returned" => Len(results) = Len(receivers)

(* After n turns of the loop, f has these balances and results. *)
Reaches(f, n, bal, res) == f[n] = [balance |-> bal, results |-> res]

(* The call is where the loop of Token is after as many turns. *)
RunInv ==
    \A f : IsRun(f, before, limit, Sender, receivers, Len(receivers))
             => Reaches(f, Len(results), balance, results)

IndInv == TypeOK /\ StageInv /\ RunInv

-----------------------------------------------------------------------------
(* Type correctness. *)

LEMMA HoldersAreTyped ==
    ASSUME TypeOK
    PROVE  /\ balance \in Holdings(Account) /\ limit \in Holdings(Account)
           /\ receivers \in Seq(Payment(Account))
           /\ Receiver \subseteq Payment(Account)
<1>1. Receiver \subseteq Payment(Account)
  BY AmountAssumption DEF Receiver, Payment
<1>2. receivers \in Seq(Payment(Account))
  BY <1>1 DEF TypeOK
<1> QED
  BY <1>1, <1>2, AmountAssumption DEF TypeOK, Holdings

(* The turn that is next is for a receiver of the batch. *)
LEMMA TurnOfBatch ==
    ASSUME TypeOK, Len(results) < Len(receivers)
    PROVE  /\ Len(results) + 1 \in 1 .. Len(receivers)
           /\ Turn \in Receiver /\ Turn.to \in Account
           /\ Turn.amount \in Int
           /\ Succeeds \in BOOLEAN
<1>1. Len(results) + 1 \in 1 .. Len(receivers)
  BY DEF TypeOK
<1>2. Turn \in Receiver
  BY <1>1 DEF TypeOK, Turn
<1>3. Succeeds \in BOOLEAN
  BY DEF Succeeds, CanTransfer
<1> QED
  BY <1>1, <1>2, <1>3, AmountAssumption DEF Receiver

LEMMA TypeInit == Init => TypeOK /\ StageInv
BY DEF Init, TypeOK, StageInv

LEMMA TypeStep == TypeOK /\ StageInv /\ [Next]_vars => TypeOK' /\ StageInv'
<1> SUFFICES ASSUME TypeOK, StageInv, [Next]_vars PROVE TypeOK' /\ StageInv'
  OBVIOUS
<1>1. CASE Call
  <2>1. receivers' \in Seq(Receiver) /\ Len(receivers') \in Nat
    <3>1. PICK n \in 0 .. MaxReceivers : receivers' \in [1 .. n -> Receiver]
      BY <1>1 DEF Call
    <3> QED
      BY <3>1
  <2>2. results = << >>
    BY <1>1 DEF Call, StageInv
  <2> QED
    BY <1>1, <2>1, <2>2 DEF Call, TypeOK, StageInv
<1>2. CASE TryTransfer
  <2>1. /\ Len(results) < Len(receivers)
        /\ results' = Append(results, Succeeds)
        /\ UNCHANGED <<limit, stage, receivers, before>>
    BY <1>2 DEF TryTransfer, TurnWith
  <2>2. Succeeds \in BOOLEAN
    BY <2>1, TurnOfBatch
  <2>3. /\ results' \in Seq(BOOLEAN)
        /\ Len(results') = Len(results) + 1
    BY <2>1, <2>2, Appended DEF TypeOK
  <2>4. balance' \in Holdings(Account)
    <3>1. CASE Succeeds
      <4>1. Transferred(balance, Sender, Turn.to, Turn.amount) \in Holdings(Account)
        BY <2>1, <3>1, HoldersAreTyped, TurnOfBatch, SenderAssumption, TransferIsTyped
           DEF Succeeds
      <4> QED
        BY <1>2, <3>1, <4>1 DEF TryTransfer, TurnWith
    <3>2. CASE ~Succeeds
      BY <1>2, <3>2, HoldersAreTyped DEF TryTransfer, TurnWith
    <3> QED
      BY <3>1, <3>2
  <2> QED
    BY <1>2, <2>1, <2>3, <2>4 DEF TypeOK, StageInv, Holdings, TryTransfer, TurnWith
<1>3. CASE Return
  BY <1>3 DEF Return, TypeOK, StageInv
<1>4. CASE OutOfResources
  BY <1>4 DEF OutOfResources, TypeOK, StageInv
<1>5. CASE UNCHANGED vars
  BY <1>5 DEF vars, TypeOK, StageInv
<1> QED
  BY <1>1, <1>2, <1>3, <1>4, <1>5 DEF Next

-----------------------------------------------------------------------------
(* The call is one step of the token. *)

LEMMA BeforeFirstTurn ==
    ASSUME NEW bal, NEW lim, NEW rec, Len(rec) \in Nat, NEW f,
           IsRun(f, bal, lim, Sender, rec, Len(rec))
    PROVE  Reaches(f, 0, bal, << >>)
<1>1. f[0] = Start(bal)
  BY RunStarts
<1> QED
  BY <1>1 DEF Start, Reaches

(* A turn of the call is a turn of the loop. *)
LEMMA TurnIsATurn ==
    ASSUME TypeOK, TryTransfer, NEW f,
           IsRun(f, before, limit, Sender, receivers, Len(receivers)),
           Reaches(f, Len(results), balance, results)
    PROVE  Reaches(f, Len(results'), balance', results')
<1> DEFINE n      == Len(results)
           so_far == f[n]
<1>1. /\ n < Len(receivers)
      /\ results' = Append(results, Succeeds)
      /\ balance' = IF Succeeds THEN Transferred(balance, Sender, Turn.to, Turn.amount)
                                ELSE balance
  BY DEF TryTransfer, TurnWith
<1>2. n \in 0 .. Len(receivers) - 1 /\ Len(receivers) \in Nat
  BY <1>1 DEF TypeOK
<1>3. f[n + 1] = AfterTurn(so_far, limit, Sender, Turn)
  BY <1>2, RunTurns DEF Turn
<1>4. so_far.balance = balance /\ so_far.results = results
  BY DEF Reaches
<1>5. AfterTurn(so_far, limit, Sender, Turn) = [balance |-> balance', results |-> results']
  <2> HIDE DEF so_far
  <2>1. CanTransfer(so_far.balance, limit, Sender, Turn.to, Turn.amount) = Succeeds
    BY <1>4 DEF Succeeds
  <2>2. AfterTurn(so_far, limit, Sender, Turn) =
          [balance |-> IF Succeeds
                       THEN Transferred(balance, Sender, Turn.to, Turn.amount)
                       ELSE balance,
           results |-> Append(results, Succeeds)]
    BY <1>4, <2>1, Zenon DEF AfterTurn
  <2> QED
    BY <1>1, <2>2, Zenon
<1>6. Len(results') = n + 1
  BY <1>1, TurnOfBatch, Appended DEF TypeOK
<1> HIDE DEF n, so_far
<1> QED
  BY <1>3, <1>5, <1>6, Zenon DEF Reaches

LEMMA RunInit == Init => RunInv
BY BeforeFirstTurn DEF Init, RunInv

LEMMA RunStep ==
    ASSUME TypeOK, StageInv, RunInv, [Next]_vars, TypeOK'
    PROVE  RunInv'
<1> SUFFICES ASSUME NEW f,
                    IsRun(f, before', limit', Sender, receivers', Len(receivers'))
             PROVE  Reaches(f, Len(results'), balance', results')
  BY DEF RunInv
<1>1. Len(receivers') \in Nat
  BY DEF TypeOK
<1>2. Reaches(f, 0, before', << >>)
  BY <1>1, BeforeFirstTurn
<1>3. CASE Call
  BY <1>2, <1>3 DEF Call, StageInv
<1>4. CASE TryTransfer
  <2>1. IsRun(f, before, limit, Sender, receivers, Len(receivers))
    BY <1>4 DEF TryTransfer, TurnWith
  <2>2. Reaches(f, Len(results), balance, results)
    BY <2>1 DEF RunInv
  <2> QED
    BY <1>4, <2>1, <2>2, TurnIsATurn
<1>5. CASE Return
  BY <1>5 DEF Return, RunInv
<1>6. CASE OutOfResources
  BY <1>2, <1>6 DEF OutOfResources
<1>7. CASE UNCHANGED vars
  BY <1>7 DEF vars, RunInv
<1> QED
  BY <1>3, <1>4, <1>5, <1>6, <1>7 DEF Next

LEMMA Invariance == Spec => []IndInv
<1>1. Init => IndInv
  BY TypeInit, RunInit DEF IndInv
<1>2. IndInv /\ [Next]_vars => IndInv'
  BY TypeStep, RunStep DEF IndInv
<1> QED
  BY <1>1, <1>2, PTL DEF Spec

(* No balance ever drops below zero, and there are never more results than  *)
(* receivers.                                                               *)
THEOREM TypeCorrect == Spec => []TypeOK
<1>1. IndInv => TypeOK
  BY DEF IndInv
<1> QED
  BY <1>1, Invariance, PTL

(* The two ways of writing the contract's loop agree: the turns taken here  *)
(* come to what the function batch_transfer of Token gives at once, which   *)
(* is how FundedFaucet lets a ledger take a call.                           *)
TurnsMakeACall ==
    stage = "returned" =>
        batch_transfer(before, limit, Sender, receivers)
            = [balance |-> balance, results |-> results]

LEMMA CallIsOneStep == Spec => []TurnsMakeACall
<1>1. ASSUME IndInv, stage = "returned"
      PROVE  batch_transfer(before, limit, Sender, receivers)
               = [balance |-> balance, results |-> results]
  <2>1. Len(receivers) \in Nat /\ Len(results) = Len(receivers)
    BY <1>1 DEF IndInv, TypeOK, StageInv
  <2>2. PICK f : /\ IsRun(f, before, limit, Sender, receivers, Len(receivers))
                 /\ batch_transfer(before, limit, Sender, receivers) = f[Len(receivers)]
    BY <2>1, CallRuns
  <2> QED
    BY <1>1, <2>1, <2>2, Zenon DEF IndInv, RunInv, Reaches
<1>2. IndInv => TurnsMakeACall
  BY <1>1 DEF TurnsMakeACall
<1> QED
  BY <1>2, Invariance, PTL

-----------------------------------------------------------------------------
(* Sums over sets of receivers.  Sum folds over a set by choosing its       *)
(* elements one by one: what it comes to does not depend on the choice.     *)

LEMMA SubsetInduction ==
    ASSUME NEW S, IsFiniteSet(S), NEW T,
           \A s \in SUBSET S : (\A u \in SUBSET s : u # s => u \in T) => s \in T
    PROVE  SUBSET S \subseteq T
<1> SUFFICES ASSUME ~ (SUBSET S \subseteq T) PROVE FALSE
  OBVIOUS
<1> DEFINE Missing == (SUBSET S) \ T
           Smaller == StrictSubsetOrdering(S)
           Finite  == FiniteSubsetsOf(S)
<1>1. Missing \subseteq Finite /\ Missing # {}
  BY FS_Subset DEF FiniteSubsetsOf
<1>2. IsWellFoundedOn(Smaller, Finite)
  BY FS_StrictSubsetOrderingWellFounded
<1>3. PICK s \in Missing : \A u \in Missing : ~ (<<u, s>> \in Smaller)
  <2> HIDE DEF Missing, Smaller, Finite
  <2> QED
    BY <1>1, <1>2, WFMin
<1>4. ASSUME NEW u \in SUBSET s, u # s PROVE u \in T
  BY <1>3, <1>4 DEF StrictSubsetOrdering
<1>5. s \in SUBSET S /\ s \notin T
  OBVIOUS
<1>6. \A u \in SUBSET s : u # s => u \in T
  BY <1>4
<1> QED
  BY <1>5, <1>6, Zenon

First(s) == CHOOSE i \in s : TRUE

LEMMA FirstIsMember == ASSUME NEW s, s # {} PROVE First(s) \in s
BY DEF First

(* g sums up the amounts of every subset of S. *)
Sums(g, rec, S) ==
    g = [s \in SUBSET S |->
           IF s = {} THEN 0 ELSE rec[First(s)].amount + g[s \ {First(s)}]]

Total(rec, S) == (CHOOSE g : Sums(g, rec, S))[S]

LEMMA SumIsTotal == ASSUME NEW S PROVE Sum(S) = Total(receivers, S)
BY DEF Sum, MapThenSumSet, MapThenFoldSet, Sums, Total, First

LEMMA SumsOf ==
    ASSUME NEW g, NEW rec, NEW S, Sums(g, rec, S), NEW s \in SUBSET S
    PROVE  g[s] = IF s = {} THEN 0 ELSE rec[First(s)].amount + g[s \ {First(s)}]
BY Zenon DEF Sums

(* Two such functions agree wherever both are defined. *)
LEMMA SumsAgree ==
    ASSUME NEW rec, NEW S, IsFiniteSet(S), NEW U, NEW g, NEW h,
           Sums(g, rec, S), Sums(h, rec, U), NEW s \in SUBSET S, s \in SUBSET U
    PROVE  g[s] = h[s]
<1> DEFINE T == {u \in SUBSET S : u \in SUBSET U => g[u] = h[u]}
<1>1. ASSUME NEW u \in SUBSET S, \A v \in SUBSET u : v # u => v \in T
      PROVE  u \in T
  <2> SUFFICES ASSUME u \in SUBSET U PROVE g[u] = h[u]
    OBVIOUS
  <2>1. CASE u = {}
    BY <2>1, SumsOf
  <2>2. CASE u # {}
    <3> DEFINE v == u \ {First(u)}
    <3>1. v \in SUBSET u /\ v # u
      BY <2>2, FirstIsMember
    <3>2. g[v] = h[v]
      BY <1>1, <3>1
    <3> HIDE DEF v
    <3>3. g[u] = rec[First(u)].amount + g[v]
      BY <2>2, SumsOf DEF v
    <3>4. h[u] = rec[First(u)].amount + h[v]
      BY <2>2, SumsOf DEF v
    <3> QED
      BY <3>2, <3>3, <3>4
  <2> QED
    BY <2>1, <2>2
<1>2. SUBSET S \subseteq T
  <2> HIDE DEF T
  <2> QED
    BY <1>1, SubsetInduction
<1> QED
  BY <1>2

LEMMA SumsExist ==
    ASSUME NEW rec, NEW S, IsFiniteSet(S)
    PROVE  \E g : Sums(g, rec, S)
<1> DEFINE T == {s \in SUBSET S : \E g : Sums(g, rec, s)}
<1>1. ASSUME NEW s \in SUBSET S, \A u \in SUBSET s : u # s => u \in T
      PROVE  s \in T
  <2>1. \A u \in SUBSET s : u # s =>
          Sums(CHOOSE g : Sums(g, rec, u), rec, u)
    BY <1>1
  <2> DEFINE h == [u \in SUBSET s |->
                     IF u = {} THEN 0
                     ELSE rec[First(u)].amount + Total(rec, u \ {First(u)})]
  <2>2. ASSUME NEW u \in SUBSET s, u # s
        PROVE  h[u] = Total(rec, u)
    <3> DEFINE g == CHOOSE g : Sums(g, rec, u)
    <3>1. Sums(g, rec, u) /\ Total(rec, u) = g[u]
      BY <2>1, <2>2 DEF Total
    <3> HIDE DEF g
    <3>2. CASE u = {}
      BY <3>1, <3>2, SumsOf
    <3>3. CASE u # {}
      <4> DEFINE v == u \ {First(u)}
                 f == CHOOSE f : Sums(f, rec, v)
      <4>1. v \in SUBSET u /\ v \in SUBSET s /\ v # s
        BY <2>2, <3>3, FirstIsMember
      <4>2. Sums(f, rec, v) /\ Total(rec, v) = f[v]
        BY <2>1, <4>1 DEF Total
      <4>3. h[u] = rec[First(u)].amount + Total(rec, v)
        BY <3>3
      <4> HIDE DEF v, f, h
      <4>4. IsFiniteSet(v)
        BY <4>1, FS_Subset
      <4>5. f[v] = g[v]
        BY <3>1, <4>1, <4>2, <4>4, SumsAgree
      <4>6. g[u] = rec[First(u)].amount + g[v]
        BY <3>1, <3>3, SumsOf DEF v
      <4> QED
        BY <3>1, <4>2, <4>3, <4>5, <4>6
    <3> QED
      BY <3>2, <3>3
  <2>3. ASSUME NEW u \in SUBSET s
        PROVE  h[u] = IF u = {} THEN 0
                      ELSE rec[First(u)].amount + h[u \ {First(u)}]
    <3>1. CASE u = {}
      BY <3>1
    <3>2. CASE u # {}
      <4>1. u \ {First(u)} \in SUBSET s /\ u \ {First(u)} # s
        BY <3>2, FirstIsMember
      <4>2. h[u \ {First(u)}] = Total(rec, u \ {First(u)})
        BY <2>2, <4>1
      <4>3. h[u] = rec[First(u)].amount + Total(rec, u \ {First(u)})
        BY <3>2
      <4> HIDE DEF h
      <4> QED
        BY <3>2, <4>2, <4>3
    <3> QED
      BY <3>1, <3>2
  <2>4. h = [u \in SUBSET s |-> h[u]]
    OBVIOUS
  <2> HIDE DEF h
  <2>5. h = [u \in SUBSET s |->
               IF u = {} THEN 0 ELSE rec[First(u)].amount + h[u \ {First(u)}]]
    BY <2>3, <2>4
  <2> QED
    BY <2>5 DEF Sums
<1>2. SUBSET S \subseteq T
  <2> HIDE DEF T
  <2> QED
    BY <1>1, SubsetInduction
<1> QED
  BY <1>2

(* The amounts of the receivers in S are integers. *)
Summable(rec, S) == IsFiniteSet(S) /\ \A i \in S : rec[i].amount \in Int

LEMMA SumsAreIntegers ==
    ASSUME NEW rec, NEW S, Summable(rec, S), NEW g, Sums(g, rec, S), NEW s \in SUBSET S
    PROVE  g[s] \in Int
<1> DEFINE T == {u \in SUBSET S : g[u] \in Int}
<1>1. ASSUME NEW u \in SUBSET S, \A v \in SUBSET u : v # u => v \in T
      PROVE  u \in T
  <2>1. CASE u = {}
    <3>1. g[u] = 0
      BY <2>1, SumsOf
    <3> QED
      BY <3>1
  <2>2. CASE u # {}
    <3> DEFINE v == u \ {First(u)}
    <3>1. v \in SUBSET u /\ v # u /\ First(u) \in S
      BY <2>2, FirstIsMember
    <3>2. g[v] \in Int
      BY <1>1, <3>1
    <3>3. rec[First(u)].amount \in Int
      BY <3>1 DEF Summable
    <3> HIDE DEF v
    <3>4. g[u] = rec[First(u)].amount + g[v]
      BY <2>2, SumsOf DEF v
    <3> QED
      BY <3>2, <3>3, <3>4
  <2> QED
    BY <2>1, <2>2
<1>2. SUBSET S \subseteq T
  <2> HIDE DEF T
  <2> QED
    BY <1>1, SubsetInduction DEF Summable
<1> QED
  BY <1>2

(* Any element may be taken out first. *)
LEMMA SumsTakeAny ==
    ASSUME NEW rec, NEW S, Summable(rec, S), NEW g, Sums(g, rec, S),
           NEW s \in SUBSET S, NEW x \in s
    PROVE  g[s] = rec[x].amount + g[s \ {x}]
<1> DEFINE T == {u \in SUBSET S : \A y \in u : g[u] = rec[y].amount + g[u \ {y}]}
<1>1. ASSUME NEW u \in SUBSET S, \A v \in SUBSET u : v # u => v \in T
      PROVE  u \in T
  <2> SUFFICES ASSUME NEW y \in u PROVE g[u] = rec[y].amount + g[u \ {y}]
    OBVIOUS
  <2> DEFINE c == First(u)
             r == u \ {c}
             q == u \ {y}
             p == (u \ {c}) \ {y}
  <2>1. c \in u /\ g[u] = rec[c].amount + g[r]
    BY FirstIsMember, SumsOf
  <2>2. CASE y = c
    BY <2>1, <2>2
  <2>3. CASE y # c
    <3>1. r \in SUBSET u /\ r # u /\ q \in SUBSET u /\ q # u /\ y \in r /\ c \in q
      BY <2>1, <2>3
    <3>2. g[r] = rec[y].amount + g[p]
      BY <1>1, <3>1
    <3>3. q \ {c} = p
      OBVIOUS
    <3>4. g[q] = rec[c].amount + g[p]
      BY <1>1, <3>1, <3>3
    <3>5. rec[c].amount \in Int /\ rec[y].amount \in Int
      BY <2>1 DEF Summable
    <3>6. g[p] \in Int
      BY SumsAreIntegers
    <3> HIDE DEF c, r, q, p
    <3>7. g[u] = rec[y].amount + g[q]
      BY <2>1, <3>2, <3>4, <3>5, <3>6
    <3> QED
      BY <3>7 DEF q
  <2> QED
    BY <2>2, <2>3
<1>2. SUBSET S \subseteq T
  <2> HIDE DEF T
  <2> QED
    BY <1>1, SubsetInduction DEF Summable
<1> QED
  BY <1>2

LEMMA TotalIsSums ==
    ASSUME NEW rec, NEW S, IsFiniteSet(S), NEW g, Sums(g, rec, S), NEW s \in SUBSET S
    PROVE  Total(rec, s) = g[s]
<1> DEFINE h == CHOOSE h : Sums(h, rec, s)
<1>1. IsFiniteSet(s)
  BY FS_Subset
<1>2. Sums(h, rec, s) /\ Total(rec, s) = h[s]
  BY <1>1, SumsExist DEF Total
<1> HIDE DEF h
<1>3. s \in SUBSET s
  OBVIOUS
<1>4. g[s] = h[s]
  BY <1>2, <1>3, SumsAgree
<1> QED
  BY <1>2, <1>4

(* The sum over a set, and over the set with another element. *)
LEMMA TotalOf ==
    ASSUME NEW rec, NEW S, Summable(rec, S)
    PROVE  /\ Total(rec, {}) = 0
           /\ \A s \in SUBSET S : Total(rec, s) \in Int
           /\ \A s \in SUBSET S : \A x \in S \ s :
                Total(rec, s \union {x}) = Total(rec, s) + rec[x].amount
<1>1. IsFiniteSet(S) /\ \A i \in S : rec[i].amount \in Int
  BY DEF Summable
<1>2. PICK g : Sums(g, rec, S)
  BY <1>1, SumsExist
<1>3. \A s \in SUBSET S : Total(rec, s) = g[s] /\ g[s] \in Int
  BY <1>1, <1>2, TotalIsSums, SumsAreIntegers
<1>4. Total(rec, {}) = 0
  BY <1>2, <1>3, SumsOf
<1>5. ASSUME NEW s \in SUBSET S, NEW x \in S \ s
      PROVE  Total(rec, s \union {x}) = Total(rec, s) + rec[x].amount
  <2> DEFINE u == s \union {x}
  <2>1. u \in SUBSET S /\ x \in u /\ u \ {x} = s
    BY <1>5
  <2> HIDE DEF u
  <2>2. g[u] = rec[x].amount + g[s]
    BY <1>2, <2>1, SumsTakeAny
  <2>3. Total(rec, u) = Total(rec, s) + rec[x].amount
    BY <1>1, <1>3, <2>1, <2>2
  <2> QED
    BY <2>3 DEF u
<1> QED
  BY <1>3, <1>4, <1>5

(* What is left of a sum without a part of it. *)
LEMMA TotalOfRest ==
    ASSUME NEW rec, NEW S, Summable(rec, S), NEW P \in SUBSET S
    PROVE  Total(rec, S \ P) = Total(rec, S) - Total(rec, P)
<1> DEFINE T == {p \in SUBSET S : Total(rec, S \ p) = Total(rec, S) - Total(rec, p)}
<1>1. \A s \in SUBSET S : Total(rec, s) \in Int
  BY TotalOf
<1>2. ASSUME NEW p \in SUBSET S, \A q \in SUBSET p : q # p => q \in T
      PROVE  p \in T
  <2>1. CASE p = {}
    <3>1. S \ p = S
      BY <2>1
    <3> QED
      BY <1>1, <2>1, <3>1, TotalOf
  <2>2. CASE p # {}
    <3>1. PICK x \in p : TRUE
      BY <2>2
    <3> DEFINE q == p \ {x}
    <3>2. /\ q \in SUBSET p /\ q # p /\ q \in SUBSET S /\ x \in S \ q
          /\ q \union {x} = p
          /\ S \ p \in SUBSET S /\ x \in S \ (S \ p)
          /\ (S \ p) \union {x} = S \ q
      OBVIOUS
    <3> HIDE DEF q
    <3>3. Total(rec, S \ q) = Total(rec, S) - Total(rec, q)
      BY <1>2, <3>2
    <3>4. Total(rec, p) = Total(rec, q) + rec[x].amount
      BY <3>2, TotalOf
    <3>5. Total(rec, S \ q) = Total(rec, S \ p) + rec[x].amount
      <4> DEFINE r == S \ p
      <4>1. r \in SUBSET S /\ x \in S \ r /\ r \union {x} = S \ q
        BY <3>2
      <4> HIDE DEF r
      <4>2. Total(rec, r \union {x}) = Total(rec, r) + rec[x].amount
        BY <4>1, TotalOf
      <4> QED
        BY <4>1, <4>2 DEF r
    <3>6. rec[x].amount \in Int
      BY DEF Summable
    <3>7. S \in SUBSET S
      OBVIOUS
    <3>8. Total(rec, S \ p) = Total(rec, S) - Total(rec, p)
      BY <1>1, <3>2, <3>3, <3>4, <3>5, <3>6, <3>7
    <3> QED
      BY <3>8
  <2> QED
    BY <2>1, <2>2
<1>3. SUBSET S \subseteq T
  <2> HIDE DEF T
  <2> QED
    BY <1>2, SubsetInduction DEF Summable
<1> QED
  BY <1>3

-----------------------------------------------------------------------------
(* The results tell what moved.  The properties are restated over arbitrary *)
(* receivers and results, so that they can be compared between two states.  *)

PaidIn(res, n) == {i \in 1 .. n : res[i]}

PaidInTo(rec, res, a, n) == {i \in PaidIn(res, n) : rec[i].to = a}

Moved(a) ==
    balance[a] = before[a] + Total(receivers, PaidInTo(receivers, results, a, Len(results)))
                   - IF a = Sender THEN Total(receivers, PaidIn(results, Len(results))) ELSE 0

MovedInv == \A a \in Account : Moved(a)

(* Turn i succeeds exactly if the funds left cover it and there is room. *)
Isolated(i) ==
    LET to     == receivers[i].to
        amount == receivers[i].amount
        left   == before[Sender] - Total(receivers, PaidIn(results, i - 1) \
                                           PaidInTo(receivers, results, Sender, i - 1))
        held   == IF to = Sender THEN left - amount
                  ELSE before[to] + Total(receivers, PaidInTo(receivers, results, to, i - 1))
    IN  results[i] <=> amount \in 0 .. left /\ held + amount <= limit[to]

IsolatedInv == \A i \in DOMAIN results : Isolated(i)

LEMMA BatchIsSummable ==
    ASSUME TypeOK
    PROVE  Summable(receivers, 1 .. Len(receivers))
<1>1. IsFiniteSet(1 .. Len(receivers))
  <2>1. 1 \in Int /\ Len(receivers) \in Int
    BY DEF TypeOK
  <2> QED
    BY <2>1, FS_Interval
<1>2. \A i \in 1 .. Len(receivers) : receivers[i].amount \in Int
  <2>1. \A i \in 1 .. Len(receivers) : receivers[i] \in Receiver
    BY DEF TypeOK
  <2>2. \A x \in Receiver : x.amount \in Int
    BY AmountAssumption DEF Receiver
  <2> QED
    BY <2>1, <2>2
<1> QED
  BY <1>1, <1>2 DEF Summable

(* The results after another turn. *)
OneMore(new, res) ==
    /\ Len(res) \in Nat
    /\ Len(new) = Len(res) + 1
    /\ \A i \in 1 .. Len(res) : new[i] = res[i]

(* The next turn adds at most its own transfer to what is paid. *)
LEMMA PaidGrows ==
    ASSUME NEW res, NEW new, OneMore(new, res), NEW n, n = Len(res)
    PROVE  /\ new[n + 1] => PaidIn(new, n + 1) = PaidIn(res, n) \union {n + 1}
           /\ ~new[n + 1] => PaidIn(new, n + 1) = PaidIn(res, n)
BY DEF PaidIn, OneMore

LEMMA PaidInToGrows ==
    ASSUME NEW rec, NEW res, NEW new, OneMore(new, res), NEW n, n = Len(res), NEW a
    PROVE  PaidInTo(rec, new, a, n + 1) =
             PaidInTo(rec, res, a, n)
               \union (IF new[n + 1] /\ rec[n + 1].to = a THEN {n + 1} ELSE {})
<1>1. /\ new[n + 1] => PaidIn(new, n + 1) = PaidIn(res, n) \union {n + 1}
      /\ ~new[n + 1] => PaidIn(new, n + 1) = PaidIn(res, n)
  BY PaidGrows
<1> QED
  BY <1>1 DEF PaidInTo

(* What was paid up to an earlier turn stays as it is. *)
LEMMA PaidStays ==
    ASSUME NEW rec, NEW res, NEW new, OneMore(new, res), NEW k \in 0 .. Len(res), NEW a
    PROVE  /\ PaidIn(new, k) = PaidIn(res, k)
           /\ PaidInTo(rec, new, a, k) = PaidInTo(rec, res, a, k)
<1>1. PaidIn(new, k) = PaidIn(res, k)
  BY DEF PaidIn, OneMore
<1> QED
  BY <1>1 DEF PaidInTo

LEMMA PaidIsBounded ==
    ASSUME NEW rec, NEW res, NEW a, NEW n \in Nat, NEW N \in Nat, n < N
    PROVE  /\ PaidIn(res, n) \in SUBSET (1 .. N)
           /\ PaidInTo(rec, res, a, n) \in SUBSET PaidIn(res, n)
           /\ n + 1 \in (1 .. N) \ PaidIn(res, n)
           /\ n + 1 \in (1 .. N) \ PaidInTo(rec, res, a, n)
BY DEF PaidIn, PaidInTo

(* What a turn does to the books. *)
LEMMA TurnMoves ==
    ASSUME TypeOK, TryTransfer, NEW a \in Account, Moved(a)
    PROVE  Moved(a)'
<1> DEFINE n      == Len(results)
           amount == Turn.amount
           paid   == Total(receivers, PaidIn(results, n))
           toA    == Total(receivers, PaidInTo(receivers, results, a, n))
<1>1. /\ n < Len(receivers)
      /\ results' = Append(results, Succeeds)
      /\ balance' = IF Succeeds THEN Transferred(balance, Sender, Turn.to, Turn.amount)
                                ELSE balance
      /\ UNCHANGED <<receivers, before>>
  BY DEF TryTransfer, TurnWith
<1>2. /\ n \in Nat /\ Len(receivers) \in Nat
      /\ results \in Seq(BOOLEAN) /\ Succeeds \in BOOLEAN
      /\ Turn.to \in Account /\ amount \in Int
      /\ balance \in [Account -> Nat] /\ before \in [Account -> Nat]
  BY <1>1, TurnOfBatch DEF TypeOK
<1>3. /\ Len(results') = n + 1
      /\ OneMore(results', results) /\ results'[n + 1] = Succeeds
  BY <1>1, <1>2, Appended DEF OneMore
<1>4. /\ paid \in Int /\ toA \in Int
      /\ Total(receivers, PaidIn(results, n) \union {n + 1}) = paid + amount
      /\ Total(receivers, PaidInTo(receivers, results, a, n) \union {n + 1}) = toA + amount
  <2> DEFINE S == 1 .. Len(receivers)
  <2>1. /\ PaidIn(results, n) \in SUBSET S
        /\ PaidInTo(receivers, results, a, n) \in SUBSET S
        /\ n + 1 \in S \ PaidIn(results, n)
        /\ n + 1 \in S \ PaidInTo(receivers, results, a, n)
    BY <1>1, <1>2, PaidIsBounded
  <2>2. Summable(receivers, S)
    BY BatchIsSummable
  <2> HIDE DEF S, n
  <2> QED
    BY <2>1, <2>2, TotalOf DEF Turn, n
<1>5. /\ Total(receivers', PaidIn(results', Len(results'))) =
           paid + IF Succeeds THEN amount ELSE 0
      /\ Total(receivers', PaidInTo(receivers', results', a, Len(results'))) =
           toA + IF Succeeds /\ Turn.to = a THEN amount ELSE 0
  <2> HIDE DEF n
  <2>1. OneMore(results', results) /\ n = Len(results) /\ results'[n + 1] = Succeeds
    BY <1>3 DEF n
  <2>2. receivers[n + 1] = Turn
    BY DEF Turn, n
  <2>3. Total(receivers, PaidIn(results', n + 1)) =
          paid + IF Succeeds THEN amount ELSE 0
    <3>1. /\ results'[n + 1] => PaidIn(results', n + 1) = PaidIn(results, n) \union {n + 1}
          /\ ~results'[n + 1] => PaidIn(results', n + 1) = PaidIn(results, n)
      BY <2>1, PaidGrows
    <3>2. CASE Succeeds
      BY <1>4, <2>1, <3>1, <3>2
    <3>3. CASE ~Succeeds
      <4>1. Total(receivers, PaidIn(results', n + 1)) = paid
        BY <2>1, <3>1, <3>3
      <4> QED
        BY <1>4, <3>3, <4>1
    <3> QED
      BY <3>2, <3>3
  <2>4. Total(receivers, PaidInTo(receivers, results', a, n + 1)) =
          toA + IF Succeeds /\ Turn.to = a THEN amount ELSE 0
    <3>1. PaidInTo(receivers, results', a, n + 1) =
            PaidInTo(receivers, results, a, n)
              \union (IF results'[n + 1] /\ receivers[n + 1].to = a THEN {n + 1} ELSE {})
      BY <2>1, PaidInToGrows
    <3>2. CASE Succeeds /\ Turn.to = a
      BY <1>4, <2>1, <2>2, <3>1, <3>2
    <3>3. CASE ~(Succeeds /\ Turn.to = a)
      <4>1. Total(receivers, PaidInTo(receivers, results', a, n + 1)) = toA
        BY <2>1, <2>2, <3>1, <3>3
      <4> QED
        BY <1>4, <3>3, <4>1
    <3> QED
      BY <3>2, <3>3
  <2> QED
    BY <1>1, <1>3, <2>3, <2>4
<1>6. balance'[a] = balance[a] + (IF Succeeds /\ Turn.to = a THEN amount ELSE 0)
                               - (IF Succeeds /\ a = Sender THEN amount ELSE 0)
  BY <1>1, <1>2, SenderAssumption DEF Transferred, Spent
<1>7. balance[a] = before[a] + toA - IF a = Sender THEN paid ELSE 0
  BY DEF Moved
<1>8. before'[a] = before[a] /\ before[a] \in Int /\ balance[a] \in Int
  BY <1>1, <1>2
<1> HIDE DEF paid, toA, amount
<1>9. balance'[a] = before'[a] + (toA + IF Succeeds /\ Turn.to = a THEN amount ELSE 0)
                     - IF a = Sender THEN paid + IF Succeeds THEN amount ELSE 0 ELSE 0
  <2> DEFINE received == IF Succeeds /\ Turn.to = a THEN amount ELSE 0
             spent    == IF Succeeds /\ a = Sender THEN amount ELSE 0
  <2>1. received \in Int /\ spent \in Int
    BY <1>2
  <2>2. (IF a = Sender THEN paid + IF Succeeds THEN amount ELSE 0 ELSE 0)
          = (IF a = Sender THEN paid ELSE 0) + spent
    BY <1>2, <1>4
  <2>3. (IF a = Sender THEN paid ELSE 0) \in Int
    BY <1>4
  <2>4. balance'[a] = balance[a] + received - spent
    BY <1>6
  <2> HIDE DEF received, spent
  <2>5. balance'[a] = before'[a] + (toA + received)
                        - ((IF a = Sender THEN paid ELSE 0) + spent)
    BY <1>4, <1>7, <1>8, <2>1, <2>3, <2>4
  <2> QED
    BY <2>2, <2>5 DEF received
<1> QED
  BY <1>5, <1>9 DEF Moved

(* Before the first turn nothing has moved. *)
LEMMA NothingMoved ==
    ASSUME TypeOK, results = << >>, balance = before
    PROVE  MovedInv /\ IsolatedInv
<1>1. Len(results) = 0
  OBVIOUS
<1>2. /\ PaidIn(results, 0) = {}
      /\ \A a : PaidInTo(receivers, results, a, 0) = {}
  BY DEF PaidIn, PaidInTo
<1>3. Total(receivers, {}) = 0
  BY BatchIsSummable, TotalOf
<1>4. ASSUME NEW a \in Account PROVE Moved(a)
  <2>1. balance[a] = before[a] /\ before[a] \in Int
    BY DEF TypeOK
  <2>2. /\ Total(receivers, PaidIn(results, Len(results))) = 0
        /\ Total(receivers, PaidInTo(receivers, results, a, Len(results))) = 0
    BY <1>1, <1>2, <1>3
  <2> QED
    BY <2>1, <2>2 DEF Moved
<1> QED
  BY <1>4 DEF MovedInv, IsolatedInv

LEMMA NothingMovedNext ==
    TypeOK' /\ results' = << >> /\ balance' = before' => MovedInv' /\ IsolatedInv'
<1>1. (TypeOK /\ results = << >> /\ balance = before => MovedInv /\ IsolatedInv)'
  BY NothingMoved, PTL
<1> QED
  BY <1>1

(* At the next turn, the funds left and what its receiver holds are what    *)
(* the token says.                                                          *)
LEMMA NextIsIsolated ==
    ASSUME TypeOK, MovedInv, TryTransfer, NEW i, i = Len(results) + 1
    PROVE  Isolated(i)'
<1> DEFINE n      == Len(results)
           to     == Turn.to
           amount == Turn.amount
           paid   == Total(receivers, PaidIn(results, n))
           toS    == Total(receivers, PaidInTo(receivers, results, Sender, n))
           toR    == Total(receivers, PaidInTo(receivers, results, to, n))
           rest   == Total(receivers, PaidIn(results, n) \
                                        PaidInTo(receivers, results, Sender, n))
<1>1. /\ n < Len(receivers)
      /\ results' = Append(results, Succeeds)
      /\ UNCHANGED <<receivers, before, limit>>
  BY DEF TryTransfer, TurnWith
<1>2. /\ n \in Nat /\ Len(receivers) \in Nat
      /\ results \in Seq(BOOLEAN) /\ Succeeds \in BOOLEAN
      /\ to \in Account /\ amount \in Int
      /\ balance \in [Account -> Nat] /\ before \in [Account -> Nat]
      /\ limit \in [Account -> Nat]
  <2>1. limit \in [Account -> Nat]
    BY HoldersAreTyped DEF Holdings
  <2> QED
    BY <1>1, <2>1, TurnOfBatch DEF TypeOK
<1>3. OneMore(results', results) /\ results'[n + 1] = Succeeds
  <2>1. /\ Len(results') = Len(results) + 1
        /\ \A k \in 1 .. Len(results) : results'[k] = results[k]
        /\ results'[Len(results) + 1] = Succeeds
    BY <1>1, <1>2, Appended
  <2> QED
    BY <1>2, <2>1 DEF OneMore
<1>4. /\ PaidIn(results', n) = PaidIn(results, n)
      /\ PaidInTo(receivers, results', Sender, n) = PaidInTo(receivers, results, Sender, n)
      /\ PaidInTo(receivers, results', to, n) = PaidInTo(receivers, results, to, n)
  <2>1. n \in 0 .. Len(results)
    BY <1>2
  <2>2. PaidIn(results', n) = PaidIn(results, n)
    BY <1>3, <2>1, PaidStays
  <2>3. \A a : PaidInTo(receivers, results', a, n) = PaidInTo(receivers, results, a, n)
    BY <1>3, <2>1, PaidStays
  <2> QED
    BY <2>2, <2>3
<1>5. rest = paid - toS /\ paid \in Int /\ toS \in Int /\ toR \in Int
  <2> DEFINE S == 1 .. Len(receivers)
             P == PaidIn(results, n)
             Q == PaidInTo(receivers, results, Sender, n)
             R == PaidInTo(receivers, results, to, n)
  <2>1. P \in SUBSET S /\ Q \in SUBSET P /\ R \in SUBSET P
    BY <1>1, <1>2, PaidIsBounded
  <2>2. Summable(receivers, S)
    BY BatchIsSummable
  <2>3. Summable(receivers, P)
    BY <2>1, <2>2, FS_Subset DEF Summable
  <2> HIDE DEF S, P, Q, R
  <2>4. P \in SUBSET P
    OBVIOUS
  <2>5. Total(receivers, P \ Q) = Total(receivers, P) - Total(receivers, Q)
    BY <2>1, <2>3, TotalOfRest
  <2>6. /\ Total(receivers, P) \in Int /\ Total(receivers, Q) \in Int
        /\ Total(receivers, R) \in Int
    BY <2>1, <2>3, <2>4, TotalOf
  <2> QED
    BY <2>5, <2>6 DEF P, Q, R
<1>6. /\ balance[Sender] = before[Sender] + toS - paid
      /\ to # Sender => balance[to] = before[to] + toR
  <2>1. Moved(Sender) /\ Moved(to)
    BY <1>2, SenderAssumption DEF MovedInv
  <2>2. before[to] \in Int
    BY <1>2
  <2> QED
    BY <1>5, <2>1, <2>2 DEF Moved
<1>7. /\ balance[Sender] \in Int /\ before[Sender] \in Int
      /\ balance[to] \in Int /\ before[to] \in Int /\ limit[to] \in Int
  BY <1>2, SenderAssumption
<1> DEFINE left == before[Sender] - rest
           held == IF to = Sender THEN left - amount ELSE before[to] + toR
<1>8. /\ left = balance[Sender]
      /\ held = Spent(balance, Sender, amount)[to]
  <2> HIDE DEF to, amount, paid, toS, toR, rest
  <2>1. left = balance[Sender]
    BY <1>5, <1>6, <1>7
  <2>2. Spent(balance, Sender, amount)[to] =
          IF to = Sender THEN balance[Sender] - amount ELSE balance[to]
    BY <1>2, SenderAssumption DEF Spent
  <2> QED
    BY <1>6, <2>1, <2>2
<1>9. Succeeds <=> amount \in 0 .. left /\ held + amount <= limit[to]
  <2>1. Succeeds <=> /\ amount >= 0 /\ balance[Sender] >= amount
                     /\ Spent(balance, Sender, amount)[to] + amount <= limit[to]
    BY DEF Succeeds, CanTransfer
  <2> HIDE DEF left, held, to, amount
  <2> QED
    BY <1>2, <1>7, <1>8, <2>1
<1>10. receivers'[i] = Turn /\ i - 1 = n /\ (results'[i] <=> Succeeds)
  BY <1>1, <1>2, <1>3 DEF Turn
<1>11. /\ PaidIn(results', i - 1) \ PaidInTo(receivers', results', Sender, i - 1)
            = PaidIn(results, n) \ PaidInTo(receivers, results, Sender, n)
       /\ PaidInTo(receivers', results', to, i - 1) = PaidInTo(receivers, results, to, n)
  BY <1>1, <1>4, <1>10
<1>12. results'[i] <=> amount \in 0 .. left /\ held + amount <= limit'[to]
  BY <1>1, <1>9, <1>10
<1> QED
  BY <1>1, <1>10, <1>11, <1>12, Zenon DEF Isolated

LEMMA BooksStep ==
    ASSUME TypeOK, StageInv, MovedInv, IsolatedInv, [Next]_vars, TypeOK', StageInv'
    PROVE  MovedInv' /\ IsolatedInv'
<1>1. CASE Call
  BY <1>1, NothingMovedNext DEF Call, StageInv
<1>2. CASE TryTransfer
  <2>1. MovedInv'
    BY <1>2, TurnMoves DEF MovedInv
  <2>2. /\ Len(results) < Len(receivers)
        /\ results' = Append(results, Succeeds)
        /\ UNCHANGED <<receivers, before, limit>>
    BY <1>2 DEF TryTransfer, TurnWith
  <2>3. results \in Seq(BOOLEAN) /\ Succeeds \in BOOLEAN
    BY <2>2, TurnOfBatch DEF TypeOK
  <2>4. /\ Len(results') = Len(results) + 1
        /\ \A k \in 1 .. Len(results) : results'[k] = results[k]
        /\ Len(results) \in Nat /\ DOMAIN results' = 1 .. Len(results) + 1
    BY <2>2, <2>3, Appended
  <2>5. OneMore(results', results)
    BY <2>4 DEF OneMore
  <2>6. ASSUME NEW i \in 1 .. Len(results) PROVE Isolated(i)'
    <3>1. Isolated(i)
      BY <2>3 DEF IsolatedInv
    <3>2. i - 1 \in 0 .. Len(results)
      BY <2>4
    <3>3. /\ PaidIn(results', i - 1) = PaidIn(results, i - 1)
          /\ \A a : PaidInTo(receivers', results', a, i - 1)
                       = PaidInTo(receivers, results, a, i - 1)
      BY <2>2, <2>5, <3>2, PaidStays
    <3> QED
      BY <2>2, <2>4, <3>1, <3>3 DEF Isolated
  <2>7. ASSUME NEW i, i = Len(results) + 1 PROVE Isolated(i)'
    BY <1>2, <2>7, NextIsIsolated
  <2>8. \A i \in DOMAIN results' : Isolated(i)'
    BY <2>4, <2>6, <2>7
  <2> QED
    BY <2>1, <2>8 DEF IsolatedInv
<1>3. CASE Return
  BY <1>3 DEF Return, MovedInv, Moved, IsolatedInv, Isolated
<1>4. CASE OutOfResources
  BY <1>4, NothingMovedNext DEF OutOfResources
<1>5. CASE UNCHANGED vars
  BY <1>5 DEF vars, MovedInv, Moved, IsolatedInv, Isolated
<1> QED
  BY <1>1, <1>2, <1>3, <1>4, <1>5 DEF Next

LEMMA BooksInvariance == Spec => [](IndInv /\ MovedInv /\ IsolatedInv)
<1>1. Init => MovedInv /\ IsolatedInv
  BY TypeInit, NothingMoved DEF Init
<1>2. IndInv /\ IndInv' /\ MovedInv /\ IsolatedInv /\ [Next]_vars
        => MovedInv' /\ IsolatedInv'
  BY BooksStep DEF IndInv
<1> QED
  BY <1>1, <1>2, Invariance, PTL DEF Spec

LEMMA RestatedSets ==
    /\ \A n : Paid(n) = PaidIn(results, n)
    /\ \A a, n : PaidTo(a, n) = PaidInTo(receivers, results, a, n)
    /\ \A S : Sum(S) = Total(receivers, S)
BY SumIsTotal DEF Paid, PaidTo, PaidIn, PaidInTo

(* What the results say moved is what moved, for batches of every length:   *)
(* nothing is created or lost, and every holder has what the results say.   *)
THEOREM ResultsTellWhatMovedHolds == Spec => []ResultsTellWhatMoved
<1>1. MovedInv => ResultsTellWhatMoved
  BY RestatedSets DEF MovedInv, Moved, ResultsTellWhatMoved
<1> QED
  BY <1>1, BooksInvariance, PTL

(* A transfer succeeds or fails by the funds the successful ones before it  *)
(* left and by its own receiver's room, never by a failure before it.       *)
THEOREM FailuresAreIsolatedHolds == Spec => []FailuresAreIsolated
<1>1. IsolatedInv => FailuresAreIsolated
  BY RestatedSets DEF IsolatedInv, Isolated, FailuresAreIsolated
<1> QED
  BY <1>1, BooksInvariance, PTL

=============================================================================
