------------------------- MODULE FundedFaucetProofs -------------------------
(***************************************************************************)
(* What the clients are told and what the token says fit together, proved  *)
(* for every set of requests, every batch limit, amount, trustline limit   *)
(* and funding of the account.                                             *)
(***************************************************************************)
EXTENDS FundedFaucet, FaucetProofs, TokenProofs

-----------------------------------------------------------------------------
(* A call of the faucet, turn by turn. *)

Holder == Address \union {Funder}

(* The funding account may be asked for as well: it pays itself. *)
Payee == Address \ {Funder}

(* The receivers of a transaction, each with the amount. *)
Paying(to) == [i \in DOMAIN to |-> [to |-> to[i], amount |-> Amount]]

LEMMA PayingIsTyped ==
    ASSUME NEW to \in Seq(Address)
    PROVE  /\ Paying(to) \in Seq(Payment(Holder))
           /\ Len(Paying(to)) = Len(to)
           /\ \A i \in 1 .. Len(to) : Paying(to)[i].to = to[i] /\ Paying(to)[i].amount = Amount
<1>1. \A i \in 1 .. Len(to) : [to |-> to[i], amount |-> Amount] \in Payment(Holder)
  BY TokenAssumption DEF Payment, Holder
<1>2. Paying(to) \in [1 .. Len(to) -> Payment(Holder)]
  BY <1>1 DEF Paying
<1>3. Len(to) \in Nat
  OBVIOUS
<1>4. Paying(to) \in Seq(Payment(Holder)) /\ Len(Paying(to)) = Len(to)
  BY <1>2, <1>3, FunctionIsSeq
<1> QED
  BY <1>4 DEF Paying

(* The run f of a call that pays the addresses in to. *)
FaucetCall(f, bal, lim, to) ==
    /\ bal \in Holdings(Holder) /\ lim \in Holdings(Holder)
    /\ to \in Seq(Address)
    /\ IsRun(f, bal, lim, Funder, Paying(to), Len(to))

(* The balances after turn k and the result of turn k. *)
After(f, k) == f[k].balance

Result(f, to, i) == f[Len(to)].results[i]

LEMMA CallIsTyped ==
    ASSUME NEW f, NEW bal, NEW lim, NEW to, FaucetCall(f, bal, lim, to)
    PROVE  /\ Len(to) \in Nat
           /\ After(f, 0) = bal
           /\ f[Len(to)].results \in Seq(BOOLEAN)
           /\ Len(f[Len(to)].results) = Len(to)
           /\ \A k \in 0 .. Len(to) : After(f, k) \in Holdings(Holder)
           /\ \A i \in 1 .. Len(to) :
                Result(f, to, i) = CanTransfer(After(f, i - 1), lim, Funder, to[i], Amount)
<1>1. /\ bal \in Holdings(Holder) /\ lim \in Holdings(Holder)
      /\ to \in Seq(Address) /\ Funder \in Holder
      /\ IsRun(f, bal, lim, Funder, Paying(to), Len(to))
  BY DEF FaucetCall, Holder
<1>2. Len(to) \in Nat
  BY <1>1
<1>3. f[0] = Start(bal)
  BY <1>1, <1>2, RunStarts
<1>4. /\ Paying(to) \in Seq(Payment(Holder))
      /\ Len(Paying(to)) = Len(to)
      /\ \A i \in 1 .. Len(to) : Paying(to)[i].to = to[i] /\ Paying(to)[i].amount = Amount
  BY <1>1, PayingIsTyped
<1>5. \A n \in 0 .. Len(to) :
        /\ f[n].balance \in Holdings(Holder)
        /\ f[n].results \in Seq(BOOLEAN)
        /\ Len(f[n].results) = n
        /\ \A i \in 1 .. n :
             f[n].results[i] = CanTransfer(f[i - 1].balance, lim, Funder,
                                          Paying(to)[i].to, Paying(to)[i].amount)
  BY <1>1, <1>4, RunIsTyped
<1>6. Len(to) \in 0 .. Len(to)
  BY <1>2
<1>7. ASSUME NEW i \in 1 .. Len(to)
      PROVE  Result(f, to, i) = CanTransfer(After(f, i - 1), lim, Funder, to[i], Amount)
  BY <1>4, <1>5, <1>6 DEF Result, After
<1> QED
  BY <1>2, <1>3, <1>5, <1>6, <1>7 DEF Start, After

(* A turn moves the amount from the faucet's account to its receiver if it  *)
(* succeeds, and nothing else.                                              *)
LEMMA CallTurn ==
    ASSUME NEW f, NEW bal, NEW lim, NEW to, FaucetCall(f, bal, lim, to),
           NEW k \in 0 .. Len(to) - 1
    PROVE  /\ \A a \in Payee :
                After(f, k + 1)[a] = IF Result(f, to, k + 1) /\ to[k + 1] = a
                                     THEN After(f, k)[a] + Amount ELSE After(f, k)[a]
           /\ After(f, k + 1)[Funder] <= After(f, k)[Funder]
           /\ Result(f, to, k + 1) => Amount >= 0
<1> DEFINE rec == Paying(to)[k + 1]
           now == After(f, k)
           new == After(f, k + 1)
           dst == to[k + 1]
           ok  == CanTransfer(now, lim, Funder, dst, Amount)
<1>1. /\ Len(to) \in Nat /\ to \in Seq(Address)
      /\ IsRun(f, bal, lim, Funder, Paying(to), Len(to))
  BY CallIsTyped DEF FaucetCall
<1>2. k \in Nat /\ k + 1 \in 1 .. Len(to) /\ k \in 0 .. Len(to) /\ k + 1 - 1 = k
  BY <1>1
<1>3. f[k + 1] = AfterTurn(f[k], lim, Funder, rec)
  BY <1>1, RunTurns
<1>4. rec.to = dst /\ rec.amount = Amount /\ dst \in Address
  BY <1>1, <1>2, PayingIsTyped
<1>5. now \in Holdings(Holder)
  BY <1>2, CallIsTyped
<1>6. Result(f, to, k + 1) = ok
  BY <1>2, CallIsTyped
<1>7. new = IF ok THEN Transferred(now, Funder, dst, Amount) ELSE now
  <2>1. AfterTurn(f[k], lim, Funder, rec).balance =
          IF CanTransfer(f[k].balance, lim, Funder, rec.to, rec.amount)
          THEN Transferred(f[k].balance, Funder, rec.to, rec.amount)
          ELSE f[k].balance
    BY DEF AfterTurn
  <2> HIDE DEF rec
  <2> QED
    BY <1>3, <1>4, <2>1 DEF After
<1> HIDE DEF now, new, dst, rec
<1>8. /\ dst \in Holder /\ Funder \in Holder /\ Payee \subseteq Holder \ {Funder}
      /\ Amount \in Int
  BY <1>4, TokenAssumption DEF Holder, Payee
<1>9. CASE ok
  <2>1. new = Transferred(now, Funder, dst, Amount) /\ Amount >= 0
    BY <1>7, <1>9 DEF CanTransfer
  <2>2. /\ \A h \in Holder \ {Funder} :
              new[h] = IF dst = h THEN now[h] + Amount ELSE now[h]
        /\ new[Funder] = IF dst = Funder THEN now[Funder] - Amount + Amount
                                         ELSE now[Funder] - Amount
    BY <1>5, <1>8, <2>1 DEF Transferred, Spent, Holdings
  <2>3. now[Funder] \in Nat
    BY <1>5, <1>8 DEF Holdings
  <2>4. new[Funder] <= now[Funder]
    BY <1>8, <2>1, <2>2, <2>3
  <2>5. Result(f, to, k + 1)
    BY <1>6, <1>9
  <2>6. \A a \in Payee : new[a] = IF dst = a THEN now[a] + Amount ELSE now[a]
    BY <1>8, <2>2
  <2> QED
    BY <2>1, <2>4, <2>5, <2>6 DEF now, new, dst
<1>10. CASE ~ok
  <2>1. new = now /\ ~Result(f, to, k + 1)
    BY <1>6, <1>7, <1>10
  <2>2. now[Funder] <= now[Funder]
    BY <1>5, <1>8 DEF Holdings
  <2> QED
    BY <2>1, <2>2 DEF now, new
<1> QED
  BY <1>9, <1>10

(* The faucet's account never gains in a call. *)
LEMMA FundsOnlyShrink ==
    ASSUME NEW f, NEW bal, NEW lim, NEW to, FaucetCall(f, bal, lim, to),
           NEW k \in 0 .. Len(to), NEW j \in 0 .. k
    PROVE  After(f, k)[Funder] <= After(f, j)[Funder]
<1> DEFINE N == Len(to)
           T == {m \in 0 .. N : \A n \in 0 .. m : After(f, m)[Funder] <= After(f, n)[Funder]}
<1>1. N \in Nat
  BY CallIsTyped
<1>2. \A m \in 0 .. N : After(f, m)[Funder] \in Nat
  BY CallIsTyped DEF Holdings, Holder
<1>3. 0 \in T
  BY <1>1, <1>2
<1>4. ASSUME NEW m \in 0 .. N - 1, m \in T PROVE m + 1 \in T
  <2>1. After(f, m + 1)[Funder] <= After(f, m)[Funder]
    BY CallTurn
  <2>2. m \in 0 .. N /\ m + 1 \in 0 .. N
    BY <1>1
  <2>3. ASSUME NEW n \in 0 .. m + 1 PROVE After(f, m + 1)[Funder] <= After(f, n)[Funder]
    <3>1. CASE n = m + 1
      BY <1>2, <2>2, <3>1
    <3>2. CASE n \in 0 .. m
      <4>1. After(f, m)[Funder] <= After(f, n)[Funder]
        BY <1>4, <3>2
      <4>2. n \in 0 .. N
        BY <2>2, <3>2
      <4> QED
        BY <1>2, <2>1, <2>2, <4>1, <4>2
    <3> QED
      BY <2>2, <3>1, <3>2
  <2> QED
    BY <2>2, <2>3
<1>5. 0 .. N \subseteq T
  <2> HIDE DEF T, N
  <2> QED
    BY <1>1, <1>3, <1>4, IntervalInduction
<1> QED
  BY <1>5

(* Different addresses are paid at most once each. *)
Distinct(to) == \A i, j \in DOMAIN to : to[i] = to[j] => i = j

PaidBy(f, to, a, k) == \E i \in 1 .. k : to[i] = a /\ Result(f, to, i)

LEMMA CallPays ==
    ASSUME NEW f, NEW bal, NEW lim, NEW to, FaucetCall(f, bal, lim, to), Distinct(to),
           NEW k \in 0 .. Len(to), NEW a \in Payee
    PROVE  After(f, k)[a] = IF PaidBy(f, to, a, k) THEN bal[a] + Amount ELSE bal[a]
<1> DEFINE N == Len(to)
           T == {m \in 0 .. N :
                   After(f, m)[a] = IF PaidBy(f, to, a, m) THEN bal[a] + Amount ELSE bal[a]}
<1>1. N \in Nat /\ DOMAIN to = 1 .. N
  BY CallIsTyped DEF FaucetCall
<1>2. 0 \in T
  <2>1. After(f, 0)[a] = bal[a]
    BY CallIsTyped
  <2>2. ~PaidBy(f, to, a, 0)
    BY DEF PaidBy
  <2> QED
    BY <1>1, <2>1, <2>2
<1>3. ASSUME NEW m \in 0 .. N - 1, m \in T PROVE m + 1 \in T
  <2>1. m \in 0 .. N /\ m + 1 \in 0 .. N /\ m + 1 \in 1 .. N
    BY <1>1
  <2>2. After(f, m + 1)[a] = IF Result(f, to, m + 1) /\ to[m + 1] = a
                             THEN After(f, m)[a] + Amount ELSE After(f, m)[a]
    BY CallTurn
  <2>3. After(f, m)[a] = IF PaidBy(f, to, a, m) THEN bal[a] + Amount ELSE bal[a]
    BY <1>3
  <2>4. CASE Result(f, to, m + 1) /\ to[m + 1] = a
    <3>1. PaidBy(f, to, a, m + 1)
      BY <2>1, <2>4 DEF PaidBy
    <3>2. ~PaidBy(f, to, a, m)
      BY <1>1, <2>1, <2>4 DEF PaidBy, Distinct
    <3> QED
      BY <2>1, <2>2, <2>3, <2>4, <3>1, <3>2
  <2>5. CASE ~(Result(f, to, m + 1) /\ to[m + 1] = a)
    <3>1. PaidBy(f, to, a, m + 1) <=> PaidBy(f, to, a, m)
      <4>1. \A i \in 1 .. m + 1 : i \in 1 .. m \/ i = m + 1
        BY <2>1
      <4>2. \A i \in 1 .. m : i \in 1 .. m + 1
        BY <2>1
      <4> QED
        BY <2>5, <4>1, <4>2, Zenon DEF PaidBy
    <3> QED
      BY <2>1, <2>2, <2>3, <2>5, <3>1
  <2> QED
    BY <2>4, <2>5
<1>4. 0 .. N \subseteq T
  <2> HIDE DEF T, N
  <2> QED
    BY <1>1, <1>2, <1>3, IntervalInduction
<1> QED
  BY <1>4

(* A turn that fails before one that succeeds found its receiver without    *)
(* room: the funds that were enough later were enough at that turn.  The    *)
(* funding account has room for what it pays itself.                        *)
LEMMA FailedHasNoRoom ==
    ASSUME NEW f, NEW bal, NEW lim, NEW to, FaucetCall(f, bal, lim, to), Distinct(to),
           NEW i \in 1 .. Len(to), NEW j \in 1 .. Len(to), i < j,
           ~Result(f, to, i), Result(f, to, j), bal[Funder] <= lim[Funder]
    PROVE  to[i] \in Payee /\ After(f, Len(to))[to[i]] + Amount > lim[to[i]]
<1> DEFINE a == to[i]
           N == Len(to)
<1>1. N \in Nat /\ to \in Seq(Address) /\ DOMAIN to = 1 .. N
  BY CallIsTyped DEF FaucetCall
<1>2. /\ a \in Address /\ to[j] \in Address
      /\ a \in Holder /\ Funder \in Holder /\ Amount \in Int
  BY <1>1, TokenAssumption DEF Holder
<1>3. /\ i - 1 \in 0 .. N /\ j - 1 \in 0 .. N /\ i - 1 \in 0 .. j - 1 /\ N \in 0 .. N
      /\ 0 \in 0 .. i - 1
  BY <1>1
<1>4. /\ \A k \in 0 .. N : After(f, k) \in Holdings(Holder)
      /\ ~CanTransfer(After(f, i - 1), lim, Funder, a, Amount)
      /\ CanTransfer(After(f, j - 1), lim, Funder, to[j], Amount)
      /\ After(f, 0) = bal
  BY CallIsTyped
<1>5. \A k \in 0 .. N : After(f, k)[a] \in Nat /\ After(f, k)[Funder] \in Nat
  BY <1>2, <1>4 DEF Holdings
<1>6. Amount >= 0 /\ After(f, i - 1)[Funder] >= Amount
  <2>1. Amount >= 0 /\ After(f, j - 1)[Funder] >= Amount
    BY <1>4 DEF CanTransfer
  <2>2. After(f, j - 1)[Funder] <= After(f, i - 1)[Funder]
    BY <1>3, FundsOnlyShrink
  <2> QED
    BY <1>2, <1>3, <1>5, <2>1, <2>2
<1>7. ~(Spent(After(f, i - 1), Funder, Amount)[a] + Amount <= lim[a])
  BY <1>4, <1>6 DEF CanTransfer
<1>8. lim[a] \in Nat /\ lim[Funder] \in Nat
  BY <1>2 DEF FaucetCall, Holdings
<1>9. After(f, i - 1) \in Holdings(Holder)
  BY <1>3, <1>4
<1>10. a # Funder
  <2> SUFFICES ASSUME a = Funder PROVE FALSE
    OBVIOUS
  <2> HIDE DEF a
  <2>1. Spent(After(f, i - 1), Funder, Amount)[Funder] = After(f, i - 1)[Funder] - Amount
    BY <1>2, <1>9 DEF Spent, Holdings
  <2>2. After(f, i - 1)[Funder] <= bal[Funder] /\ bal[Funder] \in Nat
    <3>1. After(f, i - 1)[Funder] <= After(f, 0)[Funder]
      BY <1>3, FundsOnlyShrink
    <3> QED
      BY <1>3, <1>4, <1>5, <3>1
  <2>3. After(f, i - 1)[Funder] \in Nat
    BY <1>3, <1>5
  <2> QED
    BY <1>2, <1>7, <1>8, <2>1, <2>2, <2>3
<1>11. Spent(After(f, i - 1), Funder, Amount)[a] = After(f, i - 1)[a]
  <2> HIDE DEF a
  <2> QED
    BY <1>2, <1>9, <1>10 DEF Spent, Holdings
<1>12. After(f, i - 1)[a] + Amount > lim[a]
  BY <1>2, <1>3, <1>5, <1>7, <1>8, <1>11
<1>13. a \in Payee
  BY <1>2, <1>10 DEF Payee
<1>14. After(f, N)[a] = After(f, i - 1)[a]
  <2>1. ~PaidBy(f, to, a, N)
    BY <1>1 DEF PaidBy, Distinct
  <2>2. ~PaidBy(f, to, a, i - 1)
    BY <1>1, <2>1, <1>3 DEF PaidBy
  <2>3. After(f, N)[a] = bal[a]
    BY <1>3, <1>13, <2>1, CallPays
  <2>4. After(f, i - 1)[a] = bal[a]
    BY <1>3, <1>13, <2>2, CallPays
  <2> QED
    BY <2>3, <2>4
<1> QED
  BY <1>12, <1>13, <1>14

-----------------------------------------------------------------------------
(* A step of the funded faucet is one of the faucet, or of its owner. *)

(* The faucet with a token is the faucet, by construction: all that         *)
(* FaucetProofs shows of it holds whatever the contract makes of the        *)
(* transactions.                                                            *)
LEMMA FundedIsFaucet == FundedSpec => Spec
<1>1. FundedInit => Init
  BY DEF FundedInit
<1>2. [FundedNext]_fundedVars => [Next]_vars
  BY DEF FundedNext, FaucetStep, TopUp, fundedVars
<1> QED
  BY <1>1, <1>2, PTL DEF FundedSpec, Spec

(* The ledger stays as it is, or grows by one transaction that was on its   *)
(* way there.                                                               *)
LEMMA LedgerGrows ==
    ASSUME IndInv, [Next]_vars
    PROVE  \/ applied' = applied
           \/ \E p \in Included :
                 /\ applied' = applied \union {p}
                 /\ p \notin applied
                 /\ Justified(p.tx)
                 /\ p.ok => Len(p.results) = Len(p.tx.receivers)
<1>1. ASSUME NEW t \in mempool, Include(t)
      PROVE  \E p \in Included :
                 /\ applied' = applied \union {p}
                 /\ p \notin applied
                 /\ Justified(p.tx)
                 /\ p.ok => Len(p.results) = Len(p.tx.receivers)
  <2>1. PICK p \in Included : AddsOne(t, p)
    BY <1>1, IncludeAddsOne DEF IndInv, TypeOK
  <2>2. Justified(t)
    BY DEF IndInv, NetworkInv
  <2>3. t.seq = seq + 1 /\ seq \in Nat
    BY <1>1 DEF Include, IndInv, TypeOK, LedgerTypeOK
  <2>4. \A q \in applied : q.tx.seq \in Nat /\ q.tx.seq <= seq
    BY DEF IndInv, TypeOK, LedgerTypeOK, Included, Tx, HistoryInv
  <2>5. p \notin applied
    BY <2>1, <2>3, <2>4 DEF AddsOne
  <2> QED
    BY <2>1, <2>2, <2>5 DEF AddsOne
<1>2. CASE Network
  BY <1>1, <1>2 DEF Network, Evict, OperatorTransaction
<1>3. CASE Startup \/ Crash \/ BatchPanic \/ batch_loop \/ UNCHANGED vars
  BY <1>3 DEF Startup, Crash, BatchPanic, batch_loop, Tick, GetAccount, Simulate, Submit,
     SubmitNotQueued, SubmitAnswerLost, PollSuccess, BatchError, Admit, ledgerVars, vars
<1>4. ASSUME NEW r \in Request, fund_handler(r) \/ Disconnect(r)
      PROVE  applied' = applied
  BY <1>4 DEF fund_handler, FundInvalid, FundQueueFull, FundAlreadyPending, FundEnqueue,
     FundResume, FundRejected, Disconnect, ledgerVars
<1> QED
  BY <1>2, <1>3, <1>4 DEF Next

-----------------------------------------------------------------------------
(* The inductive invariant that ties the token to the ledger. *)

TokenInv ==
    /\ balance \in Holdings(Holder)
    /\ limit \in Holdings(Holder)
    /\ limit[Funder] = MaxFunds
    /\ balance[Funder] <= MaxFunds

(* An address holds the amount once for every payment on the ledger. *)
PaymentsTo(a) == {p \in applied : Pays(p, a)}

BooksInv ==
    /\ IsFiniteSet(applied)
    /\ \A a \in Payee : balance[a] = Amount * Cardinality(PaymentsTo(a))

(* The receivers to, in this order, had these results: one that failed      *)
(* before one that was paid has no room for the amount in bal, and is not   *)
(* the funding account.                                                     *)
InOrder(to, results, bal) ==
    \A i, j \in DOMAIN to :
        i < j /\ ~results[i] /\ results[j]
            => to[i] \in Payee /\ bal[to[i]] + Amount > limit[to[i]]

OrderInv == \A p \in applied : p.ok => InOrder(p.tx.receivers, p.results, balance)

FundedInv == TokenInv /\ BooksInv /\ OrderInv

-----------------------------------------------------------------------------
(* What a transaction that succeeds does to the token. *)
Settles(p, new) ==
    /\ new \in Holdings(Holder)
    /\ new[Funder] <= balance[Funder]
    /\ \A a \in Payee :
          /\ new[a] = IF Pays(p, a) THEN balance[a] + Amount ELSE balance[a]
          /\ new[a] >= balance[a]
    /\ InOrder(p.tx.receivers, p.results, new)

LEMMA CallSettles ==
    ASSUME TokenInv, NEW p \in Included, Justified(p.tx), p.ok,
           p.results = Invoke(p.tx).results,
           NEW new, new = Invoke(p.tx).balance
    PROVE  Settles(p, new)
<1> DEFINE to == p.tx.receivers
<1>1. to \in Seq(Address) /\ Len(to) \in Nat /\ DOMAIN to = 1 .. Len(to)
  BY DEF Included, Tx
<1>2. Distinct(to)
  BY DEF Justified, Distinct
<1>3. Receivers(p.tx) = Paying(to)
  BY DEF Receivers, Paying
<1> HIDE DEF to
<1>4. Len(Paying(to)) = Len(to)
  BY <1>1, PayingIsTyped
<1>5. PICK f : /\ IsRun(f, balance, limit, Funder, Paying(to), Len(Paying(to)))
               /\ batch_transfer(balance, limit, Funder, Paying(to)) = f[Len(Paying(to))]
  BY <1>1, <1>4, CallRuns
<1>6. FaucetCall(f, balance, limit, to)
  BY <1>1, <1>4, <1>5 DEF FaucetCall, TokenInv
<1>7. new = After(f, Len(to)) /\ p.results = f[Len(to)].results
  BY <1>3, <1>4, <1>5 DEF Invoke, After
<1>8. \A i : p.results[i] = Result(f, to, i)
  BY <1>7 DEF Result
<1>9. Len(to) \in 0 .. Len(to)
  BY <1>1
<1>10. new \in Holdings(Holder)
  BY <1>6, <1>7, <1>9, CallIsTyped
<1>11. DOMAIN p.results = 1 .. Len(to)
  <2>1. f[Len(to)].results \in Seq(BOOLEAN) /\ Len(f[Len(to)].results) = Len(to)
    BY <1>6, CallIsTyped
  <2> QED
    BY <1>7, <2>1
<1>12. ASSUME NEW a \in Payee
       PROVE  /\ new[a] = IF Pays(p, a) THEN balance[a] + Amount ELSE balance[a]
              /\ new[a] >= balance[a]
  <2>1. Pays(p, a) <=> PaidBy(f, to, a, Len(to))
    BY <1>8, <1>11, Zenon DEF Pays, PaidBy, to
  <2>2. After(f, Len(to))[a] =
          IF PaidBy(f, to, a, Len(to)) THEN balance[a] + Amount ELSE balance[a]
    BY <1>2, <1>6, <1>9, CallPays
  <2>3. PaidBy(f, to, a, Len(to)) => Amount >= 0
    <3> SUFFICES ASSUME NEW i \in 1 .. Len(to), Result(f, to, i) PROVE Amount >= 0
      BY DEF PaidBy
    <3> QED
      BY <1>6, CallIsTyped DEF CanTransfer
  <2>4. balance[a] \in Nat /\ Amount \in Int
    BY TokenAssumption DEF TokenInv, Holdings, Holder, Payee
  <2>5. new[a] = IF Pays(p, a) THEN balance[a] + Amount ELSE balance[a]
    BY <1>7, <2>1, <2>2
  <2> QED
    BY <2>1, <2>3, <2>4, <2>5
<1>13. new[Funder] <= balance[Funder] /\ balance[Funder] <= limit[Funder]
  <2>1. After(f, Len(to))[Funder] <= After(f, 0)[Funder]
    <3>1. 0 \in 0 .. Len(to)
      BY <1>1
    <3> QED
      BY <1>6, <1>9, <3>1, FundsOnlyShrink
  <2>2. After(f, 0) = balance
    BY <1>6, CallIsTyped
  <2> QED
    BY <1>7, <2>1, <2>2 DEF TokenInv
<1>14. ASSUME NEW i \in DOMAIN to, NEW j \in DOMAIN to, i < j, ~p.results[i], p.results[j]
       PROVE  to[i] \in Payee /\ new[to[i]] + Amount > limit[to[i]]
  BY <1>1, <1>2, <1>6, <1>7, <1>8, <1>13, <1>14, FailedHasNoRoom
<1>15. InOrder(to, p.results, new)
  BY <1>14, Zenon DEF InOrder
<1> QED
  BY <1>10, <1>12, <1>13, <1>15, Zenon DEF Settles, to

LEMMA FundedInvInit == FundedInit => FundedInv
<1> SUFFICES ASSUME FundedInit PROVE FundedInv
  OBVIOUS
<1>1. applied = {}
  BY DEF FundedInit, Init, LedgerInit
<1>2. PICK room \in [Address -> Limits] :
        limit = [h \in Address \union {Funder} |-> IF h = Funder THEN MaxFunds ELSE room[h]]
  BY DEF FundedInit
<1>3. limit \in Holdings(Holder) /\ DOMAIN limit = Holder /\ limit[Funder] = MaxFunds
  BY <1>2, TokenAssumption DEF Holdings, Holder
<1>4. /\ balance \in Holdings(Holder)
      /\ balance[Funder] <= MaxFunds
      /\ \A a \in Payee : balance[a] = 0
  <2>1. balance = [h \in Holder |-> IF h = Funder THEN Funds ELSE 0]
    BY <1>3 DEF FundedInit
  <2>2. Funder \in Holder /\ Payee \subseteq Holder \ {Funder}
    BY DEF Holder, Payee
  <2>3. Funds \in Nat /\ Funds <= MaxFunds
    BY TokenAssumption
  <2> QED
    BY <2>1, <2>2, <2>3 DEF Holdings
<1>5. ASSUME NEW a \in Payee PROVE balance[a] = Amount * Cardinality(PaymentsTo(a))
  <2>1. PaymentsTo(a) = {}
    BY <1>1 DEF PaymentsTo
  <2>2. Cardinality(PaymentsTo(a)) = 0
    BY <2>1, FS_EmptySet
  <2> QED
    BY <1>4, <2>2, TokenAssumption
<1>6. IsFiniteSet(applied)
  BY <1>1, FS_EmptySet
<1> QED
  BY <1>1, <1>3, <1>4, <1>5, <1>6 DEF FundedInv, TokenInv, BooksInv, OrderInv

(* The order is kept as long as no payee loses anything. *)
LEMMA OrderIsKept ==
    ASSUME NEW new, TokenInv, OrderInv,
           \A a \in Payee : new[a] \in Nat /\ new[a] >= balance[a],
           NEW p \in applied, p.ok, p \in Included
    PROVE  InOrder(p.tx.receivers, p.results, new)
<1>1. InOrder(p.tx.receivers, p.results, balance)
  BY DEF OrderInv
<1>2. \A a \in Payee : balance[a] \in Nat /\ limit[a] \in Nat
  BY DEF TokenInv, Holdings, Holder, Payee
<1>3. Amount \in Int
  BY TokenAssumption
<1> DEFINE to == p.tx.receivers
<1> HIDE DEF to
<1>4. ASSUME NEW i, to[i] \in Payee, balance[to[i]] + Amount > limit[to[i]]
      PROVE  new[to[i]] + Amount > limit[to[i]]
  BY <1>2, <1>3, <1>4
<1> QED
  BY <1>1, <1>4, Zenon DEF InOrder, to

(* A step that includes no transaction moves nothing to a payee. *)
LEMMA NothingMoved ==
    ASSUME IndInv, FundedInv, TokenInv', applied' = applied, limit' = limit,
           \A a \in Payee : balance'[a] = balance[a]
    PROVE  FundedInv'
<1>1. \A a : PaymentsTo(a)' = PaymentsTo(a)
  BY DEF PaymentsTo, Pays
<1>2. BooksInv'
  BY <1>1 DEF FundedInv, BooksInv
<1>3. \A a \in Payee : balance'[a] \in Nat /\ balance'[a] >= balance[a]
  BY DEF FundedInv, TokenInv, Holdings, Holder, Payee
<1>4. ASSUME NEW p \in applied, p.ok PROVE InOrder(p.tx.receivers, p.results, balance')
  BY <1>3, <1>4, OrderIsKept DEF FundedInv, IndInv, TypeOK, LedgerTypeOK
<1>5. OrderInv'
  BY <1>4 DEF OrderInv, InOrder
<1> QED
  BY <1>2, <1>5 DEF FundedInv

(* A transaction that is included is one more payment to the addresses that *)
(* it pays.                                                                 *)
LEMMA PaymentsGrow ==
    ASSUME BooksInv, NEW p, p \notin applied, applied' = applied \union {p}
    PROVE  /\ IsFiniteSet(applied')
           /\ \A a : Cardinality(PaymentsTo(a)) \in Nat
           /\ \A a : Cardinality(PaymentsTo(a)') = IF Pays(p, a)
                                                   THEN Cardinality(PaymentsTo(a)) + 1
                                                   ELSE Cardinality(PaymentsTo(a))
<1>1. IsFiniteSet(applied')
  BY FS_AddElement DEF BooksInv
<1>2. ASSUME NEW a
      PROVE  /\ IsFiniteSet(PaymentsTo(a)) /\ Cardinality(PaymentsTo(a)) \in Nat
             /\ p \notin PaymentsTo(a)
  BY FS_Subset, FS_CardinalityType DEF BooksInv, PaymentsTo
<1>3. ASSUME NEW a, Pays(p, a)
      PROVE  Cardinality(PaymentsTo(a)') = Cardinality(PaymentsTo(a)) + 1
  <2>1. PaymentsTo(a)' = PaymentsTo(a) \union {p}
    BY <1>3 DEF PaymentsTo, Pays
  <2> QED
    BY <1>2, <2>1, FS_AddElement
<1>4. ASSUME NEW a, ~Pays(p, a)
      PROVE  PaymentsTo(a)' = PaymentsTo(a)
  BY <1>4 DEF PaymentsTo, Pays
<1> QED
  BY <1>1, <1>2, <1>3, <1>4

LEMMA PaymentStep ==
    ASSUME IndInv, FundedInv, limit' = limit,
           NEW p \in Included, Justified(p.tx), p \notin applied,
           applied' = applied \union {p},
           p.ok => p.results = Invoke(p.tx).results,
           balance' = IF p.ok THEN Invoke(p.tx).balance ELSE balance
    PROVE  FundedInv'
<1>1. /\ balance' \in Holdings(Holder)
      /\ balance'[Funder] <= balance[Funder]
      /\ \A a \in Payee :
            /\ balance'[a] = IF Pays(p, a) THEN balance[a] + Amount ELSE balance[a]
            /\ balance'[a] >= balance[a]
  <2>1. CASE p.ok
    BY <2>1, CallSettles DEF Settles, FundedInv
  <2>2. CASE ~p.ok
    BY <2>2 DEF Pays, FundedInv, TokenInv, Holdings, Holder, Payee
  <2> QED
    BY <2>1, <2>2
<1>2. p.ok => InOrder(p.tx.receivers, p.results, balance')
  BY CallSettles DEF Settles, FundedInv
<1>3. Amount \in Int /\ balance[Funder] \in Nat /\ balance'[Funder] \in Nat
  BY <1>1, TokenAssumption DEF FundedInv, TokenInv, Holdings, Holder
<1>4. TokenInv'
  BY <1>1, <1>3, TokenAssumption DEF FundedInv, TokenInv
<1>5. /\ IsFiniteSet(applied')
      /\ \A a : Cardinality(PaymentsTo(a)) \in Nat
      /\ \A a : Cardinality(PaymentsTo(a)') = IF Pays(p, a)
                                              THEN Cardinality(PaymentsTo(a)) + 1
                                              ELSE Cardinality(PaymentsTo(a))
  BY PaymentsGrow DEF FundedInv
<1>6. ASSUME NEW a \in Payee PROVE balance'[a] = Amount * Cardinality(PaymentsTo(a)')
  <2> DEFINE m == Cardinality(PaymentsTo(a))
  <2>1. balance[a] = Amount * m /\ m \in Nat
    BY <1>5 DEF FundedInv, BooksInv
  <2> HIDE DEF m
  <2>2. Amount * (m + 1) = Amount * m + Amount
    BY <1>3, <2>1
  <2>3. Cardinality(PaymentsTo(a)') = IF Pays(p, a) THEN m + 1 ELSE m
    BY <1>5 DEF m
  <2> QED
    BY <1>1, <2>1, <2>2, <2>3
<1>7. BooksInv'
  BY <1>5, <1>6 DEF BooksInv
<1>8. \A a \in Payee : balance'[a] \in Nat /\ balance'[a] >= balance[a]
  BY <1>1 DEF Holdings, Holder, Payee
<1>9. ASSUME NEW q \in applied', q.ok PROVE InOrder(q.tx.receivers, q.results, balance')
  <2>1. CASE q = p
    BY <1>2, <1>9, <2>1
  <2>2. CASE q \in applied
    BY <1>8, <1>9, <2>2, OrderIsKept DEF FundedInv, IndInv, TypeOK, LedgerTypeOK
  <2> QED
    BY <2>1, <2>2
<1>10. OrderInv'
  BY <1>9 DEF OrderInv, InOrder
<1> QED
  BY <1>4, <1>7, <1>10 DEF FundedInv

LEMMA FundedInvStep == IndInv /\ FundedInv /\ [FundedNext]_fundedVars => FundedInv'
<1> SUFFICES ASSUME IndInv, FundedInv, [FundedNext]_fundedVars PROVE FundedInv'
  OBVIOUS
<1>1. CASE TopUp
  <2>1. PICK n \in balance[Funder] + 1 .. MaxFunds : balance' = [balance EXCEPT ![Funder] = n]
    BY <1>1 DEF TopUp
  <2>2. Funder \in Holder /\ Payee \subseteq Holder \ {Funder} /\ balance \in [Holder -> Nat]
    BY DEF Holder, Payee, FundedInv, TokenInv, Holdings
  <2>3. n \in Nat /\ n <= MaxFunds
    BY <2>1, <2>2, TokenAssumption
  <2>4. limit' = limit /\ applied' = applied
    BY <1>1 DEF TopUp, vars, ledgerVars
  <2>5. TokenInv'
    BY <2>1, <2>2, <2>3, <2>4 DEF FundedInv, TokenInv, Holdings
  <2>6. \A a \in Payee : balance'[a] = balance[a]
    BY <2>1, <2>2
  <2> QED
    BY <2>4, <2>5, <2>6, NothingMoved
<1>2. CASE FaucetStep
  <2>1. /\ [Next]_vars /\ limit' = limit
        /\ \A p \in applied' \ applied : p.ok => p.results = Invoke(p.tx).results
        /\ balance' \in IF \E p \in applied' \ applied : p.ok
                        THEN {Invoke(p.tx).balance : p \in applied' \ applied}
                        ELSE {balance}
    BY <1>2 DEF FaucetStep
  <2>2. CASE applied' = applied
    <3>1. balance' = balance
      BY <2>1, <2>2
    <3> QED
      BY <2>1, <2>2, <3>1, NothingMoved DEF FundedInv, TokenInv
  <2>3. ASSUME NEW p \in Included, applied' = applied \union {p}, p \notin applied,
               Justified(p.tx)
        PROVE  FundedInv'
    <3>1. applied' \ applied = {p}
      BY <2>3
    <3>2. balance' = IF p.ok THEN Invoke(p.tx).balance ELSE balance
      BY <2>1, <3>1
    <3>3. p.ok => p.results = Invoke(p.tx).results
      BY <2>1, <3>1
    <3> QED
      BY <2>1, <2>3, <3>2, <3>3, PaymentStep
  <2> QED
    BY <2>1, <2>2, <2>3, LedgerGrows
<1>3. CASE UNCHANGED fundedVars
  <2>1. UNCHANGED <<applied, balance, limit>>
    BY <1>3 DEF fundedVars, vars, tokenVars
  <2> QED
    BY <2>1, NothingMoved DEF FundedInv, TokenInv
<1> QED
  BY <1>1, <1>2, <1>3 DEF FundedNext

(* The ledger and the token agree in every state. *)
THEOREM FundedInvariance == FundedSpec => [](IndInv /\ FundedInv)
<1>1. FundedSpec => []IndInv
  BY FundedIsFaucet, Invariance, PTL
<1> QED
  BY <1>1, FundedInvInit, FundedInvStep, PTL DEF FundedSpec

-----------------------------------------------------------------------------
(* The properties. *)

LEMMA FundsGoInOrder == IndInv /\ FundedInv => FirstComeFirstPaid
<1> SUFFICES ASSUME IndInv, FundedInv,
                    NEW r \in Request, NEW s \in Request,
                    reply[r] = transfer_failed, Succeeded(s), carriedBy[r] = carriedBy[s],
                    NEW i \in DOMAIN carriedBy[r].receivers,
                    NEW j \in DOMAIN carriedBy[r].receivers,
                    i < j, carriedBy[r].receivers[i] = addr(r),
                    carriedBy[r].receivers[j] = addr(s)
             PROVE  addr(r) # Funder /\ balance[addr(r)] + Amount > limit[addr(r)]
  BY Zenon DEF FirstComeFirstPaid
<1>1. PICK p \in applied :
        /\ p.tx = carriedBy[r] /\ p.ok /\ p.meta = "V3"
        /\ \E k \in DOMAIN p.tx.receivers : p.tx.receivers[k] = addr(r) /\ ~p.results[k]
  BY DEF IndInv, ReplyInv, SentInv
<1>2. PICK q \in applied :
        /\ q.tx = carriedBy[s] /\ q.ok
        /\ \E k \in DOMAIN q.tx.receivers :
              q.tx.receivers[k] = addr(s) /\ (q.meta = "V3" => q.results[k])
  BY DEF IndInv, ReplyInv, SentInv, Succeeded
<1>3. q = p
  BY <1>1, <1>2 DEF IndInv, HistoryInv
<1>4. \A m, n \in DOMAIN p.tx.receivers : p.tx.receivers[m] = p.tx.receivers[n] => m = n
  BY DEF IndInv, NetworkInv, Justified
<1>5. ~p.results[i] /\ p.results[j]
  BY <1>1, <1>2, <1>3, <1>4
<1>6. InOrder(p.tx.receivers, p.results, balance)
  BY <1>1 DEF FundedInv, OrderInv
<1> QED
  BY <1>1, <1>5, <1>6 DEF InOrder, Payee

(* When the funds run out within a batch, they go to those who asked first, *)
(* whatever the batch limit, the amount, the trustlines and the top-ups:    *)
(* the contract pays in the order of the queue.                             *)
THEOREM FirstComeFirstPaidHolds == FundedSpec => []FirstComeFirstPaid
<1> QED
  BY FundedInvariance, FundsGoInOrder, PTL

(* Each success that the faucet read from a meta and told to a client of an *)
(* address is a payment to that address of its own.                         *)
LEMMA SuccessesArePaid ==
    ASSUME IndInv, IsFiniteSet(applied), NEW a \in Address
    PROVE  Cardinality({r \in Request : addr(r) = a /\ SucceededAsRead(r)})
             <= Cardinality(PaymentsTo(a))
<1> DEFINE S == {r \in Request : addr(r) = a /\ SucceededAsRead(r)}
           P == PaymentsTo(a)
<1>1. ASSUME NEW r \in S
      PROVE  /\ \E p \in P : p.tx = chan[r].hash
             /\ chan[r].status = 200
  <2>1. reply[r] = chan[r] /\ chan[r].status = 200
    BY DEF SucceededAsRead, Succeeded, IndInv, ReplyInv
  <2>2. PICK p \in applied : p.tx = chan[r].hash /\ p.meta = "V3"
    BY <2>1 DEF SucceededAsRead
  <2>3. PICK q \in applied :
          /\ q.tx = chan[r].hash /\ q.ok
          /\ \E i \in DOMAIN q.tx.receivers :
                q.tx.receivers[i] = a /\ (q.meta = "V3" => q.results[i])
    BY <2>1 DEF IndInv, SentInv
  <2>4. q = p
    BY <2>2, <2>3 DEF IndInv, HistoryInv
  <2>5. q.tx.receivers \in Seq(Address) /\ q.results \in Seq(BOOLEAN)
    BY DEF IndInv, TypeOK, LedgerTypeOK, Included, Tx
  <2>6. DOMAIN q.results = DOMAIN q.tx.receivers
    BY <2>3, <2>5 DEF IndInv, HistoryInv
  <2>7. Pays(q, a)
    BY <2>2, <2>3, <2>4, <2>6 DEF Pays
  <2> QED
    BY <2>1, <2>3, <2>7 DEF PaymentsTo
<1> DEFINE f == [r \in S |-> CHOOSE p \in P : p.tx = chan[r].hash]
<1>2. \A r \in S : f[r] \in P /\ f[r].tx = chan[r].hash
  BY <1>1
<1>3. f \in Injection(S, P)
  <2>1. f \in [S -> P]
    BY <1>2
  <2>2. ASSUME NEW r \in S, NEW s \in S, f[r] = f[s] PROVE r = s
    <3>1. chan[r].hash = chan[s].hash
      BY <1>2, <2>2
    <3>2. SameAddress(r, s) /\ chan[r].status = 200 /\ chan[s].status = 200
      BY <1>1 DEF SameAddress
    <3> QED
      BY <3>1, <3>2 DEF IndInv, FreshInv
  <2> HIDE DEF f
  <2> QED
    BY <2>1, <2>2 DEF Injection, IsInjective
<1>4. IsFiniteSet(P)
  BY FS_Subset DEF PaymentsTo
<1>5. Cardinality(S) <= Cardinality(P)
  <2> HIDE DEF S, P, f
  <2> QED
    BY <1>3, <1>4, FS_Injection
<1> QED
  BY <1>5

LEMMA BooksAddUp == IndInv /\ FundedInv /\ PaymentsAreRequested => BalancesMatchAnswers
<1> SUFFICES ASSUME IndInv, FundedInv, PaymentsAreRequested, NEW a \in Address \ {Funder}
             PROVE  \E k \in Cardinality({r \in Request : addr(r) = a /\ SucceededAsRead(r)})
                          .. Cardinality({r \in Request : addr(r) = a /\ carriedBy[r] # NoTx}) :
                       balance[a] = Amount * k
  BY Zenon DEF BalancesMatchAnswers
<1> DEFINE S == {r \in Request : addr(r) = a /\ SucceededAsRead(r)}
           R == {r \in Request : addr(r) = a /\ carriedBy[r] # NoTx}
           k == Cardinality(PaymentsTo(a))
<1>1. IsFiniteSet(applied) /\ a \in Address /\ balance[a] = Amount * k
  BY DEF FundedInv, BooksInv, Payee
<1>2. Cardinality(S) <= k
  BY <1>1, SuccessesArePaid
<1>3. k <= Cardinality(R)
  BY <1>1 DEF PaymentsAreRequested, PaymentsTo
<1>4. Cardinality(S) \in Nat /\ Cardinality(R) \in Nat
  BY RequestAssumption, FS_Subset, FS_CardinalityType
<1>5. k \in Nat
  BY <1>1, FS_Subset, FS_CardinalityType DEF PaymentsTo
<1> HIDE DEF S, R, k
<1>6. k \in Cardinality(S) .. Cardinality(R)
  BY <1>2, <1>3, <1>4, <1>5
<1> QED
  BY <1>1, <1>6 DEF S, R

(* What the clients are told adds up to what the token says, for any amount *)
(* (a negative one included), any trustlines and any form of meta: nobody   *)
(* but the funding account itself holds anything else than the amount,      *)
(* once at least for every success that was read and once at most for every *)
(* request put into a transaction.                                          *)
THEOREM BalancesMatchAnswersHolds == FundedSpec => []BalancesMatchAnswers
<1> QED
  BY FundedInvariance, FundedIsFaucet, PaymentsAreRequestedHolds, BooksAddUp, PTL

=============================================================================
