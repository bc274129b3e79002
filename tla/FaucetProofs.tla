---------------------------- MODULE FaucetProofs ----------------------------
(***************************************************************************)
(* The safety properties of Faucet, and its implementation of              *)
(* FundingService, proved for every set of requests, every batch limit and *)
(* every behaviour of the network.                                         *)
(***************************************************************************)
EXTENDS Faucet, FiniteSetTheorems, TLAPS

-----------------------------------------------------------------------------
(* The inductive invariant. *)

(* What the checks of fund_handler and enqueue make of a list of entries.  *)
WellFormed(s) ==
    /\ Len(s) <= MaxSize
    /\ \A i \in DOMAIN s : /\ s[i].address = addr(s[i].responder)
                           /\ s[i].address \in Address
    /\ \A i, j \in DOMAIN s : s[i].address = s[j].address => i = j

ListsInv == WellFormed(entries) /\ WellFormed(batch)

(* A process that is down has lost its queue. *)
LoopInv == proc = "down" => entries = << >>

(* A waiting handler was sent its answer, or its entry is still somewhere:  *)
(* in the queue, or in a batch the task is working on.  It does not say     *)
(* that the answer comes: nothing drains the queue of a task that panicked. *)
WaitInv ==
    \A r \in Request :
        phase[r] = "waiting" =>
            /\ proc = "serving"
            /\ \/ chan[r] # Empty
               \/ Holds(entries, r)
               \/ Holds(batch, r) /\ loop \in Working

(* A request sits in the queue, in the batch, or nowhere, and what has      *)
(* happened to it so far fits the place.                                    *)
PlaceInv ==
    \A r \in Request :
        /\ phase[r] = "new" \/ Holds(entries, r) =>
              chan[r] = Empty /\ carriedBy[r] = NoTx /\ ~Holds(batch, r)
        /\ Holds(entries, r) => phase[r] # "new"
        /\ Holds(batch, r) =>
              /\ chan[r] = Empty
              /\ carriedBy[r] = IF loop \in {"submit", "poll"} THEN tx ELSE NoTx

(* The transaction under construction pays the batch, entry by entry. *)
BuildingInv ==
    loop \in {"simulate", "submit", "poll"} =>
        /\ tx.seq # 0
        /\ Len(tx.receivers) = Len(batch)
        /\ \A i \in DOMAIN batch : tx.receivers[i] = batch[i].address

(* Whatever is on the network pays different addresses, each for a request *)
(* that was put into that very transaction.                                *)
Justified(t) ==
    /\ t.seq # 0
    /\ Len(t.receivers) \in 1 .. MaxSize
    /\ \A i, j \in DOMAIN t.receivers : t.receivers[i] = t.receivers[j] => i = j
    /\ \A i \in DOMAIN t.receivers :
          \E r \in Request : addr(r) = t.receivers[i] /\ carriedBy[r] = t

NetworkInv ==
    /\ \A t \in mempool : Justified(t)
    /\ \A p \in applied : Justified(p.tx)

(* The sequence number orders what was included. *)
HistoryInv ==
    /\ \A p \in applied : /\ p.tx.seq <= seq
                          /\ p.ok => Len(p.results) = Len(p.tx.receivers)
    /\ \A p, q \in applied : p.tx.seq = q.tx.seq => p = q

(* What was sent to a handler is true of the ledger. *)
SentInv ==
    \A r \in Request :
        /\ chan[r].status = 200 =>
              chan[r].hash = carriedBy[r] /\ \E p \in applied :
                  /\ p.tx = carriedBy[r]
                  /\ p.ok
                  /\ \E i \in DOMAIN p.tx.receivers :
                        /\ p.tx.receivers[i] = addr(r)
                        /\ p.meta = "V3" => p.results[i]
        /\ chan[r] = transfer_failed =>
              \E p \in applied :
                  /\ p.tx = carriedBy[r]
                  /\ p.ok
                  /\ p.meta = "V3"
                  /\ \E i \in DOMAIN p.tx.receivers :
                        /\ p.tx.receivers[i] = addr(r)
                        /\ ~p.results[i]

(* A reply about a transaction is the one the batch task sent. *)
ReplyInv ==
    \A r \in Request :
        reply[r].status = 200 \/ reply[r] = transfer_failed => reply[r] = chan[r]

(* A transaction under construction is later than every success reported,  *)
(* and a payment is reported once to the clients of an address.            *)
FreshInv ==
    /\ loop \in {"simulate", "submit", "poll"} =>
          \A r \in Request : chan[r].status = 200 => chan[r].hash.seq < tx.seq
    /\ \A r, s \in Request :
          /\ r # s
          /\ SameAddress(r, s)
          /\ chan[r].status = 200
          /\ chan[s].status = 200
          => chan[r].hash # chan[s].hash

IndInv ==
    /\ TypeOK
    /\ ListsInv
    /\ LoopInv
    /\ WaitInv
    /\ PlaceInv
    /\ BuildingInv
    /\ NetworkInv
    /\ HistoryInv
    /\ SentInv
    /\ ReplyInv
    /\ FreshInv

-----------------------------------------------------------------------------
(* Type correctness. *)

(* The record a step sends or replies with is a reply. *)
LEMMA RepliesAreTyped ==
    /\ NoTx \in Tx
    /\ {missing_addr, invalid_address, already_pending, queue_full, internal,
        transfer_failed, Empty, RecvError} \subseteq Reply
    /\ \A t \in Tx : SuccessResponse(t) \in Reply
<1>1. NoTx \in Tx
  BY DEF NoTx, Tx
<1>2. ASSUME NEW status \in Nat, NEW type \in ReplyType, NEW t \in Tx
      PROVE  [status |-> status, type |-> type, hash |-> t] \in Reply
  BY DEF Reply
<1>3. \A status \in Nat : \A type \in ReplyType : ProblemDetail(status, type) \in Reply
  BY <1>1, <1>2 DEF ProblemDetail
<1>4. /\ missing_addr \in Reply
      /\ invalid_address \in Reply /\ already_pending \in Reply
      /\ queue_full \in Reply /\ internal \in Reply
      /\ transfer_failed \in Reply /\ Empty \in Reply /\ RecvError \in Reply
  BY <1>3 DEF missing_addr, invalid_address, already_pending, queue_full,
     internal, transfer_failed, Empty, RecvError, ReplyType
<1>5. \A t \in Tx : SuccessResponse(t) \in Reply
  BY <1>2 DEF SuccessResponse, ReplyType
<1> QED
  BY <1>1, <1>4, <1>5

(* A function on an initial segment of the naturals is a sequence. *)
LEMMA FunctionIsSeq ==
    ASSUME NEW S, NEW n \in Nat, NEW f \in [1 .. n -> S]
    PROVE  f \in Seq(S) /\ Len(f) = n
OBVIOUS

(* A slot of a list that holds a request is one of its positions. *)
LEMMA SlotIsTyped ==
    ASSUME NEW r \in Request, Holds(batch, r), batch \in Seq(PendingEntry)
    PROVE  /\ SlotOf(r) \in 1 .. Len(batch)
           /\ batch[SlotOf(r)].responder = r
BY DEF SlotOf, Holds

(* Sending replies keeps the channels typed. *)
LEMMA SendAllIsTyped ==
    ASSUME TypeOK, NEW values \in [1 .. Len(batch) -> Reply], SendAll(values)
    PROVE  /\ chan' \in [Request -> Reply]
           /\ batch' \in Seq(PendingEntry)
           /\ tx' \in Tx
<1>1. ASSUME NEW r \in Request, Holds(batch, r)
      PROVE  values[SlotOf(r)] \in Reply
  BY <1>1, SlotIsTyped DEF TypeOK
<1>2. chan' \in [Request -> Reply]
  BY <1>1 DEF TypeOK, SendAll
<1> QED
  BY <1>2, RepliesAreTyped DEF SendAll

(* So does answering a whole batch with an error. *)
LEMMA ErrorIsTyped ==
    ASSUME TypeOK, NEW v \in {internal, RecvError},
           SendAll([i \in 1 .. Len(batch) |-> v])
    PROVE  /\ chan' \in [Request -> Reply]
           /\ batch' \in Seq(PendingEntry)
           /\ tx' \in Tx
<1>1. v \in Reply
  BY RepliesAreTyped
<1> DEFINE values == [i \in 1 .. Len(batch) |-> v]
<1>2. values \in [1 .. Len(batch) -> Reply] /\ SendAll(values)
  BY <1>1
<1> HIDE DEF values
<1> QED
  BY <1>2, SendAllIsTyped

(* The ledger grows by one entry, for t. *)
AddsOne(t, p) ==
    /\ applied' = applied \union {p}
    /\ p.tx = t
    /\ p.ok => Len(p.results) = Len(t.receivers)

(* Including a transaction adds one entry to the ledger, with one result    *)
(* per receiver if it succeeded.                                            *)
LEMMA IncludeAddsOne ==
    ASSUME LedgerTypeOK, NEW t \in mempool, Include(t)
    PROVE  \E p \in Included : AddsOne(t, p)
<1>1. t \in Tx /\ Len(t.receivers) \in Nat
  BY DEF LedgerTypeOK, Tx
<1>2. PICK m \in MetaForms :
        \/ \E results \in [1 .. Len(t.receivers) -> BOOLEAN] :
             applied' = applied \union
               {[tx |-> t, ok |-> TRUE, results |-> results, meta |-> m]}
        \/ applied' = applied \union
             {[tx |-> t, ok |-> FALSE, results |-> << >>, meta |-> m]}
  BY Zenon DEF Include
<1>3. ASSUME NEW results \in [1 .. Len(t.receivers) -> BOOLEAN],
             applied' = applied \union
               {[tx |-> t, ok |-> TRUE, results |-> results, meta |-> m]}
      PROVE  \E p \in Included : AddsOne(t, p)
  <2>1. results \in Seq(BOOLEAN) /\ Len(results) = Len(t.receivers)
    BY <1>1, FunctionIsSeq, Zenon
  <2> DEFINE p == [tx |-> t, ok |-> TRUE, results |-> results, meta |-> m]
  <2>2. p \in Included
    BY <1>1, <2>1, Zenon DEF Included
  <2>3. p.tx = t /\ p.results = results
    OBVIOUS
  <2> QED
    BY <1>3, <2>1, <2>2, <2>3, Zenon DEF AddsOne
<1>4. ASSUME applied' = applied \union
               {[tx |-> t, ok |-> FALSE, results |-> << >>, meta |-> m]}
      PROVE  \E p \in Included : AddsOne(t, p)
  <2> DEFINE p == [tx |-> t, ok |-> FALSE, results |-> << >>, meta |-> m]
  <2>1. << >> \in Seq(BOOLEAN)
    OBVIOUS
  <2>2. p \in Included
    BY <1>1, <2>1, Zenon DEF Included
  <2>3. p.tx = t /\ p.ok = FALSE
    OBVIOUS
  <2> QED
    BY <1>4, <2>2, <2>3, Zenon DEF AddsOne
<1> QED
  BY <1>2, <1>3, <1>4, Zenon

LEMMA NetworkIsTyped == LedgerTypeOK /\ Network => LedgerTypeOK'
<1> SUFFICES ASSUME LedgerTypeOK, Network PROVE LedgerTypeOK'
  OBVIOUS
<1>1. ASSUME NEW t \in mempool, Include(t) PROVE LedgerTypeOK'
  <2>1. PICK p \in Included : AddsOne(t, p)
    BY <1>1, IncludeAddsOne
  <2>2. seq' \in Nat /\ mempool' \subseteq Tx
    BY <1>1 DEF Include, StillValid, Tx, LedgerTypeOK
  <2> QED
    BY <2>1, <2>2 DEF LedgerTypeOK, AddsOne
<1>2. ASSUME NEW t \in mempool, Evict(t) PROVE LedgerTypeOK'
  BY <1>2 DEF Evict, LedgerTypeOK
<1>3. ASSUME OperatorTransaction PROVE LedgerTypeOK'
  BY <1>3 DEF OperatorTransaction, StillValid, LedgerTypeOK
<1> QED
  BY <1>1, <1>2, <1>3 DEF Network

LEMMA TypeInit == Init => TypeOK
BY RepliesAreTyped
   DEF Init, QueueInit, LedgerInit, TypeOK, QueueTypeOK, LedgerTypeOK, Working

LEMMA TypeStep == TypeOK /\ [Next]_vars => TypeOK'
<1> SUFFICES ASSUME TypeOK, [Next]_vars PROVE TypeOK'
  OBVIOUS
<1> USE DEF TypeOK, QueueTypeOK, LedgerTypeOK
<1>1. CASE Startup
  BY <1>1 DEF Startup, ledgerVars, apiVars, Working
<1>2. CASE Crash
  BY <1>2, RepliesAreTyped DEF Crash, ledgerVars, Working
<1>3. ASSUME NEW r \in Request, FundRejected(r) \/ FundInvalid(r) PROVE TypeOK'
  BY <1>3, RepliesAreTyped
     DEF FundRejected, FundInvalid, Answer, ledgerVars, batchVars
<1>4. ASSUME NEW r \in Request, FundQueueFull(r) PROVE TypeOK'
  BY <1>4, RepliesAreTyped
     DEF FundQueueFull, Answer, ledgerVars, batchVars
<1>5. ASSUME NEW r \in Request, FundAlreadyPending(r) PROVE TypeOK'
  BY <1>5, RepliesAreTyped
     DEF FundAlreadyPending, Answer, ledgerVars, batchVars
<1>6. ASSUME NEW r \in Request, FundEnqueue(r) PROVE TypeOK'
  <2>1. [address |-> addr(r), responder |-> r] \in PendingEntry
    BY QueryAssumption DEF PendingEntry, addr, trim, RawAddr
  <2> QED
    BY <1>6, <2>1 DEF FundEnqueue, push, ledgerVars, batchVars
<1>7. ASSUME NEW r \in Request, FundResume(r) PROVE TypeOK'
  BY <1>7, RepliesAreTyped
     DEF FundResume, Answer, ledgerVars, batchVars
<1>8. ASSUME NEW r \in Request, Disconnect(r) PROVE TypeOK'
  BY <1>8 DEF Disconnect, ledgerVars, batchVars
<1>9. CASE Tick
  BY <1>9 DEF Tick, drain, ledgerVars, apiVars, Working
<1>10. CASE GetAccount
  <2>1. [i \in 1 .. Len(batch) |-> batch[i].address] \in Seq(Address)
    BY <1>10 DEF GetAccount, g_address_to_sc_address_succeeds
  <2> QED
    BY <1>10, <2>1 DEF GetAccount, Tx, ledgerVars, apiVars, Working
<1>11. CASE Simulate
  <2>1. tx' \in Tx
    BY <1>11, ResourceAssumption DEF Simulate, Tx
  <2> QED
    BY <1>11, <2>1 DEF Simulate, ledgerVars, apiVars, Working
<1>12. CASE Submit
  BY <1>12 DEF Submit, Admit, apiVars, Working
<1>13. CASE SubmitNotQueued
  BY <1>13 DEF SubmitNotQueued, ledgerVars, apiVars, Working
<1>14. CASE SubmitAnswerLost
  <2>1. batch' = << >> /\ loop' = "tick" /\ loop = "submit" /\ UNCHANGED proc
    BY <1>14 DEF SubmitAnswerLost, AnswerError, SendAll
  <2> QED
    BY <1>14, <2>1, ErrorIsTyped DEF SubmitAnswerLost, AnswerError, Admit, apiVars, Working
<1>15. CASE PollSuccess
  <2>1. PICK p \in applied :
          /\ p.tx = tx
          /\ SendAll([i \in 1 .. Len(batch) |->
                Outcome(p, parse_results_from_meta(p, Len(batch)), i)])
    BY <1>15 DEF PollSuccess
  <2>2. [i \in 1 .. Len(batch) |->
           Outcome(p, parse_results_from_meta(p, Len(batch)), i)]
              \in [1 .. Len(batch) -> Reply]
    BY <2>1, RepliesAreTyped DEF Outcome
  <2> QED
    <3>1. chan' \in [Request -> Reply] /\ batch' \in Seq(PendingEntry) /\ tx' \in Tx
      BY <2>1, <2>2, SendAllIsTyped
    <3>2. batch' = << >> /\ loop' = "tick" /\ loop = "poll"
      BY <1>15, <2>1 DEF PollSuccess, SendAll
    <3> QED
      BY <1>15, <3>1, <3>2 DEF PollSuccess, ledgerVars, apiVars, Working
<1>16. CASE BatchError
  <2>1. batch' = << >> /\ loop' = "tick" /\ loop \in Working /\ UNCHANGED proc
    BY <1>16 DEF BatchError, AnswerError, SendAll
  <2> QED
    BY <1>16, <2>1, ErrorIsTyped
       DEF BatchError, AnswerError, ledgerVars, apiVars, Working
<1>17. CASE BatchPanic
  <2>1. batch' = << >> /\ loop' = "dead" /\ loop \in Working /\ UNCHANGED proc
    BY <1>17 DEF BatchPanic, SendAll, ledgerVars
  <2> QED
    BY <1>17, <2>1, ErrorIsTyped
       DEF BatchPanic, ledgerVars, apiVars, Working
<1>18. CASE Network
  BY <1>18, NetworkIsTyped DEF Network, apiVars, batchVars
<1>19. CASE UNCHANGED vars
  BY <1>19 DEF vars
<1> QED
  BY <1>1, <1>2, <1>3, <1>4, <1>5, <1>6, <1>7, <1>8, <1>9, <1>10, <1>11,
     <1>12, <1>13, <1>14, <1>15, <1>16, <1>17, <1>18, <1>19
     DEF Next, fund_handler, batch_loop

(* Every state of the service is well typed: in particular only well-formed *)
(* addresses ever reach a transaction, and every reply is a response of     *)
(* queue.rs or error.rs.                                                    *)
THEOREM TypeCorrect == Spec => []TypeOK
<1> QED
  BY TypeInit, TypeStep, PTL DEF Spec

-----------------------------------------------------------------------------
(* The inductive invariant is preserved, action by action. *)

LEMMA EmptyIsWellFormed == WellFormed(<< >>)
BY MaxSizeAssumption DEF WellFormed

(* The empty list holds no request; an append adds one. *)
LEMMA EmptyHoldsNothing == \A r : ~Holds(<< >>, r)
BY DEF Holds

LEMMA AppendHolds ==
    ASSUME NEW s \in Seq(PendingEntry), NEW e \in PendingEntry, NEW r
    PROVE  Holds(Append(s, e), r) <=> Holds(s, r) \/ e.responder = r
<1>1. /\ DOMAIN Append(s, e) = 1 .. Len(s) + 1
      /\ DOMAIN s = 1 .. Len(s)
      /\ Append(s, e)[Len(s) + 1] = e
      /\ \A i \in 1 .. Len(s) : Append(s, e)[i] = s[i]
      /\ Len(s) \in Nat
  OBVIOUS
<1> QED
  BY <1>1 DEF Holds

LEMMA InitIndInv == Init => IndInv
<1> SUFFICES ASSUME Init PROVE IndInv
  OBVIOUS
<1>1. TypeOK
  BY TypeInit
<1>2. ListsInv
  <2>1. WellFormed(<< >>)
    BY EmptyIsWellFormed
  <2> QED
    BY <2>1 DEF Init, QueueInit, ListsInv
<1>3. LoopInv
  BY DEF Init, QueueInit, LoopInv, Working
<1>4. WaitInv
  BY DEF Init, WaitInv
<1>5. PlaceInv
  <2>1. \A r \in Request : /\ ~Holds(entries, r) /\ ~Holds(batch, r)
                           /\ chan[r] = Empty /\ carriedBy[r] = NoTx
    BY EmptyHoldsNothing DEF Init, QueueInit
  <2> QED
    BY <2>1 DEF PlaceInv
<1>6. BuildingInv /\ NetworkInv /\ HistoryInv
  BY DEF Init, LedgerInit, BuildingInv, NetworkInv, HistoryInv
<1>7. \A r \in Request : /\ chan[r].status = 0 /\ chan[r] # transfer_failed
                         /\ reply[r].status = 0 /\ reply[r] # transfer_failed
  BY DEF Init, Empty, ProblemDetail, transfer_failed
<1>8. SentInv /\ ReplyInv /\ FreshInv
  BY <1>7 DEF SentInv, ReplyInv, FreshInv, Init
<1> QED
  BY <1>1, <1>2, <1>3, <1>4, <1>5, <1>6, <1>8 DEF IndInv

(* A handler answers its client, either before it queued anything or with   *)
(* what the batch task sent.                                                *)
LEMMA AnswerStep ==
    ASSUME IndInv, TypeOK', NEW r \in Request, NEW value \in Reply,
           phase[r] \in {"new", "waiting"},
           value.status = 200 \/ value = transfer_failed => value = chan[r],
           Answer(r, value),
           UNCHANGED <<entries, ledgerVars, proc, chan, batchVars>>
    PROVE  IndInv'
<1> USE DEF ledgerVars, batchVars
<1>1. /\ phase' = [phase EXCEPT ![r] = "answered"]
      /\ reply' = [reply EXCEPT ![r] = value]
  BY DEF Answer
<1>2. ListsInv' /\ LoopInv'
  BY DEF IndInv, ListsInv, LoopInv
<1>3. WaitInv'
  BY <1>1 DEF IndInv, TypeOK, WaitInv
<1>4. PlaceInv'
  BY <1>1 DEF IndInv, TypeOK, PlaceInv
<1>5. BuildingInv' /\ HistoryInv'
  BY DEF IndInv, BuildingInv, HistoryInv
<1>6. NetworkInv'
  BY DEF IndInv, NetworkInv, Justified
<1>7. SentInv' /\ FreshInv'
  BY DEF IndInv, SentInv, FreshInv
<1>8. ReplyInv'
  BY <1>1 DEF IndInv, TypeOK, ReplyInv
<1> QED
  BY <1>2, <1>3, <1>4, <1>5, <1>6, <1>7, <1>8 DEF IndInv

(* The ways fund_handler answers. *)
LEMMA HandlerStep ==
    ASSUME IndInv, TypeOK', NEW r \in Request,
           \/ FundRejected(r) \/ FundInvalid(r) \/ FundQueueFull(r)
           \/ FundAlreadyPending(r) \/ FundResume(r)
    PROVE  IndInv'
<1> USE DEF Arrives
<1>1. /\ missing_addr.status # 200 /\ missing_addr # transfer_failed
      /\ invalid_address.status # 200 /\ invalid_address # transfer_failed
      /\ queue_full.status # 200 /\ queue_full # transfer_failed
      /\ already_pending.status # 200 /\ already_pending # transfer_failed
      /\ internal.status # 200 /\ internal # transfer_failed
  BY DEF missing_addr, invalid_address, queue_full, already_pending, internal,
     transfer_failed, ProblemDetail
<1>0. CASE FundRejected(r)
  BY <1>1, <1>0, RepliesAreTyped, AnswerStep DEF FundRejected
<1>2. CASE FundInvalid(r)
  BY <1>1, <1>2, RepliesAreTyped, AnswerStep DEF FundInvalid
<1>3. CASE FundQueueFull(r)
  BY <1>1, <1>3, RepliesAreTyped, AnswerStep DEF FundQueueFull
<1>4. CASE FundAlreadyPending(r)
  BY <1>1, <1>4, RepliesAreTyped, AnswerStep DEF FundAlreadyPending
<1>5. CASE FundResume(r)
  BY <1>1, <1>5, RepliesAreTyped, AnswerStep DEF FundResume, IndInv, TypeOK
<1> QED
  BY <1>0, <1>2, <1>3, <1>4, <1>5

(* Queueing a request: the capacity check leaves room for it, and the       *)
(* duplicate check makes its address new to the queue.                      *)
LEMMA EnqueueStep ==
    ASSUME IndInv, TypeOK', NEW r \in Request, FundEnqueue(r)
    PROVE  IndInv'
<1> USE DEF ledgerVars, batchVars
<1> DEFINE e == [address |-> addr(r), responder |-> r]
<1>1. /\ entries' = Append(entries, e)
      /\ phase' = [phase EXCEPT ![r] = "waiting"]
      /\ phase[r] = "new" /\ proc = "serving"
      /\ UNCHANGED <<seq, mempool, applied, proc, chan, reply, loop, batch,
                     tx, carriedBy>>
  BY DEF FundEnqueue, push, Arrives
<1>2. /\ entries \in Seq(PendingEntry)
      /\ e \in PendingEntry
      /\ e.address = addr(r) /\ e.responder = r
  BY QueryAssumption
     DEF IndInv, TypeOK, QueueTypeOK, PendingEntry, addr, trim, RawAddr
<1>3. \A q \in Request : Holds(entries', q) <=> Holds(entries, q) \/ q = r
  BY <1>1, <1>2, AppendHolds
<1>4. WellFormed(entries')
  <2>1. /\ Len(entries) < MaxSize
        /\ addr(r) \in Address
        /\ \A i \in DOMAIN entries : entries[i].address # addr(r)
    BY <1>2, MaxSizeAssumption
       DEF FundEnqueue, QueueIsFull, AlreadyPending, IsPublicKey
  <2>2. /\ Len(entries') = Len(entries) + 1
        /\ DOMAIN entries' = 1 .. Len(entries) + 1
        /\ DOMAIN entries = 1 .. Len(entries)
        /\ entries'[Len(entries) + 1] = e
        /\ \A i \in 1 .. Len(entries) : entries'[i] = entries[i]
        /\ Len(entries) \in Nat
    BY <1>1, <1>2
  <2>3. WellFormed(entries)
    BY DEF IndInv, ListsInv
  <2> HIDE DEF e
  <2> QED
    BY <1>2, <2>1, <2>2, <2>3, MaxSizeAssumption DEF WellFormed
<1> HIDE DEF e
<1>5. ListsInv'
  BY <1>1, <1>4 DEF IndInv, ListsInv
<1>6. LoopInv'
  BY <1>1 DEF IndInv, LoopInv
<1>7. WaitInv'
  BY <1>1, <1>3 DEF IndInv, TypeOK, WaitInv
<1>8. PlaceInv'
  BY <1>1, <1>3 DEF IndInv, TypeOK, PlaceInv
<1>9. BuildingInv' /\ HistoryInv'
  BY <1>1 DEF IndInv, BuildingInv, HistoryInv
<1>10. NetworkInv'
  BY <1>1 DEF IndInv, NetworkInv, Justified
<1>11. SentInv' /\ FreshInv' /\ ReplyInv'
  BY <1>1 DEF IndInv, SentInv, FreshInv, ReplyInv
<1> QED
  BY <1>5, <1>6, <1>7, <1>8, <1>9, <1>10, <1>11 DEF IndInv

(* A client hangs up, or the process starts. *)
LEMMA DisconnectStep ==
    ASSUME IndInv, TypeOK', NEW r \in Request, Disconnect(r)
    PROVE  IndInv'
<1>1. /\ phase' = [phase EXCEPT ![r] = "gone"]
      /\ phase[r] = "waiting"
      /\ UNCHANGED <<entries, seq, mempool, applied, proc, chan, reply, loop,
                     batch, tx, carriedBy>>
  BY DEF Disconnect, ledgerVars, batchVars
<1>2. ListsInv' /\ LoopInv'
  BY <1>1 DEF IndInv, ListsInv, LoopInv
<1>3. WaitInv'
  BY <1>1 DEF IndInv, TypeOK, WaitInv
<1>4. PlaceInv'
  BY <1>1 DEF IndInv, TypeOK, PlaceInv
<1>5. BuildingInv' /\ HistoryInv'
  BY <1>1 DEF IndInv, BuildingInv, HistoryInv
<1>6. NetworkInv'
  BY <1>1 DEF IndInv, NetworkInv, Justified
<1>7. SentInv' /\ FreshInv' /\ ReplyInv'
  BY <1>1 DEF IndInv, SentInv, FreshInv, ReplyInv
<1> QED
  BY <1>2, <1>3, <1>4, <1>5, <1>6, <1>7 DEF IndInv

LEMMA StartupStep ==
    ASSUME IndInv, TypeOK', Startup
    PROVE  IndInv'
<1>1. /\ proc = "down" /\ proc' = "serving" /\ loop' = "tick"
      /\ UNCHANGED <<entries, seq, mempool, applied, phase, chan, reply,
                     batch, tx, carriedBy>>
  BY DEF Startup, ledgerVars, apiVars
<1>2. loop = "off" /\ batch = << >>
  BY <1>1 DEF IndInv, TypeOK, Working
<1>3. ListsInv' /\ LoopInv'
  BY <1>1, <1>2 DEF IndInv, ListsInv, LoopInv, Working
<1>4. WaitInv'
  BY <1>1 DEF IndInv, WaitInv
<1>5. PlaceInv'
  BY <1>1, <1>2, EmptyHoldsNothing DEF IndInv, PlaceInv
<1>6. BuildingInv' /\ HistoryInv'
  BY <1>1 DEF IndInv, BuildingInv, HistoryInv
<1>7. NetworkInv'
  BY <1>1 DEF IndInv, NetworkInv, Justified
<1>8. SentInv' /\ FreshInv' /\ ReplyInv'
  BY <1>1 DEF IndInv, SentInv, FreshInv, ReplyInv
<1> QED
  BY <1>3, <1>4, <1>5, <1>6, <1>7, <1>8 DEF IndInv

(* A crash empties queue and batch and leaves no handler waiting. *)
LEMMA CrashStep ==
    ASSUME IndInv, TypeOK', Crash
    PROVE  IndInv'
<1>1. /\ proc' = "down" /\ loop' = "off"
      /\ entries' = << >> /\ batch' = << >>
      /\ phase' = [r \in Request |->
                      IF phase[r] = "waiting" THEN "gone" ELSE phase[r]]
      /\ UNCHANGED <<seq, mempool, applied, chan, reply, carriedBy>>
  BY DEF Crash, ledgerVars
<1>2. ListsInv' /\ LoopInv'
  BY <1>1, EmptyIsWellFormed DEF ListsInv, LoopInv, Working
<1>3. WaitInv'
  BY <1>1 DEF IndInv, TypeOK, WaitInv
<1>4. PlaceInv'
  <2>1. ASSUME NEW r \in Request
        PROVE  /\ ~Holds(entries', r) /\ ~Holds(batch', r)
               /\ phase'[r] = "new" => phase[r] = "new"
    BY <1>1, EmptyHoldsNothing DEF IndInv, TypeOK
  <2> QED
    BY <1>1, <2>1 DEF IndInv, PlaceInv
<1>5. BuildingInv' /\ HistoryInv'
  BY <1>1 DEF IndInv, BuildingInv, HistoryInv
<1>6. NetworkInv'
  BY <1>1 DEF IndInv, NetworkInv, Justified
<1>7. SentInv' /\ FreshInv' /\ ReplyInv'
  BY <1>1 DEF IndInv, SentInv, FreshInv, ReplyInv
<1> QED
  BY <1>2, <1>3, <1>4, <1>5, <1>6, <1>7 DEF IndInv

(* The queue becomes the batch. *)
LEMMA TickStep ==
    ASSUME IndInv, TypeOK', Tick
    PROVE  IndInv'
<1>1. /\ loop = "tick" /\ loop' = "get_account"
      /\ entries # << >> /\ batch' = entries /\ entries' = << >>
      /\ UNCHANGED <<seq, mempool, applied, proc, phase, chan, reply, tx,
                     carriedBy>>
  BY DEF Tick, drain, ledgerVars, apiVars
<1>2. batch = << >>
  BY <1>1 DEF IndInv, TypeOK, Working
<1>3. \A r \in Request : ~Holds(entries', r) /\ ~Holds(batch, r)
  BY <1>1, <1>2, EmptyHoldsNothing
<1>4. ListsInv' /\ LoopInv'
  BY <1>1, EmptyIsWellFormed DEF IndInv, ListsInv, LoopInv, Working
<1>5. WaitInv'
  BY <1>1, <1>3 DEF IndInv, WaitInv, Working
<1>6. PlaceInv'
  BY <1>1, <1>3 DEF IndInv, PlaceInv
<1>7. BuildingInv' /\ HistoryInv'
  BY <1>1 DEF IndInv, BuildingInv, HistoryInv
<1>8. NetworkInv'
  BY <1>1 DEF IndInv, NetworkInv, Justified
<1>9. SentInv' /\ FreshInv' /\ ReplyInv'
  BY <1>1 DEF IndInv, SentInv, FreshInv, ReplyInv
<1> QED
  BY <1>4, <1>5, <1>6, <1>7, <1>8, <1>9 DEF IndInv

(* A transaction is started: its sequence number is beyond everything       *)
(* included, so beyond every success reported.                              *)
LEMMA GetAccountStep ==
    ASSUME IndInv, TypeOK', GetAccount
    PROVE  IndInv'
<1>1. /\ loop = "get_account" /\ loop' = "simulate"
      /\ tx' = [seq       |-> seq + 1,
                receivers |-> [i \in 1 .. Len(batch) |-> batch[i].address],
                resources |-> 0]
      /\ UNCHANGED <<entries, seq, mempool, applied, proc, phase, chan, reply,
                     batch, carriedBy>>
  BY DEF GetAccount, ledgerVars, apiVars
<1>2. ListsInv' /\ LoopInv'
  BY <1>1 DEF IndInv, ListsInv, LoopInv, Working
<1>3. WaitInv'
  BY <1>1 DEF IndInv, WaitInv, Working
<1>4. PlaceInv'
  BY <1>1 DEF IndInv, PlaceInv
<1>5. BuildingInv'
  BY <1>1 DEF IndInv, TypeOK, LedgerTypeOK, BuildingInv
<1>6. HistoryInv'
  BY <1>1 DEF IndInv, HistoryInv
<1>7. NetworkInv'
  BY <1>1 DEF IndInv, NetworkInv, Justified
<1>8. SentInv' /\ ReplyInv'
  BY <1>1 DEF IndInv, SentInv, ReplyInv
<1>9. FreshInv'
  <2>1. ASSUME NEW r \in Request, chan[r].status = 200
        PROVE  chan[r].hash.seq < tx'.seq
    <3>1. \E p \in applied : p.tx = chan[r].hash
      BY <2>1 DEF IndInv, SentInv
    <3>2. chan[r].hash \in Tx
      BY DEF IndInv, TypeOK, Reply
    <3> QED
      BY <1>1, <3>1, <3>2 DEF IndInv, TypeOK, LedgerTypeOK, HistoryInv, Tx
  <2> QED
    BY <1>1, <2>1 DEF IndInv, FreshInv
<1> QED
  BY <1>2, <1>3, <1>4, <1>5, <1>6, <1>7, <1>8, <1>9 DEF IndInv

(* The transaction is signed.  It is the first one of the requests of the   *)
(* batch, so what justifies the ones on the network is not disturbed.       *)
LEMMA SimulateStep ==
    ASSUME IndInv, TypeOK', Simulate
    PROVE  IndInv'
<1>1. /\ loop = "simulate" /\ loop' = "submit"
      /\ carriedBy' = [r \in Request |->
                          IF Holds(batch, r) THEN tx' ELSE carriedBy[r]]
      /\ UNCHANGED <<entries, seq, mempool, applied, proc, phase, chan, reply,
                     batch>>
  BY DEF Simulate, ledgerVars, apiVars
<1>2. tx'.seq = tx.seq /\ tx'.receivers = tx.receivers
  BY DEF Simulate, IndInv, TypeOK, Tx
<1>3. ASSUME NEW r \in Request
      PROVE  carriedBy'[r] = carriedBy[r] \/ (carriedBy[r] = NoTx /\ Holds(batch, r))
  <2>1. CASE Holds(batch, r)
    BY <1>1, <2>1 DEF IndInv, PlaceInv
  <2>2. CASE ~Holds(batch, r)
    BY <1>1, <2>2
  <2> QED
    BY <2>1, <2>2
<1>4. ListsInv' /\ LoopInv'
  BY <1>1 DEF IndInv, ListsInv, LoopInv, Working
<1>5. WaitInv'
  BY <1>1 DEF IndInv, WaitInv, Working
<1>6. PlaceInv'
  BY <1>1 DEF IndInv, PlaceInv
<1>7. BuildingInv'
  BY <1>1, <1>2 DEF IndInv, BuildingInv
<1>8. HistoryInv'
  BY <1>1 DEF IndInv, HistoryInv
<1>9. ASSUME NEW t, Justified(t)
      PROVE  Justified(t)'
  BY <1>3, <1>9 DEF Justified, NoTx
<1>10. NetworkInv'
  BY <1>1, <1>9 DEF IndInv, NetworkInv
<1>11. SentInv'
  <2>1. ASSUME NEW r \in Request, chan[r] # Empty
        PROVE  carriedBy'[r] = carriedBy[r]
    BY <1>3, <2>1 DEF IndInv, PlaceInv
  <2>2. Empty.status # 200 /\ Empty # transfer_failed
    BY DEF Empty, transfer_failed, ProblemDetail
  <2> QED
    BY <1>1, <2>1, <2>2 DEF IndInv, SentInv
<1>12. FreshInv' /\ ReplyInv'
  BY <1>1, <1>2 DEF IndInv, FreshInv, ReplyInv
<1> QED
  BY <1>4, <1>5, <1>6, <1>7, <1>8, <1>10, <1>11, <1>12 DEF IndInv

(* A signed transaction that is submitted is justified by its batch. *)
LEMMA SignedIsJustified ==
    ASSUME IndInv, loop \in {"submit", "poll"}
    PROVE  Justified(tx)
<1>1. /\ batch \in Seq(PendingEntry) /\ batch # << >>
      /\ tx.receivers \in Seq(Address)
      /\ Len(tx.receivers) = Len(batch)
      /\ \A i \in DOMAIN batch : tx.receivers[i] = batch[i].address
      /\ tx.seq # 0
      /\ WellFormed(batch)
  BY DEF IndInv, TypeOK, Tx, LoopInv, Working, BuildingInv, ListsInv
<1>2. DOMAIN tx.receivers = DOMAIN batch
  BY <1>1
<1>3. Len(tx.receivers) \in 1 .. MaxSize
  BY <1>1, MaxSizeAssumption DEF WellFormed
<1>4. \A i, j \in DOMAIN tx.receivers :
        tx.receivers[i] = tx.receivers[j] => i = j
  BY <1>1, <1>2 DEF WellFormed
<1>5. ASSUME NEW i \in DOMAIN tx.receivers
      PROVE  \E r \in Request : addr(r) = tx.receivers[i] /\ carriedBy[r] = tx
  <2>a. batch[i] \in PendingEntry
    BY <1>1, <1>2
  <2>1. batch[i].responder \in Request
    BY <2>a DEF PendingEntry
  <2>2. Holds(batch, batch[i].responder)
    BY <1>2, Zenon DEF Holds
  <2>3. carriedBy[batch[i].responder] = tx
    BY <2>1, <2>2 DEF IndInv, PlaceInv
  <2> QED
    BY <1>1, <1>2, <2>1, <2>3 DEF WellFormed
<1> QED
  BY <1>1, <1>3, <1>4, <1>5 DEF Justified

(* The transaction reaches the node, or does not and is polled for. *)
LEMMA SubmitStep ==
    ASSUME IndInv, TypeOK', Submit \/ SubmitNotQueued
    PROVE  IndInv'
<1>1. /\ loop = "submit" /\ loop' = "poll"
      /\ mempool' = mempool \/ mempool' = mempool \union {tx}
      /\ UNCHANGED <<entries, seq, applied, proc, phase, chan, reply, batch,
                     tx, carriedBy>>
  BY DEF Submit, SubmitNotQueued, Admit, ledgerVars, apiVars
<1>2. ListsInv' /\ LoopInv'
  BY <1>1 DEF IndInv, ListsInv, LoopInv, Working
<1>3. WaitInv'
  BY <1>1 DEF IndInv, WaitInv, Working
<1>4. PlaceInv'
  BY <1>1 DEF IndInv, PlaceInv
<1>5. BuildingInv' /\ HistoryInv'
  BY <1>1 DEF IndInv, BuildingInv, HistoryInv
<1>6. NetworkInv'
  BY <1>1, SignedIsJustified DEF IndInv, NetworkInv, Justified
<1>7. SentInv' /\ FreshInv' /\ ReplyInv'
  BY <1>1 DEF IndInv, SentInv, FreshInv, ReplyInv
<1> QED
  BY <1>2, <1>3, <1>4, <1>5, <1>6, <1>7 DEF IndInv

(* What may be sent to entry i of the batch in flight. *)
Truthful(v, i) ==
    /\ v # Empty
    /\ v.status = 200 =>
          /\ loop = "poll"
          /\ v.hash = tx
          /\ \E p \in applied : p.tx = tx /\ p.ok /\ (p.meta = "V3" => p.results[i])
    /\ v = transfer_failed =>
          /\ loop = "poll"
          /\ \E p \in applied : p.tx = tx /\ p.ok /\ p.meta = "V3" /\ ~p.results[i]

(* A batch ends with truthful answers. *)
LEMMA EndStep ==
    ASSUME IndInv, TypeOK', NEW values \in [1 .. Len(batch) -> Reply],
           SendAll(values),
           \A i \in 1 .. Len(batch) : Truthful(values[i], i),
           \A t \in mempool' : Justified(t),
           loop \in Working, loop' \in {"tick", "dead"},
           UNCHANGED <<entries, seq, applied, proc, phase, reply, carriedBy>>
    PROVE  IndInv'
<1> DEFINE Sent(r) == Holds(batch, r) /\ phase[r] = "waiting"
<1>1. batch' = << >> /\ \A r \in Request : ~Holds(batch', r)
  BY EmptyHoldsNothing DEF SendAll
<1>2. ASSUME NEW r \in Request, ~Sent(r)
      PROVE  chan'[r] = chan[r]
  BY <1>2 DEF SendAll
<1>3. ASSUME NEW r \in Request, Sent(r)
      PROVE  /\ SlotOf(r) \in 1 .. Len(batch)
             /\ batch[SlotOf(r)].responder = r
             /\ batch[SlotOf(r)].address = addr(r)
             /\ chan'[r] = values[SlotOf(r)]
             /\ Truthful(chan'[r], SlotOf(r))
  <2>1. /\ SlotOf(r) \in 1 .. Len(batch)
        /\ batch[SlotOf(r)].responder = r
    BY <1>3, SlotIsTyped DEF IndInv, TypeOK
  <2>2. chan'[r] = values[SlotOf(r)]
    BY <1>3 DEF SendAll
  <2>3. batch[SlotOf(r)].address = addr(r)
    BY <2>1 DEF IndInv, TypeOK, ListsInv, WellFormed
  <2> QED
    BY <2>1, <2>2, <2>3
<1> HIDE DEF Sent
<1>4. ListsInv' /\ LoopInv'
  BY <1>1, EmptyIsWellFormed DEF IndInv, ListsInv, LoopInv, Working
<1>5. WaitInv'
  <2>1. ASSUME NEW r \in Request, phase[r] = "waiting"
        PROVE  proc = "serving" /\ (chan'[r] # Empty \/ Holds(entries, r))
    <3>1. CASE Sent(r)
      BY <1>3, <2>1, <3>1 DEF Truthful, IndInv, WaitInv
    <3>2. CASE ~Sent(r)
      BY <1>2, <2>1, <3>2 DEF Sent, IndInv, WaitInv
    <3> QED
      BY <3>1, <3>2
  <2> QED
    BY <2>1 DEF WaitInv
<1>6. PlaceInv'
  <2>1. ASSUME NEW r \in Request, phase[r] = "new" \/ Holds(entries, r)
        PROVE  chan'[r] = chan[r]
    BY <1>2, <2>1 DEF Sent, IndInv, PlaceInv
  <2> QED
    BY <1>1, <2>1 DEF IndInv, PlaceInv
<1>7. BuildingInv' /\ HistoryInv'
  BY DEF IndInv, BuildingInv, HistoryInv
<1>8. NetworkInv'
  BY DEF IndInv, NetworkInv, Justified
<1>9. ASSUME NEW r \in Request, Sent(r), loop = "poll"
      PROVE  /\ carriedBy[r] = tx
             /\ SlotOf(r) \in DOMAIN tx.receivers
             /\ tx.receivers[SlotOf(r)] = addr(r)
  <2>1. carriedBy[r] = tx
    BY <1>9 DEF Sent, IndInv, PlaceInv
  <2>2. /\ SlotOf(r) \in DOMAIN batch
        /\ Len(tx.receivers) = Len(batch)
        /\ tx.receivers[SlotOf(r)] = addr(r)
    BY <1>3, <1>9 DEF IndInv, TypeOK, BuildingInv
  <2>3. DOMAIN tx.receivers = DOMAIN batch
    BY <2>2 DEF IndInv, TypeOK, Tx
  <2> QED
    BY <2>1, <2>2, <2>3
<1>10. SentInv'
  <2>1. ASSUME NEW r \in Request, ~Sent(r)
        PROVE  chan'[r] = chan[r]
    BY <1>2, <2>1
  <2>2. ASSUME NEW r \in Request, Sent(r), chan'[r].status = 200
        PROVE  chan'[r].hash = carriedBy[r] /\ \E p \in applied :
                  /\ p.tx = carriedBy[r]
                  /\ p.ok
                  /\ \E i \in DOMAIN p.tx.receivers :
                        /\ p.tx.receivers[i] = addr(r)
                        /\ p.meta = "V3" => p.results[i]
    <3>1. /\ loop = "poll" /\ chan'[r].hash = tx
          /\ \E p \in applied : /\ p.tx = tx /\ p.ok
                                /\ p.meta = "V3" => p.results[SlotOf(r)]
      BY <1>3, <2>2 DEF Truthful
    <3> QED
      BY <1>9, <2>2, <3>1
  <2>3. ASSUME NEW r \in Request, Sent(r), chan'[r] = transfer_failed
        PROVE  \E p \in applied :
                  /\ p.tx = carriedBy[r]
                  /\ p.ok
                  /\ p.meta = "V3"
                  /\ \E i \in DOMAIN p.tx.receivers :
                        /\ p.tx.receivers[i] = addr(r)
                        /\ ~p.results[i]
    <3>1. /\ loop = "poll"
          /\ \E p \in applied : /\ p.tx = tx /\ p.ok
                                /\ p.meta = "V3" /\ ~p.results[SlotOf(r)]
      BY <1>3, <2>3 DEF Truthful
    <3> QED
      BY <1>9, <2>3, <3>1
  <2> QED
    BY <2>1, <2>2, <2>3 DEF IndInv, SentInv
<1>11. ReplyInv'
  <2>1. ASSUME NEW r \in Request,
               reply[r].status = 200 \/ reply[r] = transfer_failed
        PROVE  chan'[r] = chan[r]
    <3>1. chan[r] # Empty
      BY <2>1 DEF IndInv, ReplyInv, Empty, transfer_failed, ProblemDetail
    <3> QED
      BY <1>2, <3>1 DEF Sent, IndInv, PlaceInv
  <2> QED
    BY <2>1 DEF IndInv, ReplyInv
<1>12. FreshInv'
  <2>1. ASSUME NEW r \in Request, NEW s \in Request,
               r # s, SameAddress(r, s),
               chan'[r].status = 200, chan'[s].status = 200
        PROVE  chan'[r].hash # chan'[s].hash
    <3>1. ASSUME NEW q \in Request, Sent(q), chan'[q].status = 200
          PROVE  loop = "poll" /\ chan'[q].hash = tx
      BY <1>3, <3>1 DEF Truthful
    <3>2. ASSUME NEW q \in Request, ~Sent(q), chan'[q].status = 200, loop = "poll"
          PROVE  chan'[q].hash.seq < tx.seq
      BY <1>2, <3>2 DEF IndInv, FreshInv
    <3>3. tx.seq \in Nat
      BY DEF IndInv, TypeOK, Tx
    <3>4. CASE Sent(r) /\ Sent(s)
      <4>1. SlotOf(r) = SlotOf(s)
        BY <1>3, <2>1, <3>4 DEF IndInv, TypeOK, ListsInv, WellFormed, SameAddress
      <4> QED
        BY <1>3, <2>1, <3>4, <4>1
    <3>5. CASE Sent(r) /\ ~Sent(s)
      BY <2>1, <3>1, <3>2, <3>3, <3>5
    <3>6. CASE ~Sent(r) /\ Sent(s)
      BY <2>1, <3>1, <3>2, <3>3, <3>6
    <3>7. CASE ~Sent(r) /\ ~Sent(s)
      BY <1>2, <2>1, <3>7 DEF IndInv, FreshInv
    <3> QED
      BY <3>4, <3>5, <3>6, <3>7
  <2> QED
    BY <2>1 DEF FreshInv, SameAddress
<1> QED
  BY <1>4, <1>5, <1>6, <1>7, <1>8, <1>10, <1>11, <1>12 DEF IndInv

(* The batch fails: no answer claims anything about the ledger. *)
LEMMA FailStep ==
    ASSUME IndInv, TypeOK', BatchError \/ SubmitAnswerLost \/ BatchPanic
    PROVE  IndInv'
<1>1. /\ loop \in Working /\ loop' \in {"tick", "dead"}
      /\ UNCHANGED <<entries, seq, applied, proc, phase, reply, carriedBy>>
      /\ mempool' = mempool \/ (loop = "submit" /\ mempool' = mempool \union {tx})
  BY DEF BatchError, SubmitAnswerLost, BatchPanic, AnswerError, Admit,
     ledgerVars, apiVars, Working
<1>2. \A t \in mempool' : Justified(t)
  BY <1>1, SignedIsJustified DEF IndInv, NetworkInv
<1>3. ASSUME NEW v \in {internal, RecvError}, NEW i
      PROVE  v \in Reply /\ Truthful(v, i)
  BY RepliesAreTyped DEF Truthful, internal, RecvError, Empty,
     transfer_failed, ProblemDetail
<1>4. PICK v \in {internal, RecvError} : SendAll([i \in 1 .. Len(batch) |-> v])
  BY DEF BatchError, SubmitAnswerLost, BatchPanic, AnswerError
<1> DEFINE values == [i \in 1 .. Len(batch) |-> v]
<1>5. /\ values \in [1 .. Len(batch) -> Reply]
      /\ \A i \in 1 .. Len(batch) : Truthful(values[i], i)
  BY <1>3
<1>6. SendAll(values)
  BY <1>4
<1> HIDE DEF values
<1> QED
  BY <1>1, <1>2, <1>5, <1>6, EndStep

(* The transaction succeeded: the result at an entry's place is the result  *)
(* of that entry.                                                           *)
LEMMA SuccessStep ==
    ASSUME IndInv, TypeOK', PollSuccess
    PROVE  IndInv'
<1>1. /\ loop = "poll" /\ loop' = "tick"
      /\ UNCHANGED <<entries, seq, mempool, applied, proc, phase, reply, carriedBy>>
  BY DEF PollSuccess, ledgerVars, apiVars
<1>2. PICK p \in applied :
        /\ p.tx = tx
        /\ p.ok
        /\ SendAll([i \in 1 .. Len(batch) |->
              Outcome(p, parse_results_from_meta(p, Len(batch)), i)])
  BY DEF PollSuccess
<1> DEFINE values == [i \in 1 .. Len(batch) |->
                        Outcome(p, parse_results_from_meta(p, Len(batch)), i)]
<1>3. /\ Len(batch) \in Nat /\ Len(batch) # 0
      /\ Len(p.results) = Len(batch)
  BY <1>1, <1>2 DEF IndInv, TypeOK, LoopInv, Working, HistoryInv, BuildingInv
<1>4. p.tx \in Tx /\ p.results \in Seq(BOOLEAN) /\ p.meta \in MetaForms
  BY DEF IndInv, TypeOK, LedgerTypeOK, Included
<1>5. ASSUME NEW i \in 1 .. Len(batch)
      PROVE  values[i] =
               IF p.meta = "V3" /\ ~p.results[i] THEN transfer_failed
                                                 ELSE SuccessResponse(tx)
  <2>1. CASE p.meta = "V3"
    <3>1. parse_results_from_meta(p, Len(batch)) = p.results /\ p.results # << >>
      BY <1>3, <1>4, <2>1 DEF parse_results_from_meta
    <3> QED
      BY <1>2, <1>3, <2>1, <3>1 DEF Outcome
  <2>2. CASE p.meta = "misfit"
    <3>1. Len(Append(p.results, FALSE)) = Len(batch) + 1
      BY <1>3, <1>4
    <3>2. parse_results_from_meta(p, Len(batch)) = Append(p.results, FALSE)
      BY <2>2 DEF parse_results_from_meta
    <3>3. Len(parse_results_from_meta(p, Len(batch))) # Len(batch)
      BY <1>3, <3>1, <3>2
    <3> QED
      BY <1>2, <2>2, <3>3 DEF Outcome
  <2>3. CASE p.meta \in {"V4", "absent"}
    <3>1. parse_results_from_meta(p, Len(batch)) = [j \in 1 .. Len(batch) |-> TRUE]
      BY <2>3 DEF parse_results_from_meta
    <3> QED
      BY <1>2, <2>3, <3>1 DEF Outcome
  <2> QED
    BY <1>4, <2>1, <2>2, <2>3, MetaAssumption
<1>6. values \in [1 .. Len(batch) -> Reply]
  BY <1>2, <1>4, RepliesAreTyped DEF Outcome
<1>7. SendAll(values)
  BY <1>2
<1> HIDE DEF values
<1>8. /\ transfer_failed # Empty /\ transfer_failed.status # 200
      /\ SuccessResponse(tx) # Empty /\ SuccessResponse(tx) # transfer_failed
      /\ SuccessResponse(tx).hash = tx
  BY DEF transfer_failed, Empty, SuccessResponse, ProblemDetail
<1>9. ASSUME NEW i \in 1 .. Len(batch) PROVE Truthful(values[i], i)
  BY <1>1, <1>2, <1>5, <1>8 DEF Truthful
<1>10. \A t \in mempool' : Justified(t)
  BY <1>1 DEF IndInv, NetworkInv
<1> QED
  BY <1>1, <1>6, <1>7, <1>9, <1>10, EndStep DEF Working

(* The network moves: a transaction that is included carries its            *)
(* justification from the mempool to the ledger, under a new number.        *)
LEMMA NetworkStep ==
    ASSUME IndInv, TypeOK', Network
    PROVE  IndInv'
<1>1. UNCHANGED <<entries, proc, phase, chan, reply, loop, batch, tx, carriedBy>>
  BY DEF Network, apiVars, batchVars
<1>2. ListsInv' /\ LoopInv'
  BY <1>1 DEF IndInv, ListsInv, LoopInv
<1>3. WaitInv'
  BY <1>1 DEF IndInv, WaitInv
<1>4. PlaceInv'
  BY <1>1 DEF IndInv, PlaceInv
<1>5. BuildingInv' /\ FreshInv' /\ ReplyInv'
  BY <1>1 DEF IndInv, BuildingInv, FreshInv, ReplyInv
<1>6. \A t : Justified(t) => Justified(t)'
  BY <1>1 DEF Justified
<1>7. applied \subseteq applied' /\ NetworkInv' /\ HistoryInv'
  <2>1. ASSUME NEW t \in mempool, Include(t)
        PROVE  applied \subseteq applied' /\ NetworkInv' /\ HistoryInv'
    <3>1. PICK p \in Included : AddsOne(t, p)
      BY <2>1, IncludeAddsOne DEF IndInv, TypeOK
    <3>2. /\ applied' = applied \union {p} /\ p.tx = t
          /\ p.ok => Len(p.results) = Len(p.tx.receivers)
      BY <3>1 DEF AddsOne
    <3>3. /\ t.seq = seq + 1 /\ seq' = t.seq /\ mempool' \subseteq mempool
      BY <2>1 DEF Include, StillValid
    <3>4. \A q \in applied : q.tx.seq \in Nat /\ q.tx.seq <= seq
      BY DEF IndInv, TypeOK, LedgerTypeOK, Included, Tx, HistoryInv
    <3>5. NetworkInv'
      BY <1>6, <3>2, <3>3 DEF IndInv, NetworkInv
    <3>6. seq \in Nat
      BY DEF IndInv, TypeOK, LedgerTypeOK
    <3>7. HistoryInv'
      BY <3>2, <3>3, <3>4, <3>6 DEF IndInv, HistoryInv
    <3> QED
      BY <3>2, <3>5, <3>7
  <2>2. ASSUME \/ \E t \in mempool : Evict(t)
               \/ OperatorTransaction
        PROVE  applied \subseteq applied' /\ NetworkInv' /\ HistoryInv'
    <3>1. /\ applied' = applied /\ mempool' \subseteq mempool
          /\ seq' \in Nat /\ seq <= seq'
      BY <2>2 DEF Evict, OperatorTransaction, StillValid, IndInv, TypeOK, LedgerTypeOK
    <3>2. NetworkInv'
      BY <1>6, <3>1 DEF IndInv, NetworkInv
    <3>3. HistoryInv'
      BY <3>1 DEF IndInv, TypeOK, LedgerTypeOK, Included, Tx, HistoryInv
    <3> QED
      BY <3>1, <3>2, <3>3
  <2> QED
    BY <2>1, <2>2 DEF Network
<1>8. SentInv'
  BY <1>1, <1>7 DEF IndInv, SentInv
<1> QED
  BY <1>2, <1>3, <1>4, <1>5, <1>7, <1>8 DEF IndInv

LEMMA StepIndInv == IndInv /\ [Next]_vars => IndInv'
<1> SUFFICES ASSUME IndInv, [Next]_vars PROVE IndInv'
  OBVIOUS
<1>1. TypeOK'
  BY TypeStep DEF IndInv
<1>2. ASSUME NEW r \in Request, fund_handler(r) \/ Disconnect(r) PROVE IndInv'
  BY <1>1, <1>2, HandlerStep, EnqueueStep, DisconnectStep DEF fund_handler
<1>3. CASE batch_loop
  BY <1>1, <1>3, TickStep, GetAccountStep, SimulateStep, SubmitStep, FailStep,
     SuccessStep DEF batch_loop
<1>4. CASE UNCHANGED vars
  <2>1. ListsInv' /\ LoopInv' /\ WaitInv' /\ PlaceInv'
    BY <1>4 DEF vars, IndInv, ListsInv, LoopInv, WaitInv, PlaceInv
  <2>2. BuildingInv' /\ HistoryInv'
    BY <1>4 DEF vars, IndInv, BuildingInv, HistoryInv
  <2>3. NetworkInv'
    BY <1>4 DEF vars, IndInv, NetworkInv, Justified
  <2>4. SentInv' /\ ReplyInv' /\ FreshInv'
    BY <1>4 DEF vars, IndInv, SentInv, ReplyInv, FreshInv
  <2> QED
    BY <1>1, <2>1, <2>2, <2>3, <2>4 DEF IndInv
<1> QED
  BY <1>1, <1>2, <1>3, <1>4, StartupStep, CrashStep, FailStep, NetworkStep DEF Next

THEOREM Invariance == Spec => []IndInv
<1> QED
  BY InitIndInv, StepIndInv, PTL DEF Spec

-----------------------------------------------------------------------------
(* What the invariant gives. *)

(* Every transaction on the network or the ledger names an address once and *)
(* respects the batch limit.                                                *)
THEOREM PayableOnceHolds == Spec => []PayableOnce
<1>1. IndInv => PayableOnce
  BY DEF IndInv, NetworkInv, Justified, PayableOnce
<1> QED
  BY <1>1, Invariance, PTL

(* What goes into a batch was validated when it was queued, so encoding a   *)
(* batch never fails because of one of its addresses.                       *)
THEOREM BatchAlwaysEncodesHolds == Spec => []BatchAlwaysEncodes
<1>1. IndInv => BatchAlwaysEncodes
  BY DEF IndInv, ListsInv, WellFormed, BatchAlwaysEncodes,
     g_address_to_sc_address_succeeds
<1> QED
  BY <1>1, Invariance, PTL

(* A hash reported to a client is the hash of a successful transaction that *)
(* names the client's address.                                              *)
THEOREM SuccessIsOnLedgerHolds == Spec => []SuccessIsOnLedger
<1>1. ASSUME IndInv, NEW r \in Request, Succeeded(r)
      PROVE  \E p \in applied :
                /\ p.tx = reply[r].hash
                /\ p.ok
                /\ \E i \in DOMAIN p.tx.receivers :
                      /\ p.tx.receivers[i] = addr(r)
                      /\ p.meta = "V3" => p.results[i]
  <2>1. reply[r] = chan[r] /\ chan[r].status = 200
    BY <1>1 DEF Succeeded, IndInv, ReplyInv
  <2> QED
    BY <1>1, <2>1 DEF IndInv, SentInv
<1>2. IndInv => SuccessIsOnLedger
  BY <1>1 DEF SuccessIsOnLedger
<1> QED
  BY <1>2, Invariance, PTL

(* A transaction names an address once, so a result FALSE for an address    *)
(* says that the transaction does not pay it.                               *)
LEMMA FailedIsNotPaid ==
    ASSUME IndInv, NEW p \in applied, p.ok,
           NEW a, NEW i \in DOMAIN p.tx.receivers,
           p.tx.receivers[i] = a, ~p.results[i]
    PROVE  ~Pays(p, a)
<1>1. ASSUME NEW j \in DOMAIN p.results, p.tx.receivers[j] = a
      PROVE  j = i
  <2>1. DOMAIN p.results = DOMAIN p.tx.receivers
    BY DEF IndInv, HistoryInv, TypeOK, LedgerTypeOK, Included, Tx
  <2> QED
    BY <1>1, <2>1 DEF IndInv, NetworkInv, Justified
<1> QED
  BY <1>1 DEF Pays

(* A client told that its transfer failed was not paid by the transaction   *)
(* of its request: that transaction is on the ledger, once, and names the   *)
(* address once, at a place whose result is FALSE.                          *)
THEOREM FailureIsUnpaidHolds == Spec => []FailureIsUnpaid
<1>1. ASSUME IndInv, NEW r \in Request, reply[r] = transfer_failed
      PROVE  /\ \E p \in applied : p.tx = carriedBy[r]
             /\ \A p \in applied : p.tx = carriedBy[r] => ~Pays(p, addr(r))
  <2>1. chan[r] = transfer_failed
    BY <1>1 DEF IndInv, ReplyInv
  <2>2. PICK q \in applied :
          /\ q.tx = carriedBy[r]
          /\ q.ok
          /\ \E i \in DOMAIN q.tx.receivers :
                q.tx.receivers[i] = addr(r) /\ ~q.results[i]
    BY <1>1, <2>1 DEF IndInv, SentInv
  <2>3. ~Pays(q, addr(r))
    BY <1>1, <2>2, FailedIsNotPaid
  <2>4. \A p \in applied : p.tx = carriedBy[r] => p = q
    BY <1>1, <2>2 DEF IndInv, HistoryInv
  <2> QED
    BY <2>2, <2>3, <2>4
<1>2. IndInv => FailureIsUnpaid
  BY <1>1 DEF FailureIsUnpaid
<1> QED
  BY <1>2, Invariance, PTL

(* No payment is reported to two clients of one address. *)
THEOREM SuccessesAreSeparatePaymentsHolds == Spec => []SuccessesAreSeparatePayments
<1>1. IndInv => SuccessesAreSeparatePayments
  BY DEF IndInv, ReplyInv, FreshInv, SuccessesAreSeparatePayments, Succeeded
<1> QED
  BY <1>1, Invariance, PTL

(* The queue and the batch hold an address once each, so an address has at  *)
(* most two requests unanswered.                                            *)
THEOREM AtMostTwoUnansweredHolds == Spec => []AtMostTwoUnanswered
<1>1. ASSUME IndInv, NEW s \in {entries, batch}, NEW q \in Request, NEW r \in Request,
             Holds(s, q), Holds(s, r), SameAddress(q, r)
      PROVE  q = r
  <2>1. s \in Seq(PendingEntry) /\ WellFormed(s)
    BY <1>1 DEF IndInv, TypeOK, QueueTypeOK, ListsInv
  <2>2. PICK i \in DOMAIN s : s[i].responder = q
    BY <1>1 DEF Holds
  <2>3. PICK j \in DOMAIN s : s[j].responder = r
    BY <1>1 DEF Holds
  <2> QED
    BY <1>1, <2>1, <2>2, <2>3 DEF WellFormed, SameAddress
<1>2. IndInv => AtMostTwoUnanswered
  BY <1>1 DEF IndInv, WaitInv, AtMostTwoUnanswered, SameAddress
<1> QED
  BY <1>2, Invariance, PTL

(* The payments of an address are as many as the requests behind them, for  *)
(* each has a request of its own.                                           *)
THEOREM PaymentsAreRequestedHolds == Spec => []PaymentsAreRequested
<1>1. ASSUME IndInv, NEW a \in Address
      PROVE  Cardinality({p \in applied : Pays(p, a)})
               <= Cardinality({r \in Request : addr(r) = a /\ carriedBy[r] # NoTx})
  <2> DEFINE P == {p \in applied : Pays(p, a)}
             R == {r \in Request : addr(r) = a /\ carriedBy[r] # NoTx}
  <2>1. ASSUME NEW p \in P
        PROVE  \E r \in R : carriedBy[r] = p.tx
    <3>1. PICK i \in DOMAIN p.results : p.tx.receivers[i] = a
      BY DEF Pays
    <3>2. i \in DOMAIN p.tx.receivers
      BY <1>1, <3>1 DEF Pays, IndInv, HistoryInv, TypeOK, LedgerTypeOK, Included, Tx
    <3>3. p.tx.seq # 0 /\ \E r \in Request : addr(r) = a /\ carriedBy[r] = p.tx
      BY <1>1, <3>1, <3>2 DEF IndInv, NetworkInv, Justified
    <3> QED
      BY <3>3 DEF NoTx
  <2> DEFINE f == [p \in P |-> CHOOSE r \in R : carriedBy[r] = p.tx]
  <2>2. \A p \in P : f[p] \in R /\ carriedBy[f[p]] = p.tx
    BY <2>1
  <2>3. f \in Injection(P, R)
    <3>1. f \in [P -> R]
      BY <2>2
    <3>2. ASSUME NEW p \in P, NEW q \in P, f[p] = f[q] PROVE p = q
      BY <1>1, <2>2, <3>2 DEF IndInv, HistoryInv
    <3> HIDE DEF f
    <3> QED
      BY <3>1, <3>2 DEF Injection, IsInjective
  <2>4. IsFiniteSet(R)
    BY RequestAssumption, FS_Subset
  <2> QED
    BY <2>3, <2>4, FS_Injection
<1>2. IndInv => PaymentsAreRequested
  BY <1>1 DEF PaymentsAreRequested
<1> QED
  BY <1>2, Invariance, PTL

-----------------------------------------------------------------------------
(* The faucet keeps the promise of FundingService.  First, what the replies *)
(* say beyond the inductive invariant.                                      *)

(* What a client is told before anything is queued, and the actions that    *)
(* tell it.                                                                 *)
Refusals == {missing_addr, invalid_address, already_pending, queue_full}

TurnsAway(r) ==
    \/ FundRejected(r)
    \/ FundInvalid(r)
    \/ FundQueueFull(r)
    \/ FundAlreadyPending(r)

(* A client that is turned away left nothing behind: its request is in no   *)
(* list and in no transaction, so nothing can pay it later.                 *)
TurnedAway(r) ==
    /\ reply[r] \in Refusals
    /\ carriedBy[r] = NoTx
    /\ ~Holds(entries, r) /\ ~Holds(batch, r)

(* Nothing is replied before the answer, and only what the code sends.      *)
AnswersInv ==
    \A r \in Request :
        /\ phase[r] # "answered" => reply[r] = Empty
        /\ \/ chan[r].status = 200
           \/ chan[r] \in {Empty, RecvError, internal, transfer_failed}
        /\ phase[r] = "answered" =>
              \/ reply[r].status = 200
              \/ reply[r] \in {transfer_failed, internal}
              \/ TurnedAway(r)

(* The replies are told apart by status and type. *)
LEMMA RepliesDiffer ==
    /\ \A v \in {Empty, RecvError, internal, transfer_failed} \union Refusals :
          v.status # 200
    /\ \A v \in {Empty, RecvError, internal} \union Refusals : v # transfer_failed
    /\ \A v \in {Empty, RecvError, transfer_failed} \union Refusals : v # internal
    /\ RecvError # Empty
    /\ \A t : SuccessResponse(t).status = 200
BY DEF Empty, RecvError, internal, transfer_failed, Refusals, missing_addr,
   invalid_address, already_pending, queue_full, ProblemDetail, SuccessResponse

(* What the batch task sends is one of the four. *)
Sendable(v) == v.status = 200 \/ v \in {RecvError, internal, transfer_failed}

LEMMA SendsAreSendable ==
    ASSUME TypeOK, PollSuccess \/ BatchError \/ SubmitAnswerLost \/ BatchPanic,
           NEW r \in Request
    PROVE  chan'[r] = chan[r] \/ Sendable(chan'[r])
<1>1. PICK values :
        /\ SendAll(values)
        /\ DOMAIN values = 1 .. Len(batch)
        /\ \A i \in 1 .. Len(batch) : Sendable(values[i])
  <2>1. CASE PollSuccess
    <3>1. PICK p \in applied :
            SendAll([i \in 1 .. Len(batch) |->
              Outcome(p, parse_results_from_meta(p, Len(batch)), i)])
      BY <2>1 DEF PollSuccess
    <3>2. \A i \in 1 .. Len(batch) :
             Sendable(Outcome(p, parse_results_from_meta(p, Len(batch)), i))
      BY RepliesDiffer DEF Outcome, Sendable
    <3> QED
      BY <3>1, <3>2
  <2>2. CASE BatchError \/ SubmitAnswerLost
    <3>1. SendAll([i \in 1 .. Len(batch) |-> internal])
      BY <2>2 DEF BatchError, SubmitAnswerLost, AnswerError
    <3> QED
      BY <3>1 DEF Sendable
  <2>3. CASE BatchPanic
    <3>1. SendAll([i \in 1 .. Len(batch) |-> RecvError])
      BY <2>3 DEF BatchPanic
    <3> QED
      BY <3>1 DEF Sendable
  <2> QED
    BY <2>1, <2>2, <2>3
<1>2. CASE Holds(batch, r) /\ phase[r] = "waiting"
  BY <1>1, <1>2, SlotIsTyped DEF SendAll, TypeOK
<1>3. CASE ~(Holds(batch, r) /\ phase[r] = "waiting")
  BY <1>1, <1>3 DEF SendAll
<1> QED
  BY <1>2, <1>3

LEMMA AnswersInit == Init => AnswersInv
BY DEF Init, AnswersInv

LEMMA AnswersStep == IndInv /\ AnswersInv /\ [Next]_vars => AnswersInv'
<1> SUFFICES ASSUME IndInv, AnswersInv, [Next]_vars PROVE AnswersInv'
  OBVIOUS
<1>0. TypeOK /\ PlaceInv
  BY DEF IndInv
<1> USE DEF TypeOK
<1>1. ASSUME NEW r \in Request, TurnsAway(r)
      PROVE  AnswersInv'
  <2>1. PICK v \in Refusals : Answer(r, v)
    BY <1>1 DEF TurnsAway, FundRejected, FundInvalid, FundQueueFull,
       FundAlreadyPending, Refusals
  <2>2. phase[r] = "new" /\ UNCHANGED <<entries, chan, batch, carriedBy>>
    BY <1>1 DEF TurnsAway, FundRejected, FundInvalid, FundQueueFull,
       FundAlreadyPending, Arrives, batchVars
  <2>3. carriedBy[r] = NoTx /\ ~Holds(entries, r) /\ ~Holds(batch, r)
    BY <1>0, <2>2 DEF PlaceInv
  <2> QED
    BY <1>0, <2>1, <2>2, <2>3 DEF AnswersInv, TurnedAway, Answer
<1>2. ASSUME NEW r \in Request, FundResume(r) PROVE AnswersInv'
  <2>1. PICK v : /\ Answer(r, v)
                 /\ v.status = 200 \/ v \in {internal, transfer_failed}
    BY <1>0, <1>2 DEF FundResume, AnswersInv
  <2>2. UNCHANGED <<entries, chan, batch, carriedBy>>
    BY <1>2 DEF FundResume, batchVars
  <2> QED
    BY <1>0, <2>1, <2>2 DEF AnswersInv, TurnedAway, Answer
<1>3. ASSUME NEW r \in Request, FundEnqueue(r) PROVE AnswersInv'
  <2> DEFINE e == [address |-> addr(r), responder |-> r]
  <2>1. /\ entries' = Append(entries, e)
        /\ phase' = [phase EXCEPT ![r] = "waiting"] /\ phase[r] = "new"
        /\ UNCHANGED <<chan, reply, batch, carriedBy>>
    BY <1>3 DEF FundEnqueue, push, Arrives, batchVars
  <2>2. e \in PendingEntry /\ e.responder = r /\ entries \in Seq(PendingEntry)
    BY <1>0, QueryAssumption DEF PendingEntry, addr, trim, RawAddr, QueueTypeOK
  <2>3. \A s \in Request : Holds(entries', s) => Holds(entries, s) \/ s = r
    BY <2>1, <2>2, AppendHolds
  <2> QED
    BY <1>0, <2>1, <2>3 DEF AnswersInv, TurnedAway
<1>4. ASSUME NEW r \in Request, Disconnect(r) PROVE AnswersInv'
  BY <1>0, <1>4 DEF Disconnect, batchVars, AnswersInv, TurnedAway
<1>5. CASE Crash
  BY <1>0, <1>5, EmptyHoldsNothing DEF Crash, AnswersInv, TurnedAway
<1>6. CASE Startup
  BY <1>6 DEF Startup, apiVars, AnswersInv, TurnedAway
<1>7. CASE Tick
  BY <1>7, EmptyHoldsNothing DEF Tick, drain, apiVars, AnswersInv, TurnedAway
<1>8. CASE Simulate
  BY <1>0, <1>8 DEF Simulate, apiVars, AnswersInv, TurnedAway
<1>9. CASE GetAccount \/ Submit \/ SubmitNotQueued \/ Network \/ UNCHANGED vars
  BY <1>9 DEF GetAccount, Submit, SubmitNotQueued, Network, vars, apiVars,
     batchVars, AnswersInv, TurnedAway
<1>10. CASE PollSuccess \/ BatchError \/ SubmitAnswerLost \/ BatchPanic
  <2>1. batch' = << >> /\ UNCHANGED <<entries, phase, reply, carriedBy>>
    BY <1>10 DEF PollSuccess, BatchError, SubmitAnswerLost, BatchPanic,
       AnswerError, SendAll, apiVars
  <2> QED
    BY <1>0, <1>10, <2>1, SendsAreSendable, EmptyHoldsNothing
       DEF AnswersInv, TurnedAway, Sendable
<1> QED
  BY <1>1, <1>2, <1>3, <1>4, <1>5, <1>6, <1>7, <1>8, <1>9, <1>10
     DEF Next, fund_handler, TurnsAway, batch_loop

-----------------------------------------------------------------------------
(* The refinement mapping. *)

(* What the stage of a request says of its state. *)
Told(r) ==
    /\ phase[r] = "new" => StageOf(r) = "new"
    /\ phase[r] = "waiting" => StageOf(r) = "open"
    /\ phase[r] = "gone" => StageOf(r) = "gone"
    /\ phase[r] = "answered" =>
          /\ reply[r].status = 200 => StageOf(r) = "confirmed"
          /\ reply[r] = transfer_failed => StageOf(r) = "denied"
          /\ reply[r] = internal => StageOf(r) = "unknown"
          /\ TurnedAway(r) => StageOf(r) = "refused"

LEMMA StageTold == AnswersInv => \A r \in Request : Told(r)
<1> SUFFICES ASSUME AnswersInv, NEW r \in Request PROVE Told(r)
  OBVIOUS
<1>1. CASE phase[r] # "answered"
  <2>1. /\ reply[r].status # 200 /\ reply[r] # transfer_failed
        /\ reply[r] # internal
    BY <1>1, RepliesDiffer DEF AnswersInv
  <2> QED
    BY <1>1, <2>1 DEF Told, StageOf
<1>2. CASE phase[r] = "answered"
  <2>1. TurnedAway(r) => /\ reply[r].status # 200 /\ reply[r] # transfer_failed
                         /\ reply[r] # internal
    BY RepliesDiffer DEF TurnedAway
  <2>2. /\ transfer_failed.status # 200 /\ internal.status # 200
        /\ internal # transfer_failed
    BY RepliesDiffer
  <2> QED
    BY <1>2, <2>1, <2>2 DEF Told, StageOf
<1> QED
  BY <1>1, <1>2

LEMMA StageToldNext == AnswersInv' => (\A r \in Request : Told(r))'
<1>1. (AnswersInv => \A r \in Request : Told(r))'
  BY StageTold, PTL
<1> QED
  BY <1>1

(* The stage of a request depends on its phase and its reply only. *)
LEMMA SameStage ==
    ASSUME NEW r \in Request, phase'[r] = phase[r], reply'[r] = reply[r]
    PROVE  StageOf(r)' = StageOf(r)
BY DEF StageOf

(* While nothing is signed and nothing included, no book changes. *)
LEMMA BooksUnchanged ==
    ASSUME UNCHANGED <<seq, applied, carriedBy>>
    PROVE  UNCHANGED <<[r \in Request |-> PaymentOf(r)], seq,
                       {q \in Payments : \E p \in applied :
                           p.tx.seq = q[1] /\ Pays(p, q[2])},
                       {p.tx.seq : p \in {q \in applied : q.ok /\ q.meta # "V3"}}>>
BY DEF PaymentOf, Payments, Pays

(* Handlers and clients only move requests from stage to stage. *)
LEMMA MovesStep ==
    ASSUME NEW S \in SUBSET Request, NEW from, NEW to,
           \A r \in S : StageOf(r) = from /\ StageOf(r)' = to,
           \A r \in Request \ S : StageOf(r)' = StageOf(r),
           UNCHANGED <<seq, applied, carriedBy>>
    PROVE  Promised!Moves(S, from, to)
BY BooksUnchanged DEF Promised!Moves

(* A step that changes no stage, signs nothing and includes nothing.        *)
LEMMA Stutters ==
    ASSUME UNCHANGED <<phase, reply, seq, applied, carriedBy>>
    PROVE  UNCHANGED Promised!vars
BY SameStage, BooksUnchanged DEF Promised!vars

-----------------------------------------------------------------------------
(* Handlers and clients. *)

(* A request moves on by itself. *)
LEMMA MovesOne ==
    ASSUME NEW r \in Request, NEW from, NEW to,
           StageOf(r) = from, StageOf(r)' = to,
           \A q \in Request \ {r} : phase'[q] = phase[q] /\ reply'[q] = reply[q],
           UNCHANGED <<seq, applied, carriedBy>>
    PROVE  Promised!Moves({r}, from, to)
BY MovesStep, SameStage

(* A request is turned away before anything is kept of it. *)
LEMMA RefuseStep ==
    ASSUME IndInv, AnswersInv, AnswersInv', NEW r \in Request,
           TurnsAway(r)
    PROVE  Promised!Refuse(r)
<1>1. PICK v \in Refusals : Answer(r, v)
  BY DEF TurnsAway, FundRejected, FundInvalid, FundQueueFull,
     FundAlreadyPending, Refusals
<1>2. /\ phase[r] = "new" /\ phase' = [phase EXCEPT ![r] = "answered"]
      /\ reply' = [reply EXCEPT ![r] = v]
      /\ UNCHANGED <<entries, seq, applied, batch, carriedBy>>
  BY <1>1 DEF TurnsAway, FundRejected, FundInvalid, FundQueueFull,
     FundAlreadyPending, Arrives, Answer, ledgerVars, batchVars
<1>3. phase'[r] = "answered" /\ reply'[r] = v
  BY <1>2 DEF IndInv, TypeOK
<1>4. TurnedAway(r)'
  BY <1>2, <1>3 DEF TurnedAway, IndInv, PlaceInv
<1>5. StageOf(r) = "new"
  BY <1>2, StageTold DEF Told
<1>6. StageOf(r)' = "refused"
  BY <1>3, <1>4, StageToldNext DEF Told
<1> QED
  BY <1>2, <1>5, <1>6, MovesOne DEF Promised!Refuse, IndInv, TypeOK

LEMMA AcceptStep ==
    ASSUME IndInv, AnswersInv, AnswersInv', NEW r \in Request, FundEnqueue(r)
    PROVE  Promised!Accept(r)
<1>1. /\ phase[r] = "new" /\ phase' = [phase EXCEPT ![r] = "waiting"]
      /\ UNCHANGED <<seq, applied, reply, carriedBy>>
  BY DEF FundEnqueue, Arrives, ledgerVars, batchVars
<1>2. StageOf(r) = "new"
  BY <1>1, StageTold DEF Told
<1>3. StageOf(r)' = "open"
  BY <1>1, StageToldNext DEF Told, IndInv, TypeOK
<1> QED
  BY <1>1, <1>2, <1>3, MovesOne DEF Promised!Accept, IndInv, TypeOK

LEMMA AbandonStep ==
    ASSUME IndInv, AnswersInv, AnswersInv',
           Crash \/ \E r \in Request : Disconnect(r)
    PROVE  \E S \in SUBSET Request : Promised!Abandon(S)
<1>1. PICK S \in SUBSET Request :
        /\ \A r \in S : phase[r] = "waiting" /\ phase'[r] = "gone"
        /\ \A r \in Request \ S : phase'[r] = phase[r]
  <2>1. CASE Crash
    <3> DEFINE W == {r \in Request : phase[r] = "waiting"}
    <3>1. /\ \A r \in W : phase[r] = "waiting" /\ phase'[r] = "gone"
          /\ \A r \in Request \ W : phase'[r] = phase[r]
      BY <2>1 DEF Crash
    <3>2. W \in SUBSET Request
      OBVIOUS
    <3> QED
      BY <3>1, <3>2
  <2>2. ASSUME NEW q \in Request, Disconnect(q)
        PROVE  /\ {q} \in SUBSET Request
               /\ \A r \in {q} : phase[r] = "waiting" /\ phase'[r] = "gone"
               /\ \A r \in Request \ {q} : phase'[r] = phase[r]
    BY <2>2 DEF Disconnect, IndInv, TypeOK
  <2> QED
    BY <2>1, <2>2
<1>2. UNCHANGED <<seq, applied, reply, carriedBy>>
  BY DEF Crash, Disconnect, ledgerVars, batchVars
<1>3. \A r \in S : StageOf(r) = "open" /\ StageOf(r)' = "gone"
  BY <1>1, StageTold, StageToldNext DEF Told
<1>4. \A r \in Request \ S : StageOf(r)' = StageOf(r)
  BY <1>1, <1>2, SameStage
<1> QED
  BY <1>2, <1>3, <1>4, MovesStep DEF Promised!Abandon

-----------------------------------------------------------------------------
(* A handler tells its client what the batch task sent. *)

(* A request whose transaction is on the ledger was decided by it. *)
LEMMA DecidedIsPaidFor ==
    ASSUME IndInv, NEW r \in Request, NEW p \in applied, p.tx = carriedBy[r]
    PROVE  /\ PaymentOf(r) = p.tx.seq /\ PaymentOf(r) # 0
           /\ \A q \in applied : q.tx.seq = PaymentOf(r) => q = p
<1>1. Justified(p.tx)
  BY DEF IndInv, NetworkInv
<1> QED
  BY <1>1 DEF PaymentOf, Justified, IndInv, HistoryInv

(* The instance's Paid says that the ledger entry of the request pays it. *)
LEMMA PaidMeansPays ==
    ASSUME IndInv, NEW r \in Request, NEW p \in applied, p.tx = carriedBy[r]
    PROVE  Promised!Paid(r) <=> Pays(p, addr(r))
<1>1. PaymentOf(r) = p.tx.seq /\ \A q \in applied : q.tx.seq = PaymentOf(r) => q = p
  BY DecidedIsPaidFor
<1>2. Pays(p, addr(r)) => addr(r) \in Address
  <2>1. p.tx.receivers \in Seq(Address) /\ p.results \in Seq(BOOLEAN)
    BY DEF IndInv, TypeOK, LedgerTypeOK, Included, Tx
  <2>2. p.ok => DOMAIN p.results = DOMAIN p.tx.receivers
    BY <2>1 DEF IndInv, HistoryInv
  <2> QED
    BY <2>1, <2>2 DEF Pays
<1>3. Pays(p, addr(r)) => <<p.tx.seq, addr(r)>> \in Payments
  BY <1>2 DEF Payments
<1> QED
  BY <1>1, <1>3 DEF Promised!Paid

LEMMA ResumeStep ==
    ASSUME IndInv, AnswersInv, AnswersInv', NEW r \in Request, FundResume(r)
    PROVE  Promised!Confirm(r) \/ Promised!Deny(r) \/ Promised!GiveUp(r)
<1> DEFINE v == IF chan[r] = RecvError THEN internal ELSE chan[r]
<1>1. /\ phase[r] = "waiting" /\ phase' = [phase EXCEPT ![r] = "answered"]
      /\ reply' = [reply EXCEPT ![r] = v]
      /\ v.status = 200 \/ v \in {internal, transfer_failed}
      /\ UNCHANGED <<seq, applied, carriedBy>>
  BY DEF FundResume, Answer, AnswersInv, ledgerVars, batchVars
<1>2. v.status = 200 \/ v = transfer_failed => v = chan[r]
  BY RepliesDiffer
<1> HIDE DEF v
<1>3. /\ phase'[r] = "answered" /\ reply'[r] = v
      /\ \A q \in Request \ {r} : phase'[q] = phase[q] /\ reply'[q] = reply[q]
  BY <1>1 DEF IndInv, TypeOK
<1>4. StageOf(r) = "open"
  BY <1>1, StageTold DEF Told
<1>5. \A to : StageOf(r)' = to => Promised!Moves({r}, "open", to)
  BY <1>1, <1>3, <1>4, MovesOne
<1>6. CASE v.status = 200
  <2>1. PICK p \in applied :
          /\ p.tx = carriedBy[r] /\ p.ok /\ chan[r].hash = carriedBy[r]
          /\ \E i \in DOMAIN p.tx.receivers :
                p.tx.receivers[i] = addr(r) /\ (p.meta = "V3" => p.results[i])
    BY <1>2, <1>6 DEF IndInv, SentInv
  <2>2. p.meta = "V3" => Pays(p, addr(r))
    <3>1. p.tx.receivers \in Seq(Address) /\ p.results \in Seq(BOOLEAN)
      BY DEF IndInv, TypeOK, LedgerTypeOK, Included, Tx
    <3>2. DOMAIN p.results = DOMAIN p.tx.receivers
      BY <2>1, <3>1 DEF IndInv, HistoryInv
    <3> QED
      BY <2>1, <3>2 DEF Pays
  <2>3. PaymentOf(r) = p.tx.seq /\ PaymentOf(r) # 0
    BY <2>1, DecidedIsPaidFor
  <2>4. \/ Promised!Paid(r)
        \/ PaymentOf(r) \in {q.tx.seq : q \in {q \in applied : q.ok /\ q.meta # "V3"}}
    BY <2>1, <2>2, <2>3, PaidMeansPays
  <2>5. ASSUME NEW s \in Request \ {r}, StageOf(s) = "confirmed", addr(s) = addr(r)
        PROVE  PaymentOf(s) # PaymentOf(r)
    <3>1. phase[s] = "answered" /\ reply[s].status = 200
      BY <2>5, StageTold DEF Told, AnswersInv, IndInv, TypeOK
    <3>2. chan[s].status = 200 /\ chan[s].hash = carriedBy[s]
      BY <3>1 DEF IndInv, ReplyInv, SentInv
    <3>3. PICK q \in applied : q.tx = carriedBy[s]
      BY <3>2 DEF IndInv, SentInv
    <3>4. carriedBy[s] # carriedBy[r]
      BY <1>2, <1>6, <2>1, <2>5, <3>2 DEF IndInv, FreshInv, SameAddress
    <3> QED
      BY <2>1, <2>3, <3>3, <3>4, DecidedIsPaidFor
  <2>6. StageOf(r)' = "confirmed"
    BY <1>3, <1>6, StageToldNext DEF Told
  <2> QED
    BY <1>5, <2>3, <2>4, <2>5, <2>6 DEF Promised!Confirm
<1>7. CASE v = transfer_failed
  <2>1. reply'[r] = transfer_failed /\ chan[r] = transfer_failed
    BY <1>2, <1>3, <1>7
  <2>2. PICK p \in applied :
          /\ p.tx = carriedBy[r] /\ p.ok
          /\ \E i \in DOMAIN p.tx.receivers :
                p.tx.receivers[i] = addr(r) /\ ~p.results[i]
    BY <2>1 DEF IndInv, SentInv
  <2>3. ~Pays(p, addr(r))
    BY <2>2, FailedIsNotPaid
  <2>4. PaymentOf(r) # 0 /\ ~Promised!Paid(r)
    BY <2>2, <2>3, DecidedIsPaidFor, PaidMeansPays
  <2>5. StageOf(r)' = "denied"
    BY <1>3, <2>1, StageToldNext DEF Told
  <2> QED
    BY <1>5, <2>4, <2>5 DEF Promised!Deny
<1>8. CASE v = internal
  <2>1. StageOf(r)' = "unknown"
    BY <1>3, <1>8, StageToldNext DEF Told
  <2> QED
    BY <1>5, <2>1 DEF Promised!GiveUp
<1> QED
  BY <1>1, <1>6, <1>7, <1>8

-----------------------------------------------------------------------------
(* The ledger and the batch task decide requests. *)

(* A request that went into a transaction, or is in the batch, and is not   *)
(* decided yet has been accepted and told nothing about a payment.          *)
LEMMA StillUndecided ==
    ASSUME IndInv, AnswersInv, NEW r \in Request,
           carriedBy[r] # NoTx \/ Holds(batch, r),
           PaymentOf(r) = 0
    PROVE  r \in Promised!Undecided
<1>1. phase[r] # "new"
  BY DEF IndInv, PlaceInv
<1>2. ASSUME reply[r].status = 200 \/ reply[r] = transfer_failed PROVE FALSE
  <2>1. \E p \in applied : p.tx = carriedBy[r]
    BY <1>2 DEF IndInv, ReplyInv, SentInv
  <2> QED
    BY <2>1, DecidedIsPaidFor
<1>3. StageOf(r) \in {"open", "unknown", "gone"}
  BY <1>1, <1>2, StageTold DEF Told, AnswersInv, TurnedAway, IndInv, TypeOK
<1> QED
  BY <1>3 DEF Promised!Undecided

(* A transaction is included: it decides the requests that were put into    *)
(* it, and pays those among them whose result is TRUE.                      *)
LEMMA IncludeStep ==
    ASSUME IndInv, AnswersInv, NEW t \in mempool, Include(t), Network
    PROVE  \E S \in SUBSET Promised!Undecided : \E P \in SUBSET S :
              Promised!Settle(S, P)
<1> DEFINE S == {r \in Request : carriedBy[r] = t}
<1>1. PICK p \in Included : AddsOne(t, p)
  BY IncludeAddsOne DEF IndInv, TypeOK
<1> DEFINE P == {r \in S : Pays(p, addr(r))}
<1>2. /\ applied' = applied \union {p} /\ p.tx = t
      /\ p.ok => Len(p.results) = Len(t.receivers)
      /\ seq' = t.seq /\ t.seq = seq + 1 /\ seq \in Nat /\ t.seq # 0
      /\ UNCHANGED <<phase, reply, carriedBy>>
      /\ Justified(t)
  BY <1>1 DEF AddsOne, Include, Network, apiVars, batchVars, IndInv, TypeOK,
     LedgerTypeOK, NetworkInv, Justified
<1>3. \A q \in applied : q.tx.seq \in Nat /\ q.tx.seq <= seq /\ q.tx # t
  BY <1>2 DEF IndInv, HistoryInv, TypeOK, LedgerTypeOK, Included, Tx
<1>4. \A r \in S : PaymentOf(r) = 0
  BY <1>3 DEF PaymentOf
<1>5. S \in SUBSET Promised!Undecided
  BY <1>2, <1>4, StillUndecided DEF NoTx
<1>6. \A r \in Request : PaymentOf(r)' = IF r \in S THEN seq' ELSE PaymentOf(r)
  BY <1>2 DEF PaymentOf
<1>7. {q \in Payments : \E e \in applied : e.tx.seq = q[1] /\ Pays(e, q[2])}'
        = {q \in Payments : \E e \in applied : e.tx.seq = q[1] /\ Pays(e, q[2])}
            \union {<<seq', addr(r)>> : r \in P}
  <2>1. p.tx.receivers \in Seq(Address) /\ p.results \in Seq(BOOLEAN)
    BY DEF Included, Tx
  <2>2. p.ok => DOMAIN p.results = DOMAIN t.receivers
    BY <1>2, <2>1
  <2>3. \A r \in P : addr(r) \in Address
    BY <1>2, <2>1, <2>2 DEF Pays
  <2>4. ASSUME NEW a, Pays(p, a)
        PROVE  \E r \in P : addr(r) = a
    BY <1>2, <2>2, <2>4 DEF Justified, Pays
  <2>5. \A e, a : Pays(e, a)' = Pays(e, a)
    BY DEF Pays
  <2> QED
    BY <1>2, <2>3, <2>4, <2>5 DEF Payments
<1>8. {e.tx.seq : e \in {q \in applied : q.ok /\ q.meta # "V3"}}' \in
        {{e.tx.seq : e \in {q \in applied : q.ok /\ q.meta # "V3"}},
         {e.tx.seq : e \in {q \in applied : q.ok /\ q.meta # "V3"}} \union {seq'}}
  BY <1>2
<1>9. \A r \in Request : StageOf(r)' = StageOf(r)
  BY <1>2, SameStage
<1>10. P \in SUBSET S /\ S \subseteq Request
  OBVIOUS
<1> HIDE DEF S, P
<1>11. UNCHANGED [r \in Request |-> StageOf(r)]
  BY <1>9
<1>12. Promised!DecidedBy(S, seq')
  BY <1>6, <1>10 DEF Promised!DecidedBy
<1>13. {<<seq', addr(r)>> : r \in P}
         = {<<seq', [q \in Request |-> addr(q)][r]>> : r \in P}
  BY <1>10
<1>14. seq' \in Nat /\ seq' > seq
  BY <1>2
<1> QED
  BY <1>5, <1>7, <1>8, <1>10, <1>11, <1>12, <1>13, <1>14, Zenon DEF Promised!Settle

(* The owner's own transactions use up a number and decide nothing. *)
LEMMA OperatorStep ==
    ASSUME IndInv, OperatorTransaction, Network
    PROVE  \E S \in SUBSET Promised!Undecided : \E P \in SUBSET S :
              Promised!Settle(S, P)
<1>1. /\ seq' = seq + 1 /\ seq \in Nat
      /\ UNCHANGED <<phase, reply, applied, carriedBy>>
  BY DEF OperatorTransaction, Network, apiVars, batchVars, IndInv, TypeOK, LedgerTypeOK
<1>2. /\ UNCHANGED [r \in Request |-> StageOf(r)]
      /\ UNCHANGED [r \in Request |-> PaymentOf(r)]
      /\ UNCHANGED {q \in Payments : \E p \in applied :
                       p.tx.seq = q[1] /\ Pays(p, q[2])}
      /\ UNCHANGED {p.tx.seq : p \in {q \in applied : q.ok /\ q.meta # "V3"}}
  BY <1>1, SameStage DEF PaymentOf, Payments, Pays
<1>3. seq' \in Nat /\ seq' > seq
  BY <1>1
<1>4. Promised!DecidedBy({}, seq')
  BY <1>2 DEF Promised!DecidedBy
<1>5. Promised!Settle({}, {})
  BY <1>2, <1>3, <1>4 DEF Promised!Settle
<1> QED
  BY <1>5

(* A transaction is signed.  Only if the very same one is on the ledger     *)
(* already does it decide the requests of the batch, which then join those  *)
(* it was built for before.                                                 *)
LEMMA SignStep ==
    ASSUME IndInv, AnswersInv, Simulate
    PROVE  \/ \E S \in SUBSET Promised!Undecided : \E r \in Request :
                 Promised!Join(S, r)
           \/ UNCHANGED Promised!vars
<1>1. /\ loop = "simulate"
      /\ carriedBy' = [r \in Request |->
                          IF Holds(batch, r) THEN tx' ELSE carriedBy[r]]
      /\ UNCHANGED <<seq, applied, phase, reply>>
  BY DEF Simulate, ledgerVars, apiVars
<1>2. UNCHANGED <<[r \in Request |-> StageOf(r)], seq,
                  {q \in Payments : \E p \in applied :
                      p.tx.seq = q[1] /\ Pays(p, q[2])},
                  {p.tx.seq : p \in {q \in applied : q.ok /\ q.meta # "V3"}}>>
  BY <1>1, SameStage DEF Payments, Pays
<1>3. \A r \in Request : Holds(batch, r) => PaymentOf(r) = 0
  BY <1>1 DEF IndInv, PlaceInv, PaymentOf, NoTx
<1>4. CASE \E p \in applied : p.tx = tx'
  <2>1. PICK p \in applied : p.tx = tx'
    BY <1>4
  <2>2. Justified(p.tx)
    BY DEF IndInv, NetworkInv
  <2>3. PICK s \in Request : carriedBy[s] = p.tx
    <3>1. 1 \in DOMAIN p.tx.receivers
      BY <2>2, MaxSizeAssumption
         DEF Justified, IndInv, TypeOK, LedgerTypeOK, Included, Tx
    <3> QED
      BY <2>2, <3>1 DEF Justified
  <2>4. PaymentOf(s) = p.tx.seq /\ PaymentOf(s) # 0
    BY <2>3, DecidedIsPaidFor
  <2>5. PICK S \in SUBSET Request : \A r \in Request : r \in S <=> Holds(batch, r)
    <3> DEFINE H == {r \in Request : Holds(batch, r)}
    <3>1. H \in SUBSET Request /\ \A r \in Request : r \in H <=> Holds(batch, r)
      OBVIOUS
    <3> HIDE DEF H
    <3> QED
      BY <3>1
  <2>6. S \in SUBSET Promised!Undecided
    BY <1>3, <2>5, StillUndecided
  <2>7. \A r \in Request :
           PaymentOf(r)' = IF r \in S THEN PaymentOf(s) ELSE PaymentOf(r)
    BY <1>1, <2>1, <2>4, <2>5 DEF PaymentOf
  <2>8. Promised!Join(S, s)
    BY <1>2, <2>4, <2>7 DEF Promised!Join, Promised!DecidedBy
  <2> QED
    BY <2>6, <2>8
<1>5. CASE ~ \E p \in applied : p.tx = tx'
  <2>1. \A r \in Request : PaymentOf(r)' = PaymentOf(r)
    BY <1>1, <1>3, <1>5 DEF PaymentOf
  <2> QED
    BY <1>2, <2>1 DEF Promised!vars
<1> QED
  BY <1>4, <1>5

-----------------------------------------------------------------------------
(* Every step of the faucet is one of the service, or a stutter. *)

LEMMA PromisedInit == Init => Promised!Init
<1> SUFFICES ASSUME Init PROVE Promised!Init
  OBVIOUS
<1>1. \A r \in Request : StageOf(r) = "new" /\ PaymentOf(r) = 0
  BY AnswersInit, StageTold DEF Told, Init, LedgerInit, PaymentOf
<1> QED
  BY <1>1 DEF Promised!Init, Init, LedgerInit, Payments

LEMMA PromisedStep ==
    IndInv /\ AnswersInv /\ AnswersInv' /\ [Next]_vars
        => [Promised!Next]_(Promised!vars)
<1> SUFFICES ASSUME IndInv, AnswersInv, AnswersInv', [Next]_vars
             PROVE  Promised!Next \/ UNCHANGED Promised!vars
  OBVIOUS
<1>1. ASSUME NEW r \in Request, fund_handler(r)
      PROVE  Promised!Next
  BY <1>1, RefuseStep, AcceptStep, ResumeStep
     DEF fund_handler, TurnsAway, Promised!Next
<1>2. ASSUME Crash \/ \E r \in Request : Disconnect(r)
      PROVE  Promised!Next
  BY <1>2, AbandonStep DEF Promised!Next
<1>3. CASE Simulate
  BY <1>3, SignStep DEF Promised!Next
<1>4. CASE Network
  <2>1. ASSUME NEW t \in mempool, Include(t)
        PROVE  Promised!Next
    BY <1>4, <2>1, IncludeStep DEF Promised!Next
  <2>2. CASE OperatorTransaction
    BY <1>4, <2>2, OperatorStep DEF Promised!Next
  <2>3. ASSUME NEW t \in mempool, Evict(t)
        PROVE  UNCHANGED Promised!vars
    BY <1>4, <2>3, Stutters DEF Evict, Network, apiVars, batchVars
  <2> QED
    BY <1>4, <2>1, <2>2, <2>3 DEF Network
<1>5. CASE Startup \/ Tick \/ GetAccount \/ Submit \/ SubmitNotQueued \/ UNCHANGED vars
  BY <1>5, Stutters DEF Startup, Tick, drain, GetAccount, Submit, Admit,
     SubmitNotQueued, vars, ledgerVars, apiVars
<1>6. CASE SubmitAnswerLost \/ PollSuccess \/ BatchError \/ BatchPanic
  BY <1>6, Stutters DEF SubmitAnswerLost, Admit, PollSuccess, BatchError,
     BatchPanic, AnswerError, ledgerVars, apiVars
<1> QED
  BY <1>1, <1>2, <1>3, <1>4, <1>5, <1>6 DEF Next, batch_loop

(* The service keeps its promise: whatever times out, is lost, crashes or   *)
(* panics, the faucet only ever does what FundingService allows.            *)
THEOREM KeepsPromiseHolds == Spec => KeepsPromise
<1>1. Spec => []AnswersInv
  BY AnswersInit, AnswersStep, Invariance, PTL DEF Spec
<1> QED
  BY <1>1, Invariance, PromisedInit, PromisedStep, PTL
     DEF Spec, KeepsPromise, Promised!Spec

=============================================================================
