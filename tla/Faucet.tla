------------------------------- MODULE Faucet -------------------------------
(***************************************************************************)
(* The faucet service: the HTTP handlers of faucet/src/api.rs, one task    *)
(* each, the batch task of faucet/src/batch.rs, and the transaction it     *)
(* builds and submits in faucet/src/tx.rs, over the pending queue and the  *)
(* Stellar network.                                                        *)
(*                                                                         *)
(* A step is what a task does between two await points.  Every await of    *)
(* the batch task is a call of the RPC node, which may fail, time out, or  *)
(* take effect although its answer is lost.                                *)
(***************************************************************************)
EXTENDS FaucetQueue, Ledger, FiniteSets

CONSTANTS Query,      \* the addr parameter of each request
          MayPanic    \* the batch task may panic and unwind (debug build)

(* The raw parameter: a text, maybe surrounded by whitespace, or missing.   *)
RawAddr == [given : BOOLEAN, text : Text, padded : BOOLEAN]

ASSUME QueryAssumption == Query \in [Request -> RawAddr]
ASSUME AddressAssumption == Address \subseteq Text
ASSUME RequestAssumption == IsFiniteSet(Request)
ASSUME PanicAssumption == MayPanic \in BOOLEAN

VARIABLES
    proc,     \* the process: "down" or "serving"
    phase,    \* a request: "new", "waiting", "answered" or "gone"
    chan,     \* the one-shot channel of a request
    reply,    \* what the client of a request received
    loop,     \* where the batch task is
    batch,    \* the entries of the batch in flight
    tx,       \* the transaction being built for that batch
    carriedBy \* history: the signed transaction a request was put into

apiVars   == <<phase, reply>>
batchVars == <<loop, batch, tx, carriedBy>>
vars      == <<entries, seq, mempool, applied, proc, phase, chan, reply,
               loop, batch, tx, carriedBy>>

-----------------------------------------------------------------------------
(* Responses: SuccessResponse of queue.rs, ProblemDetail of error.rs, and   *)
(* what the Query extractor answers when it rejects a request.              *)

ReplyType == {"success", "rejection", "bad_request", "internal_server_error",
              "transaction_failed", "empty", "recv_error"}

Reply == [status : Nat, type : ReplyType, hash : Tx]

ProblemDetail(status, type) == [status |-> status, type |-> type, hash |-> NoTx]

SuccessResponse(t) == [status |-> 200, type |-> "success", hash |-> t]

missing_addr    == ProblemDetail(400, "rejection")
invalid_address == ProblemDetail(400, "bad_request")
already_pending == ProblemDetail(409, "bad_request")
queue_full      == ProblemDetail(503, "bad_request")
internal        == ProblemDetail(500, "internal_server_error")
transfer_failed == ProblemDetail(400, "transaction_failed")

(* The channel before anything is sent, and after its sender was dropped.  *)
Empty     == ProblemDetail(0, "empty")
RecvError == ProblemDetail(0, "recv_error")

-----------------------------------------------------------------------------
trim(raw) == raw.text

addr(r) == trim(Query[r])

(* Mutant: the handler no longer validates. *)
AnyText(text) == TRUE

(* The handler's validation, and the conversion of an address when a        *)
(* transaction is built, parse the text each on its own.                    *)
IsPublicKey(text) == text \in Address

g_address_to_sc_address_succeeds(text) == text \in Address

Working == {"get_account", "simulate", "submit", "poll"}

TypeOK ==
    /\ QueueTypeOK
    /\ LedgerTypeOK
    /\ proc \in {"down", "serving"}
    /\ phase \in [Request -> {"new", "waiting", "answered", "gone"}]
    /\ chan \in [Request -> Reply]
    /\ reply \in [Request -> Reply]
    /\ loop \in {"off", "tick", "dead"} \union Working
    /\ loop = "off" <=> proc = "down"
    /\ batch \in Seq(PendingEntry)
    /\ loop \in Working <=> batch # << >>
    /\ tx \in Tx
    /\ carriedBy \in [Request -> Tx]

Init ==
    /\ QueueInit
    /\ LedgerInit
    /\ proc = "down"
    /\ phase = [r \in Request |-> "new"]
    /\ chan = [r \in Request |-> Empty]
    /\ reply = [r \in Request |-> Empty]
    /\ loop = "off"
    /\ batch = << >>
    /\ tx = NoTx
    /\ carriedBy = [r \in Request |-> NoTx]

-----------------------------------------------------------------------------
(* The process. *)

(* main: the startup checks pass, the batch task is spawned and the server  *)
(* listens.                                                                 *)
Startup ==
    /\ proc = "down"
    /\ proc' = "serving"
    /\ loop' = "tick"
    /\ UNCHANGED <<entries, ledgerVars, apiVars, chan, batch, tx, carriedBy>>

(* The process dies at any point.  Queue, batch and connections are lost;   *)
(* what was submitted is not.                                               *)
Crash ==
    /\ proc = "serving"
    /\ proc' = "down"
    /\ entries' = << >>
    /\ loop' = "off"
    /\ batch' = << >>
    /\ tx' = NoTx
    /\ phase' = [r \in Request |->
                   IF phase[r] = "waiting" THEN "gone" ELSE phase[r]]
    /\ UNCHANGED <<ledgerVars, chan, reply, carriedBy>>

-----------------------------------------------------------------------------
(* fund_handler: up to its await, one step per way out of it. *)

Answer(r, value) ==
    /\ phase' = [phase EXCEPT ![r] = "answered"]
    /\ reply' = [reply EXCEPT ![r] = value]

(* The Query extractor turns a request without the parameter away. *)
FundRejected(r) ==
    /\ proc = "serving"
    /\ phase[r] = "new"
    /\ ~Query[r].given
    /\ Answer(r, missing_addr)
    /\ UNCHANGED <<entries, ledgerVars, proc, chan, batchVars>>

Arrives(r) == proc = "serving" /\ phase[r] = "new" /\ Query[r].given

FundInvalid(r) ==
    /\ Arrives(r)
    /\ ~IsPublicKey(addr(r))
    /\ Answer(r, invalid_address)
    /\ UNCHANGED <<entries, ledgerVars, proc, chan, batchVars>>

FundQueueFull(r) ==
    /\ Arrives(r)
    /\ IsPublicKey(addr(r))
    /\ QueueIsFull
    /\ Answer(r, queue_full)
    /\ UNCHANGED <<entries, ledgerVars, proc, chan, batchVars>>

FundAlreadyPending(r) ==
    /\ Arrives(r)
    /\ IsPublicKey(addr(r))
    /\ ~QueueIsFull
    /\ AlreadyPending(addr(r))
    /\ Answer(r, already_pending)
    /\ UNCHANGED <<entries, ledgerVars, proc, chan, batchVars>>

FundEnqueue(r) ==
    /\ Arrives(r)
    /\ IsPublicKey(addr(r))
    /\ ~QueueIsFull
    /\ ~AlreadyPending(addr(r))
    /\ push(addr(r), r)
    /\ phase' = [phase EXCEPT ![r] = "waiting"]
    /\ UNCHANGED <<ledgerVars, proc, chan, reply, batchVars>>

(* fund_handler resumes: something was sent, or the sender was dropped. *)
FundResume(r) ==
    /\ phase[r] = "waiting"
    /\ chan[r] # Empty
    /\ Answer(r, IF chan[r] = RecvError THEN internal ELSE chan[r])
    /\ UNCHANGED <<entries, ledgerVars, proc, chan, batchVars>>

(* The client hangs up: the handler is dropped with its receiver, while its *)
(* entry stays where it is.                                                 *)
Disconnect(r) ==
    /\ phase[r] = "waiting"
    /\ phase' = [phase EXCEPT ![r] = "gone"]
    /\ UNCHANGED <<entries, ledgerVars, proc, chan, reply, batchVars>>

-----------------------------------------------------------------------------
(* batch_loop and dispatch_batch. *)

SlotOf(r) == CHOOSE i \in DOMAIN batch : batch[i].responder = r

(* responder.send for every entry of the batch, which is then over.  A send *)
(* to a receiver that was dropped is ignored.                               *)
SendAll(values) ==
    /\ chan' = [r \in Request |->
                  IF Holds(batch, r) /\ phase[r] = "waiting"
                  THEN values[SlotOf(r)] ELSE chan[r]]
    /\ batch' = << >>
    /\ tx' = NoTx

(* Mutant: an empty batch is dispatched as well. *)
TickDispatchesEmpty ==
    /\ loop = "tick"
    /\ batch' = entries
    /\ drain
    /\ loop' = "get_account"
    /\ UNCHANGED <<ledgerVars, proc, apiVars, chan, tx, carriedBy>>

(* Mutant: a batch is only started when it is full. *)
TickWhenFull ==
    /\ loop = "tick"
    /\ entries # << >>
    /\ QueueIsFull
    /\ batch' = entries
    /\ drain
    /\ loop' = "get_account"
    /\ UNCHANGED <<ledgerVars, proc, apiVars, chan, tx, carriedBy>>

(* A tick of the interval.  Draining an empty queue changes nothing. *)
Tick ==
    /\ loop = "tick"
    /\ entries # << >>
    /\ batch' = entries
    /\ drain
    /\ loop' = "get_account"
    /\ UNCHANGED <<ledgerVars, proc, apiVars, chan, tx, carriedBy>>

-----------------------------------------------------------------------------
(* invoke_batch_transfer, from one RPC call to the next. *)

(* Mutant: the sequence number is read once and cached. *)
GetAccountCached ==
    /\ loop = "get_account"
    /\ tx' = [seq       |-> 1,
              receivers |-> [i \in 1 .. Len(batch) |-> batch[i].address],
              resources |-> 0]
    /\ loop' = "simulate"
    /\ UNCHANGED <<entries, ledgerVars, proc, apiVars, chan, batch, carriedBy>>

(* The arguments are encoded, which fails on a malformed address; then the  *)
(* account's current sequence number is fetched.                            *)
GetAccount ==
    /\ loop = "get_account"
    /\ \A i \in DOMAIN batch : g_address_to_sc_address_succeeds(batch[i].address)
    /\ tx' = [seq       |-> seq + 1,
              receivers |-> [i \in 1 .. Len(batch) |-> batch[i].address],
              resources |-> 0]
    /\ loop' = "simulate"
    /\ UNCHANGED <<entries, ledgerVars, proc, apiVars, chan, batch, carriedBy>>

(* Simulation succeeds; the transaction is assembled and signed. *)
Simulate ==
    /\ loop = "simulate"
    /\ \E resources \in Resources : tx' = [tx EXCEPT !.resources = resources]
    /\ carriedBy' = [r \in Request |->
                       IF Holds(batch, r) THEN tx' ELSE carriedBy[r]]
    /\ loop' = "submit"
    /\ UNCHANGED <<entries, ledgerVars, proc, apiVars, chan, batch>>

(* send_transaction_polling: the node takes the transaction ... *)
Submit ==
    /\ loop = "submit"
    /\ Admit(tx)
    /\ loop' = "poll"
    /\ UNCHANGED <<entries, proc, apiVars, chan, batch, tx, carriedBy>>

(* ... or asks to try again later, which is not an error: it is polled for. *)
SubmitNotQueued ==
    /\ loop = "submit"
    /\ loop' = "poll"
    /\ UNCHANGED <<entries, ledgerVars, proc, apiVars, chan, batch, tx, carriedBy>>

(* parse_results_from_meta, or the default where there is no meta at all.   *)
(* A vector that does not fit the batch stands for any of another length.   *)
parse_results_from_meta(p, receiver_count) ==
    CASE p.meta = "V3"     -> p.results
      [] p.meta = "misfit" -> Append(p.results, FALSE)
      [] OTHER             -> [i \in 1 .. receiver_count |-> TRUE]

(* Mutant: every entry is answered with the result of the first. *)
OutcomeOfFirst(p, results, i) ==
    IF results[1] THEN SuccessResponse(p.tx) ELSE transfer_failed

(* Mutant: the batch is reported all or nothing. *)
OutcomeOfAll(p, results, i) ==
    IF \A j \in DOMAIN results : results[j]
    THEN SuccessResponse(p.tx) ELSE transfer_failed

(* Mutant: the results are read from the end. *)
OutcomeReversed(p, results, i) ==
    IF results[Len(results) + 1 - i] THEN SuccessResponse(p.tx) ELSE transfer_failed

(* The response to entry i of a batch whose transaction p succeeded. *)
Outcome(p, results, i) ==
    LET has_per_entry == results # << >> /\ Len(results) = Len(batch)
        succeeded     == IF has_per_entry THEN results[i] ELSE TRUE
    IN  IF succeeded THEN SuccessResponse(p.tx) ELSE transfer_failed

(* Polling reports SUCCESS: every entry gets its own answer. *)
PollSuccess ==
    /\ loop = "poll"
    /\ \E p \in applied :
         /\ p.tx = tx
         /\ p.ok
         /\ LET results == parse_results_from_meta(p, Len(batch))
            IN  SendAll([i \in 1 .. Len(batch) |-> Outcome(p, results, i)])
    /\ loop' = "tick"
    /\ UNCHANGED <<entries, ledgerVars, proc, apiVars, carriedBy>>

(* Mutant: an error is answered as if every transfer had failed. *)
AnswerFailed ==
    /\ SendAll([i \in 1 .. Len(batch) |-> transfer_failed])
    /\ loop' = "tick"
    /\ UNCHANGED <<entries, proc, apiVars, carriedBy>>

(* invoke_batch_transfer returns an error: an RPC call failed or was        *)
(* refused, the simulation reported one, the transaction failed on the      *)
(* ledger, or polling timed out.  Every entry gets the same answer.         *)
AnswerError ==
    /\ SendAll([i \in 1 .. Len(batch) |-> internal])
    /\ loop' = "tick"
    /\ UNCHANGED <<entries, proc, apiVars, carriedBy>>

(* Mutant: a failed batch is tried again under a fresh sequence number. *)
RetryOnError ==
    /\ loop \in Working
    /\ tx' = NoTx
    /\ loop' = "get_account"
    /\ UNCHANGED <<entries, ledgerVars, proc, apiVars, chan, batch, carriedBy>>

BatchError ==
    /\ loop \in Working
    /\ AnswerError
    /\ UNCHANGED ledgerVars

(* The node takes the transaction, but the answer to the call is lost. *)
SubmitAnswerLost ==
    /\ loop = "submit"
    /\ Admit(tx)
    /\ AnswerError

(* The batch task panics and unwinds: the senders it owns are dropped, and  *)
(* nothing drains the queue any more.                                       *)
BatchPanic ==
    /\ MayPanic
    /\ loop \in Working
    /\ SendAll([i \in 1 .. Len(batch) |-> RecvError])
    /\ loop' = "dead"
    /\ UNCHANGED <<entries, ledgerVars, proc, apiVars, carriedBy>>

-----------------------------------------------------------------------------
(* The network moves on by itself. *)
Network ==
    /\ \/ \E t \in mempool : Include(t) \/ Evict(t)
       \/ OperatorTransaction
    /\ UNCHANGED <<entries, proc, apiVars, chan, batchVars>>

fund_handler(r) ==
    \/ FundRejected(r)
    \/ FundInvalid(r)
    \/ FundQueueFull(r)
    \/ FundAlreadyPending(r)
    \/ FundEnqueue(r)
    \/ FundResume(r)

batch_loop ==
    \/ Tick
    \/ GetAccount
    \/ Simulate
    \/ Submit
    \/ SubmitNotQueued
    \/ SubmitAnswerLost
    \/ PollSuccess
    \/ BatchError

Next ==
    \/ Startup
    \/ Crash
    \/ \E r \in Request : fund_handler(r) \/ Disconnect(r)
    \/ batch_loop
    \/ BatchPanic
    \/ Network

Spec == Init /\ [][Next]_vars

(***************************************************************************)
(* The runtime keeps running ready tasks, the interval keeps ticking, and  *)
(* every RPC call ends: the client gives each request a timeout, and       *)
(* send_transaction_polling stops polling after a while.                   *)
(***************************************************************************)
Fairness ==
    /\ WF_vars(batch_loop)
    /\ \A r \in Request : WF_vars(FundResume(r))

FairSpec == Spec /\ Fairness

-----------------------------------------------------------------------------
(* Properties. *)

Succeeded(r) == reply[r].status = 200

SameAddress(r, s) == addr(r) = addr(s)

(* No transaction the faucet gets onto the network names an address twice   *)
(* or exceeds the batch limit: the queue's duplicate and capacity checks    *)
(* carry over to what is submitted and included.                            *)
PayableOnce ==
    \A t \in mempool \union {p.tx : p \in applied} :
        /\ Len(t.receivers) \in 1 .. MaxSize
        /\ \A i, j \in DOMAIN t.receivers :
              t.receivers[i] = t.receivers[j] => i = j

(* One address that does not encode fails a batch as a whole, for everybody *)
(* in it.  None gets that far: what was validated when it was queued is     *)
(* what is encoded, ticks and batches later.                                *)
BatchAlwaysEncodes ==
    loop = "get_account" =>
        \A i \in DOMAIN batch : g_address_to_sc_address_succeeds(batch[i].address)

(* A client told "successful" with a hash finds that transaction on the     *)
(* ledger, successful and with its address among the receivers; and if the  *)
(* meta was one the faucet can read, its own transfer went through.         *)
SuccessIsOnLedger ==
    \A r \in Request : Succeeded(r) =>
        \E p \in applied :
            /\ p.tx = reply[r].hash
            /\ p.ok
            /\ \E i \in DOMAIN p.tx.receivers :
                  /\ p.tx.receivers[i] = addr(r)
                  /\ p.meta = "V3" => p.results[i]

(* A client told that its transfer failed was indeed not paid by the        *)
(* transaction its request went into, and that transaction can no longer be *)
(* pending: it is on the ledger.                                            *)
FailureIsUnpaid ==
    \A r \in Request : reply[r] = transfer_failed =>
        /\ \E p \in applied : p.tx = carriedBy[r]
        /\ \A p \in applied : p.tx = carriedBy[r] => ~Pays(p, addr(r))

(* Two clients of one address are never both told "successful" for the same *)
(* payment, whatever timed out, was resubmitted or crashed in between.      *)
SuccessesAreSeparatePayments ==
    \A r, s \in Request :
        /\ r # s
        /\ SameAddress(r, s)
        /\ Succeeded(r)
        /\ Succeeded(s)
        => reply[r].hash # reply[s].hash

(* An address is paid at most as often as requests for it went into a       *)
(* transaction: no timeout, lost answer or restart pays twice for one       *)
(* request.                                                                 *)
PaymentsAreRequested ==
    \A a \in Address :
        Cardinality({p \in applied : Pays(p, a)})
            <= Cardinality({r \in Request : addr(r) = a /\ carriedBy[r] # NoTx})

(* The duplicate check looks at the queue and not at the batch in flight,   *)
(* so an address can have two requests unanswered at a time, never three.   *)
AtMostTwoUnanswered ==
    LET Unanswered(r) == phase[r] = "waiting" /\ chan[r] = Empty
    IN  \A r, s, t \in Request :
            /\ Unanswered(r) /\ Unanswered(s) /\ Unanswered(t)
            /\ SameAddress(r, s) /\ SameAddress(s, t)
            => r = s \/ s = t \/ r = t

(* README: "Per-recipient success/failure response".  A client told         *)
(* "successful" was paid by the transaction it was told of.                 *)
SuccessMeansPaid ==
    \A r \in Request : Succeeded(r) =>
        \E p \in applied : p.tx = reply[r].hash /\ Pays(p, addr(r))

(* batch.rs: "Batch transfer failed: {e}".  A client told so is not paid by *)
(* the transaction its request was put into.                                *)
ErrorMeansUnpaid ==
    \A r \in Request : reply[r] = internal =>
        \A p \in applied : p.tx = carriedBy[r] => ~Pays(p, addr(r))

(***************************************************************************)
(* The refinement mapping to FundingService.  The stage of a request is    *)
(* what its client can tell, and the payment that decided it is the        *)
(* transaction it was put into, once that is on the ledger.                *)
(***************************************************************************)
StageOf(r) ==
    CASE phase[r] = "new"             -> "new"
      [] phase[r] = "waiting"         -> "open"
      [] phase[r] = "gone"            -> "gone"
      [] reply[r].status = 200        -> "confirmed"
      [] reply[r] = transfer_failed   -> "denied"
      [] reply[r] = internal          -> "unknown"
      [] OTHER                        -> "refused"

PaymentOf(r) ==
    IF \E p \in applied : p.tx = carriedBy[r] THEN carriedBy[r].seq ELSE 0

Payments == {<<p.tx.seq, a>> : p \in applied, a \in Address}

Promised == INSTANCE FundingService WITH
    Recipient <- [r \in Request |-> addr(r)],
    stage     <- [r \in Request |-> StageOf(r)],
    payment   <- [r \in Request |-> PaymentOf(r)],
    last      <- seq,
    ledger    <- {q \in Payments : \E p \in applied :
                    p.tx.seq = q[1] /\ Pays(p, q[2])},
    opaque    <- {p.tx.seq : p \in {q \in applied : q.ok /\ q.meta # "V3"}}

(* The service keeps what FundingService promises: a request is answered at *)
(* most once and decided by at most one transaction, every payment is for a *)
(* request that was accepted, a success is told of once per payment, and    *)
(* nobody who was told of a failed transfer is paid later, whatever times   *)
(* out, is lost, crashes or panics.                                         *)
KeepsPromise == Promised!Spec

(* Every request that was accepted is settled: answered, unless the client  *)
(* hangs up or the process dies.                                            *)
RequestsAreSettled ==
    \A r \in Request : phase[r] = "waiting" ~> phase[r] # "waiting"

=============================================================================
