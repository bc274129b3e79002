# A TLA+ development of BestFriendBot

BestFriendBot is a token faucet for Stellar: an HTTP service that collects
funding requests, and a background task that pays a batch of them with one call
of a `batch_transfer` contract. This directory models that system in TLA+,
model-checks it with TLC on small instances, and proves its main safety
properties with TLAPS for every number of requests, addresses and batch sizes.
`PROJECT.json` holds the machine-readable side: runs, mutants, the map from
definitions to source lines, findings, hazards and theorems.

## The system

| Component | Source | State | Operations |
|---|---|---|---|
| pending queue | `faucet/src/queue.rs` | vector of (address, one-shot sender) behind a mutex, a size limit | `enqueue`, `drain`, `len` |
| HTTP handlers | `faucet/src/api.rs`, `error.rs` | one task per request, waiting on its one-shot receiver | `fund_handler`, `health_handler` |
| batch task | `faucet/src/batch.rs` | a 5 s interval, the batch in flight | `batch_loop`, `dispatch_batch` |
| transaction pipeline | `faucet/src/tx.rs` | none between batches | `invoke_batch_transfer`, `assemble_transaction`, `sign_envelope`, `parse_results_from_meta` |
| startup, configuration | `faucet/src/main.rs`, `config.rs` | the process, `Config` | `from_env`, start-up checks, spawning the batch task, serving |
| contract | `contracts/batch_transfer/src/lib.rs` | none; balances belong to the token | `batch_transfer` |
| resource profiling | `contracts/batch_transfer/src/test.rs` | bounds of a binary search | `fits_limits`, `find_max_batch_size` |
| network and RPC node | external | account sequence number, mempool, ledger | admission, inclusion, eviction |
| scripts | `scripts/*.sh` | — | integration test, ledger timing measurement |

A handler validates the address, puts an entry into the queue and awaits its
channel. The batch task drains the queue at a tick and owns the entries while it
talks to the RPC node: fetch the account, simulate, submit, poll. Then it sends
one answer to each entry. Handlers and batch task run concurrently and meet only
in the queue and in the channels. Nothing is persisted.

What is hard here:

* **Interleaving.** Requests arrive, and clients hang up, at every await of the
  batch task. The duplicate check covers the queue, not the batch in flight.
* **Unreliable answers.** Each RPC call can fail or time out; a submission can
  take effect although its answer is lost; a transaction without time bounds can
  be included after its batch was reported as failed, or after a restart.
* **Identity.** A hash identifies content, so a later transaction for the same
  receivers under the same sequence number is the *same* transaction.
* **Alignment.** Entries, encoded receivers and results correspond by position.
* **Width.** Resource limits are `u32` with a saturating buffer; the fee is
  computed in 64 bits and cut to 32; an amount is an `i128` sent in two halves.
* **Time.** A batch can outlast the interval; ticks are missed and requests pile up
  behind it.
* **Scarcity.** The funding account can run dry in the middle of a batch.

## Modules

| Module | Models | Extends |
|---|---|---|
| `FaucetQueue` | `queue.rs` | |
| `Ledger` | the network as `tx.rs` sees it (external) | |
| `Faucet` | `api.rs`, `error.rs`, `batch.rs`, `main.rs` and the calls of `tx.rs`, composed over the two above | `FaucetQueue`, `Ledger` |
| `FaucetProofs` | the inductive invariant of `Faucet`, its theorems and the refinement | `Faucet` |
| `TxAssembly` | `assemble_transaction`, `sign_envelope` and what the network makes of the result | |
| `TxAssemblyProofs` | theorems about `TxAssembly` | `TxAssembly` |
| `FundingService` | what a client is promised; implemented by `Faucet` | |
| `Token` | a token (external) and a whole call of the contract as one step | |
| `TokenProofs` | what the recursive function of `Token` computes, by induction | `Token` |
| `BatchTransfer` | the contract's loop, turn by turn | `Token` |
| `BatchTransferProofs` | theorems about `BatchTransfer` | `BatchTransfer`, `TokenProofs` |
| `FundedFaucet` | faucet, network, contract and token together | `Faucet`, `Token` |
| `FundedFaucetProofs` | theorems about `FundedFaucet` | `FundedFaucet`, `FaucetProofs`, `TokenProofs` |
| `BatchInterval` | the interval of `batch_loop` against batches that take time | |
| `BatchIntervalProofs` | theorems about `BatchInterval` | `BatchInterval` |
| `Startup` | `config.rs`, `main.rs`, the checks and conversions of `tx.rs`, `/health` | |
| `StartupProofs` | theorems about `Startup` | `Startup` |
| `MaxBatchSearch` | the binary search of the profiling test | |
| `MaxBatchSearchProofs` | theorems about `MaxBatchSearch` | `MaxBatchSearch` |
| `MC...` | small instances for TLC | |

### Faucet

An action is what one task does between two awaits.

| Variable | In the code |
|---|---|
| `entries` | `FaucetQueue.entries`; a request stands for the sender it owns |
| `proc` | whether the process is up |
| `phase`, `reply` | where the handler of a request is and what its client got |
| `chan` | its one-shot channel: `Empty`, a value sent, or `RecvError` after the sender was dropped |
| `loop`, `batch`, `tx` | the await the batch task is at, the entries it owns, the transaction it builds |
| `carriedBy` | history: the signed transaction a request was put into |
| `seq`, `mempool`, `applied` | the funding account and the network |

`fund_handler` is one action per way out (`FundRejected`, where the extractor finds no
`addr`, then `FundInvalid`, `FundQueueFull`, `FundAlreadyPending`, in the code's order),
`FundEnqueue` up to its await and `FundResume` after it; `Disconnect` drops the handler and leaves its entry where it
is. The batch task is `Tick`, `GetAccount`, `Simulate`, `Submit` (or
`SubmitNotQueued`, where the node asks to try again later and the client goes on
polling), `PollSuccess`; `BatchError` is every error return, `SubmitAnswerLost`
the submission that worked without an answer, `BatchPanic` an unwinding panic.
`SendAll` is the whole loop of sends that ends a batch. `Crash` loses everything in
memory. `Network` includes, fails or evicts transactions at any time, and lets
the account's owner use a sequence number.

Abstractions. An address is a model value; the raw query parameter is a text
that may be padded or missing, and `trim` drops the padding. The handler's validation
(`IsPublicKey`) and the conversion of an address when a transaction is built are two
parses of the same text, and each has a definition of its own. A transaction is its sequence
number, receivers and simulated resources, and is its own hash. `MetaForms`
gives the forms of result meta: "V3" is the one `parse_results_from_meta` looks
into, "V4" stands for every other one, "absent" for no meta, and "misfit" for a V3
whose vector is not one result per receiver, as a contract other than
`batch_transfer` may return: the handlers of such a batch are all told of a success
(`Outcome`). `get_account` is
taken to return the sequence number current at the node that later admits the
transaction. The per-recipient results of an included transaction are arbitrary
here; `BatchTransfer` is about where they come from, and `FundedFaucet` joins the
two.

### FundingService and the refinement

`FundingService` has no queue, batch, channel or transaction. A request is *new*,
then *refused* or *open*, and from *open* it becomes *confirmed*, *denied*, *unknown*
(an error was reported) or *gone* (nobody listens any more). At most one payment
decides it, possibly after it was given up; a success is told of at most once per
payment and address, only for a payment that was made or whose meta cannot be read
(`opaque`); a client told of a failed transfer was not paid, and cannot be later,
since its payment is decided. `Join` is the case of a transaction that is the very
one built for earlier requests: it decides the new requests in the past.

`Faucet` implements it (`KeepsPromise`) with the mapping at its end: the stage is
what the client can tell (`StageOf`), the payment is the sequence number of the
transaction a request was put into, once that is on the ledger (`PaymentOf`).
`Crash` maps to `Abandon` of everybody who waits, `Include` to `Settle`, signing a
transaction that is on the ledger already to `Join`; queueing, draining, RPC calls
and sends are stuttering steps.

### FundedFaucet

A step of `Faucet` that includes a successful transaction moves the token as
`batch_transfer` of `Token` says for the balances at that moment, and the results on
the ledger are those of the call. The owner of the account may add funds at any
time. Taking the call as one step is no restriction: the recursive function and the
turns of `BatchTransfer` agree (lemma `CallIsOneStep`). `AMOUNT` is any integer, and
the funding account's own address is as good as any other for the faucet, so it may
be among the receivers; the statements are about what the others hold, since the
funding account's own balance says nothing about answers.

### BatchInterval

Time is discrete. `deadline` is the interval's next tick; a tick that comes more
than `Tolerance` late (5 ms in tokio) counts as missed, and
`MissedTickBehavior::Delay` then plans the next one a period from now. `Lag` is how late
the runtime may notice a tick, `Longest` what the RPC calls of a batch take at most.
Of queue and batch only the arrival of the oldest entry is kept.

### Startup

From an environment, in which every variable may be unset, not Unicode or garbage,
through `from_env` and the two checks to serving, and from there to the arguments of
a call and the answer of `/health`. Contracts and accounts appear and disappear at
any time. The weight of the upper half of an `i128` is a constant (`Radix`), so that
TLC covers every amount of a small width.

### MaxBatchSearch

The loop over `lo` and `hi`. What a batch of a size consumes is any measurement,
monotone or not; the search sees it through `fits_limits`, which compares fewer
resources (`Checked`) than have a limit (`Resource`).

### TxAssembly

The pipeline from the simulation's answer to the envelope, with the widths of
`u32`, `i64` and `u64` as constants, and the network applying the envelope later,
when the call uses more of a resource than it did in the simulation (`drift`), or
turning it away (`Declined`), where the fee was cut to fewer bits.

### BatchTransfer

The contract's loop, a step per receiver, over balances and trustline limits, for
amounts that may be negative, as `AMOUNT` may.
The token spends and receives as one operation and fails as a whole; a transaction
that runs out of resources is undone by the host.

## Runs

| Run | Instance | Shows |
|---|---|---|
| `faucet_mixed` | three requests, two addresses, queue of two, panics, V3 and V4 meta | `PayableOnce`, `SuccessIsOnLedger`, `FailureIsUnpaid`, `KeepsPromise` |
| `faucet_retries` | three requests for one address, two simulation outcomes, an operator's transaction | `SuccessesAreSeparatePayments`, `PaymentsAreRequested`, `AtMostTwoUnanswered` |
| `faucet_settled` | two requests for one address, a malformed one and one without the parameter, V3, missing and misfit meta, with fairness | `TypeOK`, `BatchAlwaysEncodes`, `RequestsAreSettled` |
| `tx_assembly` | a ten-bit `u32`, figures around 7 and around the top, fees that fit and fees that are cut | `TypeOK`, `AcceptedUnlessCut`, `SmallDriftFits` |
| `batch_transfer` | three holders, batches of up to three, repeats, the sender and negative amounts included | `TypeOK`, `ResultsTellWhatMoved`, `FailuresAreIsolated` |
| `funded_faucet` | three requests, two addresses, V3 and V4 meta, funds for one payment and any top-up to two, receivers with room for none or two | `BalancesMatchAnswers`, `FirstComeFirstPaid` |
| `batch_interval` | a period of 5, batches of up to 13, 60 units of time | `TypeOK`, `WaitIsBounded`, `DrainsAreSpaced` |
| `startup` | every mistake in every variable, every amount of a four-bit `i128` | `TypeOK`, `CallsFollowTheEnvironment`, `StartupEnds` |
| `max_batch_search` | every measurement of two compared resources and memory over six sizes | `TypeOK`, `ResultIsABoundary`, `ResultIsAnUpperBound`, `SearchEnds` |
| `faucet_meta` | violation | a failed transfer is reported as successful when the meta is not V3 |
| `faucet_late` | violation | a batch reported as failed is included later and pays |
| `max_batch_memory` | violation | the size found can exceed the memory limit, which is never compared |

Each property of a passing run has a mutant in `PROJECT.json`: a plausible bug in a
mapped definition that makes TLC find the property violated.

**Bounds.** Three requests suffice for the cases that matter: a queue that is
full, a duplicate in the queue, a second request for an address in flight, a
third one queued behind it, and two receivers whose results differ. A request is
made once, so the number of transactions is bounded by the number of requests and
no further bound is needed; `MaxOperatorSeq` bounds the transactions of the
account's owner, `Resources` the outcomes of a simulation (two are needed for two
different transactions to compete for one number). Crashes and restarts are not
bounded. In `TxAssembly` the widths are scaled so that figures reach the top of
the range, and the fees include the largest that fits with its buffer, the first
that is cut, and two whose cut values are the largest `u32` and nearly nothing. In
`FundedFaucet`, `MaxFunds` bounds what the owner adds: two payments' worth, so that
two receivers compete for one payment and a third request can still be paid; the
amount is 1 and the funding account asks for nothing in the run, while the theorems
cover every integer amount and the funding account among the receivers. `MaxTime` of `BatchInterval` is
several times the longest batch and period together. Requests with equal parameters are symmetric; the run with
a liveness property uses no symmetry. `CHECK_DEADLOCK FALSE` is used where the
program ends: the pipeline of one transaction, one contract call, one search.

**Fairness.** `FairSpec` assumes weak fairness of the batch task and of resuming a
handler whose channel is ready. The interval keeps ticking, the runtime runs
ready tasks, the RPC client gives every request a timeout and
`send_transaction_polling` gives up after a while, so each await of the batch task
ends. Nothing is assumed of the network, of clients, or of the process staying
up. `FairSpec` of `Startup` assumes that every await of `main` before it serves ends,
with an answer or an error; that of `MaxBatchSearch`, that measuring ends. The release
profile sets `panic = "abort"`, so there a panic is a `Crash`. In a build that unwinds,
such as the debug build `scripts/test_faucet.sh` starts, `BatchPanic` leaves the entries
of the queue behind and their handlers wait for ever: `MayPanic` turns it on in
`faucet_mixed`, whose safety properties hold with it, and off where liveness is
checked.

## Proofs

`FaucetProofs` proves, for every finite set of requests, every query, every
`MaxSize`, every set of simulation outcomes and meta forms, that `Spec` implies
`[]TypeOK` and each safety invariant of the runs `faucet_mixed` and
`faucet_retries`. The assumptions are the named ASSUMEs of the modules: types of
the constants, and that `Request` is finite (used for cardinalities only).

None of the invariants is inductive by itself. `IndInv` joins them through:

* `ListsInv`: queue and batch are within the limit, their addresses are
  well-formed, belong to their requests and differ — what the checks of
  `fund_handler` and `enqueue` establish and `drain` carries over;
* `LoopInv`, `PlaceInv`: a batch exists exactly while one is worked on; a request is
  in the queue, in the batch or nowhere, and its channel and its transaction
  fit the place, so that it is answered once and put into one transaction;
* `BuildingInv`: the transaction under construction pays the batch position by
  position;
* `NetworkInv`: every transaction in the mempool or on the ledger is *justified*:
  distinct receivers within the limit, each with a request that was put into that
  very transaction (this survives crashes, since `carriedBy` only changes for
  requests in a batch that is not signed yet);
* `HistoryInv`: one ledger entry per sequence number;
* `SentInv`, `ReplyInv`: what was sent is true of the ledger, and a reply about a
  transaction is what was sent;
* `FreshInv`: a transaction under construction has a later number than every
  success reported, because it is numbered after everything included.

There is one lemma per action or group of actions that end alike (`EndStep`
covers the four ways a batch ends). `PaymentsAreRequestedHolds` maps each payment
of an address to a request of its own and uses that this map is injective. TLC
was used to check `IndInv` on the instances of the runs before it was proved.

**The refinement.** `KeepsPromiseHolds` shows that `Spec` implies `FundingService`
under the mapping at the end of `Faucet`. `IndInv` says what was sent about
payments; `AnswersInv` adds what the mapping needs of the rest: a handler that
waits is sent a success, a failed transfer, an error or a dropped sender and
nothing else, a request that was turned away is in no list and in no transaction.
There is one lemma per promise (`RefuseStep`, `AcceptStep`, `AbandonStep`,
`ResumeStep`, `IncludeStep`, `OperatorStep`, `SignStep`); everything else is a
stutter.

**The contract.** `TokenProofs` is about the recursive function `batch_transfer` of
`Token`, `BatchTransferProofs` about its turns as steps. The induction theorems of the
library take an operator as a parameter and cannot be used; instead, induction
over the naturals is derived for *sets* (`NatSetInduction`): strict inclusion of
finite sets is well founded (`FS_StrictSubsetOrderingWellFounded`), so the intervals
`0 .. k` with `k` outside of a set would have a smallest one (`WFMin`). From it follow
that the recursive function exists (`RunExists`), what it computes (`RunIsTyped`),
and, with the same argument over subsets, that `Sum` exists and may take its
elements in any order (`SumsTakeAny`). `RunInv` says that the call is where the
recursive function is after as many turns; `MovedInv` and `IsolatedInv` say at every
turn what `ResultsTellWhatMoved` and `FailuresAreIsolated` say. Both hold for every set
of accounts, all limits and amounts, negative ones included, and batches of any
length.

**The whole path.** `FundedFaucetProofs` uses that a step with the contract below it
is a step of the faucet (`FundedIsFaucet`, by construction), so that `IndInv` is at
hand. `FundedInv` ties the token to the ledger: the balance of a receiver is the
amount times the payments to it (`BooksInv`), and in each included transaction a
receiver that failed before one that was paid has no room and is not the funding
account (`OrderInv`; the balances of receivers only grow, so this stays true). The
step that matters is an inclusion (`PaymentStep`), where `CallSettles` applies
`TokenProofs` to the call: distinct receivers are paid once each (`CallPays`), and the
funds only shrink within a call, so that a turn before a successful one did not fail
for lack of them (`FailedHasNoRoom`). Nothing is assumed of the sign of the amount (a
transfer that succeeds shows that it is not negative) nor of who asks: a payment of
the funding account to itself moves nothing and fails for lack of funds only, for
which its balance has to be within its limit (`TokenInv`). `BalancesMatchAnswers` then
puts the number of payments between the successes that were read, which it maps to
payments of their own (`SuccessesArePaid`), and the requests that were sent
(`PaymentsAreRequested`). It holds with every form of meta, because only successes
the faucet has read in a meta count; those it reports unseen are finding 1.

**The smaller components.** `TxAssemblyProofs` proves, for every width, that all
fields keep their types, that resources run out only after a drift of more than a
seventh, and that the network takes the envelope exactly if the buffered fee and the
base fee fit a `u32`: a fee that was cut is always too low, so that nothing is ever
applied for less than it declares.

`StartupProofs` proves, for every set of keys, every environment and every radix,
that calls follow the environment of the start. `ConfigInv` keeps the configuration equal to what the environment says while
the process is up; `HalvesMakeTheWhole` is the arithmetic of cutting an `i128`.

`BatchIntervalProofs` proves, for every period, tolerance, lag and duration of
batches, that a request waits for at most one other batch or a period and then for
its own batch, and that the queue is not drained twice within a period less the
tolerance. Neither bound is inductive: `Timing` relates clock and deadline to the
last drain, and `Arrivals` the entries to it.

`MaxBatchSearchProofs` proves, for every range and every measurement, that the
limits begin to bind at the size found, and that no size that fits all limits is
larger if consumption grows with the size. The invariant (`Learnt`) is what the bounds stand for.

Only model-checked: `RequestsAreSettled`, `StartupEnds` and `SearchEnds` (liveness
under fairness is beyond the prover). Every other property of a passing run is a
theorem, without hypotheses other than the named ASSUMEs. The violations are TLC's.

## Findings

1. `parse_results_from_meta` reads V3 meta only; with newer meta, failed transfers
   are answered 200 (`faucet_meta`). The README promises a "Per-recipient
   success/failure response".
2. Transactions carry no time bounds, so a batch answered with "Batch transfer
   failed" may be included later (`faucet_late`). `PaymentsAreRequested` shows what
   is still guaranteed: at most one payment per request.
3. `fits_limits` does not compare memory, for which `live_network_limits` has a limit, so
   the search can report a size that exceeds it (`max_batch_memory`). The test says
   "all resources fit". `ResultIsAnUpperBound` is what holds.

Seen while modelling, without a run of their own:

* `total_fee as u32` cuts a fee beyond 32 bits, from about 375 XLM. By
  `AcceptedUnlessCut` no such transaction is ever accepted, so every batch would fail
  with a refusal that does not tell why.
* The "15% buffer" is `x / 7`, 14.28 percent rounded down and nothing below 7, which is
  what `SmallDriftFits` is stated for.
* The README's "drained every 5 seconds" holds while batches are shorter than the
  interval; `WaitIsBounded` is what holds always.
* `verify_contract_deployed` accepts any Wasm contract, once, at startup, and `/health`
  reports the constant "healthy" whatever becomes of it.
* The passphrase is signed with and never compared to the network behind `RPC_URL`.

## Not modelled

* The queue's length in `/health`: read for display, changes nothing.
* Wording of responses, logging, XDR and strkey encodings, hashing and signing
  beyond what they cover; `build_receiver_sc_val` is used by tests only.
* What a batch consumes (`measure`) and the printing of the profiling test.
* `scripts/submit_every_ledger.sh`: a measurement of the test network through the CLI
  and Horizon, which shares nothing with the faucet.
* `scripts/test_faucet.sh`: drives the service through external tools. What it expects
  of balances is `BalancesMatchAnswers`.

## Plan

Done: the core (`FaucetQueue`, `Ledger`, `Faucet`), `TxAssembly`, `BatchTransfer` and
`Token`, the abstract specification and the refinement, `FundedFaucet`,
`BatchInterval`, `MaxBatchSearch` and `Startup`, all with proofs. Next:

1. State for the composition what `KeepsPromise` gives together with the token: the
   promise in terms of tokens.
2. Prove the safety half of the liveness properties: that the batch task is never
   stuck in a state from which none of its steps applies is `ENABLED` and stays with
   TLC, but variants (the interval of the search shrinks, the stage of start-up
   advances) are action properties.
