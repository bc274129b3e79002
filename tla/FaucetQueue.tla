----------------------------- MODULE FaucetQueue -----------------------------
(***************************************************************************)
(* The pending queue of faucet/src/queue.rs: a vector behind a mutex, so   *)
(* every operation below is one atomic step.  A request owns the sending   *)
(* half of its one-shot channel, so the request itself stands for it.      *)
(***************************************************************************)
EXTENDS Naturals, Sequences

CONSTANTS Request,    \* HTTP requests to the funding endpoint
          Text,       \* query strings without surrounding whitespace
          MaxSize     \* max_size, i.e. MAX_BATCH_SIZE

ASSUME MaxSizeAssumption == MaxSize \in Nat

VARIABLE entries      \* FaucetQueue.entries

PendingEntry == [address : Text, responder : Request]

QueueTypeOK == entries \in Seq(PendingEntry)

QueueInit == entries = << >>

(* enqueue's two early returns, tested in this order, and its push. *)
QueueIsFull == Len(entries) >= MaxSize

(* Mutant: the duplicate check is lost. *)
NeverPending(addr) == FALSE

AlreadyPending(addr) == \E i \in DOMAIN entries : entries[i].address = addr

push(addr, r) == entries' = Append(entries, [address |-> addr, responder |-> r])

(* drain takes the whole vector, which is returned, and leaves it empty. *)
drain == entries' = << >>

Holds(s, r) == \E i \in DOMAIN s : s[i].responder = r

=============================================================================
