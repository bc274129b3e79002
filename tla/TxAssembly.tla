----------------------------- MODULE TxAssembly -----------------------------
(***************************************************************************)
(* How invoke_batch_transfer of faucet/src/tx.rs turns a batch into the    *)
(* envelope it submits: build, simulate, assemble with safety buffers,     *)
(* sign, hash; and what the network then makes of that envelope.           *)
(*                                                                         *)
(* The integer widths are constants, so that TLC can reach their limits.   *)
(***************************************************************************)
EXTENDS Integers

CONSTANTS Call,       \* what is asked for: source, sequence number, receivers
          Resource,   \* instructions, disk_read_bytes, write_bytes
          AuthEntry,  \* authorization entries a simulation may ask for
          Figures,    \* resource figures a simulation may report
          Fees,       \* resource fees a simulation may report
          Drifts,     \* additional use when the transaction is applied
          U32Max, I64Max, U64Max

ASSUME WidthAssumption ==
    /\ U32Max \in Nat /\ I64Max \in Nat /\ U64Max \in Nat
    /\ U32Max <= U64Max /\ I64Max <= U64Max
ASSUME SimAssumption ==
    /\ Figures \subseteq 0 .. U32Max
    /\ Fees \subseteq 0 .. I64Max
    /\ Drifts \subseteq Nat

VARIABLES stage,     \* how far invoke_batch_transfer has come
          call,      \* what it was asked for
          sim,       \* the answer of the simulation
          envelope,  \* the envelope submitted
          drift      \* how much more the applied transaction used, by resource

vars == <<stage, call, sim, envelope, drift>>

BaseFee == 100

Data == [limits : [Resource -> 0 .. U32Max], resource_fee : 0 .. I64Max]

Transaction == [call : Call, auth : SUBSET AuthEntry, fee : 0 .. U32Max, data : Data]

(* A hash stands for what is hashed, a signature for the hash it covers. *)
Envelope == [tx : Transaction, signature : Transaction]

(* The parts of a SimulateTransactionResponse that are looked at: its       *)
(* error, whether its transaction data and auth entries decode, and the     *)
(* auth entries of its first result, none if it has no results.             *)
SimResponse == [error : BOOLEAN, decodes : BOOLEAN,
                limits : [Resource -> Figures], resource_fee : Fees,
                auth : SUBSET AuthEntry]

-----------------------------------------------------------------------------
(* Mutant: an addition that wraps. *)
WrappingSeventh(x, max) == (x + x \div 7) % (max + 1)

(* Mutant: an addition in a wider type, not cut back to the field. *)
WideSeventh(x, max) == x + x \div 7

(* x.saturating_add(x / 7) *)
Buffered(x, max) == IF x + x \div 7 > max THEN max ELSE x + x \div 7

(* (resource_fee as u64).saturating_add(100) as u32 *)
TotalFee(resource_fee) ==
    LET wide == resource_fee + BaseFee
    IN  (IF wide > U64Max THEN U64Max ELSE wide) % (U32Max + 1)

BufferedData(response) ==
    [limits       |-> [k \in Resource |-> Buffered(response.limits[k], U32Max)],
     resource_fee |-> Buffered(response.resource_fee, I64Max)]

(* Mutant: the fee is taken from the simulation, before the buffer. *)
AssembleUnbufferedFee(c, response) ==
    [call |-> c, auth |-> response.auth, fee |-> TotalFee(response.resource_fee),
     data |-> BufferedData(response)]

(* The transaction is rebuilt with buffered limits, the simulation's auth   *)
(* entries and the fee that goes with them.                                 *)
assemble_transaction(c, response) ==
    LET data == BufferedData(response)
    IN  [call |-> c, auth |-> response.auth, fee |-> TotalFee(data.resource_fee),
         data |-> data]

(* Transaction hash and signature payload both cover the whole transaction. *)
sign_envelope(tx) == [tx |-> tx, signature |-> tx]

-----------------------------------------------------------------------------
Init ==
    /\ stage = "idle"
    /\ call \in Call
    /\ sim = << >>
    /\ envelope = << >>
    /\ drift = [k \in Resource |-> 0]

(* The simulation answers ... *)
Simulated ==
    /\ stage = "idle"
    /\ sim' \in SimResponse
    /\ stage' = "simulated"
    /\ UNCHANGED <<call, envelope, drift>>

(* ... or the transaction never gets as far as being sent: the call fails,  *)
(* the simulation reports an error, or what it returns does not decode.     *)
Refused ==
    /\ \/ stage = "idle"
       \/ stage = "simulated" /\ (sim.error \/ ~sim.decodes)
    /\ stage' = "failed"
    /\ UNCHANGED <<call, sim, envelope, drift>>

(* From assembling to sending there is no await. *)
Submitted ==
    /\ stage = "simulated"
    /\ ~sim.error
    /\ sim.decodes
    /\ envelope' = sign_envelope(assemble_transaction(call, sim))
    /\ stage' = "submitted"
    /\ UNCHANGED <<call, sim, drift>>

(* The network (external) applies a transaction it accepts.  The ledger has *)
(* moved on since the simulation, so the call may use more than it did      *)
(* there; a meter is a u32 and use beyond the declared limit is a failure.  *)
Accepts(e) ==
    /\ e.signature = e.tx
    /\ e.tx.auth = sim.auth
    /\ e.tx.fee >= e.tx.data.resource_fee + BaseFee

(* A node turns the others away, and the client returns an error. *)
Declined ==
    /\ stage = "submitted"
    /\ ~Accepts(envelope)
    /\ stage' = "failed"
    /\ UNCHANGED <<call, sim, envelope, drift>>

Use(k, d) == sim.limits[k] + d[k]

Apply ==
    /\ stage = "submitted"
    /\ Accepts(envelope)
    /\ \E d \in [Resource -> Drifts] :
         /\ \A k \in Resource : Use(k, d) <= U32Max
         /\ drift' = d
         /\ stage' = IF \A k \in Resource : Use(k, d) <= envelope.tx.data.limits[k]
                     THEN "applied" ELSE "out_of_resources"
    /\ UNCHANGED <<call, sim, envelope>>

Next == Simulated \/ Refused \/ Submitted \/ Declined \/ Apply

Spec == Init /\ [][Next]_vars

-----------------------------------------------------------------------------
Sent == stage \in {"submitted", "applied", "out_of_resources"}

TypeOK ==
    /\ stage \in {"idle", "simulated", "failed", "submitted", "applied",
                  "out_of_resources"}
    /\ call \in Call
    /\ stage \notin {"idle", "failed"} => sim \in SimResponse
    /\ Sent => envelope \in Envelope
    /\ drift \in [Resource -> Nat]

(* The fee is added up in 64 bits and cut to 32.  Whatever the simulation   *)
(* asks for, the network takes what is submitted exactly if the buffered    *)
(* resource fee fits a u32 together with the base fee: then nothing is cut, *)
(* and a fee that is cut is never one that pays, so that no transaction     *)
(* gets through with less than it declares.                                 *)
AcceptedUnlessCut ==
    Sent => (Accepts(envelope)
                <=> envelope.tx.data.resource_fee + BaseFee <= U32Max)

(* A drift of a seventh of the simulated use is absorbed, up to the largest *)
(* figure a u32 can hold.                                                   *)
SmallDriftFits ==
    stage = "out_of_resources" =>
        \E k \in Resource : drift[k] > sim.limits[k] \div 7

=============================================================================
