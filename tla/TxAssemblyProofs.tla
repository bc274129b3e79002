-------------------------- MODULE TxAssemblyProofs --------------------------
(***************************************************************************)
(* What the safety buffers and the fee of assemble_transaction give, for   *)
(* integers of any width and any figures a simulation may report.          *)
(***************************************************************************)
EXTENDS TxAssembly, TLAPS

(* The buffer never takes anything away, adds a seventh unless it reaches   *)
(* the top of the range, and stays within the range.                        *)
LEMMA BufferBounds ==
    ASSUME NEW max \in Nat, NEW x \in 0 .. max
    PROVE  /\ Buffered(x, max) \in x .. max
           /\ Buffered(x, max) = x + x \div 7 \/ Buffered(x, max) = max
<1>1. x \div 7 \in Nat
  OBVIOUS
<1> QED
  BY <1>1 DEF Buffered

(* A fee that fits a u32 together with the base fee is not cut. *)
LEMMA FeeIsExact ==
    ASSUME NEW f \in Nat, f + BaseFee <= U32Max
    PROVE  TotalFee(f) = f + BaseFee
<1>1. f + BaseFee \in 0 .. U32Max /\ ~(f + BaseFee > U64Max)
  BY WidthAssumption DEF BaseFee
<1>2. \A n \in Nat : \A m \in 0 .. n : m % (n + 1) = m
  OBVIOUS
<1>3. (f + BaseFee) % (U32Max + 1) = f + BaseFee
  BY <1>1, <1>2, WidthAssumption
<1> QED
  BY <1>1, <1>3 DEF TotalFee

(* The fee is reduced to a u32, fitting or not. *)
LEMMA FeeIsTyped ==
    ASSUME NEW f \in 0 .. I64Max
    PROVE  TotalFee(f) \in 0 .. U32Max
<1> DEFINE wide == IF f + BaseFee > U64Max THEN U64Max ELSE f + BaseFee
<1>1. wide \in Nat /\ U32Max \in Nat
  BY WidthAssumption DEF BaseFee
<1>2. \A w, n \in Nat : w % (n + 1) \in 0 .. n
  OBVIOUS
<1> HIDE DEF wide
<1>3. wide % (U32Max + 1) \in 0 .. U32Max
  BY <1>1, <1>2
<1> QED
  BY <1>3 DEF TotalFee, wide

(* What is assembled from a simulation is an envelope: no field overflows.  *)
LEMMA AssembledIsTyped ==
    ASSUME NEW c \in Call, NEW response \in SimResponse
    PROVE  sign_envelope(assemble_transaction(c, response)) \in Envelope
<1> DEFINE data == BufferedData(response)
<1>1. /\ response.limits \in [Resource -> 0 .. U32Max]
      /\ response.resource_fee \in 0 .. I64Max
      /\ response.auth \in SUBSET AuthEntry
  BY SimAssumption DEF SimResponse
<1>2. \A k \in Resource : Buffered(response.limits[k], U32Max) \in 0 .. U32Max
  BY <1>1, BufferBounds, WidthAssumption
<1>3. Buffered(response.resource_fee, I64Max) \in 0 .. I64Max
  BY <1>1, BufferBounds, WidthAssumption
<1>4. data \in Data /\ data.resource_fee \in 0 .. I64Max
  BY <1>2, <1>3 DEF BufferedData, Data
<1> HIDE DEF data
<1>5. TotalFee(data.resource_fee) \in 0 .. U32Max
  BY <1>4, FeeIsTyped
<1>6. assemble_transaction(c, response) \in Transaction
  BY <1>1, <1>4, <1>5 DEF assemble_transaction, Transaction, data
<1> QED
  BY <1>6 DEF sign_envelope, Envelope

-----------------------------------------------------------------------------
(* What was sent was assembled from the call and the simulation at hand. *)
SentInv ==
    /\ stage = "simulated" => sim \in SimResponse
    /\ Sent =>
        /\ sim \in SimResponse
        /\ envelope = sign_envelope(assemble_transaction(call, sim))

IndInv == SentInv /\ SmallDriftFits

LEMMA InitIndInv == Init => IndInv
BY DEF Init, IndInv, SentInv, Sent, SmallDriftFits

LEMMA StepIndInv == IndInv /\ [Next]_vars => IndInv'
<1> SUFFICES ASSUME IndInv, [Next]_vars PROVE IndInv'
  OBVIOUS
<1>1. CASE Simulated
  BY <1>1 DEF Simulated, IndInv, SentInv, Sent, SmallDriftFits
<1>2. CASE Refused
  BY <1>2 DEF Refused, IndInv, SentInv, Sent, SmallDriftFits
<1>3. CASE Submitted
  BY <1>3 DEF Submitted, IndInv, SentInv, Sent, SmallDriftFits
<1>4. CASE Apply
  <2>1. /\ stage = "submitted" /\ stage' \in {"applied", "out_of_resources"}
        /\ UNCHANGED <<call, sim, envelope>>
    BY <1>4 DEF Apply
  <2>2. SentInv'
    BY <2>1 DEF IndInv, SentInv, Sent
  <2>3. sim \in SimResponse /\ envelope = sign_envelope(assemble_transaction(call, sim))
    BY <2>1 DEF IndInv, SentInv, Sent
  <2>4. SmallDriftFits'
    <3> SUFFICES ASSUME stage' = "out_of_resources"
                 PROVE  \E k \in Resource : drift'[k] > sim.limits[k] \div 7
      BY <2>1 DEF SmallDriftFits
    <3>1. drift' \in [Resource -> Drifts]
      BY <1>4 DEF Apply
    <3>2. PICK k \in Resource :
            /\ Use(k, drift') <= U32Max
            /\ ~(Use(k, drift') <= envelope.tx.data.limits[k])
      BY <1>4 DEF Apply
    <3>3. envelope.tx.data.limits[k] = Buffered(sim.limits[k], U32Max)
      BY <2>3 DEF sign_envelope, assemble_transaction, BufferedData
    <3>4. sim.limits[k] \in 0 .. U32Max /\ drift'[k] \in Nat
      BY <2>3, <3>1, SimAssumption DEF SimResponse
    <3>5. drift'[k] > sim.limits[k] \div 7
      BY <3>2, <3>3, <3>4, BufferBounds, WidthAssumption DEF Use
    <3> QED
      BY <3>5
  <2> QED
    BY <2>2, <2>4 DEF IndInv
<1>5. CASE UNCHANGED vars
  BY <1>5 DEF vars, IndInv, SentInv, Sent, SmallDriftFits
<1>6. CASE Declined
  BY <1>6 DEF Declined, IndInv, SentInv, Sent, SmallDriftFits
<1> QED
  BY <1>1, <1>2, <1>3, <1>4, <1>5, <1>6 DEF Next

LEMMA TypeInit == Init => TypeOK
BY DEF Init, TypeOK, Sent

LEMMA TypeStep == TypeOK /\ [Next]_vars => TypeOK'
<1> SUFFICES ASSUME TypeOK, [Next]_vars PROVE TypeOK'
  OBVIOUS
<1>1. CASE Simulated
  BY <1>1 DEF Simulated, TypeOK, Sent
<1>2. CASE Refused
  BY <1>2 DEF Refused, TypeOK, Sent
<1>3. CASE Submitted
  BY <1>3, AssembledIsTyped DEF Submitted, TypeOK, Sent
<1>4. CASE Apply
  BY <1>4, SimAssumption DEF Apply, TypeOK, Sent
<1>5. CASE UNCHANGED vars
  BY <1>5 DEF vars, TypeOK, Sent
<1>6. CASE Declined
  BY <1>6 DEF Declined, TypeOK, Sent
<1> QED
  BY <1>1, <1>2, <1>3, <1>4, <1>5, <1>6 DEF Next

(* Every field of what is submitted fits its type, for every width and      *)
(* every figure a simulation may report: the saturating additions keep the  *)
(* limits in a u32 and the resource fee in an i64, and the cast keeps the   *)
(* fee in a u32.                                                            *)
THEOREM TypeCorrect == Spec => []TypeOK
<1> QED
  BY TypeInit, TypeStep, PTL DEF Spec

(* A transaction runs out of resources only if some resource drifted by     *)
(* more than a seventh, whatever the width of the counters.                 *)
THEOREM SmallDriftFitsHolds == Spec => []SmallDriftFits
<1>1. IndInv => SmallDriftFits
  BY DEF IndInv
<1> QED
  BY <1>1, InitIndInv, StepIndInv, PTL DEF Spec

(* Whatever fee the simulation asks for and whatever the widths, the        *)
(* network takes what is submitted exactly if the fee was not cut.          *)
THEOREM AcceptedUnlessCutHolds == Spec => []AcceptedUnlessCut
<1>1. ASSUME IndInv PROVE AcceptedUnlessCut
  <2> SUFFICES ASSUME Sent
               PROVE  Accepts(envelope)
                        <=> envelope.tx.data.resource_fee + BaseFee <= U32Max
    BY DEF AcceptedUnlessCut
  <2>1. /\ sim \in SimResponse
        /\ envelope = sign_envelope(assemble_transaction(call, sim))
    BY <1>1 DEF IndInv, SentInv
  <2> DEFINE fee == Buffered(sim.resource_fee, I64Max)
  <2>2. /\ envelope.tx.data.resource_fee = fee
        /\ envelope.tx.fee = TotalFee(fee)
        /\ envelope.signature = envelope.tx
        /\ envelope.tx.auth = sim.auth
    BY <2>1 DEF sign_envelope, assemble_transaction, BufferedData
  <2>3. fee \in 0 .. I64Max
    <3>1. I64Max \in Nat /\ sim.resource_fee \in 0 .. I64Max
      BY <2>1, WidthAssumption, SimAssumption DEF SimResponse
    <3> QED
      BY <3>1, BufferBounds
  <2> HIDE DEF fee
  <2>4. TotalFee(fee) \in 0 .. U32Max
    BY <2>3, FeeIsTyped
  <2>5. TotalFee(fee) >= fee + BaseFee <=> fee + BaseFee <= U32Max
    <3>1. CASE fee + BaseFee <= U32Max
      BY <2>3, <3>1, FeeIsExact DEF BaseFee
    <3>2. CASE ~(fee + BaseFee <= U32Max)
      BY <2>3, <2>4, <3>2, WidthAssumption DEF BaseFee
    <3> QED
      BY <3>1, <3>2
  <2> QED
    BY <2>2, <2>5 DEF Accepts
<1> QED
  BY <1>1, InitIndInv, StepIndInv, PTL DEF Spec

=============================================================================
