--------------------------- MODULE StartupProofs ---------------------------
(***************************************************************************)
(* What a running process does follows from the environment it was started *)
(* with, proved for every set of keys, every environment and every radix.  *)
(***************************************************************************)
EXTENDS Startup, TLAPS

-----------------------------------------------------------------------------
(* An amount survives being cut in halves: the upper half rounds down, the  *)
(* lower one is what remains, also for a negative amount.                   *)
LEMMA HalvesMakeTheWhole ==
    ASSUME NEW v \in Int
    PROVE  FromParts(i128_to_sc_val(v)) = v
<1>1. \A q \in Nat \ {0} : (v \div q) * q + (v % q) = v
  OBVIOUS
<1> QED
  BY <1>1, RadixAssumption DEF FromParts, i128_to_sc_val

LEMMA AmountsAreIntegers == I128 \subseteq Int
<1>1. \A m, n \in Int : m .. n \subseteq Int
  OBVIOUS
<1>2. (Radix * Radix) \div 2 \in Int
  BY RadixAssumption
<1> QED
  BY <1>1, <1>2 DEF I128

(* A valid environment gives a configuration of the right types, so what it *)
(* is called with encodes.                                                  *)
LEMMA ValidIsTyped ==
    ASSUME NEW e, IsValid(e)
    PROVE  /\ from_env(e).funding_public \in Account
           /\ from_env(e).token_address \in Contract
           /\ from_env(e).contract_address \in Contract
           /\ from_env(e).amount \in I128
           /\ Encodes(from_env(e))
<1>1. /\ e.FUNDING_SECRET_KEY \in Secret /\ e.TOKEN_ADDRESS \in Contract
      /\ e.CONTRACT_ADDRESS \in Contract /\ e.AMOUNT \in I128
  BY DEF IsValid
<1>2. /\ from_env(e).funding_public = PublicOf[e.FUNDING_SECRET_KEY]
      /\ from_env(e).token_address = e.TOKEN_ADDRESS
      /\ from_env(e).contract_address = e.CONTRACT_ADDRESS
      /\ from_env(e).amount = e.AMOUNT
  BY DEF from_env
<1> QED
  BY <1>1, <1>2, KeyAssumption DEF Encodes

-----------------------------------------------------------------------------
(* While the process runs, it has the configuration of the environment it   *)
(* was started with; what it called was made from that.                     *)
ConfigInv == proc # "down" => IsValid(env) /\ config = from_env(env)

CallInv ==
    call # Nothing =>
        call = [contract |-> config.contract_address,
                sender   |-> config.funding_public,
                token    |-> config.token_address,
                amount   |-> i128_to_sc_val(config.amount),
                network  |-> config.network_passphrase]

IndInv == TypeOK /\ ConfigInv /\ CallInv

LEMMA InitIndInv == Init => IndInv
BY EnvAssumption DEF Init, IndInv, TypeOK, ConfigInv, CallInv

LEMMA StepIndInv == IndInv /\ [Next]_vars => IndInv'
<1> SUFFICES ASSUME IndInv, [Next]_vars PROVE IndInv'
  OBVIOUS
<1> USE DEF IndInv, TypeOK, ConfigInv, CallInv
<1>1. ASSUME NEW e \in Envs, Start(e) PROVE IndInv'
  BY <1>1, EnvAssumption, ValidIsTyped DEF Start, world
<1>2. ASSUME NEW e \in Envs, StartFails(e) PROVE IndInv'
  BY <1>2, EnvAssumption DEF StartFails, world
<1>3. CASE verify_contract_deployed
  BY <1>3 DEF verify_contract_deployed, world
<1>4. CASE verify_account_exists
  BY <1>4 DEF verify_account_exists, world
<1>5. CASE Serve
  BY <1>5 DEF Serve, world
<1>6. CASE Exit
  BY <1>6 DEF Exit, world
<1>7. CASE Dispatch
  BY <1>7, ValidIsTyped DEF Dispatch, world
<1>8. CASE health_handler
  BY <1>8 DEF health_handler, world
<1>9. CASE World
  BY <1>9 DEF World
<1>10. CASE UNCHANGED vars
  BY <1>10 DEF vars
<1> QED
  BY <1>1, <1>2, <1>3, <1>4, <1>5, <1>6, <1>7, <1>8, <1>9, <1>10 DEF Next, main

(* A process that runs keeps the configuration it was started with, and     *)
(* every call was made from it.                                             *)
THEOREM Invariance == Spec => []IndInv
<1> QED
  BY InitIndInv, StepIndInv, PTL DEF Spec

-----------------------------------------------------------------------------
(* A process that got past its checks has a complete configuration.         *)
THEOREM TypeCorrect == Spec => []TypeOK
<1>1. IndInv => TypeOK
  BY DEF IndInv
<1> QED
  BY <1>1, Invariance, PTL

(* Every call is made with what the process was started with, and no amount *)
(* is distorted on its way into the contract.                               *)
THEOREM CallsFollowTheEnvironmentHolds == Spec => []CallsFollowTheEnvironment
<1>1. ASSUME IndInv, call # Nothing
      PROVE  /\ "error" \notin DOMAIN call
             /\ call.contract = env.CONTRACT_ADDRESS
             /\ call.token = env.TOKEN_ADDRESS
             /\ call.sender = PublicOf[env.FUNDING_SECRET_KEY]
             /\ FromParts(call.amount) = env.AMOUNT
             /\ call.network = env.NETWORK_PASSPHRASE
  <2>1. /\ IsValid(env) /\ config = from_env(env)
        /\ call = [contract |-> config.contract_address,
                   sender   |-> config.funding_public,
                   token    |-> config.token_address,
                   amount   |-> i128_to_sc_val(config.amount),
                   network  |-> config.network_passphrase]
    BY <1>1 DEF IndInv, TypeOK, ConfigInv, CallInv
  <2>2. env.AMOUNT \in Int
    <3>1. env.AMOUNT \in I128
      BY <2>1 DEF IsValid
    <3> QED
      BY <3>1, AmountsAreIntegers, Zenon
  <2>3. FromParts(call.amount) = env.AMOUNT
    <3>1. config.amount = env.AMOUNT
      BY <2>1 DEF from_env
    <3>2. call.amount = i128_to_sc_val(config.amount)
      BY <2>1
    <3> QED
      BY <2>2, <3>1, <3>2, HalvesMakeTheWhole
  <2> QED
    BY <2>1, <2>3 DEF from_env
<1>2. IndInv => CallsFollowTheEnvironment
  BY <1>1 DEF CallsFollowTheEnvironment
<1> QED
  BY <1>2, Invariance, PTL

=============================================================================
