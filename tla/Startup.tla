------------------------------ MODULE Startup ------------------------------
(***************************************************************************)
(* From the environment to the first batch: Config::from_env of            *)
(* faucet/src/config.rs, the checks main makes before it serves, and what  *)
(* then goes into every contract call and into /health.  Meanwhile, and    *)
(* afterwards, contracts and accounts come and go on the network.          *)
(***************************************************************************)
EXTENDS Integers

CONSTANTS Secret, Account, Contract, \* well-formed S..., G... and C... strkeys
          PublicOf,                  \* the account of a secret key
          Network,                   \* networks, by URL and by passphrase
          Radix,                     \* 2^64, the weight of the upper half of an i128
          Unset, NotUnicode, Garbage,\* what a variable may hold instead
          Envs                       \* environments the process is started with

(* An i128 is an i64 above a u64. *)
I128 == -((Radix * Radix) \div 2) .. (Radix * Radix) \div 2 - 1

U16 == 0 .. 65535

Environment ==
    LET Raw(values) == values \union {Unset, NotUnicode, Garbage}
    IN  [FUNDING_SECRET_KEY : Raw(Secret), TOKEN_ADDRESS : Raw(Contract),
         CONTRACT_ADDRESS : Raw(Contract), AMOUNT : Raw(I128),
         MAX_BATCH_SIZE : Raw(Nat), PORT : Raw(Nat),
         RPC_URL : Raw(Network), NETWORK_PASSPHRASE : Raw(Network)]

ASSUME RadixAssumption == Radix \in Nat \ {0}
ASSUME KeyAssumption == PublicOf \in [Secret -> Account]
ASSUME EnvAssumption == \A env \in Envs : env \in Environment

VARIABLES proc,     \* "down", the check being made, "bind" or "serving"
          env,      \* the environment of the last start
          config,   \* Config, once it is read
          call,     \* the call made for the last batch
          health,   \* the last answer of /health
          code,     \* what is deployed under each contract address
          exists    \* the accounts that exist

vars == <<proc, env, config, call, health, code, exists>>

world == <<code, exists>>

Nothing == << >>

Wasm == {"batch_transfer", "other_wasm"}

Init ==
    /\ proc = "down"
    /\ env \in Envs
    /\ config = Nothing
    /\ call = Nothing
    /\ health = Nothing
    /\ code \in [Contract -> {"none", "sac"} \union Wasm]
    /\ exists \in SUBSET Account

-----------------------------------------------------------------------------
(* Config::from_env *)

Missing(value) == value \in {Unset, NotUnicode}

(* var(..).unwrap_or_else(..): any error, not only an unset variable. *)
OrDefault(value, default) == IF Missing(value) THEN default ELSE value

(* Mutant: the token address is not validated. *)
IsValidButToken(e) ==
    /\ e.FUNDING_SECRET_KEY \in Secret
    /\ ~Missing(e.TOKEN_ADDRESS)
    /\ e.CONTRACT_ADDRESS \in Contract
    /\ e.AMOUNT \in I128
    /\ OrDefault(e.MAX_BATCH_SIZE, 65) \in Nat
    /\ OrDefault(e.PORT, 8000) \in U16
    /\ ~Missing(e.RPC_URL)
    /\ ~Missing(e.NETWORK_PASSPHRASE)

(* None of the expects fires. *)
IsValid(e) ==
    /\ e.FUNDING_SECRET_KEY \in Secret
    /\ e.TOKEN_ADDRESS \in Contract
    /\ e.CONTRACT_ADDRESS \in Contract
    /\ e.AMOUNT \in I128
    /\ OrDefault(e.MAX_BATCH_SIZE, 65) \in Nat
    /\ OrDefault(e.PORT, 8000) \in U16
    /\ ~Missing(e.RPC_URL)
    /\ ~Missing(e.NETWORK_PASSPHRASE)

from_env(e) ==
    [funding_public     |-> PublicOf[e.FUNDING_SECRET_KEY],
     token_address      |-> e.TOKEN_ADDRESS,
     contract_address   |-> e.CONTRACT_ADDRESS,
     amount             |-> e.AMOUNT,
     max_batch_size     |-> OrDefault(e.MAX_BATCH_SIZE, 65),
     port               |-> OrDefault(e.PORT, 8000),
     rpc_url            |-> e.RPC_URL,
     network_passphrase |-> e.NETWORK_PASSPHRASE]

-----------------------------------------------------------------------------
(* main *)

(* The configuration is read and the RPC client created from it. *)
Start(e) ==
    /\ proc = "down"
    /\ env' = e
    /\ IsValid(e) /\ e.RPC_URL # Garbage
    /\ config' = from_env(e)
    /\ proc' = "verify_contract"
    /\ UNCHANGED <<call, health, world>>

(* One of them panics. *)
StartFails(e) ==
    /\ proc = "down"
    /\ env' = e
    /\ ~(IsValid(e) /\ e.RPC_URL # Garbage)
    /\ UNCHANGED <<proc, config, call, health, world>>

verify_contract_deployed ==
    /\ proc = "verify_contract"
    /\ code[config.contract_address] \in Wasm
    /\ proc' = "verify_account"
    /\ UNCHANGED <<env, config, call, health, world>>

verify_account_exists ==
    /\ proc = "verify_account"
    /\ config.funding_public \in exists
    /\ proc' = "bind"
    /\ UNCHANGED <<env, config, call, health, world>>

(* The port is free. *)
Serve ==
    /\ proc = "bind"
    /\ proc' = "serving"
    /\ UNCHANGED <<env, config, call, health, world>>

(* Mutant: a check that fails is made again. *)
KeepTrying ==
    /\ proc \in {"verify_contract", "verify_account", "bind"}
    /\ UNCHANGED vars

(* A check fails, or a call of the RPC node does, and main panics; or the   *)
(* serving process dies.                                                    *)
Exit ==
    /\ proc # "down"
    /\ proc' = "down"
    /\ config' = Nothing
    /\ call' = Nothing
    /\ health' = Nothing
    /\ UNCHANGED <<env, world>>

-----------------------------------------------------------------------------
(* What is called: the arguments invoke_batch_transfer encodes. *)

(* Mutant: the upper half is rounded towards zero. *)
i128_truncated(v) ==
    [hi |-> IF v < 0 THEN -((-v) \div Radix) ELSE v \div Radix, lo |-> v % Radix]

(* v >> 64 rounds down, v as u64 keeps the low bits. *)
i128_to_sc_val(v) == [hi |-> v \div Radix, lo |-> v % Radix]

(* The network's reading of it (external). *)
FromParts(parts) == parts.hi * Radix + parts.lo

Encodes(c) ==
    /\ c.funding_public \in Account
    /\ c.token_address \in Contract
    /\ c.contract_address \in Contract

(* An address that does not encode fails the batch before any call is made. *)
Dispatch ==
    /\ proc = "serving"
    /\ call' = IF Encodes(config)
               THEN [contract |-> config.contract_address,
                     sender   |-> config.funding_public,
                     token    |-> config.token_address,
                     amount   |-> i128_to_sc_val(config.amount),
                     network  |-> config.network_passphrase]
               ELSE [error |-> "invalid address"]
    /\ UNCHANGED <<proc, env, config, health, world>>

(* The copies main makes of the configuration for the handlers. *)
AppState(c) ==
    [contract_address |-> c.contract_address, token_address |-> c.token_address,
     funding_account |-> c.funding_public, max_batch_size |-> c.max_batch_size,
     amount |-> c.amount]

(* /health reports them, next to the length of the queue. *)
health_handler ==
    /\ proc = "serving"
    /\ health' = [status |-> "healthy", state |-> AppState(config)]
    /\ UNCHANGED <<proc, env, config, call, world>>

(* Contracts are deployed and expire, accounts are created and merged. *)
World ==
    /\ \/ \E c \in Contract :
            /\ code' \in {[code EXCEPT ![c] = kind] :
                            kind \in {"none", "sac"} \union Wasm}
            /\ code[c] = "none" \/ code'[c] = "none"
            /\ UNCHANGED exists
       \/ \E a \in Account :
            /\ exists' \in {exists \union {a}, exists \ {a}}
            /\ UNCHANGED code
    /\ UNCHANGED <<proc, env, config, call, health>>

main == verify_contract_deployed \/ verify_account_exists \/ Serve \/ Exit

Next ==
    \/ \E e \in Envs : Start(e) \/ StartFails(e)
    \/ main
    \/ Dispatch
    \/ health_handler
    \/ World

Spec == Init /\ [][Next]_vars

(* Every await of main ends, with an answer or with an error. *)
FairSpec == Spec /\ WF_vars(proc # "serving" /\ main)

-----------------------------------------------------------------------------
TypeOK ==
    /\ proc \in {"down", "verify_contract", "verify_account", "bind", "serving"}
    /\ env \in Environment
    /\ proc = "down" => config = Nothing
    /\ proc # "down" =>
          /\ config.funding_public \in Account
          /\ config.token_address \in Contract
          /\ config.contract_address \in Contract
          /\ config.amount \in I128
    /\ call # Nothing \/ health # Nothing => proc = "serving"
    /\ code \in [Contract -> {"none", "sac"} \union Wasm]
    /\ exists \subseteq Account

(* A batch is called with what the process was started with: no encoding    *)
(* fails, the sender is the account of the secret key, and the amount that  *)
(* arrives in the contract is AMOUNT, for every i128.                       *)
CallsFollowTheEnvironment ==
    call # Nothing =>
        /\ "error" \notin DOMAIN call
        /\ call.contract = env.CONTRACT_ADDRESS
        /\ call.token = env.TOKEN_ADDRESS
        /\ call.sender = PublicOf[env.FUNDING_SECRET_KEY]
        /\ FromParts(call.amount) = env.AMOUNT
        /\ call.network = env.NETWORK_PASSPHRASE

(* A process that is started ends up serving or down: no check is waited    *)
(* for for ever.                                                            *)
StartupEnds ==
    proc = "verify_contract" ~> proc \in {"serving", "down"}

=============================================================================
