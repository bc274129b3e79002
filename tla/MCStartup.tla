----------------------------- MODULE MCStartup -----------------------------
(* Small instances of Startup for TLC. *)
EXTENDS Startup, TLC

CONSTANTS k, g, c1, c2, net

MCPublicOf == k :> g

(* A working environment, and what may be put in the place of one value: an *)
(* i128 has four bits, so every amount there is; every kind of mistake; a   *)
(* batch size of nothing; a port out of range.                              *)
Good ==
    [FUNDING_SECRET_KEY |-> k, TOKEN_ADDRESS |-> c2, CONTRACT_ADDRESS |-> c1,
     AMOUNT |-> 1, MAX_BATCH_SIZE |-> 2, PORT |-> 80,
     RPC_URL |-> net, NETWORK_PASSPHRASE |-> net]

MCEnvs ==
    {[Good EXCEPT ![name] = value] :
        name \in DOMAIN Good, value \in {Unset, NotUnicode, Garbage}}
    \union {[Good EXCEPT !.AMOUNT = amount] : amount \in I128}
    \union {[Good EXCEPT !.CONTRACT_ADDRESS = c2], [Good EXCEPT !.MAX_BATCH_SIZE = 0],
            [Good EXCEPT !.PORT = 65536]}

=============================================================================
