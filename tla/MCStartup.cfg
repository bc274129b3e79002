CONSTANTS
    k = k  g = g  c1 = c1  c2 = c2  net = net
    Unset = Unset  NotUnicode = NotUnicode  Garbage = Garbage
    Secret = {k}
    Account = {g}
    Contract = {c1, c2}
    PublicOf <- MCPublicOf
    Network = {net}
    Radix = 4
    Envs <- MCEnvs
SPECIFICATION FairSpec
INVARIANTS
    TypeOK
    CallsFollowTheEnvironment
PROPERTY StartupEnds
