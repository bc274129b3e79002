CONSTANTS
    r1 = r1  r2 = r2  r3 = r3  r4 = r4
    a = a  b = b  x = x
    Request = {r1, r2, r3, r4}
    Text = {a, x}
    Address = {a}
    Query <- MCMalformed
    MaxSize = 2
    Resources = {1}
    MetaForms = {"V3", "absent", "misfit"}
    MaxOperatorSeq = 1
    MayPanic = FALSE
SPECIFICATION FairSpec
INVARIANTS
    TypeOK
    BatchAlwaysEncodes
PROPERTY RequestsAreSettled
