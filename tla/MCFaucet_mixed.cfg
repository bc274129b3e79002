CONSTANTS
    r1 = r1  r2 = r2  r3 = r3  r4 = r4
    a = a  b = b  x = x
    Request = {r1, r2, r3}
    Text = {a, b}
    Address = {a, b}
    Query <- MCMixed
    MaxSize = 2
    Resources = {1}
    MetaForms = {"V3", "V4"}
    MaxOperatorSeq = 0
    MayPanic = TRUE
SPECIFICATION Spec
SYMMETRY MixedSymmetry
INVARIANTS
    PayableOnce
    SuccessIsOnLedger
    FailureIsUnpaid
PROPERTY KeepsPromise
