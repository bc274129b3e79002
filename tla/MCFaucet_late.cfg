CONSTANTS
    r1 = r1  r2 = r2  r3 = r3  r4 = r4
    a = a  b = b  x = x
    Request = {r1, r2, r3}
    Text = {a}
    Address = {a}
    Query <- MCRetries
    MaxSize = 2
    Resources = {1}
    MetaForms = {"V3"}
    MaxOperatorSeq = 0
    MayPanic = FALSE
SPECIFICATION Spec
INVARIANT ErrorMeansUnpaid
