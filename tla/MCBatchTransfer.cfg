CONSTANTS
    s = s  a = a  b = b
    Account = {s, a, b}
    Sender = s
    Amounts <- MCAmounts
    Limits = {0, 3}
    MaxReceivers = 3
    MaxBalance = 2
SPECIFICATION Spec
CHECK_DEADLOCK FALSE
INVARIANTS
    TypeOK
    ResultsTellWhatMoved
    FailuresAreIsolated
