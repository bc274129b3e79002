CONSTANTS
    c1 = c1  auth1 = auth1
    instructions = instructions  write_bytes = write_bytes
    Call = {c1}
    Resource = {instructions, write_bytes}
    AuthEntry = {auth1}
    Figures <- MCFigures
    Fees <- MCFees
    Drifts <- MCDrifts
    U32Max = 1023
    I64Max = 8191
    U64Max = 16383
SPECIFICATION Spec
CHECK_DEADLOCK FALSE
INVARIANTS
    TypeOK
    AcceptedUnlessCut
    SmallDriftFits
