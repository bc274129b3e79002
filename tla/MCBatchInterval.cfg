CONSTANTS
    Period = 5
    Tolerance = 1
    Lag = 2
    Longest = 13
    MaxTime = 60
SPECIFICATION Spec
INVARIANTS
    TypeOK
    WaitIsBounded
PROPERTY DrainsAreSpaced
