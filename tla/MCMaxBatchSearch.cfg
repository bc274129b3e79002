CONSTANTS
    Resource <- MCResource
    Largest = 6
SPECIFICATION FairSpec
CHECK_DEADLOCK FALSE
INVARIANTS
    TypeOK
    ResultIsABoundary
    ResultIsAnUpperBound
PROPERTY SearchEnds
