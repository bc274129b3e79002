CONSTANTS
    Resource <- MCResource
    Largest = 6
SPECIFICATION Spec
CHECK_DEADLOCK FALSE
INVARIANT AllResourcesFit
