CONSTANTS
    LenMax = 5
    Wrap = 1000
    ChunkMax = 24
    Scenarios <- MCTwo
SPECIFICATION Spec
CHECK_DEADLOCK FALSE
INVARIANT Unframed
