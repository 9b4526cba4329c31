CONSTANTS
    LenMax = 5
    Wrap = 1000
    ChunkMax = 12
    Scenarios <- MCSound
SPECIFICATION FairSpec
CHECK_DEADLOCK FALSE
INVARIANTS Unframed NothingWaits CutForgotten AssertHolds
PROPERTY PushEnds
