CONSTANTS
    SizeMax = 7
    Powers = {0, 1, 2, 3}
    Configs <- MCConfigs
    ChunkMax = 3
    ESKLen = 2
    PrefixLen = 2
    MDCLen = 2
    Gran = 2
    BlockLen = 3
    LineBlocks = 2
SPECIFICATION Spec
CHECK_DEADLOCK FALSE
INVARIANTS TypeOK DigestCovers WritesLayout HoldsBackLittle ArmorUncut
PROPERTY KeepsPromise
