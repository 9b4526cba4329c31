CONSTANTS
    HeaderMax = 2
    ESKLen = 2
    PrefixLen = 1
    MDCLen = 2
    Gran = 2
    ChainMax = 5
    ArmorMin = 2
    Scenarios <- MCAll
SPECIFICATION FairSpec
CHECK_DEADLOCK FALSE
INVARIANTS KeyRequired FinishVerifies ChainInBounds HeaderMatchesPacket FinishDeliversAll StackDiscipline FailIsReported NeverUndefined AnalyzerLearns
PROPERTIES NothingDiscarded CallsReturn KeepsPromise
