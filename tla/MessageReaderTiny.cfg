CONSTANTS
    HeaderMax = 2
    ESKLen = 2
    PrefixLen = 1
    MDCLen = 2
    Gran = 2
    ChainMax = 5
    ArmorMin = 5
    Scenarios <- MCTiny
SPECIFICATION Spec
CHECK_DEADLOCK FALSE
INVARIANTS ArmorKeepsNothing
