SPECIFICATION Spec
CONSTANTS
    PrefixLen = 3
    MDCLen = 4
    Gran = 2
    PayloadMax = 3
PROPERTY WindowFilled
CHECK_DEADLOCK FALSE
