SPECIFICATION Spec
CONSTANTS
    PrefixLen = 3
    MDCLen = 4
    Gran = 2
    PayloadMax = 14
INVARIANTS WindowExact HashCoversOutput VerifiedIsWhole WholeIsVerified
INVARIANT HoldsBackLittle
CHECK_DEADLOCK FALSE
