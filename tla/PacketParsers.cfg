CONSTANTS
    Starts <- MCStarts
    Span = 600
    PowerMax = 30
SPECIFICATION Spec
CHECK_DEADLOCK FALSE
INVARIANTS LengthRoundTrip HeaderRoundTrip
