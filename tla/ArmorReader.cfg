CONSTANTS
    MinHeader <- MCHeader
    MinTail <- MCTail
    Separator <- MCSeparator
    MaxLine = 6
    Quad = 2
    BlockLen = 2
    LineBlocks = 2
    Scenarios <- MCTexts
SPECIFICATION FairSpec
CHECK_DEADLOCK FALSE
INVARIANTS AcceptedIsChecked PromptAndExact FormatBecomesError FailsOnFormat
PROPERTIES KeepsPromise CallsReturn
