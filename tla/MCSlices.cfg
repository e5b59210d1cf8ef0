CONSTANTS
    ExpectedSize = 8
    Blocks <- AllRanges
SPECIFICATION SlicesSpec
INVARIANTS Separated CoversReceived CompleteWhenCovered
CHECK_DEADLOCK FALSE
