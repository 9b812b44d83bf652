SPECIFICATION WalkSpec
CONSTANTS
    Names <- MCNames
    TargetUnit = "t"
    Drawn <- MCDrawn
    MaxDrawn = 2
    Limits <- MCLimits
INVARIANT CompleteIsClosed
INVARIANT CompleteNamesReactivators
CHECK_DEADLOCK FALSE
