SPECIFICATION Spec
CHECK_DEADLOCK FALSE
CONSTANTS
    Limit = 3
    Capacity = 3
    MaxWritten = 5
    Nothing = Nothing
INVARIANTS
    NoChildLeft
    OnlyWholeOutput
    NoGoodOutputLost
PROPERTY CallEnds
