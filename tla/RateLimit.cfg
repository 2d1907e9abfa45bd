SPECIFICATION LimitSpec
CONSTANTS
    Keys <- MCKeys
    Limit <- MCLimit
    Window = 3
    MaxNow = 7
INVARIANTS
    LessThanTwiceTheLimit
\* The clock stops at MaxNow and a full bucket stays.
CHECK_DEADLOCK FALSE
