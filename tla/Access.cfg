SPECIFICATION Spec
CONSTANTS
    Keys <- MCKeys
    Limit <- MCLimit
    Window = 1
    MaxNow = 1
    RequireAuth = FALSE
    MaxCalls = 3
    MaxTexts = 2
INVARIANTS
    TypeOK
    StoredOnce
    OffersWhatTheSessionAllows
\* The visitor may close the tab for good.
CHECK_DEADLOCK FALSE
