SPECIFICATION Spec
CONSTANTS
    MaxRows = 3
    Filters = {f0, f1}
    NoFilter = f0
    MaxForms = 1
    MaxCalls = 2
    NoForm = NoForm
INVARIANT LockedFieldsAreNotTouched
\* The user may leave the page alone for good.
CHECK_DEADLOCK FALSE
