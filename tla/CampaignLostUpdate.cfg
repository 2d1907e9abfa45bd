SPECIFICATION Spec
CONSTANTS
    r1 = r1
    r2 = r2
    r3 = r3
    c1 = c1
    Requests = {r1, r2}
    Campaigns = {c1}
    Amounts = {1}
    Targets = {2}
    Openings = {0}
    StaffStatuses = {"published", "closed"}
    MaxGiven = 2
    Nobody = Nobody
SYMMETRY RequestSymmetry
INVARIANTS
    RaisedIsSum
CHECK_DEADLOCK FALSE
