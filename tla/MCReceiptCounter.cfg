SPECIFICATION FairSpec
CONSTANTS
    r1 = r1
    r2 = r2
    r3 = r3
    Requests = {r1, r2, r3}
    y1 = y1
    y2 = y2
    Keys = {y1, y2}
    Start <- ReceiptStart
    MaxGranted = 2
    Nobody = Nobody
INVARIANTS
    TypeOK
    GapFree
PROPERTIES
    SeriesSpec
    AllocationEnds
CHECK_DEADLOCK FALSE
