SPECIFICATION Spec
CONSTANTS
    r1 = r1
    r2 = r2
    u1 = u1
    u2 = u2
    d1 = d1
    d2 = d2
    d3 = d3
    s1 = s1
    y1 = y1
    y2 = y2
    Donations = {d1, d2, d3}
    Requests = {r1, r2}
    Years = {y1, y2}
    Methods = {"upi", "cash"}
    UtrMethods = {"upi"}
    References = {u1}
    Sessions = {s1}
    Drafts <- PendingUpi
    Patches <- NoPatches
    Operations = {"create", "delete"}
    MaxEvents = 3
    MaxGranted = 2
    Nobody = Nobody
    NoDonation = NoDonation
    NoRef = NoRef
    Keep = Keep
INVARIANTS
    NumbersAreDistinct
CHECK_DEADLOCK FALSE
