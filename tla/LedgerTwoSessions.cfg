SPECIFICATION Spec
CONSTANTS
    r1 = r1
    r2 = r2
    u1 = u1
    u2 = u2
    d1 = d1
    s1 = s1
    s2 = s2
    y1 = y1
    Donations = {d1}
    Requests = {r1}
    Years = {y1}
    Methods = {"upi", "cash"}
    UtrMethods = {"upi"}
    References = {u1}
    Sessions = {s1, s2}
    Drafts <- PendingUpi
    Patches <- NoPatches
    Operations = {"create", "checkout", "webhook"}
    MaxEvents = 4
    MaxGranted = 1
    Nobody = Nobody
    NoDonation = NoDonation
    NoRef = NoRef
    Keep = Keep
INVARIANTS
    AnsweredIsRecorded
CHECK_DEADLOCK FALSE
