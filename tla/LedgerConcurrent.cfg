SPECIFICATION Spec
CONSTANTS
    r1 = r1
    r2 = r2
    u1 = u1
    u2 = u2
    d1 = d1
    s1 = s1
    y1 = y1
    Donations = {d1}
    Requests = {r1, r2}
    Years = {y1}
    Methods = {"upi", "cash"}
    UtrMethods = {"upi"}
    References = {u1}
    Sessions = {s1}
    Drafts <- AllDrafts
    Patches <- AllPatches
    Operations = {"create", "update", "mark_paid", "issue", "checkout", "webhook", "delete"}
    MaxEvents = 4
    MaxGranted = 1
    Nobody = Nobody
    NoDonation = NoDonation
    NoRef = NoRef
    Keep = Keep
SYMMETRY RequestSymmetry
INVARIANTS
    TypeOK
    AuditTail
    ReceiptAfterPayment
PROPERTIES
    FrozenForInformedWriters
    UtrAtPayment
    TrailIsAChain
CHECK_DEADLOCK FALSE
