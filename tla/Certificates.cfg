SPECIFICATION Spec
CONSTANTS
    r1 = r1
    r2 = r2
    a1 = a1
    a2 = a2
    y1 = y1
    n1 = n1
    n2 = n2
    Requests = {r1, r2}
    Applications = {a1, a2}
    Years = {y1}
    Names = {n1, n2}
    Drafts <- MCDrafts
    Patches <- MCPatches
    MaxGranted = 3
    MaxLost = 1
    Nobody = Nobody
    Keep = Keep
INVARIANTS
    TypeOK
    CertificateLinked
    ShownStaysValid
    CertificateEarned
    NumbersOfTheirKind
PROPERTIES
    NameAtIssue
SYMMETRY InternshipSymmetry
CHECK_DEADLOCK FALSE
