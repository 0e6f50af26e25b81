CONSTANTS
    Docs = {d1}
    Submissions = {s1, s2}
    Calls = {c1, c2}
    None = None
    MaxCodes = 2
    OTP_MAX_ATTEMPTS = 1
    Tracked <- MCTracked
SPECIFICATION Spec
SYMMETRY MCSymmetry
CHECK_DEADLOCK FALSE
INVARIANTS
    TypeOK
    EvidenceConsistent
    EvidenceEarned
    AttemptsBounded
PROPERTIES
    ClosedIsFinal
    EvidenceRegister
