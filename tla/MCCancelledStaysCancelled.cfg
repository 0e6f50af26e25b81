CONSTANTS
    Docs = {d1}
    Submissions = {s1, s2}
    Calls = {c1, c2}
    None = None
    MaxCodes = 1
    OTP_MAX_ATTEMPTS = 1
    Tracked <- MCTracked
SPECIFICATION Spec
SYMMETRY MCSymmetry
CHECK_DEADLOCK FALSE
PROPERTIES
    CancelledStaysCancelled
