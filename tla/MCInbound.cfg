CONSTANTS
    Messages = {m1, m2}
    p1 = p1
    Phones = {p1}
    From <- MCFrom
    Workers = {w1, w2}
    MaxAttempts = 2
    MaxLosses = 1
    MaxLeads = 2
    MaxConvs = 2
    None = None
SPECIFICATION Spec
SYMMETRY MCSymmetry
INVARIANTS
    TypeOK
    AnsweredOnce
    HandledIsStored
    LeadsPerPhone
PROPERTIES
    OptOutHolds
    QuietAfterHandoff
