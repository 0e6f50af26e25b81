CONSTANTS
    Users = {u1}
    t1 = t1
    Tenants = {t1}
    TenantOf <- MCTenantOf
    Platform = {}
    Tokens = {k1}
    Links = {l1, l2}
    Calls = {c1, c2}
    None = None
SPECIFICATION Spec
SYMMETRY MCSymmetry
INVARIANTS
    UsesBounded
    LinksBounded
PROPERTIES
    LockedOut
