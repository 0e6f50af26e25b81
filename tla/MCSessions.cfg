CONSTANTS
    Users = {u1}
    t1 = t1
    Tenants = {t1}
    TenantOf <- MCTenantOf
    Platform = {}
    Tokens = {k1, k2, k3}
    Links = {l1}
    Calls = {c1, c2}
    None = None
SPECIFICATION Spec
SYMMETRY MCSymmetry
INVARIANTS
    TypeOK
    SessionsEarned
PROPERTIES
    RevocationHolds
