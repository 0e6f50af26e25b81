CONSTANTS
    Users = {}
    t1 = t1
    Tenants = {t1, t2, t3}
    TenantOf <- MCTenantOf
    Platform = {t3}
    Tokens = {}
    Links = {}
    Calls = {c1, c2}
    None = None
SPECIFICATION FairSpec
INVARIANTS
    PlatformSpared
PROPERTIES
    LeftTrialForGood
    TrialsEnd
