CONSTANTS
    c1 = c1
    c2 = c2
    x1 = x1
    x2 = x2
    BillCalls = {c1, c2}
    Limit <- MCLimit
    MaxCost = 2
    MaxMonth = 2
    MaxFree = 2
    FuLeads = {x1, x2}
    Batch = 2
    MaxBroken = 1
    NoLead = NoLead
    MortCalls = {c1, c2}
    Prices = {0, 8}
    Equities = {0, 1}
    Incomes = {0}
    ByHand <- MCByHand
    MaxReferrals = 1
    Same = Same
    TfCalls = {c1, c2}
    Slots = {x1, x2}
    MaxEnrolments = 2
    Devices = {d1}
    AcOffices = {o1}
    NoOffice = NoOffice
    NoClaims = NoClaims
    MaxMoves = 1
    Firms = {x1, x2}
    LeadIds = {l1}
    TaskIds = {k1}
    PropertyIds = {p1}
    DeskCalls = {c1, c2}
    Nothing = Nothing
    Towns = {"a", "b"}
    Register <- MCRegister
    Page = 2
    Imports = {c1, c2}
    NoImport = NoImport
    Cities = {x1, x2}
    NoCity = NoCity
    MaxFlying = 2
    Fields = {"street"}
    Sums = {1, 4}
    Terms = {1, 3}
    Graces = {0, 5}
    MaxInterest = 2
    MaxIndex = 1
    Browsers = {b1}
    MaxSubscriptions = 2
    Sends = {c1, c2}
SPECIFICATION PickerOnly
INVARIANT StreetInCity
