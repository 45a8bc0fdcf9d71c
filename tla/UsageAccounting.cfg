SPECIFICATION UsageSpec
CONSTANTS
    r1 = r1  r2 = r2  k1 = k1
    Requests = {r1, r2}
    Keys = {k1}
    Limit = 2
    MaxUnits = 2
    Billed = TRUE
    NoRequest = NoRequest
    NoKey = NoKey
    Allowance = 1
    LastDay = 1
    MaxRows = 3
INVARIANTS
    LockHeldByChecker
    RollupsTrue
PROPERTIES
    CheckAnswers
    OverageIsDue
    ImplementsLooseQuota
