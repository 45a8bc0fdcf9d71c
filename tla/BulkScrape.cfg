SPECIFICATION BulkSpec
CONSTANTS
    free = free  enterprise = enterprise  c1 = c1
    Keys = {free, enterprise}
    Limits <- MCLimits
    Windows <- MCWindows
    Batches = {1, 2, 3}
    Calls = {c1}
    MaxItems = 3
    MaxConcurrency = 2
    Default = 2
    Asked = {0, 1, 3}
    Faults <- MCFaults
    NoKey = NoKey
INVARIANTS
    SlotsBalance
PROPERTIES
    ImplementsQuota
    RefusesOnlyWhenFull
    PaysPerItem
    AnswersMatch
    CallEnds
