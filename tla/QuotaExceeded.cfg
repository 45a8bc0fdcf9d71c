SPECIFICATION Spec
CONSTANTS
    r1 = r1  r2 = r2  r3 = r3  k1 = k1
    Requests = {r1, r2, r3}
    Keys = {k1}
    Limit = 2
    MaxUnits = 2
    Billed = TRUE
    NoRequest = NoRequest
    NoKey = NoKey
INVARIANT
    QuotaRespected
