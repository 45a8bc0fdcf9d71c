SPECIFICATION OneStoreSpec
CONSTANTS
    r1 = r1  r2 = r2  k1 = k1  w1 = w1  w2 = w2
    bright = bright  dec = dec  p1 = p1  jp = jp  us = us
    Requests = {r1, r2}
    Keys = {k1}
    Sessions = {}
    Names = {}
    Workers = {w1, w2}
    Region = us
    NoKey = NoKey
    NoSession = NoSession
    NoWorker = NoWorker
    NoRequest = NoRequest
    Primary = bright
    Fallback = dec
    Decodo = dec
    Proxies = {p1}
    Regions = {jp, us}
    Requested = {us}
    DefaultRegion = jp
    NoProxy = NoProxy
    NoRegion = NoRegion
    VendorStable = TRUE
    Session = Session
    CheckOrder <- MCCheckOrder
    Threshold = 2
    RecoveryTimeout = 0
    Never = Never
    NoBreaker = NoBreaker
SYMMETRY Alike
INVARIANTS
    ExclusiveLease
    ProviderIsSupplier
    NeverStuck
    ScrapesUnderLease
    MarksOfRequests
PROPERTY
    UsesBreakers
