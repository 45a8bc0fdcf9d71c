SPECIFICATION Spec
CONSTANTS
    w1 = w1  w2 = w2  bright = bright  dec = dec
    p1 = p1  p2 = p2  jp = jp  us = us
    Workers = {w1, w2}
    Primary = bright
    Fallback = dec
    Decodo = dec
    Proxies = {p1}
    Regions = {jp, us}
    Requested = {us}
    DefaultRegion = jp
    NoProxy = NoProxy
    NoRegion = NoRegion
    VendorStable = FALSE
    Session = Session
    CheckOrder <- MCCheckOrder
    Threshold = 2
    RecoveryTimeout = 0
    Never = Never
    NoBreaker = NoBreaker
INVARIANT LeasedStaysMarked
CHECK_DEADLOCK FALSE
