SPECIFICATION Spec
CONSTANTS
    jp = jp
    us = us
    Callers = {c1, c2, c3, c4}
    Regions = {jp, us}
    DefaultRegion = jp
    Size <- MCSize
    UnknownRegion = eu
    NoRegion = NoRegion
    NoWorker = NoWorker
INVARIANTS
    PermitsBalance
    NoPoolError
    NoLostWakeup
PROPERTIES
    NoOvertaking
    WaiterServed
    ImplementsLeasePool
CHECK_DEADLOCK TRUE
