SPECIFICATION Spec
CONSTANTS
    decodo = decodo
    brightdata = brightdata
    Calls = {k1, k2}
    Breakers = {decodo, brightdata}
    CheckOrder <- MCCheckOrder
    Threshold = 2
    RecoveryTimeout = 1
    Never = Never
    NoBreaker = NoBreaker
INVARIANT
    ClosedBelowThreshold
PROPERTIES
    StateMachine
    RecoversWhenUp
    DownThenProbed
