SPECIFICATION Spec
CONSTANTS
    h1 = h1  h2 = h2  a = a  b = b
    Handlers = {h1, h2}
    Emails = {a, b}
    SubscriptionEvents <- MCSubscriptionEvents
    InitialKeys <- MCInitialKeys
    MaxKeys = 2
    MaxPurchases = 2
    MaxTrouble = 1
    NoEvent = NoEvent
INVARIANT
    AckedIsApplied
CHECK_DEADLOCK FALSE
