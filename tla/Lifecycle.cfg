SPECIFICATION Spec
CONSTANTS
    r1 = r1  r2 = r2  dec = dec  bright = bright
    Requests = {r1, r2}
    N = 2
    Null = Null
    Providers = {Null, dec, bright}
    Managed = {dec}
    MaxPool = 1
    MaxContexts = 2
    NoProvider = NoProvider
    NoWorker = NoWorker
INVARIANTS
    ReadyToServe
    ContextsClosed
    StopsTheRest
PROPERTY
    ShutdownEnds
