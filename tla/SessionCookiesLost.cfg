SPECIFICATION Spec
CONSTANTS
    r1 = r1  r2 = r2  k1 = k1  k2 = k2  s1 = s1  name = name  w1 = w1  jp = jp
    Requests = {r1, r2}
    Keys = {k1, k2}
    Sessions = {s1}
    Names = {name}
    Workers = {w1}
    Region = jp
    NoKey = NoKey
    NoSession = NoSession
    NoWorker = NoWorker
    NoRegion = NoRegion
PROPERTY
    CookiesPersist
