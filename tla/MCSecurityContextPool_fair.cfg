\* Liveness: two requests keep contending for one pooled connection.
CONSTANTS
    Requests = {r1, r2}
    Keys = {k1}
    Attempts = {a1, a2}
    Rotating = {}
    MaxConnections = 1
    MaxLifetime = 1
    IdleTimeout = 1
    MaxRotations = 0
    None = None
SPECIFICATION FairSpec
PROPERTIES
    AcquireAnswered EventuallyRetired StopClosesAll
VIEW Observable
