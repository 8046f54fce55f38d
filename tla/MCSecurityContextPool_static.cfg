\* Static credentials: three requests, two credentials, one connection slot.
CONSTANTS
    Requests = {r1, r2, r3}
    Keys = {k1, k2}
    Attempts = {a1, a2}
    Rotating = {}
    MaxConnections = 1
    MaxLifetime = 2
    IdleTimeout = 1
    MaxRotations = 0
    None = None
SPECIFICATION Spec
SYMMETRY Symmetry
VIEW Observable
INVARIANTS
    TypeOK ConnectionLimit ReferencesExact LeasedStaysPooled StoppedEmpty SingleFlight
