\* A credential rotates while its connection reconnects.
CONSTANTS
    Requests = {r1, r2}
    Keys = {k1, k2}
    Attempts = {a1, a2}
    Rotating = {r1}
    MaxConnections = 1
    MaxLifetime = 1
    IdleTimeout = 1
    MaxRotations = 1
    None = None
SPECIFICATION Spec
PROPERTY
    GrantIsAuthentic
