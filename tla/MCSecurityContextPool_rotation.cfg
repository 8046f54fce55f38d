\* A credential that may rotate once beside a static one, two slots.
CONSTANTS
    Requests = {r1, r2}
    Keys = {k1, k2}
    Attempts = {a1, a2, a3}
    Rotating = {r1}
    MaxConnections = 2
    MaxLifetime = 1
    IdleTimeout = 1
    MaxRotations = 1
    None = None
SPECIFICATION Spec
SYMMETRY Symmetry
VIEW Observable
INVARIANTS
    CredentialIsolation NoLeak NothingStranded
PROPERTY
    ImplementsLeaseService
