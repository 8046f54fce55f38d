\* Two protected calls and an operator call, two outages, two Cleanup calls.
CONSTANTS
    Callers = {d1, d2}
    MaxOutages = 2
    Calls = {p1, p2, o1}
    Guarded = {p1, p2}
    Credentials = {k1}
    Conns = {x1}
    MaxConnections = 1
    None = None
SPECIFICATION GatewaySpec
INVARIANTS
    ReturnAfterCleanup
PROPERTIES
    LastCallbackDecides NothingStartsAfterCleanup ShutdownCompletes
CHECK_DEADLOCK FALSE
