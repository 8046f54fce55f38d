\* Three streams, two slots, two connections; no messages.
CONSTANTS
    s1 = s1
    s2 = s2
    s3 = s3
    operator = operator
    alice = alice
    small = small
    large = large
    garbled = garbled
    huge = huge
    None = None
    Connection <- SharedConnection
    Size <- PayloadSize
    Streams = {s1, s2, s3}
    Protected = {s3}
    Forbidden = {operator}
    Unpublishable = {operator}
    Payloads = {}
    Valid = {}
    MaxConnections = 2
    BufferMessages = 1
    BufferBytes = 1
    MaxReplyBytes = 1
SPECIFICATION Spec
INVARIANTS
    QuotaExact ForbiddenIsOwn
SYMMETRY OperatorStreams
CHECK_DEADLOCK FALSE
