\* One stream on a connection that may not subscribe.
CONSTANTS
    s1 = s1
    s2 = s2
    s3 = s3
    operator = operator
    alice = alice
    small = small
    large = large
    garbled = garbled
    huge = huge
    None = None
    Connection <- SharedConnection
    Size <- PayloadSize
    Streams = {s3}
    Protected = {s3}
    Forbidden = {alice}
    Unpublishable = {}
    Payloads = {}
    Valid = {}
    MaxConnections = 1
    BufferMessages = 1
    BufferBytes = 1
    MaxReplyBytes = 1
SPECIFICATION Spec
INVARIANT
    DeniedNeverStreams
CHECK_DEADLOCK FALSE
