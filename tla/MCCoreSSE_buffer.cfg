\* One stream and messages of every kind; either queue bound can be hit.
CONSTANTS
    s1 = s1
    s2 = s2
    s3 = s3
    operator = operator
    alice = alice
    small = small
    large = large
    garbled = garbled
    huge = huge
    None = None
    Connection <- SharedConnection
    Size <- PayloadSize
    Streams = {s1}
    Protected = {s1}
    Forbidden = {}
    Unpublishable = {alice}
    Payloads = {small, large, garbled, huge}
    Valid = {small, large, huge}
    MaxConnections = 1
    BufferMessages = 2
    BufferBytes = 3
    MaxReplyBytes = 2
SPECIFICATION FairSpec
INVARIANTS
    BufferBounded NoSilentLoss
PROPERTIES
    StreamsEnd ImplementsHandlerCall
CHECK_DEADLOCK FALSE
