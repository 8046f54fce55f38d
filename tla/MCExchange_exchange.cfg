\* Every family of configurations and requests.
CONSTANTS
    None = None
    Absent = Absent
    Unsafe = Unsafe
    Blank = Blank
    Oversized = Oversized
    Malformed = Malformed
    NoValue = NoValue
    NotAcceptable = NotAcceptable
    Panic = Panic
    NUL = NUL
    Undecodable = Undecodable
    Inputs <- AllInputs
    Expressions <- AllExpressions
    Values <- AllValues
    Size <- Sizes
    Safe = {"a", "b", "1", "2", "t"}
    Decode <- Unescaped
    TokensOf <- Tokens
    HeaderNames <- Canonical
    ProtocolNames <- Protocol
    AssertedNames <- Asserted
    MediaTypes <- Types
    JSONTypes <- JSON
    ServerURLs = {"nats://h"}
    SecretPlaceholders = {"{env.P}"}
    MaxAcceptItems = 3
    DefaultMaxCredentialBytes = 3
    Users <- AnyUser
    Replies <- SomeReplies
SPECIFICATION ExchangeSpec
INVARIANTS
    OneRouteAccepts SubjectAsDeclared
    ClientPreferenceHonoured MessageAsDeclared NothingReservedForwarded AnswerAsDeclared
    KeysIdentify OneCredential
CHECK_DEADLOCK FALSE
