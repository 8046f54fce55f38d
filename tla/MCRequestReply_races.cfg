\* Two requests on the pooled connection of a rotating credential: one whose
\* subject alice may not publish to and bob not subscribe to, one with a downstream identity.
CONSTANTS
    r1 = r1
    r3 = r3
    operator = operator
    pooled = pooled
    alice = alice
    bob = bob
    gateway = gateway
    orders = orders
    pets = pets
    UserInfo = UserInfo
    None = None
    Connection <- UsedConnection
    Subject <- UsedSubject
    InitialUser <- FirstUser
    Denied <- Refusals
    Unsubscribable <- StreamRefusals
    Users = {alice, bob, gateway}
    Requests = {r1, r3}
    Interruptible = {r1}
    Protected = {r1, r3}
    Identified = {r3}
    Rotating = {pooled}
    MaxRotations = 1
SPECIFICATION FairSpec
INVARIANTS
    DenialReported ForbiddenJustified SilentMeansGone
PROPERTIES
    RequestsAnswered ImplementsHandlerCall
CHECK_DEADLOCK FALSE
