\* The pooled connection changes its user once.
CONSTANTS
    r1 = r1
    r3 = r3
    operator = operator
    pooled = pooled
    alice = alice
    bob = bob
    gateway = gateway
    orders = orders
    pets = pets
    UserInfo = UserInfo
    None = None
    Connection <- UsedConnection
    Subject <- UsedSubject
    InitialUser <- FirstUser
    Denied <- Refusals
    Unsubscribable <- StreamRefusals
    Users = {alice, bob, gateway}
    Requests = {r3}
    Interruptible = {}
    Protected = {r3}
    Identified = {r3}
    Rotating = {pooled}
    MaxRotations = 1
SPECIFICATION Spec
INVARIANT
    IdentityIsSender
CHECK_DEADLOCK FALSE
