CONSTANTS
    o = o
    a = a
    b = b
    o1 = o1
    a1 = a1
    a2 = a2
    b1 = b1
    Identities = {o, a, b}
    Owner = o
    Sessions = {o1, a1, a2, b1}
    IdentityOf <- MCIdentityOf
    NoSession = NoSession
    MaxGroupMembers = 3
    MaxPendingOps = 2
    EventsKept = 2
    MaxEpoch = 4

SPECIFICATION Spec

INVARIANT StreamMatchesRoster

CHECK_DEADLOCK FALSE
