SPECIFICATION RelaySpec
CONSTANTS
    alice = alice
    bob = bob
    a1 = a1
    a2 = a2
    b1 = b1
    Users = {alice, bob}
    Sessions = {a1, a2, b1}
    UserOf <- MCUserOf
    Tokens = {t1}
    NoSession = none
    NoConn = none
    Inviters = {bob}
    MaxRedemptions = 1
    MaxTtl = 1
    Retention = 1
    MaxTime = 1
    ChannelCapacity = 2
    Calls = {1, 2, 3}
    CallPlans <- MCCallPlans
    MaxLost = 1
    Interval = 2
    Timeout = 3
    MissedLimit = 3
    MaxLinks = 3
SYMMETRY MCSymmetry
INVARIANTS
    RoomSafe
    
PROPERTIES
    RedemptionTakesSlot
CHECK_DEADLOCK FALSE
