SPECIFICATION GroupRunSpec
CONSTANTS
    o = o
    a = a
    b = b
    o1 = o1
    a1 = a1
    a2 = a2
    b1 = b1
    Identities = {o, a, b}
    Owner = o
    Sessions = {o1, a1, a2, b1}
    IdentityOf <- MCIdentityOf
    NoSession = NoSession
    MaxGroupMembers = 3
    MaxPendingOps = 2
    EventsKept = 1
    MaxEpoch = 3
    RecordOwner = ro
    Self = rs
    Others = {rp}
    GroupCapacity = 3
    MaxRecordEpoch = 4
    MaxCalls = 2
    MaxDrops = 1
    Messages = 2
    QueueLimit = 2
    MaxGap = 2
    MaxHellos = 3
    MeshFaults <- MCMeshFaults
    SkMessages = 3
    SkippedMax = 1
    PendingMax = 1
    RetryMax = 2
    SkGap = 1
    SkBounds <- MCSkBounds
    ResyncGroups = {g1, g2}
    MaxFrames = 4
    MaxAttaches = 1
INVARIANTS
    GroupSafe
    MemberSafe
    MeshSafe
    SenderKeysSafe
PROPERTIES
    RosterChangesByEpoch
    QueueDrains
CHECK_DEADLOCK FALSE
