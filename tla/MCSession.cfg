SPECIFICATION SessionSpec
CONSTANTS
    Ids = {m1, m2}
    a1 = a1
    b1 = b1
    a2 = a2
    a3 = a3
    a4 = a4
    InboxIds = {a1, b1, a2, a3, a4}
    SequenceOf <- MCSequenceOf
    MaxReorderBuffer = 2
    MaxSeenIds = 3
    MaxHostLosses = 1
    MaxGuestLosses = 1
    MaxRelayCrashes = 1
    Attempts = 2
    MaxTransports = 5
INVARIANTS
    
    InboxSafe
    ReadyKeysAgree
    ConnectionSafe
PROPERTIES
    
    NoSilentSkip
    
    LoneHandshakeCompletes
    ConnectionLive
CHECK_DEADLOCK FALSE
