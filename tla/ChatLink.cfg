CONSTANTS
    Lives = 1
    MessagesPerLife = 2
    ResendAttempts = 2
    MaxReorderBuffer = 2
    MaxSeenIds = 2
    MaxLinkLosses = 1
    MaxPeerLosses = 1
    MaxLosses = 1
    SenderIsHost = FALSE
SPECIFICATION FairSpec
INVARIANTS
    ChatSafe
PROPERTIES
    DeliveredIsSurfaced
    KeepsPromise
CHECK_DEADLOCK FALSE
