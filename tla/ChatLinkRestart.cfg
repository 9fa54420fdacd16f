CONSTANTS
    Lives = 2
    MessagesPerLife = 1
    ResendAttempts = 2
    MaxReorderBuffer = 2
    MaxSeenIds = 2
    MaxLinkLosses = 0
    MaxPeerLosses = 0
    MaxLosses = 0
    SenderIsHost = FALSE
SPECIFICATION Spec
INVARIANTS
    AcknowledgedIsKept
CHECK_DEADLOCK FALSE
