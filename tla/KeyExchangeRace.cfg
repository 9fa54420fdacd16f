CONSTANTS
    MaxHostLosses = 0
    MaxGuestLosses = 0
    MaxRelayCrashes = 1

SPECIFICATION KexFairSpec

PROPERTY
    EventuallySecure

CHECK_DEADLOCK FALSE
