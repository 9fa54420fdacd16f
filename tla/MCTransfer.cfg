SPECIFICATION TransferFairSpec
CONSTANTS
    x = x
    y = y
    Transfers = {x, y}
    Scenarios <- MCScenarios
    MaxConcurrent = 1
INVARIANTS
    TransferSafe
PROPERTIES
    TransferEnds
CHECK_DEADLOCK FALSE
