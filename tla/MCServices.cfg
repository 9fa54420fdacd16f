SPECIFICATION ServicesSpec
CONSTANTS
    Workers = {w1, w2}
    PortalUsers = {"ann", "bob"}
    Plays <- PortalPlays
    MaxMishaps = 1
    ApiWorkers = {w1, w2}
    ApiPlays <- DevicePlays
    MaxLapses = 1
    StoreProcesses = {"p1", "p2"}
    BuildSets <- TwoBuilds
    MaxStops = 2
    MaxRows = 3
    MaxBackups = 1
    MaxRestores = 1
    Callers = {"t1", "t2"}
    MemCallers = {"t1"}
    LimitKeys = {"a", "b", "c"}
    Limit = 1
    Window = 2
    MaxBuckets = 2
    MaxRateTime = 3
    MaxCalls = 4
    MaxDeviations = 2
    t1 = t1
    t2 = t2
    p1 = p1
    p2 = p2
    DevCallers = {t1, t2}
    DevProcesses = {p1}
    DevProcessOf <- SameProcess
    MaxActiveKeys = 2
    MaxFailed = 2
    FailWindow = 3
    Cooldown = 2
    MaxIssued = 3
    MaxDevOps = 4
    MaxDevTime = 2
    Terminals = {t1, t2}
    MaxServers = 3
    MaxDevCommands = 3
INVARIANTS
    AccountsConsistent
    
    StoreSafe
    
    

    
CHECK_DEADLOCK FALSE
