SPECIFICATION LocalRunSpec
CONSTANTS
    p1 = p1
    t1 = t1
    Runs = {p1}
    Cases <- SmallCases
    Terminals = {t1}
    HistoryModes = {"session", "encrypted"}
    Scripts <- TypedScripts
    HistoryCap = 2
    MaxEvents = 1
    MaxChats = 2
    MaxUpsets = 1
    Tokens = {i1}
    Sessions = {"host", "guest"}
    NoSession = none
    MaxRedemptions = 2
    MaxTtl = 2
    Retention = 2
    MaxTime = 4
    KeepFor = 2
    MaxGuests = 2
    Processes = {p1}
    MaxCommands = 3
    MaxFaults = 2
INVARIANTS
    
    
    LedgerTruthful
    DocumentsAgree
PROPERTIES
    
    EofEnds
CHECK_DEADLOCK FALSE
