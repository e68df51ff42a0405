SPECIFICATION ChoicesSpec
CONSTANTS
    AppOps = {"a"}
    Recoveries <- MCRecoveries
    MaxReads = 2
    MaxStarts = 2
    MaxGeneration = 2
    MaxAttempts = 1
    MaxAuths = 1
    MaxRouters = 2
    MaxLoads = 3
    MaxStatuses = 1
    MaxRouteEdits = 2
    MaxDiscoveries = 1
    CodexCallers = {"c"}
    MaxCodexRuns = 3
    MaxCodexEdits = 2
    MaxCodexFaults = 1
    PiCatalogs = {"v1", "v2"}
    MaxPiRuns = 3
    MaxPiEdits = 2
    MaxPiFaults = 1
INVARIANTS
    TypesOK
    AppSound
    ChoicesKept

    
CHECK_DEADLOCK FALSE
