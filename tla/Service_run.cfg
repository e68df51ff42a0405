SPECIFICATION ServiceSpec
CONSTANTS
    left = left
    right = right
    both = both
    Broken = Broken
    Configs <- MCConfigs
    Addrs <- MCAddrs
    AddrsOf <- MCAddrsOf
    Conns = {k1}
    MaxListeners = 4
    MaxEdits = 1
    MaxSignals = 2
    MaxBindFaults = 1
    MaxTokens = 3
    MaxGens = 4
    MaxInFlight = 2
    MaxEvents = 2
    DoorConfigs <- MCDoorConfigs
    MaxDoorEdits = 2
    MaxDoorSignals = 3
    MaxTaken = 1
INVARIANTS
    TypesOK
PROPERTIES
    
    NoStaleRouting
    HupTakesEffect
    
CHECK_DEADLOCK FALSE
