SPECIFICATION Spec
CONSTANTS
    r1 = r1
    r2 = r2
    c1 = c1
    c2 = c2
    Requests <- MCRequests
    Clients <- MCClients
    ClientOf <- MCClientOf
    Policies <- AllPolicies
    MaxBody = 1
    MemoryLimit = 3
    MaxQueue = 1
    MaxWriters = 4
    MaxReloads = 2
    MaxFaults = 0
    MaxSweeps = 0
INVARIANTS
    TypeOK
    MemoryAccounted
    WritersSound
PROPERTIES
    ConsentThroughout
CHECK_DEADLOCK FALSE
