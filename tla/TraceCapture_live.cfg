SPECIFICATION Spec
CONSTANTS
    r1 = r1
    r2 = r2
    c1 = c1
    c2 = c2
    Requests <- OneRequest
    Clients <- MCClients
    ClientOf <- OneClientOf
    Policies <- WriterPolicies
    MaxBody = 1
    MemoryLimit = 3
    MaxQueue = 1
    MaxWriters = 4
    MaxReloads = 2
    MaxFaults = 1
    MaxSweeps = 1
PROPERTIES
    BudgetReturns
    EnabledGetsWriter
CHECK_DEADLOCK FALSE
