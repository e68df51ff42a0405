SPECIFICATION StoresSpec
CONSTANTS
    bt = bt
    an = an
    m1 = m1
    m2 = m2
    a1 = a1
    a2 = a2
    v1 = v1
    v2 = v2
    v3 = v3
    t1 = t1
    t2 = t2
    NoFile = NoFile
    NoTxn = NoTxn
    NoSwap = NoSwap
    Contents <- MCContents
    Txns <- MCTxns
    MaxFaults = 1
    MaxEdits = 2
    Procs = {p1, p2}
    Keys = {k1, k2}
    NoKey = NoKey
    BadKey = BadKey
    MaxWrites = 2
    MaxKeyFaults = 2
    None = None
    Order <- MCOrder
    Baseten = bt
    Models <- MCModels
    MaxVersion = 2
    PublicModels <- MCPublic
    Accounts <- MCAccounts
    AccountModels <- MCAccountModels
    VendoredModels <- MCVendored
    MaxCatalogFaults = 3
    Reqs = {r1, r2}
    MaxUpFlips = 1
    MaxPolicies = 1
INVARIANTS
    EditsSurvive
    MissingPathRestorable
    OneActive
    TypesOK
    CatalogSound
PROPERTIES
    ImplementsCell
    DisplacedPathReturns
    
    CooldownEnds
CHECK_DEADLOCK FALSE
