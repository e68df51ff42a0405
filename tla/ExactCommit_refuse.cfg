SPECIFICATION Spec
CONSTANTS
    v1 = v1
    v2 = v2
    v3 = v3
    t1 = t1
    t2 = t2
    t3 = t3
    NoFile = NoFile
    NoTxn = NoTxn
    NoSwap = NoSwap
    Contents <- ThreeContents
    Txns <- ThreeTxns
    MaxFaults = 2
    MaxEdits = 0
PROPERTIES DisplacedPathReturns
CHECK_DEADLOCK FALSE
