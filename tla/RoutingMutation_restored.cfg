SPECIFICATION Spec
CONSTANTS
    o1 = o1
    o2 = o2
    c0 = c0
    c1 = c1
    c2 = c2
    NoFile = NoFile
    None = None
    Ops <- OneOp
    Contents <- TwoContents
    Want <- OneWant
    MaxFaults = 0
    MaxSlow = 1
    MaxEdits = 0
INVARIANTS PriorStaysRestored
CHECK_DEADLOCK FALSE
