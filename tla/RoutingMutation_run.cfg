SPECIFICATION Spec
CONSTANTS
    o1 = o1
    o2 = o2
    c0 = c0
    c1 = c1
    c2 = c2
    NoFile = NoFile
    None = None
    Ops <- TwoOps
    Contents <- ThreeContents
    Want <- TwoWants
    MaxFaults = 1
    MaxSlow = 1
    MaxEdits = 1
INVARIANTS TypeOK AtMostOnce NothingForgotten AppliedMeansActive
PROPERTIES ForeignConfigKept UnfinishedConcludes
CHECK_DEADLOCK FALSE
