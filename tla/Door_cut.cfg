SPECIFICATION Spec
CONSTANTS
    q1 = q1
    q2 = q2
    p = p
    Requests <- TwoRequests
    Replayable <- OnlyQ1
    Native <- TwoRequests
    Impatient <- TwoRequests
    Probe = p
    MaxFlips = 1
INVARIANTS TripNeverCutsBody
CHECK_DEADLOCK FALSE
