SPECIFICATION Spec
CONSTANTS
    q1 = q1
    q2 = q2
    p = p
    Requests <- TwoRequests
    Replayable <- OnlyQ1
    Native <- TwoRequests
    Impatient <- OnlyQ1
    Probe = p
    MaxFlips = 1
INVARIANTS TypeOK NoFailoverWithoutFailure
PROPERTIES RescueSparesStreams StuckForwardRescued DoorFollowsRouter
CHECK_DEADLOCK FALSE
