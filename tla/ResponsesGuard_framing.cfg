SPECIFICATION GuardSpec
CONSTANTS
    Items = {"i", "j"}
    Fragments = {"o", "v"}
    ValidArguments <- MCArguments
    Finals <- MCFinals
    MaxArguments = 2
    MaxActiveCalls = 1
    MaxHeld = 2
    MaxSent = 4
INVARIANTS StreamFramed
CHECK_DEADLOCK FALSE
