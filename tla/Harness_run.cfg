SPECIFICATION HarnessSpec
CONSTANTS
    MaxEdits = 1
    MaxRuns = 3
    Commands = {p, q}
    Aliases = {"a"}
    Sizes = {"unknown", "million"}
    MaxPickerRuns = 3
    MaxPickerEdits = 1
    MaxPickerKills = 1
    Processes = {p, q}
    MaxEvents = 3
    MaxMonths = 3
    MaxLines = 2
    MaxSeq = 2
    Retentions = {0, 1}
    MaxAge = 1
    MaxRows = 2
    BootstrapLines = 1
    Items = {p, q}
    Fragments = {"o", "v"}
    ValidArguments <- MCArguments
    Finals <- MCFinals
    MaxArguments = 2
    MaxActiveCalls = 1
    MaxHeld = 2
    MaxSent = 4
    MaxCount = 1
    MaxReplies = 6
    MaxCalls = 2
    MaxConfigEdits = 2
    OtherMembers = {"a", "b"}
    OurMembers = {"p", "q"}
    MaxTokens = 5
    MaxJsoncEdits = 2
    MaxPids = 4
    MaxCommands = 2
    MaxFaults = 1
    UpdateCallers = {p, q}
    CheckInterval = 2
    FailureBackoff = 1
    RetryAfter = 2
    MaxTicks = 3
    MaxUpdateRuns = 2
    MaxReleases = 1
    MaxToggles = 1
    MaxUpdateFaults = 1
    MaxSegmentParts = 4
    MaxStoreParts = 6
    RetentionDays = 1
    MaxTraceRows = 4
    MaxTraceDays = 3
    MaxOpens = 2
    MaxSelections = 1
    MaxPurges = 1
    MaxStoreFaults = 1
    Packagers = {p, q}
    WantedEvents = {{}, {1, 3}}
    MaxTelemetryRows = 3
    MaxTelemetrySegments = 3
    MaxLostRows = 1
    MaxPackageFaults = 2
    MaxExportPurges = 1
    MaxCleanups = 1
    MaxSourceEdits = 3
    MaxDecodeFaults = 1
SYMMETRY Alike
INVARIANTS
    TypesOK
    RecordsSound
PROPERTIES
    CommandsSound
    EditorsSound
    GuardSound
CHECK_DEADLOCK FALSE
