----------------------------- MODULE HarnessMC -----------------------------
(***************************************************************************)
(* One run for components that share no state and are checked for safety   *)
(* only: in each behaviour one of them moves and the others rest.          *)
(***************************************************************************)
EXTENDS ClaudeWiring, ClaudePicker, TelemetryLog, ResponsesGuardMC, StreamMeter,
        ConfigEdit, JsoncEdit, Lifecycle, UpdateCheck, TraceStore, TracePackage, TraceDecode

\* Commands, routers, callers and calls are alike, and all of them are named p and q.
Alike == Permutations(Commands)

VARIABLE part    \* the component that moves

editorVars == <<configEditVars, jsoncVars>>

harnessVars == <<part, claudeVars, pickerVars, logVars, guardVars, meterVars,
                 editorVars, lifecycleVars, updateVars, storeVars, packageVars, decodeVars>>

\* A component that rests has no state but what an action property looks at.
WiringRests ==
    /\ settings = Absent /\ backup = 0 /\ job = Idle /\ fresh = 0 /\ before = 0 /\ quiet = 0
    /\ edited = 0 /\ runs = 0
PickerRests ==
    /\ wanted = 0 /\ picker = 0 /\ owned = 0 /\ wired = 0 /\ holder = 0 /\ unread = 0 /\ synced = 0
    /\ call = [c \in Commands |-> NoCall] /\ touched = 0 /\ pickerRuns = 0 /\ pickerEdits = 0 /\ pickerKills = 0
LogRests ==
    /\ files = 0 /\ month = 0 /\ completed = 0 /\ handled = 0 /\ acked = 0 /\ retention = 0
    /\ logWriter = 0 /\ dirLock = 0 /\ index = 0 /\ logFaults = 0
MeterRests ==
    /\ relay = 0 /\ truth = 0 /\ reported = 0 /\ replies = 0 /\ upstream = 0 /\ interleaved = 0
    /\ translator = 0 /\ harness = 0 /\ meter = 0 /\ record = 0
ConfigEditRests == text = <<>> /\ inline = 0 /\ edit = 0 /\ edits = 0
JsoncRests == object = <<>> /\ jsonc = NoJsoncEdit
LifecycleRests ==
    /\ configured = 0 /\ process = 0 /\ pidfile = 0 /\ label = 0 /\ plist = 0 /\ squatted = 0
    /\ command = 0 /\ report = 0 /\ trouble = 0

UpdatesRest ==
    /\ clock = 0 /\ release = 0 /\ preference = 0 /\ cache = 0 /\ checkLock = 0 /\ checker = 0 /\ updatePast = [begun |-> 0]

TracesRest ==
    /\ segments = <<>> /\ traceDay = 0 /\ writerLock = 0 /\ storeWriter = 0 /\ selection = 0
    /\ purging = 0 /\ storePast = 0

\* No one purges, nothing is at an output.
PackagesRest ==
    /\ telemetryFiles = <<>> /\ packager = 0 /\ stages = 0 /\ reservations = {} /\ exports = [d \in Destinations |-> Vacant]
    /\ exportPurge = PurgeIdle /\ packagePast = 0
DecodeRests ==
    /\ material = 0 /\ archive = 0 /\ inodes = <<>> /\ packagePath = 0 /\ decoder = 0 /\ decodeStage = FALSE
    /\ outputDir = "absent" /\ decodePast = 0

HarnessInit ==
    /\ part \in {"wiring", "picker", "log", "guard", "meter", "editor", "jsonc", "lifecycle", "updates",
                "traces", "packages", "decode"}
    /\ IF part = "wiring"    THEN ClaudeInit     ELSE WiringRests
    /\ IF part = "picker"    THEN PickerInit     ELSE PickerRests
    /\ IF part = "log"       THEN LogInit        ELSE LogRests
    /\ IF part = "meter"     THEN MeterInit      ELSE MeterRests
    /\ IF part = "editor"    THEN ConfigEditInit ELSE ConfigEditRests
    /\ IF part = "jsonc"     THEN JsoncInit      ELSE JsoncRests
    /\ IF part = "lifecycle" THEN LifecycleInit  ELSE LifecycleRests
    /\ IF part = "updates"   THEN UpdateInit     ELSE UpdatesRest
    /\ IF part = "traces"    THEN StoreInit      ELSE TracesRest
    /\ IF part = "packages"  THEN PackageInit    ELSE PackagesRest
    /\ IF part = "decode"    THEN DecodeInit     ELSE DecodeRests
    /\ GuardInit

WiringMoves ==
    part = "wiring" /\ ClaudeNext
    /\ UNCHANGED <<part, decodeVars, packageVars, storeVars, updateVars, lifecycleVars, pickerVars,
                     logVars, guardVars, meterVars, editorVars>>
PickerMoves ==
    part = "picker" /\ PickerNext
    /\ UNCHANGED <<part, decodeVars, packageVars, storeVars, updateVars, lifecycleVars, claudeVars,
                     logVars, guardVars, meterVars, editorVars>>
LogMoves ==
    part = "log" /\ LogNext
    /\ UNCHANGED <<part, decodeVars, packageVars, storeVars, updateVars, lifecycleVars, claudeVars,
                     pickerVars, guardVars, meterVars, editorVars>>
GuardMoves ==
    part = "guard" /\ GuardNext
    /\ UNCHANGED <<part, decodeVars, packageVars, storeVars, updateVars, lifecycleVars, claudeVars,
                     pickerVars, logVars, meterVars, editorVars>>
MeterMoves ==
    part = "meter" /\ MeterNext
    /\ UNCHANGED <<part, decodeVars, packageVars, storeVars, updateVars, lifecycleVars, claudeVars,
                     pickerVars, logVars, guardVars, editorVars>>
EditorMoves ==
    /\ \/ part = "editor" /\ ConfigEditNext /\ UNCHANGED jsoncVars
       \/ part = "jsonc"  /\ JsoncNext      /\ UNCHANGED configEditVars
    /\ UNCHANGED <<part, decodeVars, packageVars, storeVars, updateVars, lifecycleVars, claudeVars,
                     pickerVars, logVars, guardVars, meterVars>>

UpdateMoves ==
    part = "updates" /\ UpdateNext
    /\ UNCHANGED <<part, decodeVars, packageVars, storeVars, claudeVars, pickerVars, logVars, guardVars,
                     meterVars, editorVars, lifecycleVars>>

TraceMoves ==
    part = "traces" /\ StoreNext
    /\ UNCHANGED <<part, decodeVars, packageVars, claudeVars, pickerVars, logVars, guardVars, meterVars,
                     editorVars, lifecycleVars, updateVars>>

PackageMoves ==
    part = "packages" /\ PackageNext
    /\ UNCHANGED <<part, claudeVars, pickerVars, logVars, guardVars, meterVars, editorVars,
                     lifecycleVars, updateVars, storeVars, decodeVars>>

DecodeMoves ==
    part = "decode" /\ DecodeNext
    /\ UNCHANGED <<part, claudeVars, pickerVars, logVars, guardVars, meterVars, editorVars,
                     lifecycleVars, updateVars, storeVars, packageVars>>

LifecycleMoves ==
    part = "lifecycle" /\ LifecycleNext
    /\ UNCHANGED <<part, decodeVars, packageVars, storeVars, updateVars, claudeVars, pickerVars,
                     logVars, guardVars, meterVars, editorVars>>

HarnessNext ==
    \/ WiringMoves \/ PickerMoves \/ LogMoves \/ GuardMoves \/ MeterMoves \/ EditorMoves
    \/ LifecycleMoves \/ UpdateMoves \/ TraceMoves \/ PackageMoves \/ DecodeMoves

HarnessSpec == HarnessInit /\ [][HarnessNext]_harnessVars

TypesOK ==
    /\ part = "wiring"    => ClaudeTypeOK
    /\ part = "picker"    => PickerTypeOK
    /\ part = "log"       => LogTypeOK
    /\ part = "guard"     => GuardTypeOK
    /\ part = "meter"     => MeterTypeOK
    /\ part = "lifecycle" => LifecycleTypeOK
    /\ part = "updates"   => UpdateTypeOK
    /\ part = "traces"    => StoreTypeOK
    /\ part = "packages"  => PackageTypeOK
    /\ part = "decode"    => DecodeTypeOK

\* What is recorded is what happened: the telemetry log, the meter of a
\* stream, what is known of a release, the directory of traces with what is selected from it, a package
\* of them, and what is decoded from one.
RecordsSound ==
    /\ part = "log" => LogSound
    /\ part = "meter" => MeterSound
    /\ part = "updates" => ConfirmedKept /\ HintsSpaced
    /\ part = "traces" => LinesWhole /\ StoreAccounted /\ SelectionComplete
    /\ part = "packages" => JoinSound /\ StagingAccounted
    /\ part = "decode" => PackageDecodes /\ WritesWhatWasConfirmed /\ WorkspaceLeaves

\* What a command takes from settings.json it keeps, or the user's edits, or a backup; what the
\* lifecycle commands report is so; checks for a release keep their distance; what leaves the
\* directory of traces leaves it in order; and neither a package nor its decoded output takes the
\* place of a file.
CommandsSound ==
    /\ [](/\ part = "wiring" => OriginalKept
          /\ part = "picker" => RowsAccounted /\ SyncConverges)
    /\ OutsideEditsStay /\ OffRestores /\ OthersUntouched /\ LifecycleSound /\ AutomaticSpaced
    /\ RemovedInOrder /\ NothingReplaced /\ PurgeThorough /\ OutputKept

\* An edit of gateway.yaml changes what it is about and nothing else, one that is undone leaves the
\* file as it was, and an edit in place changes one member of an object and no other.
EditorsSound ==
    /\ [](/\ part = "editor" => ConfigEditTypeOK /\ EditsLand /\ UndoRestores
          /\ part = "jsonc" => JsoncTypeOK)
    /\ EditsExact /\ JsoncEditsLand
=============================================================================
