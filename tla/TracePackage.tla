---------------------------- MODULE TracePackage ----------------------------
(***************************************************************************)
(* traces package after its traces are selected (internal/tracepackage:    *)
(* create.go, snapshot_store.go; internal/tracecapture: exports.go): the   *)
(* join with the telemetry log, which the router goes on writing, the ZIP  *)
(* that is linked into place, and what becomes of the staging directory.   *)
(* traces purge --packages and traces cleanup run beside it.               *)
(***************************************************************************)
EXTENDS Integers, Sequences, SequencesExt, FiniteSets, FiniteSetsExt

CONSTANTS Packagers,            \* the runs of traces package
          WantedEvents,         \* sets of events whose traces may be selected
          MaxTelemetryRows,     \* bound: rows of the telemetry log
          MaxTelemetrySegments, \* bound: its segments
          MaxLostRows,          \* bound: rows whose write is cut off
          MaxPackageFaults,     \* bound: calls that fail, kills
          MaxExportPurges,      \* bound: runs of traces purge --packages
          MaxCleanups           \* bound: runs of traces cleanup

ASSUME PackageBounds ==
    /\ WantedEvents \subseteq SUBSET (1..MaxTelemetryRows)
    /\ MaxTelemetryRows \in Nat \ {0, 1} /\ MaxTelemetrySegments \in Nat \ {0, 1} /\ MaxLostRows \in Nat
    /\ MaxPackageFaults \in Nat /\ MaxExportPurges \in Nat /\ MaxCleanups \in Nat

\* The default name holds the second, which two runs may share; a custom one is the operator's choice.
Destinations == {"second", "custom"}

VARIABLES telemetryFiles, \* segment -> its rows, and the row that is being written at its end
          packager,       \* run -> what it has done
          stages,         \* run -> where its staging directory is
          reservations,   \* the runs whose directory in quarantine/ is there
          exports,        \* destination -> what is there
          exportPurge,    \* traces purge --packages
          packagePast     \* history: bounds

packageVars == <<telemetryFiles, packager, stages, reservations, exports, exportPurge, packagePast>>

NoRow == 0
Vacant == "nobody's"
Foreign == "the user's"
NoJoin == [had |-> {}, bound |-> {}, rows |-> {}]

PackagerIdle ==
    [at |-> "idle", destination |-> "second", device |-> "same", wanted |-> {}, attempt |-> 1,
     todo |-> {}, ends |-> <<>>, read |-> <<>>, join |-> NoJoin,
     error |-> "none", named |-> "nothing"]
PurgeIdle == [at |-> "idle", packages |-> {}, items |-> {}, began |-> {}]

PackageFault == packagePast.faults < MaxPackageFaults
PackageFaultCounted == packagePast' = [packagePast EXCEPT !.faults = @ + 1]
PackagerAt(c, at) == packager' = [packager EXCEPT ![c].at = at]
FailsWith(c, error) ==
    packager' = [packager EXCEPT ![c] = [PackagerIdle EXCEPT !.at = "clean", !.error = error, !.device = packager[c].device]]
PackagerEnds(c, named) ==
    packager' = [packager EXCEPT ![c] = [PackagerIdle EXCEPT !.at = "done", !.named = named,
                                           !.error = packager[c].error]]

FileAdded(files, name, file) == [n \in DOMAIN files \cup {name} |-> IF n = name THEN file ELSE files[n]]

-----------------------------------------------------------------------------
(* The telemetry log while the router runs: what it does while no run      *)
(* reads it is another log to start from.                                  *)

TelemetryMoves ==
    /\ \E c \in Packagers : packager[c].at \in {"capture", "verify", "read", "check"}
    /\ UNCHANGED <<packager, stages, reservations, exports, exportPurge>>
LastTelemetry == Max(DOMAIN telemetryFiles)
SegmentSize(file) == 2 * Len(file.rows) + (IF file.tail = NoRow THEN 0 ELSE 1)
WholeRows == UNION {ToSet(telemetryFiles[name].rows) : name \in DOMAIN telemetryFiles}

StartRow ==
    /\ telemetryFiles[LastTelemetry].tail = NoRow /\ packagePast.rows < MaxTelemetryRows
    /\ telemetryFiles' = [telemetryFiles EXCEPT ![LastTelemetry].tail = packagePast.rows + 1]
    /\ packagePast' = [packagePast EXCEPT !.rows = @ + 1]
    /\ TelemetryMoves

FinishRow ==
    LET file == telemetryFiles[LastTelemetry]
    IN  /\ file.tail # NoRow
        /\ telemetryFiles' = [telemetryFiles EXCEPT ![LastTelemetry] =
                                [rows |-> Append(file.rows, file.tail), tail |-> NoRow]]
        /\ TelemetryMoves /\ UNCHANGED packagePast

\* The router dies in the write, and the next one cuts the part off.
LoseRow ==
    /\ telemetryFiles[LastTelemetry].tail # NoRow /\ packagePast.lost < MaxLostRows
    /\ telemetryFiles' = [telemetryFiles EXCEPT ![LastTelemetry].tail = NoRow]
    /\ packagePast' = [packagePast EXCEPT !.lost = @ + 1]
    /\ TelemetryMoves

RotateTelemetry ==
    /\ telemetryFiles[LastTelemetry].tail = NoRow /\ LastTelemetry < MaxTelemetrySegments
    /\ telemetryFiles' = FileAdded(telemetryFiles, LastTelemetry + 1, [rows |-> <<>>, tail |-> NoRow])
    /\ TelemetryMoves /\ UNCHANGED packagePast

RetireTelemetry ==
    /\ Cardinality(DOMAIN telemetryFiles) > 1
    /\ telemetryFiles' = [name \in DOMAIN telemetryFiles \ {Min(DOMAIN telemetryFiles)} |-> telemetryFiles[name]]
    /\ TelemetryMoves /\ UNCHANGED packagePast

-----------------------------------------------------------------------------
(* traces package.                                                         *)

PackagerMoves == UNCHANGED <<telemetryFiles, exportPurge>>
PackagerReads == PackagerMoves /\ UNCHANGED <<stages, reservations, exports, packagePast>>

\* No other run sees what a run does before it publishes: one that selects traces runs alone.
NobodyRan == \A c \in Packagers : packager[c].at = "idle"

\* cmdTracesPackage: the traces are selected and the operator has confirmed.
ConfirmPackage(c) ==
    /\ packager[c].at = "idle"
    /\ \E destination \in Destinations, device \in {"same", "other"}, wanted \in WantedEvents :
         /\ destination = "second" => device = "same"
         /\ packagePast.joins = 0 /\ (wanted # {} => NobodyRan)
         /\ packager' = [packager EXCEPT ![c].at = "create", ![c].destination = destination,
                                         ![c].device = device, ![c].wanted = wanted]
         /\ packagePast' = [packagePast EXCEPT !.joins = IF wanted = {} THEN 0 ELSE 1]
    /\ PackagerMoves /\ UNCHANGED <<stages, reservations, exports>>

\* validateDestination, before anything is made.
DestinationFree(destination) == exports[destination] = Vacant

CreateStage(c) ==
    /\ packager[c].at = "create"
    /\ IF DestinationFree(packager[c].destination)
       THEN PackagerAt(c, "traces") /\ stages' = [stages EXCEPT ![c] = "beside"]
       ELSE packager' = [packager EXCEPT ![c] = [PackagerIdle EXCEPT !.at = "done", !.error = "exists"]] /\ UNCHANGED stages
    /\ PackagerMoves /\ UNCHANGED <<reservations, exports, packagePast>>

\* A package of no traces, or of a runtime without a telemetry log, does not look at it.
StageTraces(c) ==
    /\ packager[c].at = "traces"
    /\ PackagerAt(c, IF packager[c].wanted = {} THEN "gate" ELSE "discover")
    /\ PackagerReads

Discover(c) ==
    /\ packager[c].at = "discover"
    /\ packager' = [packager EXCEPT ![c].at = "capture", ![c].todo = DOMAIN telemetryFiles,
                                    ![c].ends = <<>>, ![c].join.had = WholeRows]
    /\ PackagerReads

\* What is measured of a segment: its size, and where its last complete line ends.
Measured(file) == [size |-> SegmentSize(file), lines |-> Len(file.rows)]

\* A segment that retention removes before it is opened fails the package: only a segment that is
\* replaced while it is opened makes it discover again.
CaptureSegment(c) ==
    /\ packager[c].at = "capture"
    /\ LET name == Min(packager[c].todo) IN
       IF name \notin DOMAIN telemetryFiles THEN FailsWith(c, "telemetry")
       ELSE packager' = [packager EXCEPT
              ![c].todo = @ \ {name}, ![c].ends = FileAdded(@, name, Measured(telemetryFiles[name])),
              ![c].at = IF packager[c].todo = {name} THEN "verify" ELSE @]
    /\ PackagerReads

\* verifySegmentSet: the same segments, none of them shorter.
SameSegments(ends) ==
    /\ DOMAIN ends = DOMAIN telemetryFiles
    /\ \A name \in DOMAIN ends : SegmentSize(telemetryFiles[name]) >= ends[name].size

VerifyCapture(c) ==
    /\ packager[c].at = "verify"
    /\ IF SameSegments(packager[c].ends)
       THEN packager' = [packager EXCEPT ![c].at = "read", ![c].todo = DOMAIN packager[c].ends,
                                         ![c].read = <<>>, ![c].join.bound = WholeRows]
       ELSE IF packager[c].attempt = 1
       THEN packager' = [packager EXCEPT ![c].at = "discover", ![c].attempt = 2]
       ELSE FailsWith(c, "telemetry")
    /\ PackagerReads

\* The reader stops where the segment's last complete line ended.
Bounded(file, end) == SubSeq(file.rows, 1, end.lines)

ReadCaptured(c) ==
    /\ packager[c].at = "read"
    /\ LET name == Min(packager[c].todo)
           end == packager[c].ends[name]
       IN  IF name \notin DOMAIN telemetryFiles \/ SegmentSize(telemetryFiles[name]) < end.size
           THEN FailsWith(c, "telemetry")
           ELSE packager' = [packager EXCEPT
                  ![c].todo = @ \ {name}, ![c].read = FileAdded(@, name, Bounded(telemetryFiles[name], end)),
                  ![c].at = IF packager[c].todo = {name} THEN "check" ELSE @]
    /\ PackagerReads

\* stageTelemetry keeps the rows of the selected traces.
Joined(c) == packager[c].wanted \cap UNION {ToSet(packager[c].read[name]) : name \in DOMAIN packager[c].read}

\* The segments are opened once more, and begin with what was read.
ReadsAgain(c) ==
    /\ SameSegments(packager[c].ends)
    /\ \A name \in DOMAIN packager[c].ends :
         Bounded(telemetryFiles[name], packager[c].ends[name]) = packager[c].read[name]

StageTelemetry(c) ==
    /\ packager[c].at = "check"
    /\ IF ReadsAgain(c)
       THEN packager' = [packager EXCEPT ![c].at = "gate", ![c].join.rows = Joined(c),
                                         ![c].ends = <<>>, ![c].read = <<>>]
       ELSE FailsWith(c, "telemetry")
    /\ PackagerReads

\* Unscanned bodies or detected secrets that the operator has not allowed stop it.
GatePackage(c) ==
    /\ packager[c].at = "gate"
    /\ \/ FailsWith(c, "blocked")
       \/ packager' = [packager EXCEPT ![c].at = "publish", ![c].wanted = {}, ![c].join = NoJoin]
    /\ PackagerReads

\* The ZIP is linked, which replaces nothing; if the directory cannot be synced or the staged link
\* cannot be removed, the package is there and the command fails.
Linked(c) == exports' = [exports EXCEPT ![packager[c].destination] = c] /\ UNCHANGED stages

PublishPackage(c) ==
    /\ packager[c].at = "publish"
    /\ IF DestinationFree(packager[c].destination)
       THEN /\ Linked(c)
            /\ \/ PackagerAt(c, "clean") /\ UNCHANGED packagePast
               \/ FailsWith(c, "unsynced") /\ PackageFault /\ PackageFaultCounted
       ELSE FailsWith(c, "exists") /\ UNCHANGED <<exports, stages, packagePast>>
    /\ PackagerMoves /\ UNCHANGED reservations

RemoveStage(c) ==
    /\ packager[c].at = "clean"
    /\ \/ /\ stages' = [stages EXCEPT ![c] = "gone"]
          /\ PackagerEnds(c, "nothing") /\ UNCHANGED packagePast
       \/ /\ PackageFault /\ PackageFaultCounted
          /\ PackagerAt(c, "reserve") /\ UNCHANGED stages
    /\ PackagerMoves /\ UNCHANGED <<reservations, exports>>

\* What could not be removed goes to quarantine/ under an identifier, which the command prints; where
\* that fails, it prints the directory that the staging was made in.
Reserve(c) ==
    /\ packager[c].at = "reserve"
    /\ \/ /\ reservations' = reservations \cup {c}
          /\ PackagerAt(c, "move") /\ UNCHANGED packagePast
       \/ /\ PackageFault /\ PackageFaultCounted
          /\ PackagerEnds(c, "directory") /\ UNCHANGED reservations
    /\ PackagerMoves /\ UNCHANGED <<stages, exports>>

\* A purge may have removed the reservation, and another device refuses the rename.
MoveStage(c) ==
    /\ packager[c].at = "move"
    /\ IF c \in reservations /\ packager[c].device = "same"
       THEN PackagerAt(c, "sync") /\ stages' = [stages EXCEPT ![c] = "quarantine"] /\ UNCHANGED reservations
       ELSE PackagerEnds(c, "directory") /\ reservations' = reservations \ {c} /\ UNCHANGED stages
    /\ PackagerMoves /\ UNCHANGED <<exports, packagePast>>

\* Where the move cannot be synced, the directory is printed though nothing is left in it.
SyncQuarantine(c) ==
    /\ packager[c].at = "sync"
    /\ \/ c \in reservations /\ PackagerEnds(c, "identifier") /\ UNCHANGED packagePast
       \/ c \notin reservations /\ PackagerEnds(c, "directory") /\ UNCHANGED packagePast
       \/ c \in reservations /\ PackageFault /\ PackageFaultCounted /\ PackagerEnds(c, "directory")
    /\ PackagerMoves /\ UNCHANGED <<stages, reservations, exports>>

KillPackager(c) ==
    /\ packager[c].at \notin {"idle", "done", "killed"} /\ PackageFault
    /\ packager' = [packager EXCEPT ![c] = [PackagerIdle EXCEPT !.at = "killed"]] /\ PackageFaultCounted
    /\ PackagerMoves /\ UNCHANGED <<stages, reservations, exports>>

-----------------------------------------------------------------------------
(* traces purge --packages, traces cleanup, and the user.                  *)

Others == UNCHANGED <<telemetryFiles, packager>>
Quarantined == {c \in reservations : stages[c] = "quarantine"}
WithoutItem(c) ==
    /\ reservations' = reservations \ {c}
    /\ stages' = [stages EXCEPT ![c] = IF @ = "quarantine" THEN "gone" ELSE @]

\* Under the lock of the store: the packages of the default names, and then what is in quarantine/.
BeginExportPurge ==
    /\ exportPurge.at = "idle" /\ packagePast.purges < MaxExportPurges
    /\ exportPurge' = [PurgeIdle EXCEPT !.at = "packages", !.packages = {d \in {"second"} : exports[d] # Vacant},
                                        !.began = Quarantined]
    /\ packagePast' = [packagePast EXCEPT !.purges = @ + 1]
    /\ Others /\ UNCHANGED <<stages, reservations, exports>>

PurgePackages ==
    /\ exportPurge.at = "packages"
    /\ exports' = [d \in Destinations |-> IF d \in exportPurge.packages THEN Vacant ELSE exports[d]]
    /\ exportPurge' = [exportPurge EXCEPT !.at = "items", !.items = reservations]
    /\ Others /\ UNCHANGED <<stages, reservations, packagePast>>

\* An item that a cleanup removed first ends the purge with an error.
PurgeItem ==
    /\ exportPurge.at = "items" /\ exportPurge.items # {}
    /\ \E c \in exportPurge.items :
         IF c \in reservations
         THEN WithoutItem(c) /\ exportPurge' = [exportPurge EXCEPT !.items = @ \ {c}]
         ELSE exportPurge' = PurgeIdle /\ UNCHANGED <<reservations, stages>>
    /\ Others /\ UNCHANGED <<exports, packagePast>>

EndExportPurge ==
    /\ exportPurge.at = "items" /\ exportPurge.items = {}
    /\ exportPurge' = PurgeIdle
    /\ Others /\ UNCHANGED <<stages, reservations, exports, packagePast>>

CleanupExportQuarantine(c) ==
    /\ packager[c].named = "identifier" /\ c \in reservations /\ packagePast.cleanups < MaxCleanups
    /\ WithoutItem(c)
    /\ packagePast' = [packagePast EXCEPT !.cleanups = @ + 1]
    /\ Others /\ UNCHANGED <<exports, exportPurge>>

UserMovesFile ==
    /\ exports["custom"] # Vacant
    /\ exports' = [exports EXCEPT !["custom"] = Vacant]
    /\ Others /\ UNCHANGED <<stages, reservations, exportPurge, packagePast>>

-----------------------------------------------------------------------------
\* Every variable keeps the type the code gives it.
PackageTypeOK ==
    /\ DOMAIN telemetryFiles \subseteq 1..MaxTelemetrySegments /\ DOMAIN telemetryFiles # {}
    /\ \A name \in DOMAIN telemetryFiles :
         /\ ToSet(telemetryFiles[name].rows) \subseteq 1..MaxTelemetryRows
         /\ telemetryFiles[name].tail \in 0..MaxTelemetryRows
    /\ \A c \in Packagers :
         /\ packager[c].at \in {"idle", "create", "traces", "discover", "capture", "verify", "read", "check", "gate",
                                "publish", "clean", "reserve", "move", "sync", "done", "killed"}
         /\ packager[c].destination \in Destinations /\ packager[c].attempt \in 1..2
         /\ packager[c].error \in {"none", "exists", "telemetry", "blocked", "unsynced"}
         /\ packager[c].named \in {"nothing", "identifier", "directory"}
    /\ stages \in [Packagers -> {"none", "beside", "quarantine", "gone"}] /\ reservations \subseteq Packagers
    /\ \A d \in Destinations : exports[d] \in Packagers \cup {Vacant, Foreign}
    /\ exportPurge.at \in {"idle", "packages", "items"}

\* Something may be at the custom destination; the log has a segment of last month and one of this
\* month, with a row each.
PackageInit ==
    /\ telemetryFiles = [name \in {1, 2} |-> [rows |-> <<name>>, tail |-> NoRow]]
    /\ packager = [c \in Packagers |-> PackagerIdle]
    /\ stages = [c \in Packagers |-> "none"] /\ reservations = {}
    /\ exports \in {[d \in Destinations |-> Vacant], [d \in Destinations |-> IF d = "custom" THEN Foreign ELSE Vacant]}
    /\ exportPurge = PurgeIdle
    /\ packagePast = [joins |-> 0, rows |-> 2, lost |-> 0, faults |-> 0, purges |-> 0, cleanups |-> 0]

PackagerActs(c) ==
    \/ ConfirmPackage(c) \/ CreateStage(c) \/ StageTraces(c)
    \/ Discover(c) \/ CaptureSegment(c) \/ VerifyCapture(c) \/ ReadCaptured(c) \/ StageTelemetry(c)
    \/ GatePackage(c) \/ PublishPackage(c) \/ RemoveStage(c) \/ Reserve(c) \/ MoveStage(c) \/ SyncQuarantine(c)
    \/ KillPackager(c) \/ CleanupExportQuarantine(c)

PackageNext ==
    \/ StartRow \/ FinishRow \/ LoseRow \/ RotateTelemetry \/ RetireTelemetry
    \/ \E c \in Packagers : PackagerActs(c)
    \/ BeginExportPurge \/ PurgePackages \/ PurgeItem \/ EndExportPurge
    \/ UserMovesFile

PackageSpec == PackageInit /\ [][PackageNext]_packageVars

-----------------------------------------------------------------------------
\* The join with a log that is appended to, rotated, cut and retired: the package has every row of a
\* selected trace that was whole from the discovery until the segments were verified, and none that
\* is not of a selected trace or was not whole by then.
JoinSound ==
    \A c \in Packagers :
        LET join == packager[c].join
        IN  packager[c].at = "gate" /\ packager[c].wanted # {} =>
                /\ join.had \cap join.bound \cap packager[c].wanted \subseteq join.rows
                /\ join.rows \subseteq join.bound \cap packager[c].wanted

\* When the command has ended, its staging, which holds what people wrote, is gone, is where
\* traces purge --packages and traces cleanup find it, or is in the directory that was printed.
StagingAccounted ==
    \A c \in Packagers : packager[c].at = "done" =>
        \/ stages[c] \in {"none", "gone"}
        \/ stages[c] = "quarantine" /\ c \in reservations
        \/ stages[c] = "beside" /\ packager[c].named = "directory"

\* Nothing that is at a destination is replaced: only a purge of the default names, and the user,
\* ever remove it.
NothingReplaced ==
    [][\A d \in Destinations : exports[d] # Vacant /\ exports'[d] # exports[d] =>
         /\ exports'[d] = Vacant
         /\ d = "second" => exportPurge.at = "packages"]_packageVars

\* A purge that ends without an error leaves nothing of what was in quarantine when it began.
PurgeThorough ==
    [][exportPurge.at = "items" /\ exportPurge.items = {} /\ exportPurge'.at = "idle" =>
         \A c \in exportPurge.began : stages[c] = "gone"]_packageVars
=============================================================================
