----------------------------- MODULE TraceStore -----------------------------
(***************************************************************************)
(* The directory of captured traces (internal/tracecapture: writer.go,     *)
(* segments.go, selection.go, runtime.go).  The router's writer appends a  *)
(* line at a time to the segment of a day, starts segments, evicts and     *)
(* expires old ones and may be killed in a write; traces package reads     *)
(* without a lock, traces purge takes the writer's.  A line has two parts, *)
(* so that a write can stop in its middle.                                 *)
(***************************************************************************)
EXTENDS Integers, Sequences, SequencesExt, FiniteSets, FiniteSetsExt

CONSTANTS MaxSegmentParts,   \* size of a segment
          MaxStoreParts,     \* quota of the directory
          RetentionDays,
          MaxTraceRows,      \* bound: lines written
          MaxTraceDays,      \* bound on the clock
          MaxOpens,          \* bound: writers opened
          MaxSelections,     \* bound: runs of traces package
          MaxPurges,         \* bound: runs of traces purge
          MaxStoreFaults     \* bound: writes cut off and kills

\* The directory that is modelled begins with a segment of two lines.
LineParts == 2
ASSUME StoreBounds ==
    /\ MaxSegmentParts \in Nat /\ MaxSegmentParts >= 2 * LineParts /\ MaxStoreParts \in Nat
    /\ MaxStoreParts >= MaxSegmentParts + LineParts
    /\ RetentionDays \in Nat \ {0} /\ MaxTraceRows \in 2..999 /\ MaxTraceDays \in Nat \ {0, 1}
    /\ MaxOpens \in Nat /\ MaxSelections \in Nat /\ MaxPurges \in Nat /\ MaxStoreFaults \in Nat

VARIABLES segments,     \* name -> what the file holds
          traceDay,     \* today
          writerLock,   \* .writer.lock: who holds it
          storeWriter,  \* the router's writer
          selection,    \* traces package, while it selects
          purging,      \* the segments that a purge or the janitor has yet to remove
          storePast     \* history: bounds, what cut writes left

storeVars == <<segments, traceDay, writerLock, storeWriter, selection, purging, storePast>>

\* A name orders by day and then by number, as the text of the file's name does; the numbers of a
\* day end at 999, which so many lines do not reach.
NameOf(day, number) == 1000 * day + number
DayOf(name) == name \div 1000
NoFile == 0

Garbled == [id |-> 0, day |-> 0]
NoPart == [line |-> Garbled, whole |-> FALSE, present |-> FALSE]
LinePart(line, whole) == [line |-> line, whole |-> whole, present |-> TRUE]
SizeOf(file) == LineParts * Len(file.lines) + (IF file.tail.present THEN 1 ELSE 0)
Total(files) == Cardinality(UNION {{name} \X (1..SizeOf(files[name])) : name \in DOMAIN files})
WholeLines(files) == UNION {ToSet(files[name].lines) : name \in DOMAIN files}

WriterDown == [at |-> "down", open |-> NoFile, total |-> 0, line |-> Garbled]
StoreFault == storePast.faults < MaxStoreFaults
FaultCounted == [storePast EXCEPT !.faults = @ + 1]

Expired(name) == DayOf(name) + 1 + RetentionDays <= traceDay

-----------------------------------------------------------------------------
(* The writer, under its mutex and the lock of the directory.              *)

\* A last line without its newline is completed if it is a trace, and cut off if not.
recoverLastLine(file) ==
    [file EXCEPT !.lines = IF file.tail.whole THEN Append(@, file.tail.line) ELSE @, !.tail = NoPart]

\* NewWriter: the latest segment is recovered, and stays open if it is of today.
OpenStore ==
    /\ storeWriter.at = "down" /\ writerLock = "free" /\ storePast.opens < MaxOpens
    /\ LET latest == IF DOMAIN segments = {} THEN NoFile ELSE Max(DOMAIN segments)
       IN  /\ segments' = [name \in DOMAIN segments |->
                             IF name = latest THEN recoverLastLine(segments[name]) ELSE segments[name]]
           /\ storeWriter' = [WriterDown EXCEPT !.at = "sweep", !.total = Total(segments'),
                                !.open = IF DayOf(latest) = traceDay THEN latest ELSE NoFile]
    /\ writerLock' = "writer"
    /\ storePast' = [storePast EXCEPT !.opens = @ + 1, !.left = 0]
    /\ UNCHANGED <<traceDay, selection, purging>>

nextTraceSegment(day) ==
    LET numbers == {name % 1000 : name \in {n \in DOMAIN segments : DayOf(n) = day}}
    IN  NameOf(day, IF numbers = {} THEN 1 ELSE Max(numbers) + 1)

Rotates(day) ==
    LET open == storeWriter.open
    IN  \/ open = NoFile
        \/ DayOf(open) # day
        \/ SizeOf(segments[open]) > 0 /\ SizeOf(segments[open]) + LineParts > MaxSegmentParts

\* prepareAppendLocked: a line goes to the segment of the day it was completed on, which may be
\* yesterday's by the time it is written.
PrepareAppend(day) ==
    /\ storeWriter.at = "idle" /\ storePast.rows < MaxTraceRows
    /\ IF Rotates(day)
       THEN /\ segments' = [name \in DOMAIN segments \cup {nextTraceSegment(day)} |->
                              IF name \in DOMAIN segments THEN segments[name]
                              ELSE [inode |-> storePast.files + 1, lines |-> <<>>, tail |-> NoPart]]
            /\ storeWriter' = [storeWriter EXCEPT !.at = "evict", !.open = nextTraceSegment(day),
                                                  !.line = [id |-> storePast.rows + 1, day |-> day]]
            /\ storePast' = [storePast EXCEPT !.rows = @ + 1, !.files = @ + 1]
       ELSE /\ storeWriter' = [storeWriter EXCEPT !.at = "evict", !.line = [id |-> storePast.rows + 1, day |-> day]]
            /\ storePast' = [storePast EXCEPT !.rows = @ + 1]
            /\ UNCHANGED segments
    /\ UNCHANGED <<traceDay, writerLock, selection, purging>>

Fits == storeWriter.total + LineParts <= MaxStoreParts
Closed == DOMAIN segments \ {storeWriter.open}
Without(name) == [n \in DOMAIN segments \ {name} |-> segments[n]]

\* evictForLocked: oldest first, and never the one that is open.
EvictSegment ==
    /\ storeWriter.at = "evict" /\ ~Fits
    /\ IF Closed = {}
       THEN storeWriter' = [storeWriter EXCEPT !.at = "idle", !.line = Garbled] /\ UNCHANGED segments
       ELSE /\ segments' = Without(Min(Closed))
            /\ storeWriter' = [storeWriter EXCEPT !.total = @ - SizeOf(segments[Min(Closed)])]
    /\ UNCHANGED <<traceDay, writerLock, selection, purging, storePast>>

\* What follows a part of a line that nobody cut off continues that line.
WriteFirstPart ==
    /\ storeWriter.at = "evict" /\ Fits
    /\ segments' = [segments EXCEPT ![storeWriter.open].tail = LinePart(IF @.present THEN Garbled ELSE storeWriter.line, FALSE)]
    /\ storeWriter' = [storeWriter EXCEPT !.at = "rest"]
    /\ UNCHANGED <<traceDay, writerLock, selection, purging, storePast>>

WriteRest ==
    /\ storeWriter.at = "rest"
    /\ LET file == segments[storeWriter.open]
       IN  segments' = [segments EXCEPT ![storeWriter.open] =
                          [file EXCEPT !.lines = Append(@, file.tail.line), !.tail = NoPart]]
    /\ storeWriter' = [storeWriter EXCEPT !.at = "idle", !.line = Garbled, !.total = @ + LineParts]
    /\ UNCHANGED <<traceDay, writerLock, selection, purging, storePast>>

\* A short write closes the segment; what reached the file stays there and is not counted.
CutWrite ==
    /\ storeWriter.at = "rest" /\ StoreFault
    /\ \E whole \in BOOLEAN : segments' = [segments EXCEPT ![storeWriter.open].tail.whole = whole]
    /\ storeWriter' = [storeWriter EXCEPT !.at = "idle", !.open = NoFile, !.line = Garbled]
    /\ storePast' = [FaultCounted EXCEPT !.left = @ + 1]
    /\ UNCHANGED <<traceDay, writerLock, selection, purging>>

\* runRetentionLocked, by the ticker, after a write or when the writer opens.
StartSweep ==
    /\ storeWriter.at = "idle" /\ \E name \in Closed : Expired(name)
    /\ storeWriter' = [storeWriter EXCEPT !.at = "sweep"]
    /\ UNCHANGED <<segments, traceDay, writerLock, selection, purging, storePast>>

Sweep ==
    /\ storeWriter.at = "sweep"
    /\ LET old == {name \in Closed : Expired(name)}
       IN  IF old = {}
           THEN storeWriter' = [storeWriter EXCEPT !.at = "idle"] /\ UNCHANGED segments
           ELSE /\ segments' = Without(Min(old))
                /\ storeWriter' = [storeWriter EXCEPT !.total = @ - SizeOf(segments[Min(old)])]
    /\ UNCHANGED <<traceDay, writerLock, selection, purging, storePast>>

CloseStore ==
    /\ storeWriter.at = "idle"
    /\ storeWriter' = WriterDown /\ writerLock' = "free"
    /\ UNCHANGED <<segments, traceDay, selection, purging, storePast>>

\* The lock goes with the process.
KillWriter ==
    /\ storeWriter.at # "down" /\ StoreFault
    /\ IF storeWriter.at = "rest"
       THEN \E whole \in BOOLEAN : segments' = [segments EXCEPT ![storeWriter.open].tail.whole = whole]
       ELSE UNCHANGED segments
    /\ storeWriter' = WriterDown /\ writerLock' = "free"
    /\ storePast' = FaultCounted
    /\ UNCHANGED <<traceDay, selection, purging>>

DayEnds ==
    /\ traceDay < MaxTraceDays
    /\ traceDay' = traceDay + 1
    /\ UNCHANGED <<segments, writerLock, storeWriter, selection, purging, storePast>>

-----------------------------------------------------------------------------
(* ReadSelectedTraces, without a lock.                                     *)

NoSelection == [at |-> "idle", names |-> {}, todo |-> {}, ends |-> <<>>, read |-> <<>>, found |-> {}, had |-> {}, bound |-> {}]
SelectionEnds(at) == selection' = [NoSelection EXCEPT !.at = at]

\* What lies before an offset: the complete lines, and the one that the offset cuts.
Prefix(file, end) ==
    LET count == end \div LineParts
    IN  [lines |-> SubSeq(file.lines, 1, count),
         part |-> IF end % LineParts = 0 THEN Garbled
                  ELSE IF Len(file.lines) > count THEN file.lines[count + 1] ELSE file.tail.line]

\* The file that was measured is still there, and no shorter.
StillThere(name) ==
    /\ name \in DOMAIN segments
    /\ segments[name].inode = selection.ends[name].inode
    /\ SizeOf(segments[name]) >= selection.ends[name].end

BeginSelection ==
    /\ selection.at \in {"idle", "done", "changed"} /\ storePast.selections < MaxSelections
    /\ selection' = [NoSelection EXCEPT !.at = IF DOMAIN segments = {} THEN "verify" ELSE "measure",
                        !.names = DOMAIN segments, !.todo = DOMAIN segments, !.had = WholeLines(segments)]
    /\ storePast' = [storePast EXCEPT !.selections = @ + 1]
    /\ UNCHANGED <<segments, traceDay, writerLock, storeWriter, purging>>

MeasureSegment ==
    /\ selection.at = "measure"
    /\ LET name == Min(selection.todo) IN
       IF name \notin DOMAIN segments THEN SelectionEnds("changed")
       ELSE selection' = [selection EXCEPT !.todo = @ \ {name},
                            !.ends = [n \in DOMAIN @ \cup {name} |->
                                        IF n = name THEN [inode |-> segments[name].inode, end |-> SizeOf(segments[name])] ELSE @[n]],
                            !.at = IF selection.todo = {name} THEN "verify" ELSE @]
    /\ UNCHANGED <<segments, traceDay, writerLock, storeWriter, purging, storePast>>

VerifySegments ==
    /\ selection.at = "verify"
    /\ IF DOMAIN segments # selection.names \/ \E name \in DOMAIN segments : ~StillThere(name)
       THEN SelectionEnds("changed")
       ELSE selection' = [selection EXCEPT !.at = IF selection.names = {} THEN "done" ELSE "read", !.todo = selection.names,
                                !.bound = WholeLines(segments)]
    /\ UNCHANGED <<segments, traceDay, writerLock, storeWriter, purging, storePast>>

ReadSegment ==
    /\ selection.at = "read"
    /\ LET name == Min(selection.todo) IN
       IF ~StillThere(name) THEN SelectionEnds("changed")
       ELSE selection' = [selection EXCEPT !.at = "check", !.read = Prefix(segments[name], selection.ends[name].end)]
    /\ UNCHANGED <<segments, traceDay, writerLock, storeWriter, purging, storePast>>

\* The file is opened again, and must still begin with what was read.
ReadsTheSame(name) == StillThere(name) /\ Prefix(segments[name], selection.ends[name].end) = selection.read

CheckSegment ==
    /\ selection.at = "check"
    /\ LET name == Min(selection.todo)
           rest == selection.todo \ {name}
       IN  IF ~ReadsTheSame(name) THEN SelectionEnds("changed")
           ELSE selection' = [selection EXCEPT !.at = IF rest = {} THEN "done" ELSE "read", !.todo = rest, !.read = <<>>,
                                !.found = @ \cup ToSet(selection.read.lines)]
    /\ UNCHANGED <<segments, traceDay, writerLock, storeWriter, purging, storePast>>

-----------------------------------------------------------------------------
(* traces purge, which refuses while capture is on, and the janitor.       *)

LockPurge ==
    /\ purging = {} /\ writerLock = "free" /\ DOMAIN segments # {} /\ storePast.purges < MaxPurges
    /\ writerLock' = "purge"
    /\ purging' = DOMAIN segments
    /\ storePast' = [storePast EXCEPT !.purges = @ + 1]
    /\ UNCHANGED <<segments, traceDay, storeWriter, selection>>

\* SweepRetention: the janitor, while there is no writer.
LockSweep ==
    /\ purging = {} /\ writerLock = "free"
    /\ {name \in DOMAIN segments : Expired(name)} # {}
    /\ writerLock' = "janitor"
    /\ purging' = {name \in DOMAIN segments : Expired(name)}
    /\ UNCHANGED <<segments, traceDay, storeWriter, selection, storePast>>

PurgeSegment ==
    /\ purging # {}
    /\ LET name == Min(purging) IN
       /\ segments' = Without(name)
       /\ purging' = purging \ {name}
       /\ writerLock' = IF purging' = {} THEN "free" ELSE writerLock
    /\ UNCHANGED <<traceDay, storeWriter, selection, storePast>>

-----------------------------------------------------------------------------
LinesOf == [id : 0..MaxTraceRows, day : 0..MaxTraceDays]

\* Every variable keeps the type the code gives it.
StoreTypeOK ==
    /\ \A name \in DOMAIN segments : DayOf(name) \in 1..MaxTraceDays /\ name % 1000 \in 1..MaxTraceRows
    /\ \A name \in DOMAIN segments :
         /\ segments[name].inode \in Nat /\ segments[name].lines \in Seq(LinesOf)
         /\ segments[name].tail \in [line : LinesOf, whole : BOOLEAN, present : BOOLEAN]
    /\ traceDay \in 1..MaxTraceDays /\ writerLock \in {"free", "writer", "purge", "janitor"}
    /\ storeWriter.at \in {"down", "idle", "evict", "rest", "sweep"}
    /\ storeWriter.open \in DOMAIN segments \cup {NoFile} /\ storeWriter.total \in Int
    /\ selection.at \in {"idle", "measure", "verify", "read", "check", "done", "changed"}

\* Two lines of yesterday are there.
StoreInit ==
    /\ segments = [name \in {NameOf(1, 1)} |->
                     [inode |-> 1, tail |-> NoPart, lines |-> <<[id |-> 1, day |-> 1], [id |-> 2, day |-> 1]>>]]
    /\ traceDay = 2 /\ writerLock = "free"
    /\ storeWriter = WriterDown /\ selection = NoSelection /\ purging = {}
    /\ storePast = [rows |-> 2, files |-> 1, opens |-> 0, selections |-> 0, purges |-> 0, faults |-> 0, left |-> 0]

StoreNext ==
    \/ OpenStore \/ \E day \in {traceDay - 1, traceDay} : PrepareAppend(day)
    \/ EvictSegment \/ WriteFirstPart \/ WriteRest \/ CutWrite \/ StartSweep \/ Sweep
    \/ CloseStore \/ KillWriter \/ DayEnds
    \/ BeginSelection \/ MeasureSegment \/ VerifySegments \/ ReadSegment \/ CheckSegment
    \/ LockPurge \/ LockSweep \/ PurgeSegment

StoreSpec == StoreInit /\ [][StoreNext]_storeVars

-----------------------------------------------------------------------------
\* No line is glued to the remains of another, and each is in a segment of its own day, which is
\* what lets a whole segment expire (writer.go:470-508, 357-379).
LinesWhole ==
    \A name \in DOMAIN segments : \A line \in ToSet(segments[name].lines) :
        line.id # 0 /\ line.day = DayOf(name)

\* The bytes that the writer counts are those on disk but for what its short writes left since it
\* opened, and the directory exceeds its quota by no more than the lines whose writes were cut.
StoreAccounted ==
    /\ storeWriter.at = "idle" => Total(segments) = storeWriter.total + storePast.left
    /\ Total(segments) <= MaxStoreParts + LineParts * storePast.faults

\* What leaves the directory: for the quota the oldest closed segment, for its age one whose lines
\* are all past the retention, and never the one that is written to.
RemovedInOrder ==
    [][\A name \in DOMAIN segments \ DOMAIN segments' :
         /\ name # storeWriter.open
         /\ storeWriter.at = "evict" => \A other \in Closed : name <= other
         /\ storeWriter.at = "sweep" \/ writerLock = "janitor" => \A line \in ToSet(segments[name].lines) : line.day + RetentionDays < traceDay]_storeVars

\* A selection that succeeds lost no line to the writer, the sweep or a purge: it found every line
\* that was whole when it began and when it had verified the segments, and none that was not by then.
SelectionComplete ==
    selection.at = "done" =>
        /\ selection.had \cap selection.bound \subseteq selection.found
        /\ selection.found \subseteq selection.bound

\* A short write leaves bytes that are never counted, so the directory may exceed its quota.
QuotaKept == Total(segments) <= MaxStoreParts
=============================================================================
