---------------------------- MODULE TelemetryLog ----------------------------
(***************************************************************************)
(* The request telemetry on disk, from the router that appends an event    *)
(* for each request it has answered (cmd/gateway/telemetry_writer.go,      *)
(* internal/telemetry) to the index that the traffic view is computed from *)
(* (internal/analytics/index.go).                                          *)
(*                                                                         *)
(* Events go into segments, files named for the UTC month the request      *)
(* completed in and a sequence number.  A writer holds the directory's     *)
(* lock; it appends to one segment, starts another when the month differs  *)
(* or the segment is full, and deletes segments whose whole month is out   *)
(* of retention.  A write may be cut short, by an error or by the death of *)
(* the router; opening the last segment repairs its last line.             *)
(*                                                                         *)
(* Events are numbered in the order their requests completed; a line is    *)
(* the events whose bytes it holds, whether those are valid JSON, and      *)
(* whether a newline ends it.  Time is counted in months.                  *)
(***************************************************************************)
EXTENDS Integers, SequencesExt, FiniteSetsExt

CONSTANTS Processes,       \* router processes: the running one, and the next
          MaxEvents, MaxMonths,
          MaxLines,      \* maxSegmentBytes, in lines
          MaxSeq,        \* last sequence number of a month (999)
          Retentions,    \* telemetry_retention_days, in whole months
          MaxAge,        \* of the index, in months
          MaxRows,       \* of the index
          BootstrapLines \* BootstrapMaxBytes, in lines

ASSUME LogBounds == {MaxEvents, MaxMonths, MaxLines, MaxSeq, MaxAge, MaxRows, BootstrapLines} \subseteq Nat \ {0}

VARIABLES files,      \* segments on disk
          month,      \* now
          completed,  \* events, as the months they completed in
          handled,    \* events handed to a writer, in that order
          acked,      \* history: events a writer accepted
          retention,  \* the config's, 0 when telemetry is off
          logWriter,     \* the Writer of each router
          dirLock,    \* the router whose Writer holds the lock
          index, logFaults

logVars == <<files, month, completed, handled, acked, retention, logWriter, dirLock, index, logFaults>>

Events == 1..Len(completed)
NoOne == "none"
NoSegment == <<0, 0>>
Later(s, t) == s[1] > t[1] \/ (s[1] = t[1] /\ s[2] >= t[2])    \* lexical order of names

-----------------------------------------------------------------------------
(* Segments and lines.                                                     *)

Segments(fs) == DOMAIN fs
Latest(fs) == IF fs = <<>> THEN NoSegment ELSE CHOOSE s \in Segments(fs) : \A t \in Segments(fs) : Later(s, t)

\* The bytes of an event at the end of a file: a line that lacks its
\* newline swallows them.
Appended(lines, e, whole, ended) ==
    IF lines # <<>> /\ ~Last(lines).ended
      THEN Append(Front(lines), [evs |-> Last(lines).evs \cup {e}, whole |-> FALSE, ended |-> ended])
      ELSE Append(lines, [evs |-> {e}, whole |-> whole, ended |-> ended])

leaveFinalLine(lines) == lines                                \* Variant: opens the file as it is
recoverFinalLine(lines) ==
    IF lines = <<>> THEN lines
    ELSE IF ~Last(lines).whole THEN Front(lines)
    ELSE [lines EXCEPT ![Len(lines)].ended = TRUE]

\* The lines an event can be read from.
Lines(e) == {l \in UNION {{<<s, i>> : i \in DOMAIN files[s]} : s \in Segments(files)} :
               LET line == files[l[1]][l[2]] IN line.whole /\ line.ended /\ e \in line.evs}

\* The files after openLatestSegmentLocked.
Reopened(fs) == IF fs = <<>> THEN fs ELSE [fs EXCEPT ![Latest(fs)] = recoverFinalLine(@)]

SeqsOf(fs, m) == {s[2] : s \in {t \in Segments(fs) : t[1] = m}}
nextSegmentName(fs, m) == <<m, Max({0} \cup SeqsOf(fs, m)) + 1>>
Added(fs, s) == [t \in Segments(fs) \cup {s} |-> IF t = s THEN <<>> ELSE fs[t]]

\* A month may be gone once its end lies before the cutoff.
segmentMonthEndsBy(s, keep) == s[1] + 1 <= month - keep
DeleteExpiredSegments(fs, active, keep) ==
    Restrict(fs, {s \in Segments(fs) : s = active \/ ~segmentMonthEndsBy(s, keep)})

-----------------------------------------------------------------------------
(* The writer.  `name` is the segment it last had open, which retention    *)
(* spares; `active` tells whether it is open now.                          *)

NoWriter == [at |-> "none", active |-> FALSE, name |-> NoSegment, keep |-> 0, stopped |-> FALSE]

LogInit ==
    /\ files = <<>> /\ month = 1
    /\ completed = <<>> /\ handled = <<>> /\ acked = {}
    /\ retention \in Retentions
    /\ logWriter = [w \in Processes |-> NoWriter] /\ dirLock = NoOne
    /\ index = [started |-> FALSE, pos |-> <<>>, got |-> <<>>, capped |-> FALSE,
                rowsThrough |-> 0, ageThrough |-> 0]
    /\ logFaults = 0

RequestCompletes ==
    /\ Len(completed) < MaxEvents
    /\ completed' = Append(completed, month)
    /\ UNCHANGED <<files, month, handled, acked, retention, logWriter, dirLock, index, logFaults>>
MonthPasses ==
    /\ completed # <<>> /\ month < MaxMonths /\ month' = month + 1    \* the first request dates the first month
    /\ UNCHANGED <<files, completed, handled, acked, retention, logWriter, dirLock, index, logFaults>>

\* Write, from a writer that is open: ensureSegmentLocked and the append.
\* `fate` is what becomes of the bytes.
Fates == {"written", "cut", "bare", "nothing"}
Put(w, fs, active, name, e, fate) ==
    LET opened == IF active THEN fs ELSE Reopened(fs)
        seg    == IF active THEN name ELSE Latest(opened)
        rotate == seg = NoSegment \/ seg[1] # completed[e] \/ Len(opened[seg]) >= MaxLines
        full   == rotate /\ nextSegmentName(opened, completed[e])[2] > MaxSeq
        to     == IF rotate THEN nextSegmentName(opened, completed[e]) ELSE seg
        made   == IF rotate THEN Added(opened, to) ELSE opened
        kept   == [made EXCEPT ![to] = IF fate = "nothing" THEN @
                                       ELSE Appended(@, e, fate # "cut", fate = "written")]
    IN  IF full    \* the old segment is closed, the event dropped
          THEN /\ files' = opened
               /\ logWriter' = [logWriter EXCEPT ![w] = [at |-> "open", active |-> FALSE, name |-> seg,
                                                   keep |-> retention, stopped |-> FALSE]]
               /\ UNCHANGED acked
          ELSE /\ \E clean \in {rotate, TRUE} :      \* retention also runs on a new day
                    files' = IF fate = "written" /\ clean
                               THEN DeleteExpiredSegments(kept, to, retention) ELSE kept
               /\ logWriter' = [logWriter EXCEPT ![w] = [at |-> "open", active |-> fate = "written", name |-> to,
                                                   keep |-> retention, stopped |-> FALSE]]
               /\ acked' = IF fate = "written" THEN acked \cup {e} ELSE acked

\* writeTelemetryV1: a writer with other settings is closed first; without
\* one, NewWriter takes the lock, or the event is dropped.
writeTelemetryV1(w, e, fate) ==
    /\ e \in Events \ Range(handled)
    /\ handled' = Append(handled, e)
    /\ IF logWriter[w].stopped \/ retention = 0 \/ (dirLock \notin {NoOne, w})
         THEN UNCHANGED <<files, logWriter, dirLock, acked, logFaults>>
       ELSE IF logWriter[w].at = "open" /\ logWriter[w].keep = retention
         THEN /\ logFaults' = logFaults + IF fate = "written" THEN 0 ELSE 1
              /\ Put(w, files, logWriter[w].active, logWriter[w].name, e, fate)
              /\ UNCHANGED dirLock
       ELSE LET opened == Reopened(files)
            IN  /\ logFaults' = logFaults + IF fate = "written" THEN 0 ELSE 1
                /\ dirLock' = w
                /\ Put(w, DeleteExpiredSegments(opened, Latest(opened), retention),
                       opened # <<>>, Latest(opened), e, fate)
    /\ UNCHANGED <<month, completed, retention, index>>

\* A reload closes a writer its settings no longer fit.
CloseWriter(w, stopped) ==
    /\ logWriter' = [logWriter EXCEPT ![w] = [NoWriter EXCEPT !.stopped = stopped]]
    /\ dirLock' = IF dirLock = w THEN NoOne ELSE dirLock
reconcileTelemetryWriter(w) ==
    /\ logWriter[w].at = "open" /\ logWriter[w].keep # retention
    /\ CloseWriter(w, FALSE)
    /\ UNCHANGED <<files, month, completed, handled, acked, retention, index, logFaults>>
closeTelemetryWriter(w) ==
    /\ ~logWriter[w].stopped
    /\ CloseWriter(w, TRUE)
    /\ UNCHANGED <<files, month, completed, handled, acked, retention, index, logFaults>>
ConfigChanges ==
    /\ retention' \in Retentions \ {retention}
    /\ UNCHANGED <<files, month, completed, handled, acked, logWriter, dirLock, index, logFaults>>

RouterStarts(w) ==
    /\ logWriter[w].stopped
    /\ logWriter' = [logWriter EXCEPT ![w] = NoWriter]
    /\ UNCHANGED <<files, month, completed, handled, acked, retention, dirLock, index, logFaults>>

\* A router dies, perhaps in the middle of an append, and another starts.
RouterDies(w) ==
    /\ logFaults < 1
    /\ logWriter[w].at = "open"
    /\ logFaults' = logFaults + 1
    /\ CloseWriter(w, FALSE)
    /\ IF logWriter[w].active
         THEN \/ UNCHANGED <<files, handled>>
              \/ \E e \in Events \ Range(handled), whole \in BOOLEAN :
                   /\ files' = [files EXCEPT ![logWriter[w].name] = Appended(@, e, whole, FALSE)]
                   /\ handled' = Append(handled, e)
         ELSE UNCHANGED <<files, handled>>
    /\ UNCHANGED <<month, completed, acked, retention, index>>

-----------------------------------------------------------------------------
(* The index.  `pos` counts the lines read of each segment, `got` the      *)
(* events they held.                                                       *)

Inside(fs) == {s \in Segments(fs) : s[1] + 1 > month - MaxAge}
LinesBehind(fs, s) == FoldSet(LAMBDA t, n : n + Len(fs[t]), 0,
                               {t \in Inside(fs) : Later(t, s) /\ t # s})
\* Where the first reading of a segment starts: the last bytes win.
ColdStart(fs, s) == Max({0, Len(fs[s]) - Max({0, BootstrapLines - LinesBehind(fs, s)})})

Readable(lines, from) ==       \* whole lines up to the last newline
    UNION {lines[i].evs : i \in {j \in from + 1..Len(lines) : lines[j].ended /\ lines[j].whole}}
ReadTo(lines) == IF lines # <<>> /\ ~Last(lines).ended THEN Len(lines) - 1 ELSE Len(lines)
CursorsSeen(ix) == DOMAIN ix.pos

\* ensure: forget what is gone or too old, read on in the rest, prune by
\* age, and drop the oldest rows over the limit.
Ensured(ix) ==
    LET from(s) == IF s \in CursorsSeen(ix) THEN ix.pos[s]
                   ELSE IF ix.started THEN 0 ELSE ColdStart(files, s)
        pos == [s \in Inside(files) |-> Max({from(s), ReadTo(files[s])})]
        raw == [s \in Inside(files) |->
                  (IF s \in CursorsSeen(ix) THEN ix.got[s] ELSE {}) \cup Readable(files[s], from(s))]
        old == {e \in UNION Range(raw) : completed[e] < month - MaxAge}
        young == UNION Range(raw) \ old
        excess == {e \in young : Cardinality({f \in young : f > e}) >= MaxRows}
    IN  [started |-> TRUE, pos |-> pos,
         got |-> [s \in DOMAIN raw |-> raw[s] \ (old \cup excess)],
         capped |-> ix.capped \/ (~ix.started /\ \E s \in Inside(files) : ColdStart(files, s) > 0),
         rowsThrough |-> Max({ix.rowsThrough} \cup excess),
         ageThrough |-> Max({ix.ageThrough} \cup old)]

eventsCoverSince(events, since) == \E e \in events : e <= since
Ordered == \A i, j \in DOMAIN handled : i < j => handled[i] < handled[j]

CompleteOnceRead(ix, events, since) == TRUE        \* Variant: what was dropped is no reason
CompleteSnapshot(ix, events, since) ==
    /\ ix.capped => eventsCoverSince(events, since)
    /\ ix.rowsThrough < since /\ ix.ageThrough < since
    /\ completed[since] >= month - MaxAge

\* The events and the verdict are computed from the index it leaves.
Snapshot ==
    /\ index' = Ensured(index)
    /\ UNCHANGED <<files, month, completed, handled, acked, retention, logWriter, dirLock, logFaults>>

ForgetIndex ==    \* the process with the index restarts
    /\ index.started
    /\ index' = [started |-> FALSE, pos |-> <<>>, got |-> <<>>, capped |-> FALSE,
                 rowsThrough |-> 0, ageThrough |-> 0]
    /\ UNCHANGED <<files, month, completed, handled, acked, retention, logWriter, dirLock, logFaults>>

LogNext ==
    \/ RequestCompletes \/ MonthPasses \/ ConfigChanges \/ Snapshot \/ ForgetIndex
    \/ \E w \in Processes : \/ \E e \in Events, fate \in Fates :
                               (fate = "written" \/ logFaults < 1) /\ writeTelemetryV1(w, e, fate)
                          \/ reconcileTelemetryWriter(w) \/ closeTelemetryWriter(w)
                          \/ RouterStarts(w) \/ RouterDies(w)

LogSpec == LogInit /\ [][LogNext]_logVars

-----------------------------------------------------------------------------
(* Properties.                                                             *)

LogTypeOK ==
    /\ \A s \in Segments(files) : s \in (1..MaxMonths) \X (1..MaxSeq)
    /\ month \in 1..MaxMonths /\ Range(handled) \subseteq Events /\ acked \subseteq Range(handled)
    /\ retention \in Retentions /\ dirLock \in Processes \cup {NoOne}
    /\ \A w \in Processes : logWriter[w].at \in {"none", "open"}

\* An event the writer accepted is on disk, on one line that can be read,
\* through errors, cut writes and restarts, until its month is out of
\* retention; and no event is there twice.
AckedEventsKept ==
    /\ \A e \in acked : \/ Lines(e) # {}
                        \/ \E keep \in Retentions \ {0} : completed[e] + 1 <= month - keep
    /\ \A e \in Events : Cardinality(Lines(e)) <= 1

\* A snapshot that calls itself complete, asked for everything since some
\* event, has every event since then that was accepted and is still on
\* disk: what the byte, row and age limits drop is always owned up to.  (Two
\* requests that finish together may be written in the other order; an index
\* that started in the middle of a segment then counts too little.)
CompleteIsComplete ==
    LET ix == Ensured(index)
        events == UNION Range(ix.got)
    IN  \A since \in Events :
          CompleteSnapshot(ix, events, since) /\ (ix.capped => Ordered)
            => \A e \in acked : e >= since /\ Lines(e) # {} => e \in events

\* The log loses nothing it accepted and the index admits what it leaves out.
LogSound == AckedEventsKept /\ CompleteIsComplete
=============================================================================
