---------------------------- MODULE ClaudePicker ----------------------------
(***************************************************************************)
(* `baseten-switch claude picker`: the rows that Switch keeps in Claude    *)
(* Code's model picker (cmd/baseten-switch/claude_picker.go).              *)
(*                                                                         *)
(* The rows wanted live in the gateway config, under the config lock.  A   *)
(* sync projects them into the modelPicker object of settings.json, under  *)
(* the settings lock and never under both locks at once.  The rows of      *)
(* others stay where they are; the backup records which rows are Switch's, *)
(* where they start, and what the object was before the first sync.        *)
(*                                                                         *)
(* Commands run concurrently and may be killed between any two steps.      *)
(***************************************************************************)
EXTENDS Integers, SequencesExt

CONSTANTS Commands,       \* slots for concurrent command invocations
          Aliases,        \* model_aliases of the Claude client
          Sizes,          \* context sizes the models can have
          MaxPickerRuns, MaxPickerEdits, MaxPickerKills

ASSUME PickerBounds == /\ {MaxPickerRuns, MaxPickerEdits, MaxPickerKills} \subseteq Nat
                       /\ Sizes \subseteq {"unknown", "standard", "million", "small"}

VARIABLES wanted,      \* model_picker of the config: enabled and its models
          picker,      \* modelPicker of settings.json
          owned,       \* ModelPicker of the backup
          wired,       \* `claude on` is in effect
          holder,      \* the command that holds the settings lock
          call,        \* the commands
          unread,      \* settings.json has changed since the holder read it
          synced,      \* history: a sync has finished for the config as it stands
          touched,     \* history: somebody else moved, or a command was killed
          pickerRuns, pickerEdits, pickerKills

pickerVars == <<wanted, picker, owned, wired, holder, call, unread, synced, touched,
                pickerRuns, pickerEdits, pickerKills>>

Nobody == "nobody"
External == "external"
Row(id, big) == [id |-> id, big |-> big]     \* big: the model id ends in [1m]
Ours(rows)   == SelectSeq(rows, LAMBDA r : r.id \in Aliases)
Theirs(rows) == SelectSeq(rows, LAMBDA r : r.id \notin Aliases)

NoPicker == [there |-> FALSE, rows |-> <<>>, replace |-> FALSE]
NotOwned == [has |-> FALSE, original |-> NoPicker, rows |-> <<>>, anchor |-> 0, print |-> NoPicker]

-----------------------------------------------------------------------------
(* Rows and their ownership.                                               *)

\* Context sizes come from the running router; "unknown" is a router that
\* does not answer, and "small" a known size below the picker's minimum.

anchoredRowsEqual(rows, o) ==
    /\ o.anchor + Len(o.rows) <= Len(rows)
    /\ SubSeq(rows, o.anchor + 1, o.anchor + Len(o.rows)) = o.rows

ownedOneMillionPickerAliases(p, o) ==
    IF o.has /\ p.there /\ anchoredRowsEqual(p.rows, o) THEN {r.id : r \in {q \in ToSet(o.rows) : q.big}} ELSE {}

claudePickerRows(models, size, keep) ==
    [i \in DOMAIN models |-> Row(models[i], size = "million" \/ (size = "unknown" /\ models[i] \in keep))]

removeRecordedRowsAtAnchor(rows, o) ==
    SubSeq(rows, 1, o.anchor) \o SubSeq(rows, o.anchor + Len(o.rows) + 1, Len(rows))

\* Does an install refuse, and what does it leave?
Base(p, o) == IF o.has THEN removeRecordedRowsAtAnchor(p.rows, o) ELSE p.rows
InstallRefuses(p, o, desired, convert) ==
    \/ p.replace /\ ~convert
    \/ o.has /\ ~anchoredRowsEqual(p.rows, o)
    \/ \E i \in DOMAIN desired, j \in DOMAIN Base(p, o) : Base(p, o)[j] = desired[i]
Anchor(p, o) == IF o.has THEN o.anchor ELSE Len(p.rows)
InstalledAtEnd(p, o, desired) ==      \* Variant: drops what stands behind the anchor
    [there |-> TRUE, replace |-> FALSE, rows |-> SubSeq(Base(p, o), 1, Anchor(p, o)) \o desired]
Installed(p, o, desired) ==
    [there |-> TRUE, replace |-> FALSE,
     rows |-> SubSeq(Base(p, o), 1, Anchor(p, o)) \o desired
              \o SubSeq(Base(p, o), Anchor(p, o) + 1, Len(Base(p, o)))]
Ownership(p, o, desired) ==
    [has |-> TRUE, original |-> IF o.has THEN o.original ELSE p, rows |-> desired,
     anchor |-> Anchor(p, o), print |-> Installed(p, o, desired)]

\* cleanupModelPicker: the original if the object is exactly what was
\* written, else everything but the rows at the anchor.
CleanupRefuses(p, o) == o.has /\ p.there /\ p # o.print /\ ~anchoredRowsEqual(p.rows, o)
Cleaned(p, o) ==
    IF ~o.has \/ ~p.there THEN p
    ELSE IF p = o.print THEN o.original
    ELSE LET rows == removeRecordedRowsAtAnchor(p.rows, o)
         IN  IF rows = <<>> /\ ~o.original.there /\ ~p.replace THEN NoPicker ELSE [p EXCEPT !.rows = rows]

-----------------------------------------------------------------------------
NoCall == [at |-> "idle", want |-> [enabled |-> FALSE, models |-> <<>>], size |-> "unknown",
           goal |-> NoPicker, prior |-> NotOwned, off |-> FALSE]

PickerInit ==
    /\ wanted = [enabled |-> TRUE, models |-> <<>>]
    /\ \E rows \in {<<>>, <<Row(External, FALSE)>>} :
         picker \in {NoPicker, [there |-> TRUE, rows |-> rows, replace |-> FALSE]}
    /\ owned = NotOwned /\ wired = TRUE /\ holder = Nobody
    /\ call = [c \in Commands |-> NoCall]
    /\ unread = FALSE /\ synced = FALSE /\ touched = FALSE
    /\ pickerRuns = 0 /\ pickerEdits = 0 /\ pickerKills = 0

NoMore == [call EXCEPT ![holder] = NoCall]
Starts(c) == call[c].at = "idle" /\ pickerRuns < MaxPickerRuns /\ pickerRuns' = pickerRuns + 1
Now(c, at) == call' = [call EXCEPT ![c].at = at]

\* mutatePickerConfig works out the new model_picker from a reading of the
\* config that no lock protects ...
Edits(w) ==
    {[w EXCEPT !.enabled = TRUE], [w EXCEPT !.enabled = FALSE]}
      \cup (IF ~w.enabled THEN {} ELSE
              {[w EXCEPT !.models = Append(@, a)] : a \in Aliases \ ToSet(w.models)}
                \cup {[w EXCEPT !.models = RemoveAt(@, i)] : i \in DOMAIN w.models}
                \cup {[w EXCEPT !.models = Reverse(@)] : i \in {j \in {2} : Len(w.models) = j}})
mutatePickerConfig(c) ==
    /\ Starts(c)
    /\ \E w \in Edits(wanted) : call' = [call EXCEPT ![c] = [NoCall EXCEPT !.at = "edit", !.want = w]]
    /\ UNCHANGED <<wanted, picker, owned, wired, holder, unread, synced, touched, pickerEdits, pickerKills>>

\* ... and writes it as a whole, in a journaled mutation.
SetClientModelPicker(c) ==
    /\ call[c].at = "edit"
    /\ wanted' = call[c].want
    /\ synced' = (synced /\ wanted' = wanted)
    /\ Now(c, "project")
    /\ UNCHANGED <<picker, owned, wired, holder, unread, touched, pickerRuns, pickerEdits, pickerKills>>

SyncCommand(c) ==
    /\ Starts(c) /\ Now(c, "project")
    /\ UNCHANGED <<wanted, picker, owned, wired, holder, unread, synced, touched, pickerEdits, pickerKills>>

\* The projection, under the config lock.
Project(c) ==
    /\ call[c].at = "project"
    /\ \E size \in Sizes :
         call' = [call EXCEPT ![c].at = "lock", ![c].want = wanted, ![c].size = size]
    /\ UNCHANGED <<wanted, picker, owned, wired, holder, unread, synced, touched, pickerRuns, pickerEdits, pickerKills>>

projectionTaken(c)   == TRUE                                  \* Variant: never compared again
projectionCurrent(c) == wanted = call[c].want

GiveUp(c) == /\ call' = [call EXCEPT ![c] = NoCall] /\ holder' = Nobody
             /\ UNCHANGED <<picker, owned, synced>>

\* With the settings lock: read settings.json, and either refuse, or stage
\* the backup, or go on to remove the rows.
Stage(c, convert) ==
    LET desired == claudePickerRows(call[c].want.models, call[c].size,
                                    ownedOneMillionPickerAliases(picker, owned))
    IN  IF ~wired \/ (call[c].size = "small" /\ desired # <<>>)
             \/ InstallRefuses(picker, owned, desired, convert)
          THEN GiveUp(c)
          ELSE /\ holder' = c
               /\ owned' = Ownership(picker, owned, desired)
               /\ call' = [call EXCEPT ![c].at = "check", ![c].prior = owned,
                                       ![c].goal = Installed(picker, owned, desired)]
               /\ UNCHANGED <<picker, synced>>
StartRemoval(c) ==
    IF ~owned.has THEN /\ call' = [call EXCEPT ![c] = NoCall] /\ holder' = Nobody
                       /\ synced' = (synced \/ projectionCurrent(c)) /\ UNCHANGED <<picker, owned>>
    ELSE IF CleanupRefuses(picker, owned) THEN GiveUp(c)
    ELSE /\ holder' = c
         /\ call' = [call EXCEPT ![c].at = "write", ![c].prior = owned, ![c].goal = Cleaned(picker, owned)]
         /\ UNCHANGED <<picker, owned, synced>>
syncModelPicker(c) ==
    /\ call[c].at = "lock" /\ holder = Nobody
    /\ unread' = FALSE
    /\ IF ~projectionCurrent(c) THEN GiveUp(c)
       ELSE IF call[c].want.enabled THEN \E convert \in BOOLEAN : Stage(c, convert)
       ELSE StartRemoval(c)
    /\ UNCHANGED <<wanted, wired, touched, pickerRuns, pickerEdits, pickerKills>>

\* `claude off` removes the rows whatever the config says; rows it cannot
\* place stay, with their part of the backup.
offPicker(c) ==
    /\ Starts(c) /\ holder = Nobody
    /\ unread' = FALSE /\ wired' = FALSE /\ touched' = TRUE
    /\ IF owned.has /\ ~CleanupRefuses(picker, owned)
         THEN /\ holder' = c
              /\ call' = [call EXCEPT ![c] = [NoCall EXCEPT !.at = "write", !.off = TRUE,
                                                            !.goal = Cleaned(picker, owned)]]
         ELSE UNCHANGED <<holder, call>>
    /\ UNCHANGED <<wanted, picker, owned, synced, pickerEdits, pickerKills>>

\* A failed install puts the exact earlier backup back.
RestoredBackupKept(c) == owned                                \* Variant: the staged one stays
RestoredBackup(c) == call[c].prior
PickerCheck(c) ==
    /\ call[c].at = "check"
    /\ IF projectionCurrent(c) THEN Now(c, "write") /\ UNCHANGED <<owned, holder>>
       ELSE call' = NoMore /\ holder' = Nobody /\ owned' = RestoredBackup(c)
    /\ UNCHANGED <<wanted, picker, wired, unread, synced, touched, pickerRuns, pickerEdits, pickerKills>>
Installs(c) == ~call[c].off /\ call[c].want.enabled
Write(c) ==
    /\ call[c].at = "write"
    /\ IF unread
         THEN /\ call' = NoMore /\ holder' = Nobody
              /\ owned' = IF Installs(c) THEN RestoredBackup(c) ELSE owned
              /\ UNCHANGED <<picker, synced>>
       ELSE /\ picker' = call[c].goal
            /\ IF Installs(c) THEN /\ call' = NoMore /\ holder' = Nobody
                                   /\ synced' = (synced \/ projectionCurrent(c))
                              ELSE Now(c, "forget") /\ UNCHANGED <<holder, synced>>
            /\ UNCHANGED owned
    /\ UNCHANGED <<wanted, wired, unread, touched, pickerRuns, pickerEdits, pickerKills>>
Forget(c) ==
    /\ call[c].at = "forget"
    /\ owned' = NotOwned
    /\ call' = NoMore /\ holder' = Nobody
    /\ synced' = IF call[c].off THEN synced ELSE (synced \/ projectionCurrent(c))
    /\ UNCHANGED <<wanted, picker, wired, unread, touched, pickerRuns, pickerEdits, pickerKills>>

Kill(c) ==
    /\ call[c].at # "idle" /\ pickerKills < MaxPickerKills
    /\ pickerKills' = pickerKills + 1 /\ touched' = TRUE
    /\ call' = [call EXCEPT ![c] = NoCall]
    /\ holder' = IF holder = c THEN Nobody ELSE holder
    /\ UNCHANGED <<wanted, picker, owned, wired, unread, synced, pickerRuns, pickerEdits>>

\* Does an edit move Switch's rows, or the place where they would be?
Disturbs(old, new) ==
    \/ Ours(new) # Ours(old) \/ (Ours(old) = <<>> /\ owned.has)
    \/ \E i \in DOMAIN old : old[i].id \in Aliases /\ ~(i \in DOMAIN new /\ new[i] = old[i])

\* Claude Code or its user adds a row of their own or takes one away, or
\* turns on the mode that replaces the built-in rows.
SettingsEdit ==
    /\ pickerEdits < MaxPickerEdits /\ pickerEdits' = pickerEdits + 1
    /\ \/ \E i \in {1, Len(picker.rows) + 1} :
            picker' = [picker EXCEPT !.there = TRUE, !.rows = InsertAt(@, i, Row(External, FALSE))]
       \/ \E i \in DOMAIN picker.rows : picker' = [picker EXCEPT !.rows = RemoveAt(@, i)]
       \/ picker.there /\ ~picker.replace /\ picker' = [picker EXCEPT !.replace = TRUE]
    /\ unread' = TRUE
    /\ touched' = (touched \/ Disturbs(picker.rows, picker'.rows))
    /\ UNCHANGED <<wanted, owned, wired, holder, call, synced, pickerRuns, pickerKills>>

PickerStep(c) == \/ SetClientModelPicker(c) \/ Project(c) \/ syncModelPicker(c)
                 \/ PickerCheck(c) \/ Write(c) \/ Forget(c)
PickerNext ==
    \/ \E c \in Commands : \/ mutatePickerConfig(c) \/ SyncCommand(c) \/ offPicker(c)
                           \/ PickerStep(c) \/ Kill(c)
    \/ SettingsEdit

PickerSpec == PickerInit /\ [][PickerNext]_pickerVars

-----------------------------------------------------------------------------
(* Properties.                                                             *)

PickerTypeOK ==
    /\ wanted.enabled \in BOOLEAN /\ ToSet(wanted.models) \subseteq Aliases
    /\ picker.there \in BOOLEAN /\ holder \in Commands \cup {Nobody}
    /\ owned.has \in BOOLEAN /\ owned.anchor \in Nat
    /\ {wired, unread, touched, synced} \subseteq BOOLEAN
    /\ \A c \in Commands : call[c].at \in {"idle", "edit", "project", "lock", "check", "write", "forget"}

\* While nobody else moves Switch's rows and no command is killed, the
\* backup always knows them: whatever rows of Switch are in settings.json
\* are those of the backup, at their anchor, except between the staging of
\* a backup and the write it is for.
RowsAccounted ==
    touched \/ holder # Nobody \/
      IF owned.has THEN anchoredRowsEqual(picker.rows, owned) /\ Ours(picker.rows) = owned.rows
                   ELSE Ours(picker.rows) = <<>>

\* Commands that sync at the same time do not undo one another: once a sync
\* for the config as it stands has finished, and no other is writing,
\* settings.json shows the rows of that config.
SyncConverges ==
    touched \/ holder # Nobody \/ ~synced \/
      [i \in DOMAIN Ours(picker.rows) |-> Ours(picker.rows)[i].id]
        = IF wanted.enabled THEN wanted.models ELSE <<>>

Restores(c) == ~Installs(c) /\ picker = owned.print    \* the backup's original comes back

\* A sync changes Switch's own rows and no others, keeps their place, and
\* with the router not answering keeps the [1m] of rows it still owns; a
\* removal keeps the others too, unless it puts the whole original back.
OthersUntouched ==
    [][\A c \in Commands : call[c].at = "write" /\ picker' # picker /\ pickerEdits' = pickerEdits =>
         /\ Restores(c) \/ Theirs(picker'.rows) = Theirs(picker.rows)
         /\ ~touched /\ Installs(c) /\ call[c].size = "unknown" =>
              \A r \in ToSet(Ours(picker'.rows)), q \in ToSet(Ours(picker.rows)) :
                r.id = q.id /\ call[c].prior.has => r.big = q.big]_pickerVars

\* TestDisabledPickerSyncRemovesOwnedRowsAndPreservesExternalRows promises
\* it of every removal.
ExternalRowsPreserved ==
    [][\A c \in Commands : call[c].at = "write" /\ picker' # picker /\ pickerEdits' = pickerEdits =>
         Theirs(picker'.rows) = Theirs(picker.rows)]_pickerVars

\* The promises that hold of the picker rows.
PickerSafe == [](RowsAccounted /\ SyncConverges) /\ OthersUntouched
=============================================================================
