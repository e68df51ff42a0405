---------------------------- MODULE ClaudeWiring ----------------------------
(***************************************************************************)
(* `baseten-switch claude on` and `claude off`: the two commands that point *)
(* Claude Code at the gateway and back (cmd/baseten-switch/                *)
(* claude_adapter.go), over the snapshot writes of internal/safefile.      *)
(*                                                                         *)
(* Two files matter.  settings.json belongs to Claude Code and its user,   *)
(* who rewrite it whenever they like; the commands change a few values in  *)
(* it.  The backup is the tool's own record of what those values were.     *)
(* The commands exclude each other with a file lock, so one of them runs   *)
(* at a time; they may be killed between any two steps.                    *)
(*                                                                         *)
(* A settings file is reduced to the base URL, one fixed knob (the code    *)
(* has two that it treats alike), the persisted model, and `other`, the    *)
(* number of the last outside edit, which stands for all other content.    *)
(***************************************************************************)
EXTENDS Integers

CONSTANTS MaxEdits,   \* outside edits of settings.json
          MaxRuns     \* commands started

ASSUME ClaudeBounds == MaxEdits \in Nat /\ MaxRuns \in Nat

VARIABLES settings,   \* settings.json
          backup,     \* the backup file
          job,        \* the command that holds the lock
          fresh,      \* settings.json is still the file the command read
          before,     \* history: what the first `on` found
          quiet,      \* history: since then, no outside edit and no crash
          edited, runs

claudeVars == <<settings, backup, job, fresh, before, quiet, edited, runs>>

Settings == [there : BOOLEAN, base : {"none", "user", "gateway"}, knob : {"none", "user", "on"},
             model : {"none", "native", "alias"}, other : 0..MaxEdits]
Absent == [there |-> FALSE, base |-> "none", knob |-> "none", model |-> "none", other |-> 0]
Empty  == [Absent EXCEPT !.there = TRUE]

\* "uncovered": the backup says nothing of the key.  `wrote` is nil in a
\* backup of an older version (legacy).
Backups == [state : {"none", "torn", "kept"}, base : {"uncovered", "none", "user"},
            knob : {"uncovered", "none", "user", "on"}, model : {"none", "native", "alias"},
            existed : BOOLEAN, hash : Settings, wrote : SUBSET {"base", "knob"}, legacy : BOOLEAN]
NoBackup == [state |-> "none", base |-> "uncovered", knob |-> "uncovered", model |-> "none",
             existed |-> FALSE, hash |-> Absent, wrote |-> {}, legacy |-> FALSE]
Torn == [NoBackup EXCEPT !.state = "torn"]

Keys == {"base", "knob"}
desiredClaudeEnvValue(key) == IF key = "base" THEN "gateway" ELSE "on"
Changed(s) == {k \in Keys : s[k] # desiredClaudeEnvValue(k)}

-----------------------------------------------------------------------------
(* What a backup says.                                                     *)

backupCovers(b, key) == b.state = "kept" /\ b[key] # "uncovered"

backupWrittenValue(b, key) ==      \* is the last managed write known?
    backupCovers(b, key) /\ IF b.legacy THEN key = "knob" ELSE key \in b.wrote

ownedEnvValue(key, s) == key = "base" /\ s.base = "gateway"

initializeWrittenValues(b, s) ==
    IF ~b.legacy THEN b
    ELSE [b EXCEPT !.legacy = FALSE,
                   !.wrote = {k \in Keys :
                        /\ backupCovers(b, k)
                        /\ \/ backupWrittenValue(b, k) /\ s[k] = desiredClaudeEnvValue(k)
                           \/ ownedEnvValue(k, s)}]

\* Keys the backup does not cover yet; a gateway URL is never an original.
Uncovered(b, s) == {k \in Keys : ~backupCovers(b, k) /\ ~ownedEnvValue(k, s)}

recordBackupKey(b, s) ==
    [b EXCEPT !.base = IF "base" \in Uncovered(b, s) THEN s.base ELSE @,
              !.knob = IF "knob" \in Uncovered(b, s) THEN s.knob ELSE @,
              !.hash = s]

NewBackup(s) ==
    recordBackupKey([NoBackup EXCEPT !.state = "kept", !.existed = s.there, !.model = s.model], s)

recordWrittenValues(b, keys, s) == [b EXCEPT !.hash = s, !.wrote = @ \cup keys]

backupOwnsCurrentValue(b, s, key) ==
    IF backupWrittenValue(b, key) THEN s[key] = desiredClaudeEnvValue(key) ELSE ownedEnvValue(key, s)

-----------------------------------------------------------------------------
(* What `on` and `off` want settings.json to be.                           *)

Wired(s) == [s EXCEPT !.there = TRUE, !.base = "gateway", !.knob = "on"]

fixModelAlias(b, model) ==
    IF model # "alias" THEN model
    ELSE IF b.state = "kept" /\ b.model = "native" THEN "native" ELSE "none"

Restored(b, s) ==
    LET put(key) == IF ~backupOwnsCurrentValue(b, s, key) THEN s[key]
                    ELSE IF b[key] = "uncovered" THEN "none" ELSE b[key]
        r == [s EXCEPT !.base = put("base"), !.knob = put("knob"), !.model = fixModelAlias(b, @)]
    IN  IF ~b.existed /\ r = Empty THEN Absent ELSE r

Stripped(b, s) ==
    LET strip(key) == \/ ownedEnvValue(key, s)
                      \/ /\ backupWrittenValue(b, key)
                         /\ s[key] = desiredClaudeEnvValue(key) /\ b[key] # s[key]
    IN  [s EXCEPT !.base  = IF strip("base") THEN "none" ELSE @,
                  !.knob  = IF strip("knob") THEN "none" ELSE @,
                  !.model = fixModelAlias(b, @)]

-----------------------------------------------------------------------------
(* The command's own steps.  `save` is the backup it means to have when it *)
(* is done, `undo` the one it puts back when settings.json has changed;    *)
(* `raced` is history: an edit fell between the check and the rename.      *)

Idle == [at |-> "idle", op |-> "on", read |-> Absent, goal |-> Absent,
         save |-> NoBackup, undo |-> NoBackup, staged |-> FALSE, raced |-> FALSE]

ClaudeInit ==
    /\ settings \in {Absent} \cup {s \in Settings : s.there /\ s.other = 0}
    /\ \/ backup = NoBackup
       \/ \* a backup of the version that managed the base URL only
          /\ settings.base = "gateway"
          /\ \E base \in {"none", "user"} :
               backup = [NoBackup EXCEPT !.state = "kept", !.base = base, !.legacy = TRUE,
                           !.existed = TRUE, !.hash = settings]
    /\ job = Idle /\ fresh = FALSE
    /\ before = Absent /\ quiet = FALSE
    /\ edited = 0 /\ runs = 0

\* The backup is on disk before settings.json changes.
FirstStepWrites(staged) == "verify"                           \* Variant: back up afterwards
FirstStep(staged) == IF staged THEN "stage" ELSE "verify"

Start(op) == job.at = "idle" /\ runs < MaxRuns /\ runs' = runs + 1 /\ fresh' = TRUE
             /\ backup.state # "torn"   \* a backup that does not parse ends the command

\* on, up to the staging of the backup.
on ==
    /\ Start("on")
    /\ LET new     == backup.state = "none"
           init    == initializeWrittenValues(backup, settings)
           staged  == IF new THEN Changed(settings) # {} ELSE Uncovered(backup, settings) # {}
           stage   == IF new THEN NewBackup(settings) ELSE recordBackupKey(init, settings)
           receipt == ~new /\ backup.legacy
       IN  /\ staged \/ Changed(settings) # {} \/ receipt
           /\ job' = [at |-> FirstStep(staged), op |-> "on",
                      read |-> settings,
                      goal |-> IF Changed(settings) = {} THEN settings ELSE Wired(settings),
                      save |-> IF staged THEN stage ELSE init,
                      undo |-> backup, staged |-> staged, raced |-> FALSE]
           /\ IF new /\ settings.base # "gateway"
                THEN before' = settings /\ quiet' = TRUE ELSE UNCHANGED <<before, quiet>>
    /\ UNCHANGED <<settings, backup, edited>>

\* off, up to the write; with the file gone there is only the backup to drop.
off ==
    /\ Start("off")
    /\ LET goal == IF backup.state = "kept" /\ settings.there /\ settings = backup.hash
                     THEN Restored(backup, settings)
                   ELSE IF settings.there THEN Stripped(backup, settings) ELSE settings
       IN  /\ goal # settings \/ backup.state = "kept"
           /\ job' = [at |-> "verify", op |-> "off", read |-> settings, goal |-> goal,
                      save |-> backup, undo |-> backup, staged |-> FALSE, raced |-> FALSE]
    /\ UNCHANGED <<settings, backup, before, quiet, edited>>

Goto(at) == job' = [job EXCEPT !.at = at]
FinishRun   == job' = Idle

\* saveClaudeBackup truncates the file and then writes it.
Truncate ==
    /\ job.at \in {"stage", "refresh", "undo"}
    /\ backup' = Torn
    /\ Goto(CASE job.at = "stage" -> "staging" [] job.at = "undo" -> "undoing" [] OTHER -> "refreshing")
    /\ UNCHANGED <<settings, fresh, before, quiet, edited, runs>>
Fill ==
    /\ job.at \in {"staging", "refreshing", "undoing"}
    /\ backup' = IF job.at = "undoing" THEN job.undo ELSE job.save
    /\ IF job.at = "staging" THEN Goto("verify") ELSE FinishRun
    /\ UNCHANGED <<settings, fresh, before, quiet, edited, runs>>

\* A conflict: the staged backup is removed, or the earlier one put back.
Conflict ==
    IF job.op = "off" \/ (job.goal # job.read /\ ~job.staged)
      THEN FinishRun /\ UNCHANGED backup
    ELSE IF job.undo.state = "none" THEN FinishRun /\ backup' = NoBackup
    ELSE Goto("undo") /\ UNCHANGED backup

\* After the write, the backup is bound to the file that was written.
Unbound == job.save                                           \* Variant: it stays bound to the old one
Bound == recordWrittenValues(job.save, Changed(job.read), job.goal)

AfterWrite == IF job.op = "off" THEN Goto(IF job.undo.state = "kept" THEN "drop" ELSE "idle")
              ELSE job' = [job EXCEPT !.at = "refresh",
                     !.save = IF job.goal # job.read \/ job.staged
                                THEN Bound ELSE @]

\* verifyCurrent: is the file the one that was read?
verifyNothing == TRUE                                         \* Variant: never looks
verifyCurrent == fresh

Verify ==
    /\ job.at = "verify"
    /\ IF ~verifyCurrent THEN Conflict
       ELSE /\ IF job.goal # job.read THEN Goto("rename") ELSE AfterWrite
            /\ UNCHANGED backup
    /\ UNCHANGED <<settings, fresh, before, quiet, edited, runs>>

\* os.Rename (os.Remove when the goal is no file) overwrites whatever is
\* there by now; os.Link, for a file that was absent, does not.
Rename ==
    /\ job.at = "rename"
    /\ \/ (job.read.there \/ ~settings.there) /\ settings' = job.goal /\ Goto("check")
          /\ UNCHANGED backup
       \/ ~job.read.there /\ settings.there /\ Conflict /\ UNCHANGED settings
    /\ UNCHANGED <<fresh, before, quiet, edited, runs>>

\* Read back what was written; a mismatch ends the command, backup retained.
Check ==
    /\ job.at = "check"
    /\ IF settings = job.goal THEN AfterWrite ELSE FinishRun
    /\ UNCHANGED <<settings, backup, fresh, before, quiet, edited, runs>>

Drop ==
    /\ job.at = "drop"
    /\ backup' = NoBackup /\ FinishRun
    /\ UNCHANGED <<settings, fresh, before, quiet, edited, runs>>

Killed ==
    /\ job.at # "idle"
    /\ FinishRun /\ quiet' = FALSE
    /\ UNCHANGED <<settings, backup, fresh, before, edited, runs>>

\* Claude Code or its user rewrites the file, or removes it.
Outside ==
    /\ edited < MaxEdits
    /\ edited' = edited + 1
    /\ \/ \E base \in {settings.base, "none", "user"}, knob \in {settings.knob, "user"},
             model \in {settings.model, "alias"} :
            settings' = [there |-> TRUE, base |-> base, knob |-> knob, model |-> model,
                         other |-> edited + 1]
       \/ settings.there /\ settings' = Absent
    /\ fresh' = FALSE /\ quiet' = FALSE
    /\ job' = [job EXCEPT !.raced = (job.at = "rename")]
    /\ UNCHANGED <<backup, before, runs>>

Step == Truncate \/ Fill \/ Verify \/ Rename \/ Check \/ Drop

ClaudeNext == on \/ off \/ Step \/ Killed \/ Outside

ClaudeSpec == ClaudeInit /\ [][ClaudeNext]_claudeVars

-----------------------------------------------------------------------------
(* Properties.                                                             *)

ClaudeTypeOK ==
    /\ settings \in Settings /\ backup \in Backups /\ fresh \in BOOLEAN
    /\ job.at \in {"idle", "stage", "staging", "verify", "rename", "check", "refresh",
                   "refreshing", "undo", "undoing", "drop"}
    /\ job.read \in Settings /\ job.goal \in Settings
    /\ job.save \in Backups /\ job.undo \in Backups
    /\ before \in Settings /\ quiet \in BOOLEAN /\ edited \in 0..MaxEdits /\ runs \in 0..MaxRuns

\* A command changes settings.json only on top of the file it read: the
\* edits that Claude Code or the user made since then are never
\* overwritten, except one that falls between verifyCurrent and os.Rename.
\* And it never touches what is not its own: everything outside the managed
\* values survives, and so does a base URL or knob the user set after `on`.
OutsideEditsStay ==
    [][settings' # settings /\ edited' = edited =>
         \/ job.raced
         \/ /\ settings' # Absent => settings'.other = settings.other
            /\ settings' = Absent => settings.other = 0
            /\ job.op = "off" /\ settings.base = "user" => settings'.base = "user"
            /\ job.op = "off" /\ settings.knob = "user" => settings'.knob = "user"]_claudeVars

\* What `off` writes never leaves Claude Code pointed at the gateway, nor
\* at a model only the gateway knows; and when nobody else touched the file
\* and no command was killed since `on` first found it, `off` leaves the
\* very file that `on` found.
OffRestores ==
    [][job.op = "off" /\ job.at = "check" /\ job'.at \in {"drop", "idle"} /\ settings = job.goal =>
         /\ settings.base # "gateway" /\ settings.model # "alias"
         /\ quiet => settings = [before EXCEPT !.model = fixModelAlias(NoBackup, @)]]_claudeVars

\* As long as settings.json points at the gateway where `on` found a base
\* URL of the user's, the backup holds that URL, or a save of the backup
\* was in progress or was cut short.
OriginalKept ==
    settings.base = "gateway" /\ before.base = "user" => backup.base = "user" \/ backup.state = "torn"

\* The comment before the staging of the backup promises more: "no failure
\* or crash window exists in which the file is modified but the user's
\* original state is not durably recorded".
OriginalDurable ==
    settings.base = "gateway" /\ before.base = "user" => backup.base = "user"

\* What is promised of settings.json: all of the above but OriginalDurable.
WiringSafe == []OriginalKept /\ OutsideEditsStay /\ OffRestores
=============================================================================
