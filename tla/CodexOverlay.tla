---------------------------- MODULE CodexOverlay ----------------------------
(***************************************************************************)
(* codex on, codex off and the Codex part of uninstall: a profile overlay  *)
(* that is written whole, the backup of what was there before, and the     *)
(* hash by which off tells its own file from an edited one.  The commands  *)
(* take no lock, so two may run at once; each may be killed between any    *)
(* two steps, and each write may fail.  The user edits the overlay, and    *)
(* gateway.yaml moves the door to another port, between commands.          *)
(***************************************************************************)
EXTENDS Naturals, FiniteSets

CONSTANTS CodexCallers,      \* the processes that may run a command at a time
          MaxCodexRuns,      \* bound: commands started
          MaxCodexEdits,     \* bound: edits of the overlay and moves of the door
          MaxCodexFaults     \* bound: kills and failing writes

ASSUME CodexBounds == MaxCodexRuns \in Nat /\ MaxCodexEdits \in Nat /\ MaxCodexFaults \in Nat

VARIABLES
    overlay,         \* baseten.config.toml
    overlayBackup,   \* the backup file; "torn" when a write of it was cut off
    doorPort,        \* the local port the config gives the door
    client,          \* the gateway's Codex client: enabled, and its placeholder token
    codex,           \* what each caller is doing
    told,            \* contents printed to the user, or kept aside by uninstall
    overlayPast      \* history: what the user last left there, what the first on found, ...

codexVars == <<overlay, overlayBackup, doorPort, client, codex, told, overlayPast>>

(***************************************************************************)
(* A file has the shape that `on` writes ("switch") or another ("user").   *)
(* Port 0 is a base URL that is not a local gateway.  `mark` tells edits   *)
(* apart.  A hash is the content it is of.                                 *)
(***************************************************************************)
Overlays == [by : {"none", "user", "switch"}, port : 0..2, mark : 0..MaxCodexEdits]
NoOverlay == [by |-> "none", port |-> 0, mark |-> 0]
desiredOverlay == [by |-> "switch", port |-> doorPort, mark |-> 0]

codexOursShaped(o) == o.by = "switch"
overlayManaged(o)  == codexOursShaped(o) /\ o.port = doorPort

NoCodexBackup == [state |-> "none", content |-> NoOverlay, hash |-> NoOverlay]
TornBackup    == [NoCodexBackup EXCEPT !.state = "torn"]
BackupOf(content, hash) == [state |-> "kept", content |-> content, hash |-> hash]
poisonedBackup(b) == overlayManaged(b.content)

CodexIdle == [op |-> "none", at |-> "idle", raw |-> NoOverlay, save |-> NoCodexBackup,
              staged |-> FALSE, retain |-> NoCodexBackup, alone |-> FALSE]

Still == \A c \in CodexCallers : codex[c].op = "none"
CodexAt(c, ops, step) == codex[c].op \in ops /\ codex[c].at = step
CodexStep(c, step) == codex' = [codex EXCEPT ![c].at = step]
Offs == {"off", "uninstall"}

CodexFault == /\ overlayPast.faults < MaxCodexFaults
              /\ overlayPast' = [overlayPast EXCEPT !.faults = @ + 1, !.quiet = FALSE]

\* A command ends; `ended` says how, and whether it had the files for itself.
CodexEnd(c, rc) ==
    /\ codex' = [codex EXCEPT ![c] = CodexIdle]
    /\ overlayPast' = [overlayPast EXCEPT !.ended = [op |-> codex[c].op, rc |-> rc, alone |-> codex[c].alone]]

NothingEnded == [op |-> "none", rc |-> 0, alone |-> FALSE]

-----------------------------------------------------------------------------
(* on                                                                      *)

\* Either command begins by reading the overlay; uninstall reads the backup before that.
ReadOverlay(c, op) ==
    /\ codex[c].op = "none" /\ overlayPast.runs < MaxCodexRuns
    /\ codex' = [d \in CodexCallers |->
                   IF d = c THEN [CodexIdle EXCEPT !.op = op, !.at = "load", !.raw = overlay, !.alone = Still,
                                    !.retain = IF op = "uninstall" THEN overlayBackup ELSE NoCodexBackup]
                   ELSE [codex[d] EXCEPT !.alone = FALSE]]
    /\ overlayPast' = [overlayPast EXCEPT !.runs = @ + 1, !.ended = NothingEnded,
                          !.first = IF op = "on" /\ ~@.known THEN [known |-> TRUE, was |-> overlay] ELSE @,
                          !.quiet = @ \/ (op = "on" /\ ~overlayPast.first.known)]
    /\ UNCHANGED <<overlay, overlayBackup, doorPort, client, told>>

refuseForeign(o) == o.by = "user"

on(c) ==
    /\ CodexAt(c, {"on"}, "load")
    /\ LET raw   == codex[c].raw
           stage == overlayBackup.state = "none" /\ ~overlayManaged(raw)
           step(at, save) == /\ codex' = [codex EXCEPT ![c].at = at, ![c].save = save, ![c].staged = stage]
                             /\ UNCHANGED overlayPast
       IN  /\ \/ (refuseForeign(raw) \/ overlayBackup.state = "torn") /\ CodexEnd(c, 1) /\ UNCHANGED told
              \/ /\ ~refuseForeign(raw) /\ overlayBackup.state # "torn"
                 /\ IF stage THEN step("stage", BackupOf(raw, raw))
                    ELSE step(IF raw = desiredOverlay THEN "client" ELSE "write", overlayBackup)
                 /\ told' = IF codexOursShaped(raw) /\ ~overlayManaged(raw) /\ ~stage
                            THEN told \cup {raw} ELSE told
    /\ UNCHANGED <<overlay, overlayBackup, doorPort, client>>

\* The backup is on disk before the overlay changes, with the hash of what is there now.
saveCodexBackup(c) ==
    /\ CodexAt(c, {"on"}, "stage")
    /\ overlayBackup' = codex[c].save /\ CodexStep(c, "write")
    /\ UNCHANGED <<overlay, doorPort, client, told, overlayPast>>

StageFails(c) ==
    /\ CodexAt(c, {"on"}, "stage") /\ CodexFault
    /\ overlayBackup' \in {overlayBackup, TornBackup}
    /\ codex' = [codex EXCEPT ![c] = CodexIdle]
    /\ UNCHANGED <<overlay, doorPort, client, told>>

writeCodexOverlay(c) ==
    /\ CodexAt(c, {"on"}, "write")
    /\ overlay' = desiredOverlay
    /\ CodexStep(c, IF codex[c].save.state = "kept" THEN "refresh" ELSE "client")
    /\ UNCHANGED <<overlayBackup, doorPort, client, told, overlayPast>>

WriteFails(c) ==
    /\ CodexAt(c, {"on"}, "write") /\ CodexFault
    /\ overlayBackup' = IF codex[c].staged THEN NoCodexBackup ELSE overlayBackup
    /\ codex' = [codex EXCEPT ![c] = CodexIdle]
    /\ UNCHANGED <<overlay, doorPort, client, told>>

refreshHash(c) ==
    /\ CodexAt(c, {"on"}, "refresh")
    /\ overlayBackup' = BackupOf(codex[c].save.content, desiredOverlay) /\ CodexStep(c, "client")
    /\ UNCHANGED <<overlay, doorPort, client, told, overlayPast>>

\* A failing refresh is a warning; the write may have cut the file.
RefreshFails(c) ==
    /\ CodexAt(c, {"on"}, "refresh") /\ CodexFault
    /\ overlayBackup' \in {overlayBackup, TornBackup} /\ CodexStep(c, "client")
    /\ UNCHANGED <<overlay, doorPort, client, told>>

\* A parked client is enabled with consent, unless the edit of the config fails; then the placeholder
\* token is written, and a failure of that is a warning.
unpark(c) ==
    /\ CodexAt(c, {"on"}, "client")
    /\ \/ ~client.enabled /\ UNCHANGED client /\ CodexEnd(c, 1)
       \/ /\ \E consent \in BOOLEAN, token \in {client.token, TRUE} :
                client' = [enabled |-> client.enabled \/ consent, token |-> token]
          /\ CodexEnd(c, 0)
    /\ UNCHANGED <<overlay, overlayBackup, doorPort, told>>

-----------------------------------------------------------------------------
(* off                                                                     *)

off(c) ==
    /\ CodexAt(c, Offs, "load")
    /\ LET raw  == codex[c].raw
           b    == IF poisonedBackup(overlayBackup) THEN NoCodexBackup ELSE overlayBackup
           drop == b.state = "kept"
           step(at) == /\ codex' = [codex EXCEPT ![c].at = at, ![c].save = b, ![c].staged = drop]
                       /\ UNCHANGED overlayPast
       IN  \/ /\ b.state = "torn" /\ CodexEnd(c, 1) /\ UNCHANGED <<overlayBackup, told>>
           \/ /\ b.state = "none"
              /\ overlayBackup' = NoCodexBackup
              /\ IF overlayManaged(raw) THEN step("remove") ELSE CodexEnd(c, 0)
              /\ UNCHANGED told
           \/ /\ b.state = "kept" /\ raw = NoOverlay
              /\ step("drop") /\ told' = told \cup {b.content}
              /\ UNCHANGED overlayBackup
           \/ /\ b.state = "kept" /\ raw # NoOverlay /\ raw # b.hash
              /\ step(IF overlayManaged(raw) THEN "remove" ELSE "drop")
              /\ told' = IF overlayManaged(raw) THEN told ELSE told \cup {b.content}
              /\ UNCHANGED overlayBackup
           \/ /\ b.state = "kept" /\ raw # NoOverlay /\ raw = b.hash
              /\ step(IF b.content = NoOverlay THEN "remove" ELSE "restore")
              /\ UNCHANGED <<overlayBackup, told>>
    /\ UNCHANGED <<overlay, doorPort, client>>

\* Only a clean restore forgives a file that is already gone.
removeOverlay(c) ==
    /\ CodexAt(c, Offs, "remove")
    /\ LET clean == codex[c].staged /\ codex[c].raw = codex[c].save.hash
       IN  IF overlay = NoOverlay /\ ~clean
           THEN CodexEnd(c, 1) /\ UNCHANGED <<overlay, told>>
           ELSE /\ overlay' = NoOverlay
                /\ told' = IF codex[c].staged /\ ~clean THEN told \cup {codex[c].save.content} ELSE told
                /\ IF codex[c].staged THEN CodexStep(c, "drop") /\ UNCHANGED overlayPast
                   ELSE CodexEnd(c, 0)
    /\ UNCHANGED <<overlayBackup, doorPort, client>>

restoreOverlay(c) ==
    /\ CodexAt(c, Offs, "restore")
    /\ overlay' = codex[c].save.content /\ CodexStep(c, "drop")
    /\ UNCHANGED <<overlayBackup, doorPort, client, told, overlayPast>>

\* uninstall writes a backup that off consumed to a file of its own.
dropBackup(c) ==
    /\ CodexAt(c, Offs, "drop")
    /\ overlayBackup' = NoCodexBackup
    /\ told' = IF codex[c].retain.state = "kept" THEN told \cup {codex[c].retain.content} ELSE told
    /\ CodexEnd(c, IF overlayBackup.state = "none" THEN 1 ELSE 0)
    /\ UNCHANGED <<overlay, doorPort, client>>

OffFails(c) ==
    /\ codex[c].op \in Offs /\ codex[c].at \in {"remove", "restore", "drop"} /\ CodexFault
    /\ codex' = [codex EXCEPT ![c] = CodexIdle]
    /\ UNCHANGED <<overlay, overlayBackup, doorPort, client, told>>

-----------------------------------------------------------------------------
(* What happens around the commands.                                       *)

\* A kill while the backup is being written cuts it off.
KillCodex(c) ==
    /\ codex[c].op # "none"
    /\ overlayPast.faults < MaxCodexFaults
    /\ overlayPast' = [overlayPast EXCEPT !.faults = @ + 1]
    /\ overlayBackup' \in {overlayBackup} \cup
            (IF codex[c].at \in {"stage", "refresh"} THEN {TornBackup} ELSE {})
    /\ codex' = [codex EXCEPT ![c] = CodexIdle]
    /\ UNCHANGED <<overlay, doorPort, client, told>>

EditOverlay ==
    /\ Still /\ overlayPast.edits < MaxCodexEdits
    /\ LET n == overlayPast.edits + 1
       IN  /\ overlay' \in {NoOverlay, [by |-> "user", port |-> 0, mark |-> n]} \cup
                 (IF overlay.by = "switch" THEN {[overlay EXCEPT !.mark = n], [overlay EXCEPT !.mark = n, !.port = 0]}
                  ELSE {})
           /\ overlay' # overlay
           /\ overlayPast' = [overlayPast EXCEPT !.edits = n, !.mine = overlay', !.quiet = FALSE,
                                 !.ended = NothingEnded]
    /\ UNCHANGED <<overlayBackup, doorPort, client, codex, told>>

MoveDoor ==
    /\ Still /\ overlayPast.edits < MaxCodexEdits
    /\ doorPort' = 3 - doorPort
    /\ overlayPast' = [overlayPast EXCEPT !.edits = @ + 1, !.quiet = FALSE, !.ended = NothingEnded]
    /\ UNCHANGED <<overlay, overlayBackup, client, codex, told>>

-----------------------------------------------------------------------------
CodexBackups == [state : {"none", "torn", "kept"}, content : Overlays, hash : Overlays]

\* Every variable keeps the type the code gives it.
CodexTypeOK ==
    /\ overlay \in Overlays /\ overlayBackup \in CodexBackups
    /\ doorPort \in 1..2 /\ client \in [enabled : BOOLEAN, token : BOOLEAN]
    /\ told \subseteq Overlays
    /\ \A c \in CodexCallers : codex[c].raw \in Overlays /\ codex[c].save \in CodexBackups

\* The overlay may be absent, the user's own, or left by an older installation on a port that is gone.
CodexInit ==
    /\ overlay \in {NoOverlay, [by |-> "user", port |-> 0, mark |-> 0], [by |-> "switch", port |-> 0, mark |-> 0]}
    /\ overlayBackup = NoCodexBackup /\ doorPort = 1 /\ client = [enabled |-> FALSE, token |-> FALSE]
    /\ codex = [c \in CodexCallers |-> CodexIdle] /\ told = {}
    /\ overlayPast = [mine |-> overlay, first |-> [known |-> FALSE, was |-> NoOverlay], quiet |-> FALSE,
                      ended |-> NothingEnded, runs |-> 0, edits |-> 0, faults |-> 0]

CodexNext ==
    \/ EditOverlay \/ MoveDoor
    \/ \E c \in CodexCallers :
        \/ \E op \in {"on"} \cup Offs : ReadOverlay(c, op)
        \/ on(c) \/ saveCodexBackup(c) \/ StageFails(c) \/ writeCodexOverlay(c) \/ WriteFails(c)
        \/ refreshHash(c) \/ RefreshFails(c) \/ unpark(c)
        \/ off(c) \/ removeOverlay(c) \/ restoreOverlay(c) \/ dropBackup(c) \/ OffFails(c)
        \/ KillCodex(c)

CodexSpec == CodexInit /\ [][CodexNext]_codexVars

-----------------------------------------------------------------------------
UserMade(o) == o.by = "user" \/ (o.by = "switch" /\ o.port = 0)
Held(o) == overlay = o \/ (overlayBackup.state = "kept" /\ overlayBackup.content = o) \/ o \in told

\* What the user last left in the overlay, unless it was wired to this gateway, is in the file, in
\* the backup, or was shown to the user (codex_adapter.go:568-571, 592-595, 920-923), wherever the
\* commands were killed and whichever write failed; not once the backup itself is cut off.  Refuted
\* for two callers: an off that drops the backup an on has staged or refreshed meanwhile.
OverlayKept == overlayBackup.state # "torn" /\ UserMade(overlayPast.mine) => Held(overlayPast.mine)

\* An off that reports success and had the files to itself leaves no overlay that leads to the gateway.
OffUnwires ==
    overlayPast.ended.op \in Offs /\ overlayPast.ended.rc = 0 /\ overlayPast.ended.alone => ~overlayManaged(overlay)

\* With no edit and no failing write since the first on, kills or not, a successful off brings back
\* what that on found, or has shown it to the user.
OffRestores ==
    /\ overlayPast.ended.op \in Offs /\ overlayPast.ended.rc = 0 /\ overlayPast.ended.alone /\ overlayPast.quiet
    => \/ overlay = overlayPast.first.was
       \/ overlay = NoOverlay /\ overlayPast.first.was \in told

OverlaySafe == OverlayKept /\ OffUnwires /\ OffRestores

\* Refuted: on promises that "no failure or crash window exists in which the file is modified but the
\* user's original state is not durably recorded" (codex_adapter.go:568-570); the refresh of the hash
\* truncates the only copy of the original (os.WriteFile) and may be cut off.
OverlayDurable == UserMade(overlayPast.mine) => Held(overlayPast.mine)
=============================================================================
