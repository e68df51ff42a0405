-------------------------- MODULE RoutingMutation --------------------------
(***************************************************************************)
(* Journaled routing mutations of the switch's CLI against a running       *)
(* router.  Source: gateway/cmd/baseten-switch/routing_mutation.go and     *)
(* routing_mutation_recovery.go for the commands, reloadConfig and Run of  *)
(* gateway/cmd/gateway/gateway.go for the router.                          *)
(*                                                                         *)
(* A mutation has an operation id.  Under the config mutation lock it      *)
(* writes a journal, commits the edited config by compare-and-swap, sends  *)
(* the router a SIGHUP, waits until the router reports the new config as   *)
(* active, writes a terminal record, and removes the journal.  When the    *)
(* router does not follow it puts the prior config back.  Commands may     *)
(* crash anywhere; "mutation reconcile" and "mutation recover" pick up     *)
(* what they left.                                                         *)
(*                                                                         *)
(* The compare-and-swap is one step here, with the outcomes that           *)
(* ExactCommit gives it.  A config's contents stand for its hash.  Of the  *)
(* router's ordering token (boot id and generation) only two comparisons   *)
(* matter and are kept as flags: advanced, rebooted.                       *)
(***************************************************************************)
EXTENDS Naturals

CONSTANTS
    Ops,         \* operation ids
    Contents,    \* contents of the config
    Want,        \* what each operation makes of the config
    NoFile, None,
    MaxFaults,   \* bound: crashes, failed system calls and reloads, router stops
    MaxSlow,     \* bound: waits given up while the router is still reloading
    MaxEdits     \* bound: writes by editors outside the program

ASSUME MutationAssumption ==
    /\ Want \in [Ops -> Contents]
    /\ NoFile \notin Contents
    /\ None \notin Ops
    /\ MaxFaults \in Nat /\ MaxSlow \in Nat /\ MaxEdits \in Nat

VARIABLES
    \* The disk.
    path,         \* the config
    held,         \* the displaced entry of an interrupted commit
    interrupted,  \* a commit's directory with state.json exists
    journal,      \* the journal of each operation: [prev, next]
    terminal,     \* the terminal record of each: [outcome, prev, next]
    stray,        \* temporary files a crash left: "journal", "completed"
    \* The router.
    router, active,
    loading,      \* the config a start or a reload has read and not yet published
    hup,          \* a SIGHUP waits (the channel holds one)
    \* The lock holder.
    pc, cmd, op,
    prior,        \* the config it read under the lock
    running,      \* the router ran when it looked
    outcome,      \* the outcome it is about to record
    advanced,     \* the router's token differs from the operation's PreviousActiveToken
    rebooted,     \* the router's boot id differs from the one it saw
    \* History.
    landed,       \* how often each operation's edit was committed
    activated,    \* operations whose config the router came to run meanwhile
    faults, slow, edits

disk    == <<path, held, interrupted>>
records == <<journal, terminal, stray>>
gateway == <<router, active, loading, hup>>
tokens  == <<advanced, rebooted>>
holder  == <<cmd, op, prior, running>>
history == <<landed, activated>>
bounds  == <<faults, slow, edits>>
vars    == <<disk, records, gateway, pc, holder, outcome, tokens, history, bounds>>

Outcomes == {"applied", "unchanged", "not_applied", "rolled_back", "rejected"}
PCs == {"idle", "preflight", "journal", "swap", "signal", "await", "rollback",
        "recheck", "awaitPrior", "publish", "unlink", "reconcile", "snapshot"}

Journals  == [prev : Contents, next : Contents]
Terminals == [outcome : Outcomes, prev : Contents, next : Contents]

ASSUME RecordAssumption == None \notin Journals \cup Terminals

NoRecord == [o \in Ops |-> None]
Unfinished == {o \in Ops : journal[o] # None}

Init ==
    /\ path \in Contents /\ held = NoFile /\ interrupted = FALSE
    /\ journal = NoRecord /\ terminal = NoRecord /\ stray = {}
    /\ \/ router = "up" /\ active = path
       \/ router = "down" /\ active = NoFile
    /\ loading = NoFile /\ hup = FALSE
    /\ pc = "idle" /\ cmd = "none" /\ op = None /\ prior = NoFile
    /\ running = FALSE /\ outcome = "none"
    /\ advanced = FALSE /\ rebooted = FALSE
    /\ landed = [o \in Ops |-> 0] /\ activated = {}
    /\ faults = 0 /\ slow = 0 /\ edits = 0

---------------------------------------------------------------------------
Goto(l) == pc' = l
Fault == faults < MaxFaults /\ faults' = faults + 1 /\ UNCHANGED <<slow, edits>>
NoFault == UNCHANGED bounds
Quiet == router = "down" \/ (router = "up" /\ ~hup /\ loading = NoFile)

\* waitConfigActivation: active and on disk (the desired hash of the status).
Reports(c) == router = "up" /\ active = c /\ path = c

\* A wait ends without a match: nothing is under way that could still bring
\* one, or the router takes longer than the time allowed.
GivesUp ==
    \/ Quiet /\ UNCHANGED bounds
    \/ ~Quiet /\ slow < MaxSlow /\ slow' = slow + 1 /\ UNCHANGED <<faults, edits>>

\* signalVerifiedRouter sends SIGHUP to the router whose boot id was seen.
\* The signal channel holds one; another reload reads the file anew anyway.
SendHup == hup' = TRUE /\ UNCHANGED <<router, active, loading>>

\* recoverInterruptedExactConfigCommit, which stops the command when neither
\* the config nor the displaced entry exists.
RecoverCommit ==
    /\ interrupted /\ path = NoFile => held # NoFile
    /\ path' = IF path = NoFile THEN held ELSE path
    /\ held' = NoFile /\ interrupted' = FALSE

---------------------------------------------------------------------------
(* compareAndSwapExactConfig and its outcomes.                             *)

Committed(expected, new) ==
    /\ path = expected
    /\ path' = new
    /\ UNCHANGED <<held, interrupted>>
    /\ NoFault

\* A plain error: other contents were found, or the preparation failed and
\* perhaps left its directory.
Refused(expected) ==
    \/ path # expected /\ UNCHANGED disk /\ NoFault
    \/ /\ Fault
       /\ UNCHANGED <<path, held>>
       /\ interrupted' \in BOOLEAN

\* A plain error although the commit landed: an editor wrote right after it.
Overtaken(expected, new) ==
    /\ path = expected
    /\ path' \in Contents \ {new}
    /\ edits < MaxEdits /\ edits' = edits + 1
    /\ UNCHANGED <<held, interrupted, faults, slow>>

\* Cut off, by an error past the displacement or by a crash.
CutOff(expected, new) ==
    /\ path = expected
    /\ path' \in {expected, NoFile, new}
    /\ held' \in {expected, NoFile}
    /\ path' = NoFile => held' = expected
    /\ interrupted' = TRUE
    /\ Fault

Land(o) == landed' = [landed EXCEPT ![o] = @ + 1] /\ UNCHANGED activated

---------------------------------------------------------------------------
(* runJournaledMutationLocked.                                             *)

\* Variant: no look for a terminal record of the operation id.
BeginMutationAnew(o) ==
    /\ pc = "idle"
    /\ path # NoFile
    /\ RecoverCommit
    /\ cmd' = "mutate" /\ op' = o /\ prior' = path
    /\ Goto("preflight")
    /\ UNCHANGED <<records, gateway, running, outcome, tokens, history, bounds>>

\* The command loads the config (a missing one ends it), takes the lock,
\* recovers an interrupted commit and reads the file.  An operation with a
\* terminal record only replays it.
BeginMutation(o) ==
    /\ pc = "idle"
    /\ terminal[o] = None
    /\ path # NoFile
    /\ RecoverCommit
    /\ cmd' = "mutate" /\ op' = o /\ prior' = path
    /\ Goto("preflight")
    /\ UNCHANGED <<records, gateway, running, outcome, tokens, history, bounds>>

\* Variant: no look for unfinished operations.
PreflightAlone ==
    /\ pc = "preflight"
    /\ \/ /\ router = "booting" \/ (router = "up" /\ ~Reports(prior))
          /\ Goto("idle") /\ UNCHANGED <<running, outcome, tokens>>
       \/ /\ router = "up" => Reports(prior)
          /\ running' = (router = "up")
          /\ advanced' = (router # "up")
          /\ rebooted' = FALSE
          /\ IF Want[op] = prior
             THEN Goto("publish") /\ outcome' = "unchanged"
             ELSE Goto("journal") /\ UNCHANGED outcome
    /\ UNCHANGED <<disk, records, gateway, cmd, op, prior, history, bounds>>

\* No other operation may be unfinished (a stray temporary file in the
\* journal directory is an error too), and a router that runs must run
\* exactly the config that is on disk.  A booting router has a pidfile, and no
\* status yet, or not even that and counts as down.
Preflight ==
    /\ pc = "preflight"
    /\ \/ /\ \/ Unfinished # {} \/ "journal" \in stray
             \/ router = "booting"
             \/ router = "up" /\ ~Reports(prior)
          /\ Goto("idle") /\ UNCHANGED <<running, outcome, tokens>>
       \/ /\ Unfinished = {} /\ "journal" \notin stray
          /\ router = "up" => Reports(prior)
          /\ running' = (router = "up")
          /\ advanced' = (router # "up")
          /\ rebooted' = FALSE
          /\ IF Want[op] = prior
             THEN Goto("publish") /\ outcome' = "unchanged"
             ELSE Goto("journal") /\ UNCHANGED outcome
    /\ UNCHANGED <<disk, records, gateway, cmd, op, prior, history, bounds>>

\* Variant: no journal while the router is down.
WriteJournalIfRunning ==
    /\ pc = "journal"
    /\ journal' = IF running
                  THEN [journal EXCEPT ![op] = [prev |-> prior, next |-> Want[op]]]
                  ELSE journal
    /\ Goto("swap") /\ NoFault
    /\ UNCHANGED <<disk, terminal, stray, gateway, holder, outcome, tokens, history>>

WriteJournal ==
    /\ pc = "journal"
    /\ journal' = [journal EXCEPT ![op] = [prev |-> prior, next |-> Want[op]]]
    /\ Goto("swap") /\ NoFault
    /\ UNCHANGED <<disk, terminal, stray, gateway, holder, outcome, tokens, history>>

\* The commit.  Without a router the operation stays unfinished until a
\* router has started and somebody reconciles.
Swap ==
    /\ pc = "swap"
    /\ \/ /\ Committed(prior, Want[op]) /\ Land(op)
          /\ Goto(IF running THEN "signal" ELSE "idle")
          /\ UNCHANGED outcome
       \/ /\ Refused(prior) /\ UNCHANGED history
          /\ Goto("publish") /\ outcome' = "rejected"
       \/ /\ Overtaken(prior, Want[op]) /\ Land(op)
          /\ Goto("publish") /\ outcome' = "rejected"
       \/ /\ CutOff(prior, Want[op])
          /\ IF path' = Want[op] THEN Land(op) ELSE UNCHANGED history
          /\ Goto("idle") /\ UNCHANGED outcome
    /\ UNCHANGED <<records, gateway, holder, tokens>>

\* A mutation waits even when the signal was refused; a reconciliation goes
\* straight to the rollback.
Signal ==
    /\ pc = "signal"
    /\ IF router = "up" /\ ~rebooted
       THEN SendHup /\ Goto("await")
       ELSE UNCHANGED gateway
            /\ Goto(IF cmd = "mutate" THEN "await" ELSE "rollback")
    /\ UNCHANGED <<disk, records, holder, outcome, tokens, history, bounds>>

\* Variant: the desired hash of the status is taken for the active one.
AwaitDesiredOnDisk ==
    /\ pc = "await"
    /\ LET ok == router = "up" /\ path = journal[op].next IN
       \/ ok /\ Goto("publish") /\ outcome' = "applied" /\ NoFault
       \/ ~ok /\ GivesUp /\ Goto("rollback") /\ UNCHANGED outcome
    /\ UNCHANGED <<disk, records, gateway, holder, tokens, history>>

\* waitConfigMutationActivation with requireAdvance.
AwaitDesired ==
    /\ pc = "await"
    /\ LET ok == Reports(journal[op].next) /\ advanced IN
       \/ ok /\ Goto("publish") /\ outcome' = "applied" /\ NoFault
       \/ ~ok /\ GivesUp /\ Goto("rollback") /\ UNCHANGED outcome
    /\ UNCHANGED <<disk, records, gateway, holder, tokens, history>>

---------------------------------------------------------------------------
(* rollbackJournaledMutation.                                              *)

\* Variant: the prior config is written back whatever is there.
RollbackBlindly ==
    /\ pc = "rollback"
    /\ path' = journal[op].prev
    /\ Goto("recheck") /\ outcome' = "rolled_back"
    /\ UNCHANGED <<held, interrupted, records, gateway, holder, tokens, history, bounds>>

Rollback ==
    /\ pc = "rollback"
    /\ LET j == journal[op] IN
       \/ /\ Committed(j.next, j.prev)
          /\ Goto("recheck") /\ outcome' = "rolled_back"
       \/ /\ Refused(j.next) \/ CutOff(j.next, j.prev) \/ Overtaken(j.next, j.prev)
          /\ Goto("idle") /\ UNCHANGED outcome
    /\ UNCHANGED <<records, gateway, holder, tokens, history>>

\* A router that already reports the prior config is not signaled.
RecheckPrior ==
    /\ pc = "recheck"
    /\ IF Reports(journal[op].prev) \/ router # "up"
          \/ (rebooted /\ outcome = "not_applied")
       THEN UNCHANGED gateway
       ELSE SendHup
    /\ Goto("awaitPrior")
    /\ UNCHANGED <<disk, records, holder, outcome, tokens, history, bounds>>

AwaitPrior ==
    /\ pc = "awaitPrior"
    /\ LET ok == Reports(journal[op].prev) IN
       \/ ok /\ Goto("publish") /\ NoFault
       \/ ~ok /\ GivesUp /\ Goto("idle")
    /\ UNCHANGED <<disk, records, gateway, holder, outcome, tokens, history>>

---------------------------------------------------------------------------
(* publishMutationTerminal.                                                *)

Record ==
    LET j == IF journal[op] = None
             THEN [prev |-> prior, next |-> Want[op]] ELSE journal[op]
    IN [outcome |-> outcome, prev |-> j.prev, next |-> j.next]

\* validateTerminalRecord, of an applied record: its token must have advanced.
Valid == outcome = "applied" => advanced

\* Variant: any record under the final name is an error.
PublishOnce ==
    /\ pc = "publish"
    /\ \/ /\ Valid /\ terminal[op] = None
          /\ terminal' = [terminal EXCEPT ![op] = Record]
          /\ Goto(IF journal[op] = None THEN "idle" ELSE "unlink")
       \/ /\ ~Valid \/ terminal[op] # None
          /\ Goto("idle")
          /\ UNCHANGED terminal
    /\ NoFault
    /\ UNCHANGED <<disk, journal, stray, gateway, holder, outcome, tokens, history>>

\* The record is linked to its final name, which fails where another exists:
\* an equal one will do.
Publish ==
    /\ pc = "publish"
    /\ \/ /\ Valid /\ terminal[op] \in {None, Record}
          /\ terminal' = [terminal EXCEPT ![op] = Record]
          /\ Goto(IF journal[op] = None THEN "idle" ELSE "unlink")
       \/ /\ ~Valid \/ terminal[op] \notin {None, Record}
          /\ Goto("idle")
          /\ UNCHANGED terminal
    /\ NoFault
    /\ UNCHANGED <<disk, journal, stray, gateway, holder, outcome, tokens, history>>

\* It cannot be written, or is and the directory cannot be synced.
PublishFails ==
    /\ pc = "publish"
    /\ Fault
    /\ \/ UNCHANGED terminal
       \/ Valid /\ terminal[op] = None
          /\ terminal' = [terminal EXCEPT ![op] = Record]
    /\ Goto("idle")
    /\ UNCHANGED <<disk, journal, stray, gateway, holder, outcome, tokens, history>>

\* The journal goes once the record is durable.
Unlink ==
    /\ pc = "unlink"
    /\ journal' = [journal EXCEPT ![op] = None]
    /\ Goto("idle") /\ NoFault
    /\ UNCHANGED <<disk, terminal, stray, gateway, holder, outcome, tokens, history>>

\* The write of the journal or its removal fails.
JournalFails ==
    /\ pc \in {"journal", "unlink"}
    /\ Fault
    /\ Goto("idle")
    /\ UNCHANGED <<disk, records, gateway, holder, outcome, tokens, history>>

---------------------------------------------------------------------------
(* cmdMutation: reconcile.  A terminal record is replayed, nothing else.   *)

BeginReconcile(o) ==
    /\ pc = "idle"
    /\ terminal[o] = None
    /\ RecoverCommit
    /\ Goto(IF journal[o] = None THEN "idle" ELSE "reconcile")
    /\ cmd' = "reconcile" /\ op' = o
    /\ UNCHANGED <<records, gateway, prior, running, outcome, tokens, history, bounds>>

\* The config on disk decides: the intended one is to be activated, the
\* prior one confirmed, any other is somebody else's.
Reconcile ==
    /\ pc = "reconcile"
    /\ LET j == journal[op] IN
       \/ /\ path \notin {j.prev, j.next} \/ router # "up"
          /\ Goto("idle") /\ UNCHANGED <<outcome, rebooted>>
       \/ /\ router = "up" /\ path = j.next
          /\ rebooted' = FALSE
          /\ IF Reports(j.next)
             THEN Goto("publish") /\ outcome' = "applied"
             ELSE Goto("signal") /\ UNCHANGED outcome
       \/ /\ router = "up" /\ path = j.prev
          /\ rebooted' = FALSE
          /\ Goto("recheck") /\ outcome' = "not_applied"
    /\ UNCHANGED <<disk, records, gateway, holder, advanced, history, bounds>>

---------------------------------------------------------------------------
(* cmdMutationRecover.                                                     *)

Confirmed(o, result) ==
    /\ result \in {"applied", "not_applied"}
    /\ Reports(IF result = "applied" THEN journal[o].next ELSE journal[o].prev)

\* inspectRoutingMutationStatusLocked: only an outcome that is already
\* recorded or already active is acted on; a stray file in either directory
\* makes the state invalid.
BeginRecover ==
    /\ pc = "idle"
    /\ stray = {} /\ ~interrupted
    /\ \E o \in Unfinished :
        /\ op' = o
        /\ \/ /\ terminal[o] # None
              /\ Goto("publish") /\ outcome' = terminal[o].outcome
           \/ /\ terminal[o] = None
              /\ Confirmed(o, outcome')
              /\ outcome' \in {"applied", "not_applied"}
              /\ Goto("snapshot")
    /\ cmd' = "recover"
    /\ UNCHANGED <<disk, records, gateway, prior, running, tokens, history, bounds>>

\* finalCleanupSnapshot looks again before the record is written.
Snapshot ==
    /\ pc = "snapshot"
    /\ Goto(IF Confirmed(op, outcome) THEN "publish" ELSE "idle")
    /\ UNCHANGED <<disk, records, gateway, holder, outcome, tokens, history, bounds>>

---------------------------------------------------------------------------
(* The router.                                                             *)

\* Operations past their preflight.
Begun == Unfinished \cup {o \in Ops : o = op /\ pc = "journal"}

Runs(c) == activated' = activated \cup {o \in Begun : Want[o] = c}

\* Run reads one snapshot of the config before its slow startup work.
RouterBoots ==
    /\ router = "down"
    /\ path # NoFile
    /\ router' = "booting" /\ loading' = path
    /\ UNCHANGED <<active, hup, disk, records, pc, holder, outcome, tokens, history, bounds>>

RouterServes ==
    /\ router = "booting"
    /\ router' = "up" /\ active' = loading /\ loading' = NoFile
    /\ advanced' = TRUE /\ rebooted' = TRUE
    /\ Runs(loading)
    /\ UNCHANGED <<hup, disk, records, pc, holder, outcome, landed, bounds>>

\* reloadConfig under reloadMu: reads the file,
ReloadReads ==
    /\ router = "up" /\ hup /\ loading = NoFile
    /\ hup' = FALSE
    /\ loading' = path
    /\ UNCHANGED <<router, active, disk, records, pc, holder, outcome, tokens, history, bounds>>

\* and publishes it under a new generation once everything is prepared.
ReloadPublishes ==
    /\ router = "up" /\ loading # NoFile
    /\ active' = loading /\ loading' = NoFile
    /\ advanced' = TRUE
    /\ Runs(loading)
    /\ UNCHANGED <<router, hup, disk, records, pc, holder, outcome, rebooted, landed, bounds>>

\* A listener or trace capture cannot be prepared: the old config stays.
ReloadFails ==
    /\ router = "up" /\ loading # NoFile
    /\ Fault
    /\ loading' = NoFile
    /\ UNCHANGED <<router, active, hup, disk, records, pc, holder, outcome, tokens, history>>

RouterStops ==
    /\ router # "down"
    /\ Fault
    /\ router' = "down" /\ active' = NoFile /\ loading' = NoFile /\ hup' = FALSE
    /\ UNCHANGED <<disk, records, pc, holder, outcome, tokens, history>>

---------------------------------------------------------------------------
(* The environment.                                                        *)

\* The command dies; in the middle of a write its temporary file stays.
Crash ==
    /\ pc # "idle"
    /\ Fault
    /\ Goto("idle")
    /\ \/ UNCHANGED stray
       \/ pc = "journal" /\ stray' = stray \cup {"journal"}
       \/ pc \in {"publish", "unlink"} /\ stray' = stray \cup {"completed"}
    /\ UNCHANGED <<disk, journal, terminal, gateway, holder, outcome, tokens, history>>

EditorWrites ==
    /\ edits < MaxEdits /\ edits' = edits + 1
    /\ path' \in (Contents \cup {NoFile}) \ {path}
    /\ UNCHANGED <<held, interrupted, records, gateway, pc, holder, outcome, tokens,
                   history, faults, slow>>

Mutate == Preflight \/ WriteJournal \/ Swap \/ Signal \/ AwaitDesired
          \/ Rollback \/ RecheckPrior \/ AwaitPrior \/ Publish \/ Unlink
          \/ Reconcile \/ Snapshot
Router == RouterServes \/ ReloadReads \/ ReloadPublishes

Next ==
    \/ \E o \in Ops : BeginMutation(o) \/ BeginReconcile(o)
    \/ BeginRecover \/ Mutate \/ Router \/ RouterBoots
    \/ PublishFails \/ JournalFails \/ ReloadFails \/ RouterStops
    \/ Crash \/ EditorWrites

\* A command that runs goes on, and so does the router.  The user follows the
\* answers: an unfinished operation is reconciled and recovered again and
\* again, and each retry gets the lock in the end.
Fairness ==
    /\ WF_vars(Mutate) /\ WF_vars(Router)
    /\ \A o \in Ops : SF_vars(BeginReconcile(o) /\ journal[o] # None)
    /\ SF_vars(BeginRecover)

Spec == Init /\ [][Next]_vars /\ Fairness

---------------------------------------------------------------------------
(* Properties.                                                             *)

DiskType ==
    /\ path \in Contents \cup {NoFile} /\ held \in Contents \cup {NoFile}
    /\ interrupted \in BOOLEAN

RecordsType ==
    /\ journal \in [Ops -> Journals \cup {None}]
    /\ terminal \in [Ops -> Terminals \cup {None}]
    /\ stray \subseteq {"journal", "completed"}

RouterType ==
    /\ router \in {"down", "booting", "up"}
    /\ active \in Contents \cup {NoFile} /\ loading \in Contents \cup {NoFile}
    /\ hup \in BOOLEAN

HolderType ==
    /\ pc \in PCs /\ cmd \in {"none", "mutate", "reconcile", "recover"}
    /\ op \in Ops \cup {None} /\ prior \in Contents \cup {NoFile}
    /\ outcome \in Outcomes \cup {"none"}
    /\ running \in BOOLEAN /\ advanced \in BOOLEAN /\ rebooted \in BOOLEAN

HistoryType ==
    /\ landed \in [Ops -> Nat] /\ activated \subseteq Ops
    /\ faults \in 0..MaxFaults /\ slow \in 0..MaxSlow /\ edits \in 0..MaxEdits

OneUnfinished == \A o, p \in Unfinished : o = p

\* The variables stay in their sets, and at most one operation is unfinished.
TypeOK ==
    DiskType /\ RecordsType /\ RouterType /\ HolderType /\ HistoryType /\ OneUnfinished

\* An operation id changes the config at most once, however often its caller
\* retries it and whatever crashed in between.
AtMostOnce == \A o \in Ops : landed[o] <= 1

\* An operation whose edit was committed is never forgotten: its journal or
\* its terminal record is on disk.
NothingForgotten ==
    \A o \in Ops : landed[o] > 0 => (journal[o] # None \/ terminal[o] # None)

\* "applied" is only recorded of an operation whose config the router came to
\* run after the operation had begun; its edit was committed by the operation
\* itself unless somebody outside wrote the config.
AppliedMeansActive ==
    \A o \in Ops :
        (terminal[o] # None /\ terminal[o].outcome = "applied") =>
            (o \in activated /\ (landed[o] = 1 \/ edits > 0))

\* The commands only ever replace contents they know: the prior or intended
\* config of the unfinished operation.  An editor's config, written while a
\* command waited for the router or lay crashed, is not rolled back over.
ForeignConfigKept ==
    [][(path' # path /\ edits' = edits /\ path # NoFile) =>
        \E o \in Unfinished : path \in {journal[o].prev, journal[o].next}]_vars

\* The answer of a rolled-back or reconciled operation, that the prior state
\* is active again, stays true of a router that has nothing left to load.
PriorStaysRestored ==
    \A o \in Ops :
        ( /\ terminal[o] # None
          /\ terminal[o].outcome \in {"rolled_back", "not_applied"}
          /\ pc = "idle" /\ router = "up" /\ Quiet
          /\ path = terminal[o].prev )
        => active = path

\* An unfinished operation is concluded once the router stays up, unless an
\* editor has taken the config over or a crash left a temporary file beside
\* the terminal records.
UnfinishedConcludes ==
    <>[](router = "up") =>
        \A o \in Ops :
            journal[o] # None ~>
                \/ journal[o] = None
                \/ "completed" \in stray
                \/ journal[o] # None /\ path \notin {journal[o].prev, journal[o].next}

\* The help text of "mutation recover": it removes recovery state whose exact
\* outcome is already confirmed, which a terminal record does.
ConfirmedIsRemoved ==
    \A o \in Ops : (journal[o] # None /\ terminal[o] # None) ~> journal[o] = None
===========================================================================
