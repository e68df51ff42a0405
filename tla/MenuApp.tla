------------------------------ MODULE MenuApp ------------------------------
(***************************************************************************)
(* The menu bar app between the router and the command line               *)
(* (RuntimeCoordination.swift, BasetenSwitchState.swift).  Three kinds of  *)
(* task share one PollCoordinator and one MutationCoordinator: the poll    *)
(* loop, the routing changes of the user, and the recovery of an           *)
(* unfinished change.  A status event is accepted on the coordinator and   *)
(* applied on the main actor, two steps; code that awaits nothing between  *)
(* two lines is one step.                                                  *)
(***************************************************************************)
EXTENDS Integers, Sequences, FiniteSets, SequencesExt

CONSTANTS
    AppOps,           \* routing changes the user starts, each on its own control
    Recoveries,       \* recovery tasks, in the order they are started
    MaxReads,         \* bound on status requests
    MaxStarts,        \* bound on router processes
    MaxGeneration,    \* bound on configurations one router process activates
    MaxAttempts       \* retries of the cleanup after the first attempt (5 in the code)

RecoveryTasks == ToSet(Recoveries)

\* A task is the poll loop, a change or a recovery, and a recovery is started once.
ASSUME MenuBounds ==
    /\ MaxReads \in Nat /\ MaxStarts \in Nat \ {0} /\ MaxGeneration \in Nat \ {0}
    /\ MaxAttempts \in Nat /\ Recoveries \in Seq(STRING)
    /\ \A i, j \in DOMAIN Recoveries : Recoveries[i] = Recoveries[j] => i = j
    /\ AppOps \cap RecoveryTasks = {} /\ "loop" \notin AppOps \cup RecoveryTasks

PollTasks == {"loop"} \cup AppOps \cup RecoveryTasks
Tokens == [boot : 1..MaxStarts, gen : 1..MaxGeneration]
NoToken == [boot |-> 0, gen |-> 0]
\* What a status request yields: a snapshot, or one of three words.
Snapshot(token) == [is |-> "snapshot", token |-> token]
Word(w) == [is |-> w, token |-> NoToken]
Open == Word("open")
Events == {Snapshot(token) : token \in Tokens} \cup {Word("down"), Word("stale")}

VARIABLES
    router,      \* what the router reports, and whether its journal holds an unfinished change
    reads,       \* status request -> Open, the snapshot it was answered with, or down
    inFlight,    \* the request new readers join, 0 for none
    acceptance,  \* PollEventAcceptance with its RoutingTokenAcceptance
    reader,      \* task -> where it is in refresh() or refreshFresh()
    menu,        \* routingSnapshot and snapshotIsStale
    ops,         \* routing change -> its record
    recovering,  \* recovery task -> its record
    begun,       \* recovery tasks started; the last one is the current one
    gate,        \* mutationRecoveryState, mutationRecoveryKey, unsupportedRecoveryRuntime
    lane         \* MutationCoordinator: tasks with a child process, the head's runs

menuVars == <<router, reads, inFlight, acceptance, reader, menu, ops, recovering, begun, gate, lane>>

Gates == {"awaiting", "checking", "waiting", "ready", "legacy", "blocked"}
OpPhases == {"idle", "preflight", "barrier", "primary", "reconcile", "confirm", "confirmed", "failed"}
Receipts == {"none", "applied", "refused", "unfinished"}
RecoveryPhases == {"none", "created", "status", "recover", "waiting", "finish", "over"}

MaybeToken == Tokens \cup {NoToken}
Readers == [at : {"out", "draining", "reading", "event"}, read : 0..MaxReads, owns : BOOLEAN, event : Events]
Changes == [at : OpPhases, token : MaybeToken, receipt : Receipts, made : MaybeToken,
            needs : BOOLEAN, late : BOOLEAN]
RecoveryRecords == [at : RecoveryPhases, attempt : 0..MaxAttempts, final : {"ready", "legacy", "blocked"}]

RouterType == router \in [boot : 1..MaxStarts, gen : 1..MaxGeneration, unfinished : BOOLEAN]
ReadsType ==
    /\ reads \in Seq(Events \cup {Open}) /\ Len(reads) <= MaxReads
    /\ inFlight \in 0..Len(reads)
    /\ acceptance \in [latest : 0..MaxReads, current : MaybeToken, retired : SUBSET (1..MaxStarts)]
    /\ reader \in [PollTasks -> Readers]
    /\ \A t \in PollTasks : reader[t].at \in {"draining", "reading"} => reader[t].read \in DOMAIN reads
MenuType == menu \in [snapshot : MaybeToken, stale : BOOLEAN]
TasksType ==
    /\ ops \in [AppOps -> Changes] /\ recovering \in [RecoveryTasks -> RecoveryRecords]
    /\ begun \in 0..Len(Recoveries)
    /\ gate \in [state : Gates, key : 0..MaxStarts, legacy : BOOLEAN]
    /\ lane \in Seq(AppOps \cup RecoveryTasks)

MenuTypeOK == RouterType /\ ReadsType /\ MenuType /\ TasksType

Out == [at |-> "out", read |-> 0, owns |-> FALSE, event |-> Word("stale")]

IdleOp == [at |-> "idle", token |-> NoToken, receipt |-> "none", made |-> NoToken,
           needs |-> FALSE, late |-> FALSE]
NoRecovery == [at |-> "none", attempt |-> 0, final |-> "ready"]

\* The app has seen the router and the recovery of its start has ended; a restart of the
\* router brings the next.
MenuInit ==
    /\ router = [boot |-> 1, gen |-> 1, unfinished |-> FALSE]
    /\ reads = <<>> /\ inFlight = 0
    /\ acceptance = [latest |-> 0, current |-> [boot |-> 1, gen |-> 1], retired |-> {}]
    /\ reader = [t \in PollTasks |-> Out]
    /\ menu = [snapshot |-> [boot |-> 1, gen |-> 1], stale |-> FALSE]
    /\ ops = [o \in AppOps |-> IdleOp]
    /\ recovering = [t \in RecoveryTasks |-> NoRecovery]
    /\ begun = 0
    /\ gate = [state |-> "ready", key |-> 1, legacy |-> FALSE]
    /\ lane = <<>>

Current(t) == begun > 0 /\ Recoveries[begun] = t
Active == [boot |-> router.boot, gen |-> router.gen]

-----------------------------------------------------------------------------
(* The router: it answers a status request, restarts, or a command of       *)
(* another terminal changes its configuration.                              *)

Answer(r) ==
    /\ r \in DOMAIN reads /\ reads[r] = Open
    /\ \E a \in {Snapshot(Active), Word("down")} : reads' = [reads EXCEPT ![r] = a]
    /\ UNCHANGED <<router, inFlight, acceptance, reader, menu, ops, recovering, begun, gate, lane>>

Restart ==
    /\ router.boot < MaxStarts
    /\ router' = [router EXCEPT !.boot = @ + 1, !.gen = 1]
    /\ UNCHANGED <<reads, inFlight, acceptance, reader, menu, ops, recovering, begun, gate, lane>>

ChangedElsewhere ==
    /\ router.gen < MaxGeneration /\ ~router.unfinished
    /\ router' = [router EXCEPT !.gen = @ + 1]
    /\ UNCHANGED <<reads, inFlight, acceptance, reader, menu, ops, recovering, begun, gate, lane>>

-----------------------------------------------------------------------------
(* PollCoordinator.                                                         *)

\* fetchSingleFlight: join the request in flight, or make one.
Fetch(t, flight) ==
    IF flight # 0
    THEN /\ reader' = [reader EXCEPT ![t] = [Out EXCEPT !.at = "reading", !.read = flight]]
         /\ inFlight' = flight /\ UNCHANGED reads
    ELSE /\ Len(reads) < MaxReads
         /\ reads' = Append(reads, Open) /\ inFlight' = Len(reads) + 1
         /\ reader' = [reader EXCEPT ![t] = [Out EXCEPT !.at = "reading", !.read = Len(reads) + 1,
                                                        !.owns = TRUE]]

\* A mutant: a fresh read joins the request in flight.
StartFreshJoins(t) == Fetch(t, inFlight)

\* refreshFresh: wait out the request in flight first.
StartFresh(t) ==
    IF inFlight # 0
    THEN /\ reader' = [reader EXCEPT ![t] = [Out EXCEPT !.at = "draining", !.read = inFlight]]
         /\ UNCHANGED <<reads, inFlight>>
    ELSE Fetch(t, 0)

Drained(t) ==
    /\ reader[t].at = "draining" /\ reads[reader[t].read] # Open
    /\ Fetch(t, IF inFlight = reader[t].read THEN 0 ELSE inFlight)
    /\ UNCHANGED <<router, acceptance, menu, ops, recovering, begun, gate, lane>>

\* RoutingTokenAcceptance.accept.
TokenAccepted(token) ==
    IF acceptance.current.boot \in {0, token.boot}
    THEN token.gen >= acceptance.current.gen
    ELSE token.boot \notin acceptance.retired

\* A request that nobody waits for any more.
Forgotten(t, r, flight) == flight # r /\ \A u \in PollTasks \ {t} : reader[u].read # r

\* The answer reaches the task on the coordinator, which accepts it or not.
Receive(t) ==
    LET r == reader[t].read
        shown == reads[r].token
        inOrder == r >= acceptance.latest
        moved == [acceptance EXCEPT !.latest = r]
        step(e, a) ==
            /\ acceptance' = a
            /\ reader' = [reader EXCEPT ![t].at = "event", ![t].event = e, ![t].read = 0, ![t].owns = FALSE]
    IN /\ reader[t].at = "reading" /\ reads[r] # Open
       /\ inFlight' = IF reader[t].owns /\ inFlight = r THEN 0 ELSE inFlight
       /\ \/ ~inOrder /\ step(Word("stale"), acceptance)
          \/ inOrder /\ reads[r] = Word("down") /\ step(Word("down"), moved)
          \/ inOrder /\ shown # NoToken /\ ~TokenAccepted(shown) /\ step(Word("stale"), moved)
          \/ /\ inOrder /\ shown # NoToken /\ TokenAccepted(shown)
             /\ step(reads[r],
                     [moved EXCEPT !.current = shown,
                                   !.retired = @ \cup ({acceptance.current.boot} \ {0, shown.boot})])
       /\ reads' = IF Forgotten(t, r, inFlight') THEN [reads EXCEPT ![r] = Word("stale")] ELSE reads
       /\ UNCHANGED <<router, menu, ops, recovering, begun, gate, lane>>

-----------------------------------------------------------------------------
(* apply() on the main actor; a snapshot of another router cancels the      *)
(* recovery task and begins one.                                            *)

Seen(e) == CASE e.is = "stale" -> menu
             [] e.is = "down"  -> [menu EXCEPT !.stale = TRUE]
             [] OTHER          -> [snapshot |-> e.token, stale |-> FALSE]

Begins(e) == e.is = "snapshot" /\ e.token.boot # gate.key

\* A mutant: a cancelled recovery keeps its place on the lane.
WithNobodyRemoved(seq) == seq

\* The child process at the head of the lane is not touched.
CurrentWaits(seq, i) == i > 1 /\ Current(seq[i]) /\ recovering[seq[i]].at \in {"status", "recover"}
WithoutCurrent(seq) ==
    IF \E i \in DOMAIN seq : CurrentWaits(seq, i)
    THEN RemoveAt(seq, CHOOSE i \in DOMAIN seq : CurrentWaits(seq, i)) ELSE seq

\* Every conjunct of apply() but the ones that the caller's next lines change further:
\* gateAfter and laneAfter are what apply() leaves of them.
gateAfter(e) == IF Begins(e)
                THEN [gate EXCEPT !.key = e.token.boot, !.state = IF gate.legacy THEN "legacy" ELSE "checking"]
                ELSE gate
laneAfter(e) == IF Begins(e) THEN WithoutCurrent(lane) ELSE lane

Applied(t, e) ==
    /\ reader[t].at = "event" /\ reader[t].event = e
    /\ menu' = Seen(e)
    /\ IF Begins(e) /\ ~gate.legacy
       THEN begun < Len(Recoveries) /\ begun' = begun + 1
       ELSE UNCHANGED begun

Created(tasks) == [tasks EXCEPT ![Recoveries[begun + 1]].at = "created"]

LoopPolls ==
    /\ reader["loop"].at = "out"
    /\ Fetch("loop", inFlight)
    /\ UNCHANGED <<router, acceptance, menu, ops, recovering, begun, gate, lane>>

LoopApplies ==
    LET e == reader["loop"].event IN
    /\ Applied("loop", e)
    /\ gate' = gateAfter(e) /\ lane' = laneAfter(e)
    /\ recovering' = IF begun' # begun THEN Created(recovering) ELSE recovering
    /\ reader' = [reader EXCEPT !["loop"] = Out]
    /\ UNCHANGED <<router, reads, inFlight, acceptance, ops>>

-----------------------------------------------------------------------------
(* Routing changes.                                                         *)

Busy(o) == ops[o].at \notin {"idle", "confirmed", "failed"}
GateOpen == gate.state \in {"ready", "legacy"}
canMutateRouting ==
    /\ menu.snapshot # NoToken /\ ~menu.stale /\ GateOpen
    /\ \A o \in AppOps : ops[o].at # "barrier"

\* mutationArguments and executeCLI: the preconditions are those of the snapshot now.
\* late: it goes out while a recovery is under way.
RecoveryRuns ==
    \E t \in RecoveryTasks : Current(t) /\ recovering[t].at \in {"status", "recover", "waiting", "finish"}
Dispatch(o, snapshot, late) == [ops EXCEPT ![o].at = "primary", ![o].token = snapshot, ![o].late = late]

\* beginGlobalRouting, beginFamilyRoute, beginCodexRoute
BeginDirect(o) ==
    /\ ops[o].at = "idle" /\ canMutateRouting
    /\ ops' = Dispatch(o, menu.snapshot, RecoveryRuns) /\ lane' = Append(lane, o)
    /\ UNCHANGED <<router, reads, inFlight, acceptance, reader, menu, recovering, begun, gate>>

\* setFallbackPolicy, setBasetenModelFallback: a read barrier comes first.
BeginBarrier(o) ==
    /\ ops[o].at = "idle" /\ canMutateRouting /\ \A p \in AppOps : ~Busy(p)
    /\ ops' = [ops EXCEPT ![o].at = "barrier"]
    /\ StartFresh(o)
    /\ UNCHANGED <<router, acceptance, menu, recovering, begun, gate, lane>>

BarrierPassed(o) ==
    LET e == reader[o].event IN
    /\ ops[o].at = "barrier" /\ Applied(o, e)
    /\ gate' = gateAfter(e)
    /\ recovering' = IF begun' # begun THEN Created(recovering) ELSE recovering
    /\ reader' = [reader EXCEPT ![o] = Out]
    /\ IF menu'.stale
       THEN ops' = [ops EXCEPT ![o].at = "failed"] /\ lane' = laneAfter(e)
       ELSE ops' = Dispatch(o, menu'.snapshot, begun' = begun /\ RecoveryRuns) /\ lane' = Append(laneAfter(e), o)
    /\ UNCHANGED <<router, reads, inFlight, acceptance>>

\* requestReasoning: the router checks the policy first, and the change goes
\* out with whatever snapshot there is when its answer comes.
BeginPreflight(o) ==
    /\ ops[o].at = "idle" /\ canMutateRouting
    /\ ops' = [ops EXCEPT ![o].at = "preflight"]
    /\ UNCHANGED <<router, reads, inFlight, acceptance, reader, menu, recovering, begun, gate, lane>>

Preflighted(o) ==
    /\ ops[o].at = "preflight"
    /\ \/ ops' = Dispatch(o, menu.snapshot, RecoveryRuns) /\ lane' = Append(lane, o)
       \/ ops' = [ops EXCEPT ![o].at = "failed"] /\ UNCHANGED lane
    /\ UNCHANGED <<router, reads, inFlight, acceptance, reader, menu, recovering, begun, gate>>

Runs(t, phase) == lane # <<>> /\ Head(lane) = t /\ phase

\* The command of a change runs and executePolicyMutation reads its receipt.  What the
\* command did and what it said need not agree: a timeout leaves no receipt.
RunPrimary(o) ==
    LET did(gen, unfinished) == router' = [router EXCEPT !.gen = gen, !.unfinished = unfinished]
        made(gen) == IF gen # router.gen THEN [boot |-> router.boot, gen |-> gen] ELSE NoToken
        confirm(receipt, gen) ==
            /\ ops' = [ops EXCEPT ![o].at = "confirm", ![o].token = NoToken,
                                  ![o].receipt = receipt, ![o].made = made(gen)]
            /\ StartFresh(o) /\ lane' = Tail(lane)
        reconcile(needs, gen) ==
            /\ ops' = [ops EXCEPT ![o].at = "reconcile", ![o].token = NoToken,
                                  ![o].made = made(gen), ![o].needs = needs]
            /\ gate' = IF needs THEN [gate EXCEPT !.state = "checking"] ELSE gate
            /\ lane' = Append(Tail(lane), o) /\ UNCHANGED <<reads, inFlight, reader>>
        applies == ~router.unfinished /\ ops[o].token = Active /\ router.gen < MaxGeneration
    IN /\ Runs(o, ops[o].at = "primary")
       /\ \/ router.unfinished /\ confirm("unfinished", router.gen) /\ UNCHANGED <<router, gate>>
          \/ /\ ~router.unfinished /\ ops[o].token # Active
             /\ confirm("refused", router.gen) /\ UNCHANGED <<router, gate>>
          \/ applies /\ did(router.gen + 1, FALSE) /\ confirm("applied", router.gen + 1) /\ UNCHANGED gate
          \/ /\ applies /\ did(router.gen + 1, TRUE) /\ confirm("applied", router.gen + 1)
             /\ gate' = [gate EXCEPT !.state = "blocked"]        \* cleanup_pending
          \/ /\ applies
             /\ \E gen \in {router.gen, router.gen + 1}, unfinished, needs \in BOOLEAN :
                    (needs => unfinished) /\ did(gen, unfinished) /\ reconcile(needs, gen)
       /\ UNCHANGED <<acceptance, menu, recovering, begun>>

\* mutation reconcile settles the journal and says what became of the change, or it fails.
RunReconcile(o) ==
    /\ Runs(o, ops[o].at = "reconcile") /\ lane' = Tail(lane)
    /\ \/ /\ router' = [router EXCEPT !.unfinished = FALSE]
          /\ ops' = [ops EXCEPT ![o].at = "confirm",
                                ![o].receipt = IF ops[o].made # NoToken THEN "applied" ELSE "refused"]
          /\ gate' = IF ops[o].needs THEN [gate EXCEPT !.state = "ready"] ELSE gate
       \/ /\ ops' = [ops EXCEPT ![o].at = "confirm"]
          /\ gate' = [gate EXCEPT !.state = "blocked"]           \* retainMutationRecoveryGate
          /\ UNCHANGED router
    /\ StartFresh(o)
    /\ UNCHANGED <<acceptance, menu, recovering, begun>>

\* hashesConfirm
hashesConfirm(o, snapshot) == snapshot = ops[o].made

Confirm(o) ==
    LET e == reader[o].event IN
    /\ ops[o].at = "confirm" /\ Applied(o, e)
    /\ gate' = gateAfter(e) /\ lane' = laneAfter(e)
    /\ recovering' = IF begun' # begun THEN Created(recovering) ELSE recovering
    /\ reader' = [reader EXCEPT ![o] = Out]
    /\ ops' = [ops EXCEPT ![o] = [IdleOp EXCEPT !.late = ops[o].late, !.at =
                   IF /\ ~menu'.stale /\ ops[o].receipt = "applied"
                      /\ hashesConfirm(o, menu'.snapshot)
                   THEN "confirmed" ELSE "failed"]]
    /\ UNCHANGED <<router, reads, inFlight, acceptance>>

-----------------------------------------------------------------------------
(* Recovery of an unfinished change.                                        *)

Drop(t) == recovering' = [recovering EXCEPT ![t] = [NoRecovery EXCEPT !.at = "over"]]

\* acquire() of a cancelled task fails at once.
RecoveryStarts(t) ==
    /\ recovering[t].at = "created"
    /\ \/ ~Current(t) /\ Drop(t) /\ UNCHANGED lane
       \/ Current(t) /\ recovering' = [recovering EXCEPT ![t].at = "status"] /\ lane' = Append(lane, t)
    /\ UNCHANGED <<router, reads, inFlight, acceptance, reader, menu, ops, begun, gate>>

Finishing(t, final) ==
    /\ recovering' = [recovering EXCEPT ![t].at = "finish", ![t].final = final]
    /\ StartFresh(t)

Idle == UNCHANGED <<reads, inFlight, reader>>

\* mutation status (probeAndRecoverMutation); a task that was cancelled meanwhile ends here.
RunStatus(t) ==
    /\ Runs(t, recovering[t].at = "status")
    /\ \/ ~Current(t) /\ Drop(t) /\ lane' = Tail(lane) /\ Idle /\ UNCHANGED gate
       \/ /\ Current(t) /\ Finishing(t, "legacy") /\ lane' = Tail(lane)
          /\ gate' = [gate EXCEPT !.legacy = TRUE]               \* the command does not know it
       \/ Current(t) /\ Finishing(t, "blocked") /\ lane' = Tail(lane) /\ UNCHANGED gate
       \/ /\ Current(t) /\ recovering' = [recovering EXCEPT ![t].at = "recover"]
          /\ lane' = Append(Tail(lane), t) /\ Idle /\ UNCHANGED gate
    /\ UNCHANGED <<router, acceptance, menu, ops, begun>>

\* mutation recover (runCleanupRecovery) leaves no unfinished change, may be tried again,
\* or fails for good.
RunRecover(t) ==
    LET tries == recovering[t].attempt < MaxAttempts
        again == /\ recovering' = [recovering EXCEPT ![t].at = "waiting", ![t].attempt = @ + 1]
                 /\ gate' = [gate EXCEPT !.state = "waiting"] /\ Idle
    IN /\ Runs(t, recovering[t].at = "recover") /\ lane' = Tail(lane)
       /\ \E clean \in BOOLEAN :
             /\ router' = IF clean THEN [router EXCEPT !.unfinished = FALSE] ELSE router
             /\ \/ ~Current(t) /\ Drop(t) /\ Idle /\ UNCHANGED gate
                \/ Current(t) /\ clean /\ Finishing(t, "ready") /\ UNCHANGED gate
                \/ Current(t) /\ ~clean /\ tries /\ again
                \/ Current(t) /\ ~clean /\ Finishing(t, "blocked") /\ UNCHANGED gate
       /\ UNCHANGED <<acceptance, menu, ops, begun>>

\* cancelWaiter: perform() of a task taken off the lane returns without a command.
PerformCanceled(t) ==
    /\ recovering[t].at \in {"status", "recover"} /\ t \notin ToSet(lane) /\ Drop(t)
    /\ UNCHANGED <<router, reads, inFlight, acceptance, reader, menu, ops, begun, gate, lane>>

RetryDue(t) ==
    /\ recovering[t].at = "waiting"
    /\ \/ ~Current(t) /\ Drop(t) /\ UNCHANGED <<gate, lane>>
       \/ /\ Current(t) /\ recovering' = [recovering EXCEPT ![t].at = "recover"] /\ lane' = Append(lane, t)
          /\ gate' = [gate EXCEPT !.state = "checking"]
    /\ UNCHANGED <<router, reads, inFlight, acceptance, reader, menu, ops, begun>>

\* finishMutationRecovery
FinishRecovery(t) ==
    LET e == reader[t].event IN
    /\ recovering[t].at = "finish" /\ Applied(t, e)
    /\ lane' = laneAfter(e)
    /\ gate' = IF Current(t) /\ ~Begins(e)
               THEN [gate EXCEPT !.state = recovering[t].final] ELSE gateAfter(e)
    /\ recovering' = LET over == [recovering EXCEPT ![t] = [NoRecovery EXCEPT !.at = "over"]]
                     IN IF begun' # begun THEN Created(over) ELSE over
    /\ reader' = [reader EXCEPT ![t] = Out]
    /\ UNCHANGED <<router, reads, inFlight, acceptance, ops>>

\* retryMutationCleanup
RetryCleanup ==
    /\ gate.state = "blocked" /\ gate.key # 0 /\ begun < Len(Recoveries)
    /\ begun' = begun + 1
    /\ recovering' = [recovering EXCEPT ![Recoveries[begun + 1]].at = "recover"]
    /\ gate' = [gate EXCEPT !.state = "checking"]
    /\ lane' = Append(WithoutCurrent(lane), Recoveries[begun + 1])
    /\ UNCHANGED <<router, reads, inFlight, acceptance, reader, menu, ops>>

MenuNext ==
    \/ \E r \in 1..MaxReads : Answer(r)
    \/ Restart \/ ChangedElsewhere \/ LoopPolls \/ LoopApplies \/ RetryCleanup
    \/ \E t \in PollTasks : Drained(t) \/ Receive(t)
    \/ \E o \in AppOps : \/ BeginDirect(o) \/ BeginBarrier(o) \/ BarrierPassed(o) \/ BeginPreflight(o)
                         \/ Preflighted(o) \/ RunPrimary(o)
                         \/ RunReconcile(o) \/ Confirm(o)
    \/ \E t \in RecoveryTasks : \/ RecoveryStarts(t) \/ RunStatus(t) \/ RunRecover(t) \/ PerformCanceled(t)
                                \/ RetryDue(t) \/ FinishRecovery(t)

MenuSpec == MenuInit /\ [][MenuNext]_menuVars
-----------------------------------------------------------------------------
(* What the app promises.                                                   *)

\* A change that the router still runs when its status comes is never reported as failed:
\* the read behind the command is not one that began before it.
NoFalseAlarm ==
    [][\A o \in AppOps :
           (ops[o].at = "confirm" /\ ops'[o].at = "failed")
           => ~(/\ reader[o].event.is = "snapshot" /\ ops[o].receipt = "applied"
                /\ ops[o].made = Active)]_menuVars

\* While a change is unfinished and nobody works on it, the controls stay closed.
\* A change that went out while a recovery was under way is excluded: see GateKept.
UnfinishedKeepsGate ==
    (router.unfinished /\ \A o \in AppOps : ~Busy(o) /\ ~ops[o].late) => ~GateOpen \/ gate.legacy

\* The same without the exclusion, which the code does not keep: a recovery that saw no
\* unfinished change opens the gate that a change closed meanwhile.
GateKept ==
    (router.unfinished /\ \A o \in AppOps : ~Busy(o)) => ~GateOpen \/ gate.legacy

\* A recovery that was cancelled while it waited for the lane runs no command.
CancelledStaysOut == \A i \in 2..Len(lane) : lane[i] \in RecoveryTasks => Current(lane[i])

MenuSound == UnfinishedKeepsGate /\ CancelledStaysOut

\* What the app shows never goes back to an older state of the router.  The code orders
\* answers where it accepts them and not where it applies them, so this does not hold.
SnapshotsForward ==
    [][/\ menu'.snapshot.boot >= menu.snapshot.boot
       /\ menu'.snapshot.boot = menu.snapshot.boot => menu'.snapshot.gen >= menu.snapshot.gen]_menuVars
=============================================================================
