---------------------------- MODULE TraceCapture ----------------------------
(***************************************************************************)
(* Opt-in capture of request and response bodies in the router.  Source:   *)
(* gateway/cmd/gateway/trace_capture.go (admission, captures in flight,    *)
(* reconciliation with a reloaded policy, shutdown) and the queueing half  *)
(* of gateway/internal/tracecapture/writer.go.                             *)
(*                                                                         *)
(* Threads: one handler per request; the reload, alone under reloadMu; a   *)
(* goroutine per writer that did not close in time; the shutdown; the      *)
(* retention janitor; and the run loop of each writer.  A critical section *)
(* under traceMu is a step; finalize and invalidateConsent are two, since  *)
(* they take a body away under the capture's own mutex first and settle    *)
(* the byte budget under traceMu later.                                    *)
(*                                                                         *)
(* Bodies are counted in units: a request body is one, a response is       *)
(* observed one unit at a time.  The trace directory follows from the      *)
(* config path and never changes; a writer's lock on it is held from its   *)
(* creation until its run loop has ended.                                  *)
(***************************************************************************)
EXTENDS Naturals, FiniteSets

CONSTANTS
    Requests,
    Clients,
    ClientOf,      \* the client a request belongs to
    Policies,      \* trace policies a reload may bring
    MaxBody,       \* MaxBodyBytes
    MemoryLimit,   \* traceCaptureMemoryLimit
    MaxQueue,      \* DefaultMaxQueueRecords
    MaxWriters,    \* bound: writers ever created
    MaxReloads,    \* bound
    MaxFaults,     \* bound: stores that cannot be opened
    MaxSweeps      \* bound: ticks of the janitor

Policy == [enabled : BOOLEAN, clients : SUBSET Clients, days : Nat]

ASSUME TraceAssumption ==
    /\ IsFiniteSet(Requests) /\ ClientOf \in [Requests -> Clients]
    /\ Policies \subseteq Policy
    /\ MaxBody \in Nat /\ MemoryLimit \in Nat /\ MaxQueue \in Nat
    /\ MaxReloads \in Nat /\ MaxFaults \in Nat /\ MaxSweeps \in Nat
    /\ MaxWriters \in Nat \ {0}

Writers == 1..MaxWriters
None == 0                          \* no writer
Reload == 0                        \* the reload among those who open writers
Openers == {Reload} \cup Writers   \* a writer's own goroutine reopens for it

VARIABLES
    \* The gateway, under traceMu except for the first and the last.
    config,       \* runtimeConfig: the policy of the published config
    policy,       \* tracePolicy
    generation, transition,
    traceWriter, closing, stopped,
    captures,     \* traceCaptures
    reserved,     \* traceReservedBytes
    openMu,       \* holder of traceOpenMu
    \* Writers.
    writer,       \* "none", "open", "closing", "aborting", "done"
    days,         \* its retention
    queue, hand,  \* records waiting, and the one being written
    \* Requests.
    pc,
    admission,    \* the generation it was admitted under, 0 for none
    held,         \* units its capture holds: [request, response]
    capturing,    \* the response is still being captured
    owed,         \* units of its finalized trace, not yet given back
    \* The reload: its step, the policy it brings, the writer it prepared or
    \* closes, the captures it still has to invalidate, units taken from one.
    rl, target, other, invalid, due,
    \* Opening a writer: step, config read, transition expected, writer made.
    opening, using, expect, made,
    \* The goroutine of a writer that did not drain, the shutdown and the
    \* writer it closes, the janitor.
    finishing, shutting, last, sweeping,
    \* History.
    revoked,      \* requests that lacked consent at some time since they came
    lockedOut,    \* a store could not be opened for a reason from outside, or
                  \* stayed locked by an unwanted writer beyond its deadline
    reloads, faults, sweeps

gateway == <<config, policy, generation, transition, traceWriter, closing, stopped>>
memory  == <<captures, reserved>>
writers == <<writer, days, queue, hand>>
request == <<pc, admission, held, capturing, owed>>
reload  == <<rl, target, other, invalid, due>>
opener  == <<openMu, opening, using, expect, made>>
others  == <<finishing, shutting, last, sweeping>>
history == <<revoked, lockedOut, reloads, faults, sweeps>>
vars    == <<gateway, memory, writers, request, reload, opener, others, history>>

Nothing == [request |-> 0, response |-> 0]
Off     == [enabled |-> FALSE, clients |-> {}, days |-> 0]

Init ==
    /\ policy \in Policies /\ config = policy
    /\ generation = 1 /\ transition = 1
    /\ traceWriter = IF policy.enabled THEN 1 ELSE None
    /\ closing = FALSE /\ stopped = FALSE
    /\ captures = {} /\ reserved = 0
    /\ openMu = {}
    /\ writer = [w \in Writers |-> IF w = traceWriter THEN "open" ELSE "none"]
    /\ days = [w \in Writers |-> IF w = traceWriter THEN policy.days ELSE 0]
    /\ queue = [w \in Writers |-> {}] /\ hand = [w \in Writers |-> {}]
    /\ pc = [r \in Requests |-> "idle"]
    /\ admission = [r \in Requests |-> 0]
    /\ held = [r \in Requests |-> Nothing]
    /\ capturing = [r \in Requests |-> FALSE]
    /\ owed = [r \in Requests |-> 0]
    /\ rl = "idle" /\ target = Off /\ other = None /\ invalid = {} /\ due = 0
    /\ opening = [a \in Openers |-> "no"]
    /\ using = [a \in Openers |-> Off]
    /\ expect = [a \in Openers |-> 0]
    /\ made = [a \in Openers |-> None]
    /\ finishing = [w \in Writers |-> "no"]
    /\ shutting = "no" /\ last = None /\ sweeping = "no"
    /\ revoked = {} /\ lockedOut = FALSE
    /\ reloads = 0 /\ faults = 0 /\ sweeps = 0

---------------------------------------------------------------------------
\* traceClientAllowed.
Allowed(p, r) == p.enabled /\ ClientOf[r] \in p.clients

Active == {r \in Requests : pc[r] \in {"reading", "capturing", "finalizing"}}

\* Every place that gives units back clamps the budget at zero.
GiveBack(n) == reserved' = IF reserved < n THEN 0 ELSE reserved - n

\* The store's lock: one writer whose loop has not ended, or a sweep.
LockedBy == {w \in Writers : writer[w] \in {"open", "closing", "aborting"}}
Free == LockedBy = {} /\ sweeping # "holding"

Unused == {w \in Writers : writer[w] = "none"}

\* createTraceWriter, for w.
Create(w, p) ==
    /\ Free
    /\ w \in Unused
    /\ \A u \in Unused : w <= u
    /\ writer' = [writer EXCEPT ![w] = "open"]
    /\ days' = [days EXCEPT ![w] = p.days]
    /\ UNCHANGED <<queue, hand, lockedOut, faults>>

\* The store is locked, or cannot be opened.
CreateFails ==
    /\ \/ LockedBy # {} /\ UNCHANGED <<lockedOut, faults>>
       \/ sweeping = "holding" /\ lockedOut' = TRUE /\ UNCHANGED faults
       \/ faults < MaxFaults /\ faults' = faults + 1 /\ lockedOut' = TRUE
    /\ UNCHANGED writers

\* Consent as the gateway sees it changes to p.
Consent(p) ==
    /\ policy' = p
    /\ revoked' = revoked \cup {r \in Active : ~Allowed(p, r)}

---------------------------------------------------------------------------
(* A request.                                                              *)

\* traceAdmissionGeneration, before the body is read.
Arrive(r) ==
    /\ pc[r] = "idle"
    /\ pc' = [pc EXCEPT ![r] = "reading"]
    /\ admission' = [admission EXCEPT ![r] =
           IF stopped \/ traceWriter = None \/ ~Allowed(policy, r) THEN 0 ELSE generation]
    /\ revoked' = IF Allowed(policy, r) THEN revoked ELSE revoked \cup {r}
    /\ UNCHANGED <<gateway, memory, writers, held, capturing, owed, reload,
                   opener, others, lockedOut, reloads, faults, sweeps>>

\* The conditions of beginTraceCaptureAtGeneration.
Admitted(r) ==
    /\ admission[r] # 0 /\ admission[r] = generation
    /\ ~stopped /\ traceWriter # None /\ Allowed(policy, r)

\* Variant: what comes is not counted.
FitsUntilFull(n) == reserved <= MemoryLimit

\* The budget has room for n more units.
Fits(n) == reserved + n <= MemoryLimit

\* The capture begins with the request body, if the budget allows.
Begin(r) ==
    /\ pc[r] = "reading"
    /\ Admitted(r)
    /\ pc' = [pc EXCEPT ![r] = "capturing"]
    /\ LET n == IF 1 <= MaxBody /\ Fits(1) THEN 1 ELSE 0
       IN /\ held' = [held EXCEPT ![r].request = n]
          /\ reserved' = reserved + n
    /\ capturing' = [capturing EXCEPT ![r] = TRUE]
    /\ captures' = captures \cup {r}
    /\ UNCHANGED <<gateway, writers, admission, owed, reload, opener, others, history>>

\* Not admitted, or answered without a capture.
PassBy(r) ==
    /\ pc[r] = "reading"
    /\ pc' = [pc EXCEPT ![r] = "done"]
    /\ UNCHANGED <<gateway, memory, writers, admission, held, capturing, owed,
                   reload, opener, others, history>>

RoomFor(r) == held[r].response + 1 <= MaxBody /\ Fits(1)

\* ObserveResponseBytes: one more unit, or the whole body is let go, after
\* which nothing is kept of what is still to come.
Observe(r) ==
    /\ pc[r] = "capturing" /\ capturing[r]
    /\ IF RoomFor(r)
       THEN /\ held' = [held EXCEPT ![r].response = @ + 1]
            /\ reserved' = reserved + 1
            /\ UNCHANGED capturing
       ELSE /\ held' = [held EXCEPT ![r].response = 0]
            /\ GiveBack(held[r].response)
            /\ capturing' = [capturing EXCEPT ![r] = FALSE]
    /\ UNCHANGED <<gateway, captures, writers, pc, admission, owed, reload, opener, others, history>>

\* finalize under the capture's mutex.
Finalize(r) ==
    /\ pc[r] = "capturing"
    /\ pc' = [pc EXCEPT ![r] = "finalizing"]
    /\ owed' = [owed EXCEPT ![r] = held[r].request + held[r].response]
    /\ held' = [held EXCEPT ![r] = Nothing]
    /\ capturing' = [capturing EXCEPT ![r] = FALSE]
    /\ UNCHANGED <<gateway, memory, writers, admission, reload,
                   opener, others, history>>

\* Variant: eligible by the policy of the moment.
EligibleNow(r) == ~stopped /\ traceWriter # None /\ Allowed(policy, r)

Eligible(r) ==
    /\ ~stopped /\ traceWriter # None
    /\ generation = admission[r]
    /\ Allowed(policy, r)

\* EnqueueWithRelease, as far as it can accept.
Accepts(w) ==
    /\ writer[w] = "open"
    /\ Cardinality(queue[w]) < MaxQueue

\* Variant: nobody gives the units of a rejected trace back.
SubmitKeeps(r) ==
    /\ pc[r] = "finalizing"
    /\ pc' = [pc EXCEPT ![r] = "done"]
    /\ captures' = captures \ {r}
    /\ IF Eligible(r)
       THEN /\ queue' = IF Accepts(traceWriter)
                        THEN [queue EXCEPT ![traceWriter] = @ \cup {r}] ELSE queue
            /\ UNCHANGED <<reserved, owed>>
       ELSE GiveBack(owed[r]) /\ owed' = [owed EXCEPT ![r] = 0] /\ UNCHANGED queue
    /\ UNCHANGED <<gateway, writer, days, hand, admission, held, capturing,
                   reload, opener, others, history>>

\* finalize under traceMu: the writer takes the trace and what it owes, or
\* both end here.
Submit(r) ==
    /\ pc[r] = "finalizing"
    /\ pc' = [pc EXCEPT ![r] = "done"]
    /\ captures' = captures \ {r}
    /\ IF Eligible(r) /\ Accepts(traceWriter)
       THEN /\ queue' = [queue EXCEPT ![traceWriter] = @ \cup {r}]
            /\ UNCHANGED <<reserved, owed>>
       ELSE GiveBack(owed[r]) /\ owed' = [owed EXCEPT ![r] = 0] /\ UNCHANGED queue
    /\ UNCHANGED <<gateway, writer, days, hand, admission, held, capturing,
                   reload, opener, others, history>>

---------------------------------------------------------------------------
(* A writer's run loop.                                                    *)

\* The loop looks for an abort first, but one that comes later may still lose
\* against a record.
Take(w) ==
    /\ writer[w] \in {"open", "closing", "aborting"}
    /\ hand[w] = {}
    /\ \E r \in queue[w] :
        /\ hand' = [hand EXCEPT ![w] = {r}]
        /\ queue' = [queue EXCEPT ![w] = @ \ {r}]
    /\ UNCHANGED <<gateway, memory, writer, days, request, reload, opener, others, history>>

\* Written or failed, the record's units are released.
Release(w) ==
    /\ \E r \in hand[w] :
        /\ GiveBack(owed[r])
        /\ owed' = [owed EXCEPT ![r] = 0]
    /\ hand' = [hand EXCEPT ![w] = {}]
    /\ UNCHANGED <<gateway, captures, writer, days, queue, pc, admission, held,
                   capturing, reload, opener, others, history>>

\* Variant: an aborted writer forgets its queue.
ForgetQueue(w) ==
    /\ writer[w] = "aborting" /\ hand[w] = {}
    /\ queue[w] # {}
    /\ queue' = [queue EXCEPT ![w] = {}]
    /\ UNCHANGED <<gateway, memory, writer, days, hand, request, reload, opener, others, history>>

\* dropQueuedForShutdown.
DropQueued(w) ==
    /\ writer[w] = "aborting" /\ hand[w] = {}
    /\ \E r \in queue[w] :
        /\ queue' = [queue EXCEPT ![w] = @ \ {r}]
        /\ GiveBack(owed[r])
        /\ owed' = [owed EXCEPT ![r] = 0]
    /\ UNCHANGED <<gateway, captures, writer, days, hand, pc, admission, held,
                   capturing, reload, opener, others, history>>

\* The loop ends, and releases the lock of the store.
LoopEnds(w) ==
    /\ writer[w] \in {"closing", "aborting"}
    /\ queue[w] = {} /\ hand[w] = {}
    /\ writer' = [writer EXCEPT ![w] = "done"]
    /\ UNCHANGED <<gateway, memory, days, queue, hand, request, reload, opener, others, history>>

Run(w) == Take(w) \/ Release(w) \/ DropQueued(w) \/ LoopEnds(w)

\* Variant: a writer nobody wants any more is left as it is.
LeaveOpen(w) == UNCHANGED writer

\* Close stops the writer from accepting, and closes its queue.
BeginClose(w) == writer' = [writer EXCEPT ![w] = IF @ = "open" THEN "closing" ELSE @]

\* The wait in Close: the loop has ended, or the context has ended first.
Drained(w) == writer[w] = "done" /\ UNCHANGED writer
GaveUp(w)  == writer[w] = "aborting" /\ UNCHANGED writer

---------------------------------------------------------------------------
(* The reload: reloadConfig, as far as trace capture takes part in it.     *)

\* prepareTraceEnable decides whether a writer has to be made first.
PrepareEnable ==
    /\ rl = "idle" /\ reloads < MaxReloads
    /\ reloads' = reloads + 1
    /\ target' \in Policies
    /\ rl' = IF /\ target'.enabled /\ ~policy.enabled
                /\ traceWriter = None /\ ~stopped
             THEN "prepare" ELSE "publish"
    /\ other' = None
    /\ UNCHANGED <<gateway, memory, writers, request, invalid, due, opener, others,
                   revoked, lockedOut, faults, sweeps>>

\* It makes it under traceOpenMu, or the whole reload is rejected.
Prepare ==
    /\ rl = "prepare"
    /\ openMu = {}
    /\ \/ \E w \in Writers : Create(w, target) /\ other' = w /\ rl' = "publish"
       \/ CreateFails /\ rl' = "idle" /\ UNCHANGED other
    /\ UNCHANGED <<gateway, memory, request, target, invalid, due, opener, others,
                   revoked, reloads, sweeps>>

\* setRuntimeConfig.
Publish ==
    /\ rl = "publish"
    /\ config' = target
    /\ rl' = IF other = None THEN "reconcile" ELSE "install"
    /\ UNCHANGED <<policy, generation, transition, traceWriter, closing, stopped, memory,
                   writers, request, target, other, invalid, due, opener, others, history>>

\* installPreparedTraceEnable.
InstallPrepared ==
    /\ rl = "install"
    /\ generation' = generation + 1
    /\ transition' = transition + 1
    /\ Consent(target)
    /\ traceWriter' = other
    /\ other' = None
    /\ rl' = "reconcile"
    /\ UNCHANGED <<config, closing, stopped, memory, writers, request, target, invalid,
                   due, opener, others, lockedOut, reloads, faults, sweeps>>

ConsentChanged == policy.enabled # target.enabled \/ policy.clients # target.clients
WriterChanged  == policy.days # target.days

\* The critical section of reconcileTraceCapture: the new policy, a new
\* generation if consent changed, and the writer out of the way if it must.
Reconcile ==
    /\ rl = "reconcile"
    /\ transition' = transition + (IF ConsentChanged \/ WriterChanged THEN 1 ELSE 0)
    /\ generation' = generation + (IF ConsentChanged THEN 1 ELSE 0)
    /\ invalid' = IF ConsentChanged THEN captures ELSE {}
    /\ Consent(target)
    /\ other' = IF ~target.enabled \/ WriterChanged THEN traceWriter ELSE None
    /\ traceWriter' = IF other' = None THEN traceWriter ELSE None
    /\ closing' = (closing \/ other' # None)
    /\ opening' = [opening EXCEPT ![Reload] =
           IF policy'.enabled /\ traceWriter' = None /\ ~stopped /\ ~closing'
           THEN "wanted" ELSE "no"]
    /\ expect' = [expect EXCEPT ![Reload] = transition']
    /\ rl' = "invalidate"
    /\ UNCHANGED <<config, stopped, memory, writers, request, target, due, openMu,
                   using, made, others, lockedOut, reloads, faults, sweeps>>

\* invalidateConsent of one capture, under its mutex: a finalized one is left alone.
Invalidate ==
    /\ rl = "invalidate" /\ due = 0
    /\ \E r \in invalid :
        /\ invalid' = invalid \ {r}
        /\ IF pc[r] = "capturing"
           THEN /\ due' = held[r].request + held[r].response
                /\ held' = [held EXCEPT ![r] = Nothing]
                /\ capturing' = [capturing EXCEPT ![r] = FALSE]
           ELSE UNCHANGED <<due, held, capturing>>
    /\ UNCHANGED <<gateway, memory, writers, pc, admission, owed, rl, target, other,
                   opener, others, history>>

\* and under traceMu.
GiveBackInvalidated ==
    /\ rl = "invalidate" /\ due > 0
    /\ GiveBack(due)
    /\ due' = 0
    /\ UNCHANGED <<gateway, captures, writers, request, rl, target, other, invalid, opener,
                   others, history>>

\* The old writer is closed, or a missing one opened.
Proceed ==
    /\ rl = "invalidate" /\ invalid = {} /\ due = 0
    /\ \/ /\ other # None
          /\ BeginClose(other) /\ rl' = "close"
          /\ UNCHANGED opening
       \/ /\ other = None /\ UNCHANGED writer
          /\ IF opening[Reload] = "wanted"
             THEN opening' = [opening EXCEPT ![Reload] = "read"] /\ rl' = "open"
             ELSE rl' = "idle" /\ UNCHANGED opening
    /\ UNCHANGED <<gateway, memory, days, queue, hand, request, target, other, invalid, due,
                   openMu, using, expect, made, others, history>>

\* The old writer has drained in time.
Closed ==
    /\ rl = "close" /\ Drained(other)
    /\ closing' = FALSE
    /\ other' = None
    /\ IF policy.enabled /\ traceWriter = None /\ ~stopped
       THEN /\ opening' = [opening EXCEPT ![Reload] = "read"]
            /\ expect' = [expect EXCEPT ![Reload] = transition]
            /\ rl' = "open"
       ELSE rl' = "idle" /\ UNCHANGED <<opening, expect>>
    /\ UNCHANGED <<config, policy, generation, transition, traceWriter, stopped, memory,
                   days, queue, hand, request, target, invalid, due, openMu, using, made,
                   others, history>>

\* It has not: a goroutine of its own will see to it.
GiveUpClosing ==
    /\ rl = "close" /\ GaveUp(other)
    /\ closing' = TRUE
    /\ finishing' = [finishing EXCEPT ![other] = "waiting"]
    /\ other' = None
    /\ rl' = "idle"
    /\ UNCHANGED <<config, policy, generation, transition, traceWriter, stopped, memory,
                   days, queue, hand, request, target, invalid, due, opener, shutting,
                   last, sweeping, history>>

\* Variant: the flag is reset and that is all.
FinishQuietly(w) ==
    /\ finishing[w] = "waiting" /\ writer[w] = "done"
    /\ closing' = FALSE
    /\ finishing' = [finishing EXCEPT ![w] = "no"]
    /\ UNCHANGED <<config, policy, generation, transition, traceWriter, stopped, memory,
                   writers, request, reload, opener, shutting, last, sweeping, history>>

\* finishTraceWriterTransition.
Finish(w) ==
    /\ finishing[w] = "waiting" /\ writer[w] = "done"
    /\ closing' = FALSE
    /\ finishing' = [finishing EXCEPT ![w] = "no"]
    /\ IF policy.enabled /\ traceWriter = None /\ ~stopped
       THEN /\ opening' = [opening EXCEPT ![w] = "read"]
            /\ expect' = [expect EXCEPT ![w] = transition]
       ELSE UNCHANGED <<opening, expect>>
    /\ UNCHANGED <<config, policy, generation, transition, traceWriter, stopped, memory,
                   writers, request, reload, openMu, using, made, shutting, last, sweeping, history>>

---------------------------------------------------------------------------
(* openTraceWriter, by the reload or by such a goroutine.                  *)

\* The caller reads the config,
ReadConfig(a) ==
    /\ opening[a] = "read"
    /\ using' = [using EXCEPT ![a] = config]
    /\ opening' = [opening EXCEPT ![a] = "create"]
    /\ UNCHANGED <<gateway, memory, writers, request, reload, openMu, expect, made, others, history>>

\* Its locals end with it.
OpenEnds(a) ==
    /\ opening' = [opening EXCEPT ![a] = "no"]
    /\ using' = [using EXCEPT ![a] = Off]
    /\ expect' = [expect EXCEPT ![a] = 0]
    /\ made' = [made EXCEPT ![a] = None]
    /\ rl' = IF a = Reload THEN "idle" ELSE rl

\* and makes a writer under traceOpenMu,
OpenCreate(a) ==
    /\ opening[a] = "create"
    /\ openMu = {}
    /\ \/ \E w \in Writers :
            /\ Create(w, using[a])
            /\ made' = [made EXCEPT ![a] = w]
            /\ openMu' = {a}
            /\ opening' = [opening EXCEPT ![a] = "install"]
            /\ UNCHANGED <<rl, using, expect>>
       \/ CreateFails /\ OpenEnds(a) /\ UNCHANGED openMu
    /\ UNCHANGED <<gateway, memory, request, target, other, invalid, due,
                   others, revoked, reloads, sweeps>>

\* Variant: what was to be opened is opened.
StillWantedIfEnabled(a) == ~stopped /\ policy.enabled

StillWanted(a) ==
    /\ ~stopped /\ policy.enabled
    /\ transition = expect[a]
    /\ policy.days = using[a].days /\ policy.clients = using[a].clients

\* which is installed if nothing has changed meanwhile, or closed again.
OpenInstall(a) ==
    /\ opening[a] = "install"
    /\ IF StillWanted(a)
       THEN /\ traceWriter' = made[a]
            /\ openMu' = {}
            /\ OpenEnds(a)
            /\ UNCHANGED writer
       ELSE /\ BeginClose(made[a])
            /\ opening' = [opening EXCEPT ![a] = "discard"]
            /\ UNCHANGED <<traceWriter, openMu, rl, using, expect, made>>
    /\ UNCHANGED <<config, policy, generation, transition, closing, stopped, memory, days,
                   queue, hand, request, target, other, invalid, due, others, history>>

OpenDiscard(a) ==
    /\ opening[a] = "discard"
    /\ \/ Drained(made[a]) /\ UNCHANGED lockedOut
       \/ GaveUp(made[a]) /\ lockedOut' = TRUE
    /\ openMu' = {}
    /\ OpenEnds(a)
    /\ UNCHANGED <<gateway, memory, days, queue, hand, request, target, other, invalid, due,
                   others, revoked, reloads, faults, sweeps>>

Open(a) == ReadConfig(a) \/ OpenCreate(a) \/ OpenInstall(a) \/ OpenDiscard(a)

---------------------------------------------------------------------------
(* Shutdown and the janitor.                                               *)

\* closeTraceCapture, under traceMu,
CloseCapture ==
    /\ shutting = "no"
    /\ stopped' = TRUE
    /\ generation' = generation + 1
    /\ transition' = transition + 1
    /\ traceWriter' = None
    /\ IF traceWriter = None
       THEN shutting' = "done" /\ UNCHANGED <<closing, writer>>
       ELSE /\ closing' = TRUE
            /\ BeginClose(traceWriter)
            /\ shutting' = "closing"
    /\ last' = traceWriter
    /\ UNCHANGED <<config, policy, memory, days, queue, hand, request, reload, opener,
                   finishing, sweeping, history>>

\* and after the wait for the writer.
CaptureClosed ==
    /\ shutting = "closing"
    /\ closing' = FALSE
    /\ shutting' = "done"
    /\ Drained(last) \/ GaveUp(last)
    /\ UNCHANGED <<config, policy, generation, transition, traceWriter, stopped, memory,
                   days, queue, hand, request, reload, opener, finishing, last, sweeping,
                   history>>

\* The context of a Close ends before the writer's loop, and aborts it.
Expire(w) ==
    /\ \/ rl = "close" /\ w = other
       \/ shutting = "closing" /\ w = last
       \/ \E a \in Openers : opening[a] = "discard" /\ w = made[a]
    /\ writer[w] = "closing"
    /\ writer' = [writer EXCEPT ![w] = "aborting"]
    /\ UNCHANGED <<gateway, memory, days, queue, hand, request, reload, opener, others, history>>

\* sweepDisabledTraceStore looks,
Sweep ==
    /\ sweeping = "no" /\ sweeps < MaxSweeps
    /\ traceWriter = None
    /\ sweeps' = sweeps + 1
    /\ sweeping' = "looked"
    /\ UNCHANGED <<gateway, memory, writers, request, reload, opener, finishing, shutting, last,
                   revoked, lockedOut, reloads, faults>>

\* and prunes the store under its lock, if that is free.
SweepStore ==
    /\ sweeping # "no"
    /\ sweeping' = IF sweeping = "looked" /\ LockedBy = {} THEN "holding" ELSE "no"
    /\ UNCHANGED <<gateway, memory, writers, request, reload, opener, finishing, shutting, last, history>>

---------------------------------------------------------------------------
Handle(r) == Begin(r) \/ PassBy(r) \/ Observe(r) \/ Finalize(r) \/ Submit(r)

Reloading ==
    \/ Prepare \/ Publish \/ InstallPrepared \/ Reconcile
    \/ Invalidate \/ GiveBackInvalidated \/ Proceed \/ Closed \/ GiveUpClosing
    \/ Open(Reload)

Next ==
    \/ \E r \in Requests : Arrive(r) \/ Handle(r)
    \/ PrepareEnable \/ Reloading
    \/ \E w \in Writers : Run(w) \/ Expire(w) \/ Finish(w) \/ Open(w)
    \/ CloseCapture \/ CaptureClosed
    \/ Sweep \/ SweepStore

GatewayType ==
    /\ config \in Policies /\ policy \in Policies
    /\ generation \in Nat \ {0} /\ transition \in Nat
    /\ traceWriter \in Writers \cup {None}
    /\ closing \in BOOLEAN /\ stopped \in BOOLEAN

MemoryType ==
    captures \subseteq Requests /\ reserved \in 0..MemoryLimit

WritersType ==
    /\ writer \in [Writers -> {"none", "open", "closing", "aborting", "done"}]
    /\ days \in [Writers -> Nat]
    /\ queue \in [Writers -> SUBSET Requests] /\ hand \in [Writers -> SUBSET Requests]

RequestType ==
    /\ pc \in [Requests -> {"idle", "reading", "capturing", "finalizing", "done"}]
    /\ admission \in [Requests -> Nat]
    /\ held \in [Requests -> [request : 0..1, response : 0..MaxBody]]
    /\ capturing \in [Requests -> BOOLEAN]
    /\ owed \in [Requests -> 0..(MaxBody + 1)]

ReloadType ==
    /\ rl \in {"idle", "prepare", "publish", "install", "reconcile", "invalidate", "close", "open"}
    /\ target \in (IF rl = "idle" THEN Policies \cup {Off} ELSE Policies)
    /\ other \in Writers \cup {None}
    /\ invalid \subseteq Requests /\ due \in Nat

OpenerType ==
    /\ openMu = {} \/ \E a \in Openers : openMu = {a}
    /\ opening \in [Openers -> {"no", "wanted", "read", "create", "install", "discard"}]
    /\ using \in [Openers -> Policies \cup {Off}]
    /\ expect \in [Openers -> Nat] /\ made \in [Openers -> Writers \cup {None}]

OthersType ==
    /\ finishing \in [Writers -> {"no", "waiting"}]
    /\ shutting \in {"no", "closing", "done"} /\ last \in Writers \cup {None}
    /\ sweeping \in {"no", "looked", "holding"}

HistoryType ==
    /\ revoked \subseteq Requests /\ lockedOut \in BOOLEAN
    /\ reloads \in 0..MaxReloads /\ faults \in 0..MaxFaults /\ sweeps \in 0..MaxSweeps

TypeOK ==
    /\ GatewayType /\ MemoryType /\ WritersType /\ RequestType
    /\ ReloadType /\ OpenerType /\ OthersType /\ HistoryType

\* Goroutines are scheduled and a write to the store ends, sooner or later.
Fairness ==
    /\ \A r \in Requests : WF_vars(Handle(r))
    /\ WF_vars(Reloading)
    /\ \A w \in Writers : WF_vars(Run(w)) /\ WF_vars(Finish(w)) /\ WF_vars(Open(w))
    /\ WF_vars(SweepStore)

Spec == Init /\ [][Next]_vars /\ Fairness

---------------------------------------------------------------------------
\* What a writer is handed was consented to without a gap, from the moment
\* its request came: an allowlist withdrawn and restored in between is enough
\* to keep it out (traceGeneration; consentChanged in reconcileTraceCapture).
ConsentThroughout ==
    [][\A w \in Writers : (queue'[w] \ queue[w]) \cap revoked' = {}]_vars

\* Each unit the budget owes to a request is a pair of the request and a number.
Finalized == {r \in Requests : pc[r] = "finalizing"}
Taken     == UNION {queue[w] \cup hand[w] : w \in Writers}
UnitsOf   == [r \in Requests |->
    held[r].request + held[r].response + (IF r \in Finalized \cup Taken THEN owed[r] ELSE 0)]
Units(n)  == UNION {{r} \X (1..n[r]) : r \in Requests}

\* The byte budget is what captures hold, what the reload is about to give
\* back, and what somebody still has to release for a finalized trace: its
\* handler, or the writer that took it. So no unit is lost or released twice,
\* and the clamp at zero of every release hides no error (traceReservedBytes;
\* EnqueueWithRelease: a rejected enqueue does not take ownership).
MemoryAccounted == reserved = due + Cardinality(Units(UnitsOf))

\* New requests are captured by a writer that accepts, under a policy that
\* is enabled and asks for the retention the writer has, whatever reload and
\* reopening goroutine installed it last (openTraceWriter, reconcileTraceCapture).
InstalledWriterFits ==
    traceWriter # None =>
        /\ writer[traceWriter] = "open"
        /\ policy.enabled /\ days[traceWriter] = policy.days

\* A writer that holds the store open is the installed one or somebody is
\* about to install or close it: none is lost with its lock, which would keep
\* every later writer out.
NoWriterLost ==
    \A w \in Writers : writer[w] = "open" =>
        \/ w = traceWriter
        \/ w = other /\ rl \in {"publish", "install", "invalidate"}
        \/ \E a \in Openers : opening[a] = "install" /\ w = made[a]

\* While capture stays enabled a writer comes to be installed, however the
\* closing of the old one and the opening of the new one were interleaved
\* with reloads (traceClosing, finishTraceWriterTransition).
EnabledGetsWriter ==
    []<>(traceWriter # None \/ ~policy.enabled \/ stopped \/ lockedOut)

\* Once every request has been answered the whole budget comes back, whether
\* its trace was written, rejected or dropped (EnqueueWithRelease: the release
\* runs exactly once).
BudgetReturns ==
    (\A r \in Requests : pc[r] = "done") ~> (reserved = 0)

\* The writer in use is the right one and no other is left behind.
WritersSound == InstalledWriterFits /\ NoWriterLost
=============================================================================
