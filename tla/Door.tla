------------------------------- MODULE Door -------------------------------
(***************************************************************************)
(* One front-door port: a reverse proxy that forwards to the router while  *)
(* it is healthy and to the native upstream while it is tripped.  Source:  *)
(* gateway/internal/door/door.go.                                          *)
(*                                                                         *)
(* Actors are the request handlers (one goroutine per request, ServeHTTP), *)
(* the probe loop, and the environment: the router process, the harnesses  *)
(* that may hang up, the clock that ends the cooldown window.              *)
(*                                                                         *)
(* tripNow is two critical sections under two locks (the trip state, then  *)
(* the registry of pre-header forwards) followed by calls of the copied    *)
(* cancel functions outside any lock; each is a step of its own here.      *)
(***************************************************************************)
EXTENDS Naturals, FiniteSets

CONSTANTS
    Requests,     \* the harness requests that may arrive at this port
    Replayable,   \* those whose body fits MaxReplay
    Native,       \* those whose path is in allowFallback
    Impatient,    \* those whose harness may hang up
    Probe,        \* the probe loop's identity among the actors
    MaxFlips      \* bound: how often the router changes its health

ASSUME RequestsAssumption ==
    /\ Replayable \subseteq Requests
    /\ Native \subseteq Requests
    /\ Impatient \subseteq Requests
    /\ Probe \notin Requests
    /\ MaxFlips \in Nat

Actors == Requests \cup {Probe}

RouterStates == {"up", "unready", "wedged", "down"}
Answering    == {"up", "unready"}    \* serves requests; unready fails /healthz
Dead         == {"wedged", "down"}   \* wedged accepts and never answers

VARIABLES
    router,     \* the router process behind RouterTarget
    flips,      \* health changes so far
    tripped,    \* Door.tripped
    cooling,    \* time.Now() is before Door.trippedUntil
    inflight,   \* Door.inflight: forwards a trip can cancel
    pc,         \* where each actor is in its handler or loop
    cancels,    \* the cancel functions an actor's rescueInflight still holds
    canceled,   \* forwards whose context a trip canceled
    gone,       \* requests whose harness hung up (r.Context() is done)
    via,        \* what served the request
    cut,        \* requests whose response body a trip cut short
    stopping    \* Shutdown was called

trip  == <<tripped, cooling>>
env   == <<router, flips, stopping>>
fate  == <<via, cut>>
vars  == <<env, trip, inflight, pc, cancels, canceled, gone, fate>>

RequestPC == {"idle", "buffering", "forwarding", "answered", "failed",
              "clearing", "erred", "snapshot", "canceling", "relaying",
              "fallback", "done"}
ProbePC   == {"waiting", "sent", "healthy", "unhealthy", "snapshot",
              "canceling", "stopped"}
ViaSet    == {"none", "router", "fallback", "error", "dropped"}

\* The stretch of a handler during which its forward is registered.
Registered == {"forwarding", "answered", "failed"}

Init ==
    /\ router \in RouterStates
    /\ flips = 0
    /\ tripped = FALSE /\ cooling = FALSE
    /\ inflight = {}
    /\ pc = [a \in Actors |-> IF a = Probe THEN "waiting" ELSE "idle"]
    /\ cancels = [a \in Actors |-> {}]
    /\ canceled = {}
    /\ gone = {}
    /\ via = [r \in Requests |-> "none"]
    /\ cut = {}
    /\ stopping = FALSE

Goto(a, l) == pc' = [pc EXCEPT ![a] = l]
ServedBy(r, v) == via' = [via EXCEPT ![r] = v]

---------------------------------------------------------------------------
(* Trip state.                                                             *)

\* skipRouter: inside the cooldown window requests bypass the router.
SkipRouter == tripped /\ cooling

\* Variant: rescue on transitions only.
TripNowOnTransition(a) ==
    /\ tripped' = TRUE
    /\ cooling' = TRUE
    /\ Goto(a, IF tripped THEN "canceling" ELSE "snapshot")

\* The first half of tripNow: every trip, a transition or not, extends the
\* window and goes on to rescueInflight.
TripNow(a) ==
    /\ tripped' = TRUE
    /\ cooling' = TRUE
    /\ Goto(a, "snapshot")

ClearTrip ==
    /\ tripped' = FALSE
    /\ cooling' = FALSE

\* rescueInflight under inflightMu: copy the registered cancel functions.
SnapshotInflight(a) ==
    /\ pc[a] = "snapshot"
    /\ cancels' = [cancels EXCEPT ![a] = inflight]
    /\ Goto(a, "canceling")
    /\ UNCHANGED <<env, trip, inflight, canceled, gone, fate>>

\* rescueInflight after the unlock: call one of the copies.
CancelOne(a) ==
    /\ pc[a] = "canceling"
    /\ \E r \in cancels[a] :
        /\ cancels' = [cancels EXCEPT ![a] = @ \ {r}]
        /\ canceled' = canceled \cup {r}
    /\ UNCHANGED <<env, trip, inflight, pc, gone, fate>>

---------------------------------------------------------------------------
(* The request handler, ServeHTTP.                                         *)

\* The skipRouter test is made once, before the body is read.
Arrive(r) ==
    /\ pc[r] = "idle"
    /\ ~stopping
    /\ Goto(r, IF SkipRouter THEN "fallback" ELSE "buffering")
    /\ UNCHANGED <<env, trip, inflight, cancels, canceled, gone, fate>>

\* io.ReadAll of the body fails when the harness hangs up: a 400, no trip.
BodyReadFails(r) ==
    /\ pc[r] = "buffering"
    /\ r \in gone
    /\ Goto(r, "done")
    /\ ServedBy(r, "error")
    /\ UNCHANGED <<env, trip, inflight, cancels, canceled, gone, cut>>

\* The body is buffered, the forward registered and sent to the router.
StartForward(r) ==
    /\ pc[r] = "buffering"
    /\ inflight' = inflight \cup {r}
    /\ Goto(r, "forwarding")
    /\ UNCHANGED <<env, trip, cancels, canceled, gone, fate>>

\* client.Do returns headers.  A cancellation that arrives with them may
\* lose the race, so a canceled forward can still be answered.
HeadersArrive(r) ==
    /\ pc[r] = "forwarding"
    /\ router \in Answering
    /\ Goto(r, "answered")
    /\ UNCHANGED <<env, trip, inflight, cancels, canceled, gone, fate>>

\* client.Do returns an error: a dead connection or a canceled context.
ForwardFails(r) ==
    /\ pc[r] = "forwarding"
    /\ router = "down" \/ r \in canceled \cup gone
    /\ Goto(r, "failed")
    /\ UNCHANGED <<env, trip, inflight, cancels, canceled, gone, fate>>

\* Variant: a forward that got its headers stays registered.
DropInflightOnError(r) ==
    /\ pc[r] \in {"answered", "failed"}
    /\ inflight' = IF pc[r] = "answered" THEN inflight ELSE inflight \ {r}
    /\ Goto(r, IF pc[r] = "answered" THEN "clearing" ELSE "erred")
    /\ UNCHANGED <<env, trip, cancels, canceled, gone, fate>>

\* dropInflight, on both outcomes.
DropInflight(r) ==
    /\ pc[r] \in {"answered", "failed"}
    /\ inflight' = inflight \ {r}
    /\ Goto(r, IF pc[r] = "answered" THEN "clearing" ELSE "erred")
    /\ UNCHANGED <<env, trip, cancels, canceled, gone, fate>>

\* A harness that hung up is not a router failure.
HarnessWentAway(r) ==
    /\ pc[r] = "erred"
    /\ r \in gone
    /\ Goto(r, "done")
    /\ ServedBy(r, "dropped")
    /\ UNCHANGED <<env, trip, inflight, cancels, canceled, gone, cut>>

\* Variant: every forward error trips, the harness's own hang-up included.
AnyErrorTrips(r) ==
    /\ pc[r] = "erred"
    /\ TripNow(r)
    /\ UNCHANGED <<env, inflight, cancels, canceled, gone, fate>>

\* Any other forward error trips the door, a rescued forward's included.
ForwardErrorTrips(r) ==
    /\ pc[r] = "erred"
    /\ r \notin gone
    /\ TripNow(r)
    /\ UNCHANGED <<env, inflight, cancels, canceled, gone, fate>>

\* rescueInflight returned: replay the buffered body, or 502 without one.
Replay(r) ==
    /\ pc[r] = "canceling"
    /\ cancels[r] = {}
    /\ IF r \in Replayable
       THEN Goto(r, "fallback") /\ UNCHANGED via
       ELSE Goto(r, "done") /\ ServedBy(r, "error")
    /\ UNCHANGED <<env, trip, inflight, cancels, canceled, gone, cut>>

\* Any HTTP response clears the trip; then the body is relayed.
RouterAnswered(r) ==
    /\ pc[r] = "clearing"
    /\ ClearTrip
    /\ Goto(r, "relaying")
    /\ ServedBy(r, "router")
    /\ UNCHANGED <<env, inflight, cancels, canceled, gone, cut>>

\* relay reads to the end of the body, or to an error: the router died, the
\* harness hung up, or the forward's context was canceled.
RelayEnds(r) ==
    /\ pc[r] = "relaying"
    /\ router # "wedged" \/ r \in canceled \cup gone
    /\ \/ UNCHANGED cut
       \/ r \in canceled /\ cut' = cut \cup {r}
    /\ Goto(r, "done")
    /\ UNCHANGED <<env, trip, inflight, cancels, canceled, gone, via>>

\* serveFallback: 502 off the allowlist; else the native upstream answers
\* and its response is relayed, or the forward to it fails.
ServeFallback(r) ==
    /\ pc[r] = "fallback"
    /\ \E v \in {"fallback", "error"} :
        /\ v = "fallback" => r \in Native
        /\ ServedBy(r, v)
    /\ Goto(r, "done")
    /\ UNCHANGED <<env, trip, inflight, cancels, canceled, gone, cut>>

Handle(r) ==
    \/ BodyReadFails(r) \/ StartForward(r) \/ HeadersArrive(r)
    \/ ForwardFails(r) \/ DropInflight(r) \/ HarnessWentAway(r)
    \/ ForwardErrorTrips(r) \/ SnapshotInflight(r) \/ CancelOne(r)
    \/ Replay(r) \/ RouterAnswered(r) \/ RelayEnds(r) \/ ServeFallback(r)

---------------------------------------------------------------------------
(* The probe loop.                                                         *)

\* The ticker fires and the probe asks for /healthz.
ProbeSend ==
    /\ pc[Probe] = "waiting"
    /\ Goto(Probe, "sent")
    /\ UNCHANGED <<env, trip, inflight, cancels, canceled, gone, fate>>

\* Variant: a probe without an answer is no verdict.
ProbeReplyAnswersOnly ==
    /\ pc[Probe] = "sent"
    /\ Goto(Probe, CASE router = "up"      -> "healthy"
                      [] router = "unready" -> "unhealthy"
                      [] OTHER              -> "waiting")
    /\ UNCHANGED <<env, trip, inflight, cancels, canceled, gone, fate>>

\* A 2xx is healthy; another status, an error or the timeout is not.  The
\* verdict is applied later, when the router may have changed again.
ProbeReply ==
    /\ pc[Probe] = "sent"
    /\ Goto(Probe, IF router = "up" THEN "healthy" ELSE "unhealthy")
    /\ UNCHANGED <<env, trip, inflight, cancels, canceled, gone, fate>>

\* Variant: only a served request clears the trip.
ProbeKeepsTrip ==
    /\ pc[Probe] = "healthy"
    /\ Goto(Probe, "waiting")
    /\ UNCHANGED <<env, trip, inflight, cancels, canceled, gone, fate>>

ProbeClears ==
    /\ pc[Probe] = "healthy"
    /\ ClearTrip
    /\ Goto(Probe, "waiting")
    /\ UNCHANGED <<env, inflight, cancels, canceled, gone, fate>>

ProbeTrips ==
    /\ pc[Probe] = "unhealthy"
    /\ TripNow(Probe)
    /\ UNCHANGED <<env, inflight, cancels, canceled, gone, fate>>

ProbeRescued ==
    /\ pc[Probe] = "canceling"
    /\ cancels[Probe] = {}
    /\ Goto(Probe, "waiting")
    /\ UNCHANGED <<env, trip, inflight, cancels, canceled, gone, fate>>

\* Variant: the loop ends where a handler would.
ProbeEndsAsHandler ==
    /\ pc[Probe] = "waiting"
    /\ stopping
    /\ Goto(Probe, "done")
    /\ UNCHANGED <<env, trip, inflight, cancels, canceled, gone, fate>>

\* select on stopProbe; a tick that is ready too may win.
ProbeStops ==
    /\ pc[Probe] = "waiting"
    /\ stopping
    /\ Goto(Probe, "stopped")
    /\ UNCHANGED <<env, trip, inflight, cancels, canceled, gone, fate>>

ProbeLoop ==
    \/ ProbeSend \/ ProbeReply \/ ProbeClears \/ ProbeTrips
    \/ SnapshotInflight(Probe) \/ CancelOne(Probe) \/ ProbeRescued \/ ProbeStops

---------------------------------------------------------------------------
(* The environment.                                                        *)

RouterChanges ==
    /\ flips < MaxFlips
    /\ flips' = flips + 1
    /\ router' \in RouterStates \ {router}
    /\ UNCHANGED <<trip, inflight, pc, cancels, canceled, gone, fate, stopping>>

HarnessHangsUp(r) ==
    /\ pc[r] \notin {"idle", "done"}
    /\ r \in Impatient \ gone
    /\ gone' = gone \cup {r}
    /\ UNCHANGED <<env, trip, inflight, pc, cancels, canceled, fate>>

CooldownExpires ==
    /\ cooling
    /\ cooling' = FALSE
    /\ UNCHANGED <<env, tripped, inflight, pc, cancels, canceled, gone, fate>>

\* Shutdown closes stopProbe and the listener, and lets handlers drain.
Shutdown ==
    /\ ~stopping
    /\ stopping' = TRUE
    /\ UNCHANGED <<router, flips, trip, inflight, pc, cancels, canceled, gone, fate>>

Next ==
    \/ \E r \in Requests : Arrive(r) \/ Handle(r) \/ HarnessHangsUp(r)
    \/ ProbeLoop
    \/ RouterChanges \/ CooldownExpires \/ Shutdown

\* Handlers and the probe loop are goroutines the runtime schedules; a router
\* that answers, and the native upstream, answer in the end.  Nobody has to
\* send a request, hang up, shut the door down or change the router.
Fairness ==
    /\ \A r \in Requests : WF_vars(Handle(r))
    /\ WF_vars(ProbeLoop)

Spec == Init /\ [][Next]_vars /\ Fairness

---------------------------------------------------------------------------
(* Properties.                                                             *)

\* The variables stay in their sets.
TypeOK ==
    /\ router \in RouterStates /\ flips \in 0..MaxFlips
    /\ tripped \in BOOLEAN /\ cooling \in BOOLEAN /\ stopping \in BOOLEAN
    /\ inflight \subseteq Requests /\ canceled \subseteq Requests
    /\ gone \subseteq Requests /\ cut \subseteq Requests
    /\ pc \in [Actors -> RequestPC \cup ProbePC]
    /\ \A r \in Requests : pc[r] \in RequestPC
    /\ pc[Probe] \in ProbePC
    /\ cancels \in [Actors -> SUBSET Requests]
    /\ via \in [Requests -> ViaSet]

\* A port whose router never failed never fails over, whatever the harnesses
\* do: hanging up in the middle of a forward must not trip the door, or one
\* impatient client would send every other one to the native upstream.
NoFailoverWithoutFailure ==
    (flips = 0 /\ router = "up") =>
        /\ ~tripped
        /\ canceled = {}
        /\ \A r \in Requests : via[r] # "fallback"

\* What is true of the registry's promise: a rescue only ever collects
\* forwards that had not been told their headers arrived, so a trip that
\* starts after a body began to stream leaves that body alone.
RescueSparesStreams ==
    [][\A a \in Actors : \A r \in cancels'[a] \ cancels[a] :
            pc[r] \in Registered]_vars

\* The comment on Door.inflight: "a trip can never cut a live response body".
TripNeverCutsBody == cut = {}

\* No forward waits for headers for ever behind a router that stopped
\* answering: even one registered after the trip's rescue is collected by the
\* next failed probe.  (After Shutdown the probe is gone, and it may.)
StuckForwardRescued ==
    \A r \in Requests :
        pc[r] = "forwarding" ~> (pc[r] # "forwarding" \/ stopping)

\* A router that stays dead leaves the door tripped for good: late answers of
\* the past clear it at most once each.
DeadRouterStaysTripped ==
    <>[](router \in Dead) => (<>[]tripped \/ <>stopping)

\* A router that stays healthy gets its traffic back for good: the rescued
\* forwards of an old trip, which trip the door again, run out.
HealthyRouterRecovers ==
    <>[](router = "up") => (<>[]~tripped \/ <>stopping)

\* The door follows the router: both of the above.
DoorFollowsRouter == DeadRouterStaysTripped /\ HealthyRouterRecovers
===========================================================================
