--------------------------- MODULE FallbackLadder ---------------------------
(***************************************************************************)
(* Fallback of one client of the router: a request is tried at Baseten     *)
(* and, when that fails in a way its plan and policy allow, at the native  *)
(* provider.  Failures start a cooldown that all requests of the client    *)
(* share: for thirty seconds they go to the native provider at once.  The  *)
(* cooldown keeps what triggered it, so that a reload which disables a     *)
(* status class ends the cooldowns of that class.                          *)
(*                                                                         *)
(* Source: gateway/cmd/gateway/gateway.go 2308-2543, 2928-2977, 3087-3437, *)
(* 3724-4112; responses_compatibility.go 36-86; multimodal_fallback.go.    *)
(***************************************************************************)
EXTENDS Naturals

CONSTANTS
    Reqs,          \* requests of the client
    MaxUpFlips,    \* bound: changes of the condition of Baseten
    MaxPolicies    \* bound: reloads that change the policy

ASSUME LadderBounds == MaxUpFlips \in Nat /\ MaxPolicies \in Nat

Statuses == {"http_429", "http_5xx"}
Ticks == 2                     \* the thirty seconds, in ticks of the clock
Trips == Statuses \cup {"transport_error", "ttft_timeout"}

VARIABLES
    baseten,    \* condition of Baseten
    policy,     \* the status classes the active config lets fall back
    cooldown,   \* fallbackUntil of the client: its trigger while it runs
    req,        \* requests
    upFlips, policies,
    recent      \* history: per trigger, how long it still counts

ladderVars == <<baseten, policy, cooldown, req, upFlips, policies, recent>>

NoReq == [at |-> "new", plan |-> "none", policy |-> {}, gone |-> FALSE, why |-> "none"]

Requests == [at : {"new", "baseten", "native"},
             plan : {"none", "status_only", "legacy"},
             policy : SUBSET Statuses, gone : BOOLEAN, why : {"none", "cooldown"}]

ProviderType ==
    /\ baseten \in Trips \cup {"ok", "no_image"} /\ upFlips \in 0 .. MaxUpFlips
    /\ policy \subseteq Statuses /\ policies \in 0 .. MaxPolicies
CooldownType ==
    /\ cooldown \in Trips \cup {"none"} /\ recent \in [Trips -> 0 .. Ticks]
    /\ cooldown = "none" <=> \A t \in Trips : recent[t] = 0

LadderTypeOK == ProviderType /\ CooldownType /\ req \in [Reqs -> Requests]

LadderInit ==
    /\ baseten \in Trips \cup {"ok", "no_image"}
    /\ policy = Statuses
    /\ cooldown = "none" /\ recent = [t \in Trips |-> 0]
    /\ req = [r \in Reqs |-> NoReq]
    /\ upFlips = 0 /\ policies = 0

(***************************************************************************)
(* What may fall back.  resolveFallbackPlan: a request for a native model  *)
(* may fall back for every reason, an explicitly chosen Baseten model only *)
(* for a failed status, a client without native access never.              *)
(***************************************************************************)
Allowed(plan) ==
    CASE plan = "legacy" -> Trips \cup {"auth_unavailable", "image_input_unsupported"}
      [] plan = "status_only" -> Statuses
      [] OTHER -> {}

StatusEnabled(p, t) == t \in Statuses => t \in p

(* cooldownEligible: the trigger that is on record must be one this        *)
(* request may fall back for, and a status class its policy enables.       *)
(* Variant: the plan of the request is not asked.                          *)
CooldownEligibleByPolicy(r) == cooldown # "none" /\ StatusEnabled(r.policy, cooldown)
CooldownEligible(r) == cooldown \in Allowed(r.plan) /\ StatusEnabled(r.policy, cooldown)

(* Variant: the time is not set.                                           *)
TripUntimed(t) == cooldown' = t /\ UNCHANGED recent

(* tripFallback replaces what was on record.                               *)
Trip(t) ==
    /\ cooldown' = t
    /\ recent' = [recent EXCEPT ![t] = Ticks]

(***************************************************************************)
(* resolveAttempts: the first attempt.  A primary that cannot be built for *)
(* want of a login or for an image goes to the native provider alone, when *)
(* the plan allows it; an eligible cooldown sends the request there too.   *)
(***************************************************************************)
Resolve(r, primary) ==
    CASE primary = "ok" /\ ~CooldownEligible(r) -> [r EXCEPT !.at = "baseten"]
      [] primary = "ok" /\ CooldownEligible(r) ->
            [r EXCEPT !.at = "native", !.why = "cooldown", !.policy = {}]
      [] primary # "ok" /\ r.plan = "legacy" ->
            [NoReq EXCEPT !.at = "native"]
      [] OTHER -> NoReq      \* refused

(* Variant: a request that a cooldown diverts starts it anew.              *)
ArrivalExtends(r) ==
    IF req'[r].why = "cooldown" THEN Trip(cooldown) ELSE UNCHANGED <<cooldown, recent>>
ArrivalLeavesCooldown(r) == UNCHANGED <<cooldown, recent>>

(* A request keeps the policy of the client snapshot it was picked with.   *)
Arrive(r) ==
    /\ req[r].at = "new"
    /\ \E plan \in {"none", "status_only", "legacy"},
          primary \in {"ok", "auth_unavailable", "image_input_unsupported"} :
          req' = [req EXCEPT ![r] =
                    Resolve([NoReq EXCEPT !.plan = plan, !.policy = policy], primary)]
    /\ ArrivalLeavesCooldown(r)
    /\ UNCHANGED <<baseten, policy, upFlips, policies>>

(* The harness goes away; calls to the providers are canceled.             *)
HangUp(r) ==
    /\ req[r].at \in {"baseten", "native"} /\ ~req[r].gone
    /\ req' = [req EXCEPT ![r].gone = TRUE]
    /\ UNCHANGED <<baseten, policy, cooldown, upFlips, policies, recent>>

\* Answered, refused or given up: the place is free for another request.
Ends(r) == req' = [req EXCEPT ![r] = NoReq]
Quiet == UNCHANGED <<baseten, policy, cooldown, upFlips, policies, recent>>

FallsBack(r) ==
    /\ req' = [req EXCEPT ![r] = [NoReq EXCEPT !.at = "native", !.gone = req[r].gone]]
    /\ UNCHANGED <<baseten, policy, upFlips, policies>>

(***************************************************************************)
(* streamForward, the attempt at Baseten.                                  *)
(***************************************************************************)
AtBaseten(r) == req[r].at = "baseten"

(* A usable answer, also a refusal of another kind, is relayed.            *)
BasetenAnswers(r) ==
    /\ AtBaseten(r) /\ ~req[r].gone
    /\ \/ baseten = "ok"
       \/ baseten = "no_image" /\ "image_input_unsupported" \notin Allowed(req[r].plan)
       \/ /\ baseten \in Statuses
          /\ baseten \notin Allowed(req[r].plan) \cap req[r].policy
    /\ Ends(r) /\ Quiet

(* A 400 that says images are unsupported falls back without a cooldown.   *)
BasetenLacksImages(r) ==
    /\ AtBaseten(r) /\ ~req[r].gone /\ baseten = "no_image"
    /\ "image_input_unsupported" \in Allowed(req[r].plan)
    /\ FallsBack(r) /\ UNCHANGED <<cooldown, recent>>

BasetenRefuses(r) ==
    /\ AtBaseten(r) /\ baseten \in Statuses
    /\ baseten \in Allowed(req[r].plan) \cap req[r].policy
    /\ FallsBack(r) /\ Trip(baseten)

(* A call that fails.  When the harness has gone away that says nothing    *)
(* about Baseten: the request just ends.                                   *)
CallFails(r) == baseten = "transport_error" \/ req[r].gone

(* Variant: a canceled call counts as a failure of Baseten.                *)
GoneUnnoticed(r) == FALSE
Gone(r) == req[r].gone

BasetenFails(r) ==
    /\ AtBaseten(r) /\ CallFails(r)
    /\ IF ~Gone(r) /\ "transport_error" \in Allowed(req[r].plan)
         THEN FallsBack(r) /\ Trip("transport_error")
         ELSE Ends(r) /\ Quiet

(* No first byte before the deadline: the attempt is given up, and a byte  *)
(* that comes with the cancellation is dropped.  This path does not look   *)
(* at the harness.                                                         *)
BasetenSilent(r) ==
    /\ AtBaseten(r) /\ baseten = "ttft_timeout"
    /\ IF "ttft_timeout" \in Allowed(req[r].plan)
         THEN FallsBack(r) /\ Trip("ttft_timeout")
         ELSE Ends(r) /\ Quiet

(* A Baseten that is slow to answer may still answer in time.              *)
BasetenJustInTime(r) ==
    /\ AtBaseten(r) /\ baseten = "ttft_timeout" /\ ~req[r].gone
    /\ Ends(r) /\ Quiet

(* The last attempt: an answer is relayed, a failure is reported.          *)
NativeEnds(r) ==
    /\ req[r].at = "native"
    /\ Ends(r) /\ Quiet

(***************************************************************************)
(* The providers, the clock and the reload.                                *)
(***************************************************************************)
ProviderChanges ==
    /\ upFlips < MaxUpFlips /\ upFlips' = upFlips + 1
    /\ baseten' \in (Trips \cup {"ok", "no_image"}) \ {baseten}
    /\ UNCHANGED <<policy, cooldown, req, policies, recent>>

(* A tick: a trigger counts for thirty seconds, and the cooldown runs for  *)
(* thirty seconds from the last one.                                       *)
TimePasses ==
    /\ \E t \in Trips : recent[t] > 0
    /\ recent' = [t \in Trips |-> IF recent[t] = 0 THEN 0 ELSE recent[t] - 1]
    /\ cooldown' = IF recent'[cooldown] = 0 THEN "none" ELSE cooldown
    /\ UNCHANGED <<baseten, policy, req, upFlips, policies>>

PolicyReloaded ==
    /\ policies < MaxPolicies /\ policies' = policies + 1
    /\ policy' \in SUBSET Statuses \ {policy}
    /\ UNCHANGED <<baseten, cooldown, req, upFlips, recent>>

Handle(r) ==
    \/ BasetenAnswers(r) \/ BasetenLacksImages(r) \/ BasetenRefuses(r)
    \/ BasetenFails(r) \/ BasetenSilent(r) \/ BasetenJustInTime(r) \/ NativeEnds(r)

LadderNext ==
    \/ \E r \in Reqs :
          \/ Arrive(r) \/ HangUp(r)
          \/ BasetenAnswers(r) \/ BasetenLacksImages(r) \/ BasetenRefuses(r)
          \/ BasetenFails(r) \/ BasetenSilent(r) \/ BasetenJustInTime(r) \/ NativeEnds(r)
    \/ ProviderChanges \/ TimePasses \/ PolicyReloaded

(* Calls end, time passes; nobody has to send a request.                   *)
LadderFairness ==
    /\ WF_ladderVars(TimePasses)
    /\ \A r \in Reqs : WF_ladderVars(Handle(r))

LadderSpec == LadderInit /\ [][LadderNext]_ladderVars /\ LadderFairness

(***************************************************************************)
(* Properties.                                                             *)
(***************************************************************************)

(* A request is diverted by a cooldown only for a trigger of the last      *)
(* thirty seconds that it may fall back for itself: an explicitly chosen   *)
(* model is not moved by somebody else's timeout, and a status class that  *)
(* was disabled moves nobody any more (gateway.go:2512-2529, 3319-3333).   *)
DivertedForCause ==
    [][\A r \in Reqs : req'[r].why = "cooldown" /\ req[r].at = "new" =>
          \E t \in Trips : /\ recent[t] > 0 /\ StatusEnabled(policy, t)
                          /\ t \in Allowed(req'[r].plan)]_ladderVars

(* Only a Baseten that fails starts a cooldown: not a harness that hangs   *)
(* up, and not a request whose content Baseten cannot take; they say       *)
(* nothing about unrelated requests (gateway.go:4012-4024, 3962-3996).     *)
OnlyFailuresTrip ==
    [][(\E t \in Trips : recent'[t] > recent[t]) => baseten \in Trips]_ladderVars

(* Requests that are diverted do not keep the cooldown alive: once Baseten *)
(* stays well it ends for good, and requests are tried there again         *)
(* (gateway.go:2308-2312).                                                 *)
CooldownEnds == <>[](baseten = "ok") => <>[](cooldown = "none")

(* Disabling a status class leaves unrelated cooldowns active: a call that *)
(* failed or timed out in the last thirty seconds goes on diverting        *)
(* requests that may fall back for every reason (gateway.go:623-625).      *)
UnrelatedCooldownsStay ==
    [][\A r \in Reqs : req[r].at = "new" /\ req'[r].at = "baseten"
                         /\ req'[r].plan = "legacy" =>
          \A t \in Trips \ Statuses : recent[t] = 0]_ladderVars

(* A cooldown starts for a failure of Baseten only and diverts only what   *)
(* may be diverted for it: the two properties above.                       *)
CooldownsJustified == DivertedForCause /\ OnlyFailuresTrip

=============================================================================
