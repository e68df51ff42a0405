-------------------------- MODULE RouteResolution --------------------------
(***************************************************************************)
(* How a client entry of gateway.yaml is checked and resolved, what the    *)
(* listener publishes as its models, and which upstream attempts a request *)
(* becomes (gateway.go 1641-1848, 2614-3733 and 4880-5215, admin.go        *)
(* 222-266, desktop_models.go).  A model id is a word that stands for its  *)
(* class; a slug is the id of a Baseten model.  What happens to the        *)
(* attempts afterwards is FallbackLadder's.                                *)
(***************************************************************************)
EXTENDS Integers, Sequences

CONSTANTS
    MaxRouteEdits,    \* bound on edits of the entry
    MaxDiscoveries    \* bound on lists of models that a harness keeps

ASSUME RouteBounds == MaxRouteEdits \in Nat /\ MaxDiscoveries \in Nat

Slugs == {"s1", "s2", "s3"}
AliasNames == {"alias", "nick", "sonnet"}    \* in the namespace, outside it, a real model
Native == {"sonnet", "mythos"}               \* ids of Anthropic's own; the name of one says its family
Namespace == {"alias", "stale"}              \* InAliasNamespace
Families == {"sonnet"}
NoAlias == ""

\* A requested id.  A desktop id is made from an alias and its slug.
Id(name) == [name |-> name, alias |-> NoAlias, slug |-> "", decorated |-> FALSE]
Decorated(name) == [Id(name) EXCEPT !.decorated = TRUE]
desktopModelID(alias, slug) == [name |-> "desktop", alias |-> alias, slug |-> slug, decorated |-> FALSE]

\* The routing gate, the fallback and its native model, the picker's selection, the pin of the
\* family sonnet, the model of subagents and its switch, and the rest of an entry.
Entries ==
    [client : {"claude-code", "claude-desktop", "codex"}, gate : BOOLEAN, fallback : BOOLEAN,
     nativeFallback : {"", "sonnet", "stale"}, aliases : [AliasNames -> Slugs \cup {""}],
     picker : SUBSET AliasNames, pin : {"", "native", "alias", "stale", "s1"},
     subagent : {"", "alias", "nick", "stale", "sonnet", "s2"}, subagents : {"", "on", "off"},
     default : Slugs \cup {""}, upstream : {"", "openai"}, strip : BOOLEAN]

NoAliases == [a \in AliasNames |-> ""]
ClaudeEntry == [client |-> "claude-code", gate |-> TRUE, fallback |-> TRUE, nativeFallback |-> "",
                aliases |-> [NoAliases EXCEPT !["alias"] = "s1"], picker |-> {}, pin |-> "",
                subagent |-> "", subagents |-> "", default |-> "s3", upstream |-> "", strip |-> FALSE]
DesktopEntry == [ClaudeEntry EXCEPT !.client = "claude-desktop", !.fallback = FALSE, !.picker = {"alias"}]
CodexEntry == [ClaudeEntry EXCEPT !.client = "codex", !.aliases = NoAliases]

Shape(e) == IF e.client = "codex" THEN "openai" ELSE "anthropic"
NativeDisabled(e) == e.client = "claude-desktop"       \* allow_native: false
NativeRoute(e) == Shape(e)
usesAliases(e) == {a \in AliasNames : e.aliases[a] # ""}
SubagentEnabled(e) == e.subagent # "" /\ e.subagents # "off"
globalRoutingOff(e) == ~NativeDisabled(e) /\ ~e.gate
BaseRoute(e) == IF globalRoutingOff(e) THEN NativeRoute(e) ELSE "baseten"

VARIABLES
    file,        \* the entry in gateway.yaml
    live,        \* the entry the listener runs
    families,    \* whether the catalog puts mythos into the family sonnet
    kept,       \* the model list a harness keeps
    lists,       \* lists fetched so far
    listing,     \* a list under way: the entry it is made of
    discovery,   \* desktopModelDiscovery: NoDiscovery or the revision it is of
    call,        \* the last request and what it became
    routeEdits

routeVars == <<file, live, families, kept, lists, listing, discovery, call, routeEdits>>

-----------------------------------------------------------------------------
(* Checking an entry: ValidateRoutingPolicy and resolveFromFile.            *)

\* validateSubagentConfig
SubagentValid(e) ==
    /\ e.subagent # "" \/ e.subagents # "" => Shape(e) = "anthropic"
    /\ e.subagents # "" => e.subagent # ""
    /\ e.subagent \in Namespace => e.subagent \in usesAliases(e)

\* validateModelRoutes
PinsValid(e) ==
    /\ e.pin # "" => Shape(e) = "anthropic"
    /\ e.pin \in Namespace => e.pin \in usesAliases(e)

\* validateModelAliases
AliasesValid(e) ==
    /\ usesAliases(e) # {} => Shape(e) = "anthropic"
    /\ usesAliases(e) \cap Native = {}

\* validateNativePolicy
NativePolicyValid(e) ==
    NativeDisabled(e) => /\ ~e.fallback /\ e.nativeFallback = ""
                         /\ e.subagent = "" /\ e.subagents = "" /\ e.pin = ""

\* ValidateNativeFallbackModel
NativeFallbackValid(e) ==
    e.nativeFallback # "" => /\ e.fallback /\ Shape(e) = "anthropic"
                             /\ e.nativeFallback \notin usesAliases(e) \cup Namespace

\* validateModelPicker
PickerValid(e) == e.picker # {} => Shape(e) = "anthropic" /\ e.picker \subseteq usesAliases(e)

EntryValid(e) ==
    /\ SubagentValid(e) /\ PinsValid(e) /\ AliasesValid(e) /\ NativePolicyValid(e)
    /\ NativeFallbackValid(e) /\ PickerValid(e)
    /\ e.strip => Shape(e) = "openai"
    /\ ~NativeDisabled(e) => e.default # ""

\* upstream_shape is dropped where nothing could use it.
Resolved(e) ==
    IF \/ BaseRoute(e) # "baseten" /\ usesAliases(e) = {}
       \/ Shape(e) = "openai" /\ e.upstream = "anthropic"
    THEN [e EXCEPT !.upstream = ""] ELSE e

-----------------------------------------------------------------------------
(* Attempts.                                                                *)

\* A request: its id, whether a subagent sends it, whether it is a permission check, and what
\* is wrong, of which one thing at a time: the content, the reasoning it asks for, the
\* credential, or a cooldown with its trigger.
Weathers == {"fine", "image", "reasoning", "other", "login", "cooldown status", "cooldown other"}
Senders == {"main", "subagent", "check"}
NoRequest == [id |-> Id(""), from |-> "main", weather |-> "fine"]

Attempt(route, id, model) ==
    [route |-> route, model |-> model, decorated |-> id.decorated, translated |-> FALSE,
     stripped |-> FALSE, only |-> "any", trigger |-> ""]
NoAttempt == Attempt("", Id(""), "")
Built(attempt) == [attempt |-> attempt, failed |-> ""]
Failed(attempt, why) == [attempt |-> attempt, failed |-> why]

\* upstreamShapeFor
upstreamShapeFor(e, route) ==
    CASE route = "baseten" -> IF e.upstream # "" THEN e.upstream ELSE Shape(e)
      [] OTHER             -> route

\* buildAttemptTargetWithSnapshot.  The model of a native attempt is the one in the body,
\* without its decoration unless the body is to be kept as it came.
Build(e, r, id, route, forced, keep) ==
    LET translates == Shape(e) = "anthropic" /\ upstreamShapeFor(e, route) = "openai"
        plain == [Attempt(route, id, IF route # "baseten" THEN id.name
                                     ELSE IF forced # "" THEN forced ELSE e.default)
                     EXCEPT !.decorated = id.decorated /\ route # "baseten" /\ (keep \/ Shape(e) = "openai"),
                            !.translated = translates,
                            !.stripped = (route = "baseten" /\ e.strip)]
    IN IF NativeDisabled(e) /\ route # "baseten" THEN Failed(NoAttempt, "native")
       ELSE IF \/ route = "baseten" /\ r.weather \in {"reasoning", "login"}
               \/ translates /\ r.weather \in {"image", "other"}
       THEN Failed(plain, r.weather)
       ELSE Built(plain)

-----------------------------------------------------------------------------
(* The fallback of a request, fixed before its model is rewritten.          *)

NoPlan == [route |-> "", id |-> Id(""), only |-> "none", missing |-> FALSE, keep |-> FALSE]

IsProtocolNativeModel(e, id) ==
    IF Shape(e) = "anthropic" THEN id.name \in Native
    ELSE id.name \notin Namespace \cup Slugs \cup {"sentinel", "desktop"}

resolveFallbackPlan(e, id) ==
    LET explicit == id.name \in usesAliases(e) \cup Slugs
    IN IF NativeDisabled(e) \/ globalRoutingOff(e) \/ ~e.fallback \/ id.name = ""
          \/ (explicit /\ Shape(e) # "anthropic")
          \/ (~explicit /\ ~IsProtocolNativeModel(e, id))
       THEN NoPlan
       ELSE IF explicit
       THEN [route |-> NativeRoute(e), id |-> Id(e.nativeFallback), only |-> "status",
             missing |-> e.nativeFallback = "", keep |-> FALSE]
       ELSE [route |-> NativeRoute(e), id |-> id, only |-> "any", missing |-> FALSE, keep |-> TRUE]

\* A mutant: the plan is made of the model that a subagent's request was rewritten to.
PlanOfRewritten(e, original, rewritten) == resolveFallbackPlan(e, rewritten)
PlanOf(e, original, rewritten) == resolveFallbackPlan(e, original)

configured(plan) == plan.route # "" /\ ~plan.missing

buildFallbackAttempt(e, r, plan) ==
    LET b == Build(e, r, plan.id, plan.route, "", plan.keep)
    IN [b EXCEPT !.attempt.only = plan.only]

\* cooldownEligible
Cooled(r, attempt) ==
    r.weather = "cooldown status" \/ (r.weather = "cooldown other" /\ attempt.only = "any")

-----------------------------------------------------------------------------
(* The primary of a request.                                                *)

familyOf(id, known) == CASE id.name = "sonnet"            -> "sonnet"
                         [] id.name = "mythos" /\ known   -> "sonnet"
                         [] OTHER                         -> ""

\* modelRoutePinValue
PinTarget(e) == IF e.pin \in AliasNames THEN e.aliases[e.pin] ELSE e.pin

\* resolveNativeModelPolicyWithFamily
NativePolicy(e, id, known) ==
    LET pinned == Shape(e) = "anthropic" /\ e.pin # "" /\ familyOf(id, known) \in Families
    IN CASE globalRoutingOff(e)           -> [route |-> NativeRoute(e), forced |-> ""]
         [] pinned /\ e.pin = "native"    -> [route |-> NativeRoute(e), forced |-> ""]
         [] pinned /\ e.pin # "native"    -> [route |-> "baseten", forced |-> PinTarget(e)]
         [] OTHER                         -> [route |-> "baseten", forced |-> e.default]

\* resolveModelRoutePrimaryWithSnapshot
Primary(e, r, id, known) ==
    LET d == NativePolicy(e, id, known) IN Build(e, r, id, d.route, d.forced, FALSE)

\* ExpectedPrimaryRoute, by which doctor judges a probe.
ExpectedPrimaryRoute(e, id) ==
    IF NativeDisabled(e) THEN "baseten" ELSE NativePolicy(e, id, FALSE).route

Refused(why) == [attempts |-> <<>>, error |-> why]
Served(attempts) == [attempts |-> attempts, error |-> ""]

\* A client without native routing serves only what its picker selects.
Selected(e, id) ==
    {a \in e.picker : /\ e.aliases[a] # ""
                      /\ id \in {Id(a), desktopModelID(a, e.aliases[a])}}

ServeSelected(e, r) ==
    IF Selected(e, r.id) = {} THEN Refused("not selected")
    ELSE LET a == CHOOSE x \in Selected(e, r.id) : TRUE
             b == Build(e, r, r.id, "baseten", e.aliases[a], FALSE)
         IN IF b.failed # "" THEN Refused(b.failed) ELSE Served(<<b.attempt>>)

\* While routing is off, only native models are served, by the native route.
ServeNative(e, r, id) ==
    IF \/ id.name \in usesAliases(e) \cup Namespace \cup Slugs \cup {"desktop"}
       \/ (Shape(e) = "openai" /\ id.name = "sentinel")
    THEN Refused("routing disabled")
    ELSE LET b == Build(e, r, id, NativeRoute(e), "", FALSE)
         IN IF b.failed # "" THEN Refused(b.failed) ELSE Served(<<b.attempt>>)

\* resolveExplicitModelAttemptWithSnapshot: an alias or a slug is the user's choice.
Explicit(e, id) == id.name \in Slugs \/ (Shape(e) = "anthropic" /\ id.name \in usesAliases(e))
ExplicitTarget(e, id) == IF id.name \in Slugs THEN id.name ELSE e.aliases[id.name]

ServeExplicit(e, r, id, plan) ==
    LET b == Build(e, r, id, "baseten", ExplicitTarget(e, id), FALSE)
        f == buildFallbackAttempt(e, r, plan)
    IN IF b.failed # "" THEN Refused(b.failed)
       ELSE IF ~configured(plan) \/ f.failed # "" THEN Served(<<b.attempt>>)
       ELSE IF Cooled(r, f.attempt) THEN Served(<<[f.attempt EXCEPT !.trigger = "cooldown"]>>)
       ELSE Served(<<b.attempt, f.attempt>>)

\* The primary, and behind it or in its place the fallback.
ServePolicy(e, r, id, plan, known) ==
    LET b == Primary(e, r, id, known)
        f == buildFallbackAttempt(e, r, plan)
        alone == IF b.failed = "" THEN Served(<<b.attempt>>) ELSE Refused(b.failed)
        sentinel == Shape(e) = "openai" /\ id.name = "sentinel"
    IN IF b.failed \in {"native", "other"} THEN Refused(b.failed)
       ELSE IF sentinel \/ ~configured(plan) \/ f.failed # "" THEN alone
       ELSE IF b.failed = "" /\ plan.route = b.attempt.route THEN alone
       ELSE IF b.failed = "" /\ Cooled(r, f.attempt)
       THEN Served(<<[f.attempt EXCEPT !.trigger = "cooldown"]>>)
       ELSE IF b.failed = "" THEN Served(<<b.attempt, f.attempt>>)
       ELSE IF f.attempt.only = "any" THEN Served(<<[f.attempt EXCEPT !.trigger = b.failed]>>)
       ELSE alone

\* A mutant: an id of the namespace that no alias has goes to the default model.
LadderWithoutNamespace(e, r, id, plan, known) ==
    IF NativeDisabled(e) THEN ServeSelected(e, r)
    ELSE IF globalRoutingOff(e) THEN ServeNative(e, r, id)
    ELSE IF Explicit(e, id) THEN ServeExplicit(e, r, id, plan)
    ELSE ServePolicy(e, r, id, plan, known)

\* resolveAttemptsLadderWithPlan
Ladder(e, r, id, plan, known) ==
    IF NativeDisabled(e) THEN ServeSelected(e, r)
    ELSE IF globalRoutingOff(e) THEN ServeNative(e, r, id)
    ELSE IF Explicit(e, id) THEN ServeExplicit(e, r, id, plan)
    ELSE IF Shape(e) = "anthropic" /\ id.name \in (Namespace \cup {"desktop"}) \ usesAliases(e)
    THEN Refused("unknown alias")
    ELSE ServePolicy(e, r, id, plan, known)

\* resolveAttemptsWithRequestedReasoning
Attempts(e, r, known) ==
    LET rewritten == IF /\ Shape(e) = "anthropic" /\ ~NativeDisabled(e) /\ ~globalRoutingOff(e)
                        /\ SubagentEnabled(e) /\ r.from = "subagent"
                     THEN Id(e.subagent) ELSE r.id
    IN IF r.from = "check" /\ ~NativeDisabled(e)
       THEN LET b == Build(e, r, r.id, "anthropic", "", FALSE)
            IN IF b.failed # "" THEN Refused(b.failed) ELSE Served(<<b.attempt>>)
       ELSE Ladder(e, r, rewritten, PlanOf(e, r.id, rewritten), known)

-----------------------------------------------------------------------------
(* The list of models, and what the status reports of a family.             *)

\* aliasModelsGet
Published(e, natives) ==
    IF NativeDisabled(e)
    THEN {desktopModelID(a, e.aliases[a]) : a \in {x \in e.picker : e.aliases[x] # ""}}
    ELSE {Id(a) : a \in usesAliases(e)} \cup {Id(n) : n \in natives}

\* DesktopModelRevision
Revision(e) == [a \in e.picker |-> e.aliases[a]]

\* computeFamilies, for the one family that can be pinned.
FamilyStatus(e) ==
    IF globalRoutingOff(e) THEN [route |-> NativeRoute(e), model |-> ""]
    ELSE LET d == NativePolicy(e, Id("sonnet"), FALSE) IN [route |-> d.route, model |-> d.forced]

-----------------------------------------------------------------------------
(* The actions.                                                             *)

NoEntry == [ClaudeEntry EXCEPT !.default = ""]
NoDiscovery == [of |-> "nothing", revision |-> Revision(CodexEntry)]
\* A request is resolved in one step, and looked at before anything else happens.
NoCall == [of |-> NoRequest, known |-> FALSE, became |-> Refused("")]

NoCallOpen == call = NoCall

RouteTypeOK ==
    /\ file \in Entries /\ live \in Entries /\ listing \in Entries
    /\ families \in BOOLEAN /\ lists \in 0..MaxDiscoveries /\ routeEdits \in 0..MaxRouteEdits
    /\ discovery.of \in {"nothing", "a list"}
    /\ \A a \in DOMAIN call.became.attempts :
           call.became.attempts[a].route \in {"baseten", "anthropic", "openai"}
    /\ Len(call.became.attempts) <= 2 /\ (Len(call.became.attempts) = 0 <=> call.became.error # "" \/ call = NoCall)

RouteInit ==
    /\ file \in {ClaudeEntry, DesktopEntry, CodexEntry}
    /\ live = file /\ families \in BOOLEAN
    /\ kept = {} /\ lists = 0 /\ listing = NoEntry
    /\ discovery = NoDiscovery
    /\ call = NoCall /\ routeEdits = 0

WithAlias(a, s) == [file EXCEPT !.aliases[a] = s]
AliasEdits  == UNION {{WithAlias(a, s) : s \in {"", "s1", "s2"}} : a \in AliasNames}
SwitchEdits ==
    {[file EXCEPT !.gate = ~@], [file EXCEPT !.fallback = ~@], [file EXCEPT !.strip = ~@], [file EXCEPT !.default = ""]}
ChoiceEdits ==
    {[file EXCEPT !.nativeFallback = n] : n \in {"", "sonnet", "stale"}}
    \cup {[file EXCEPT !.picker = p] : p \in SUBSET {"alias", "nick"}}
    \cup {[file EXCEPT !.pin = p] : p \in {"", "native", "alias", "stale", "s1"}}
    \cup {[file EXCEPT !.subagent = s] : s \in {"", "alias", "nick", "stale", "sonnet", "s2"}}
    \cup {[file EXCEPT !.subagents = s] : s \in {"", "on", "off"}}
    \cup {[file EXCEPT !.upstream = u] : u \in {"", "openai"}}
Edited == AliasEdits \cup SwitchEdits \cup ChoiceEdits

EditEntry ==
    /\ NoCallOpen /\ routeEdits < MaxRouteEdits /\ file' \in Edited \ {file} /\ routeEdits' = routeEdits + 1
    /\ UNCHANGED <<live, families, kept, lists, listing, discovery, call>>

\* A reload takes an entry that is valid, and starts a generation without a discovery.
ReloadEntry ==
    /\ NoCallOpen /\ EntryValid(file) /\ Resolved(file) # live
    /\ live' = Resolved(file) /\ discovery' = NoDiscovery
    /\ UNCHANGED <<file, families, kept, lists, listing, call, routeEdits>>

\* A harness asks for the models: the list is made of the entry of that moment, ...
ListModels ==
    /\ NoCallOpen /\ lists < MaxDiscoveries /\ listing = NoEntry /\ Shape(live) = "anthropic"
    /\ listing' = live /\ lists' = lists + 1
    /\ UNCHANGED <<file, live, families, kept, discovery, call, routeEdits>>

\* A mutant: a list is recorded although its listener was replaced meanwhile.
RecordedAlways == TRUE
\* recordDesktopModelDiscovery: only for the listener that still serves.
Recorded == listing = live

\* ... and sent and recorded later.
ListServed ==
    /\ NoCallOpen /\ listing # NoEntry
    /\ \E natives \in {{}, Native} : kept' = Published(listing, natives)
    /\ discovery' = IF listing.client = "claude-desktop" /\ Recorded
                    THEN [of |-> "a list", revision |-> Revision(listing)] ELSE discovery
    /\ listing' = NoEntry
    /\ UNCHANGED <<file, live, families, lists, call, routeEdits>>

\* The harness picks from the list it keeps, or the user types an id.
Typed == {Id(n) : n \in {"sonnet", "mythos", "alias", "nick", "stale", "s1", "sentinel", "gpt"}}
         \cup {Decorated("sonnet")}

\* Requests of an entry that is about to be replaced are those of the time before the edit.
Request ==
    /\ NoCallOpen /\ listing = NoEntry /\ Resolved(file) = live
    /\ \E id \in Typed \cup kept, from \in Senders, weather \in Weathers :
           /\ from # "main" => Shape(live) = "anthropic"
           /\ LET r == [id |-> id, from |-> from, weather |-> weather]
              IN call' = [of |-> r, known |-> families, became |-> Attempts(live, r, families)]
    /\ UNCHANGED <<file, live, families, kept, lists, listing, discovery, routeEdits>>

Answered ==
    /\ call # NoCall /\ call' = NoCall
    /\ UNCHANGED <<file, live, families, kept, lists, listing, discovery, routeEdits>>

RouteNext == EditEntry \/ ReloadEntry \/ ListModels \/ ListServed \/ Request \/ Answered

RouteSpec == RouteInit /\ [][RouteNext]_routeVars
-----------------------------------------------------------------------------
(* What the resolution promises.                                            *)

Tries == call.became.attempts
Asked == call.of

\* The native provider is sent the model the harness asked for, the one the user configured for
\* it, or the native model of the subagents; never an alias, a slug or a stand-in.
NativeSeesNative ==
    \A i \in DOMAIN Tries : Tries[i].route # "baseten" =>
        /\ ~NativeDisabled(live)
        /\ Asked.from # "check" => /\ Tries[i].model \notin usesAliases(live) \cup Slugs \cup Namespace \cup {"desktop"}
                                   /\ Shape(live) = "openai" => Tries[i].model # "sentinel"
        /\ i = 2 \/ Tries[i].trigger # "" =>
               Tries[i].model = (IF Explicit(live, Asked.id) THEN live.nativeFallback ELSE Asked.id.name)

\* A Baseten model that was asked for by alias or slug is served, or refused, and another
\* provider gets the request only after Baseten has answered with a status, or did just now.
ChoiceKept ==
    (Asked.from = "main" /\ Tries # <<>> /\ ~NativeDisabled(live) /\ Explicit(live, Asked.id)) =>
        /\ \/ Tries[1].route = "baseten" /\ Tries[1].model = ExplicitTarget(live, Asked.id)
           \/ Tries[1].trigger = "cooldown" /\ Asked.weather = "cooldown status"
        /\ Len(Tries) = 2 => Tries[2].only = "status"

\* An id of the namespace, as a harness may keep it in an old list, is served by the alias of
\* that name or refused; a desktop id by the slug it was made of or refused.
OldPickKept ==
    (Shape(live) = "anthropic" /\ Asked.from = "main" /\ Asked.id.name \in Namespace \cup {"desktop"}) =>
        \A i \in DOMAIN Tries : Tries[i].route = "baseten" =>
            Tries[i].model = IF Asked.id.name = "desktop" THEN Asked.id.slug
                              ELSE IF Asked.id.name \in AliasNames THEN live.aliases[Asked.id.name] ELSE ""

\* While routing is off nothing goes to Baseten, and no request waits for its credential.
OffMeansOff ==
    globalRoutingOff(live) => /\ \A i \in DOMAIN Tries : Tries[i].route # "baseten"
                              /\ call.became.error # "login"

\* The two attempts of a request go to different providers.
TwoProviders == Len(Tries) = 2 => Tries[1].route # Tries[2].route

\* What the status says of a family is where its models go.
StatusTrue ==
    (Tries # <<>> /\ Asked.from = "main" /\ Asked.weather = "fine" /\ Asked.id.name = "sonnet"
        /\ live.client = "claude-code")
    => /\ Tries[1].route = FamilyStatus(live).route
       /\ Tries[1].route = "baseten" => Tries[1].model = FamilyStatus(live).model

\* Doctor expects of a healthy request what the router does with it.  Not for a model whose
\* family only the catalog knows, so this does not hold; StatusTrue has the rest.
DoctorAgrees ==
    (Tries # <<>> /\ Asked.from = "main" /\ Asked.weather = "fine" /\ Asked.id.name \in Native)
    => Tries[1].route = ExpectedPrimaryRoute(live, Asked.id)

\* The discovery in the status is of the list that the listener would give now.
DiscoveryCurrent == discovery.of = "a list" => discovery.revision = Revision(live)

RouteSound ==
    /\ NativeSeesNative /\ ChoiceKept /\ OldPickKept /\ OffMeansOff /\ TwoProviders /\ StatusTrue
    /\ DiscoveryCurrent
=============================================================================
