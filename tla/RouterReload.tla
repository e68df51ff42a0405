---------------------------- MODULE RouterReload ----------------------------
(***************************************************************************)
(* Configuration reload, listener topology and shutdown of the router.  A  *)
(* reload binds what is new, publishes listeners, resolver slices and the  *)
(* active config under one lock and retires the rest; keep-alive           *)
(* connections of a retired listener live on.  Reloads come from SIGHUP,   *)
(* through a channel that holds one signal, and from the admin API.        *)
(*                                                                         *)
(* Source: gateway/cmd/gateway/gateway.go 356-428, 830-849, 1389-1415,     *)
(* 4719-4741, 4766-4807, 5217-5371, 5399-5475; admin.go 90-129.            *)
(***************************************************************************)
EXTENDS Integers, FiniteSets

CONSTANTS
    Configs,      \* valid config files
    Addrs,        \* bind addresses
    AddrsOf,      \* the addresses a config binds
    Broken,       \* a config file that does not load
    Conns,        \* client connections
    MaxListeners, \* bound: listeners at a time
    MaxEdits,     \* bound: changes of the config file
    MaxSignals,   \* bound: signals sent
    MaxBindFaults \* bound: failed binds and failed preparations

ASSUME Topology ==
    /\ Addrs # {} /\ AddrsOf \in [Configs -> SUBSET Addrs]
    /\ Broken \notin Configs
ASSUME ReloadBounds ==
    /\ MaxListeners \in Nat /\ MaxEdits \in Nat /\ MaxSignals \in Nat /\ MaxBindFaults \in Nat
    /\ \A c \in Configs :    \* there is room for the listeners of one config
          IsFiniteSet(AddrsOf[c]) /\ Cardinality(AddrsOf[c]) <= MaxListeners

Ids == 1 .. MaxListeners

VARIABLES
    disk,       \* the config file
    active,     \* the active config and its token
    runtime,    \* the runtime config
    listeners,  \* per listener: its address, its phase, its resolver slice
    reload,     \* the reload that holds reloadMu: from, step, config read
    conn,       \* per connection: its listener, its state, the slice picked
    channel,    \* the buffered signal
    loop,       \* the signal goroutine: "wait", "reload"
    reloadCanceled,   \* the context of Run is canceled
    stop,       \* Shutdown: its step and the listeners it took
    asked,      \* history: the config that stood on disk at the last SIGHUP
    termSent,   \* history: a SIGTERM was sent
    budget      \* bounds used up

routerVars == <<disk, active, runtime, listeners, reload, conn, channel, loop,
                reloadCanceled, stop, asked, termSent, budget>>

NoReload == [by |-> "none", at |-> "idle", cfg |-> Broken]
Away == [on |-> 0, at |-> "away", cfg |-> Broken]
Unused == [addr |-> CHOOSE a \in Addrs : TRUE, phase |-> "unused", cfg |-> Broken]

In(phases) == {l \in Ids : listeners[l].phase \in phases}
Published == In({"bound", "serving", "shut"})    \* g.groups
Accepting == In({"prepared", "bound", "serving"})

Phases == {"unused", "prepared", "bound", "serving", "shut", "retired", "closing"}
Files == Configs \cup {Broken}

FileType ==
    /\ disk \in Files /\ asked \in Files
    /\ budget \in [edits : 0..MaxEdits, signals : 0..MaxSignals, faults : 0..MaxBindFaults]
ActiveType == active \in Configs /\ runtime \in Configs
ListenerType == listeners \in [Ids -> [addr : Addrs, phase : Phases, cfg : Files]]
AddressesApart ==
    \A l, m \in Accepting : listeners[l].addr = listeners[m].addr => l = m
LockType ==
    /\ reload \in [by : {"none", "signal", "admin"}, cfg : Files,
                   at : {"idle", "bind", "publish", "activate", "start"}]
    /\ reload.at # "idle" => reload.cfg \in Configs
ConnType ==
    /\ conn \in [Conns -> [on : 0..MaxListeners, at : {"away", "open", "running"}, cfg : Files]]
    /\ \A c \in Conns : conn[c].at # "away" => conn[c].on \in Ids
SignalType ==
    /\ channel \in {"none", "hup", "term"} /\ loop \in {"wait", "reload"}
    /\ reloadCanceled \in BOOLEAN /\ termSent \in BOOLEAN
StopType ==
    stop \in [at : {"no", "list", "shut", "drain", "stores", "exited"},
              taken : SUBSET Ids, known : SUBSET Ids]

ReloadTypeOK ==
    /\ FileType /\ ActiveType /\ ListenerType /\ AddressesApart /\ LockType /\ ConnType
    /\ SignalType /\ StopType

(* Run: the first config is bound by the constructor before Serve starts.  *)
ReloadInit ==
    /\ disk \in Configs
    /\ active = disk /\ runtime = disk
    /\ \E number \in [AddrsOf[disk] -> 1 .. Cardinality(AddrsOf[disk])] :
          /\ \A a, b \in AddrsOf[disk] : number[a] = number[b] => a = b
          /\ listeners = [l \in Ids |->
                IF \E a \in AddrsOf[disk] : number[a] = l
                  THEN [addr |-> CHOOSE a \in AddrsOf[disk] : number[a] = l,
                        phase |-> "serving", cfg |-> disk]
                  ELSE Unused]
    /\ reload = NoReload
    /\ conn = [c \in Conns |-> Away]
    /\ channel = "none" /\ loop = "wait" /\ reloadCanceled = FALSE
    /\ stop = [at |-> "no", taken |-> {}, known |-> {}]
    /\ asked = Broken /\ termSent = FALSE
    /\ budget = [edits |-> 0, signals |-> 0, faults |-> 0]

Running == stop.at # "exited"

(***************************************************************************)
(* The environment: edits of the file, signals.  signal.Notify does not    *)
(* wait for a full channel: the signal is dropped.                         *)
(***************************************************************************)
Edit ==
    /\ Running /\ budget.edits < MaxEdits
    /\ budget' = [budget EXCEPT !.edits = @ + 1]
    /\ disk' \in (Configs \cup {Broken}) \ {disk}
    /\ asked' = Broken
    /\ UNCHANGED <<active, runtime, listeners, reload, conn, channel, loop,
                   reloadCanceled, stop, termSent>>

(* Variant: a channel without a buffer.                                    *)
BufferedWhenIdle(sig) == IF channel = "none" /\ loop = "wait" THEN sig ELSE channel
Buffered(sig) == IF channel = "none" THEN sig ELSE channel

Signal(sig) ==
    /\ Running /\ budget.signals < MaxSignals
    /\ budget' = [budget EXCEPT !.signals = @ + 1]
    /\ channel' = Buffered(sig)
    /\ asked' = IF sig = "hup" THEN disk ELSE asked
    /\ termSent' = (termSent \/ sig = "term")
    /\ UNCHANGED <<disk, active, runtime, listeners, reload, conn, loop, reloadCanceled, stop>>

(* The signal goroutine: SIGHUP reloads in place, anything else cancels    *)
(* the context; it goes on reading signals afterwards.                     *)
TakeSignal ==
    /\ Running /\ loop = "wait" /\ channel # "none"
    /\ channel' = "none"
    /\ loop' = IF channel = "hup" THEN "reload" ELSE "wait"
    /\ reloadCanceled' = (reloadCanceled \/ channel = "term")
    /\ UNCHANGED <<disk, active, runtime, listeners, reload, conn, stop, asked,
                   termSent, budget>>

(***************************************************************************)
(* reloadConfig.                                                           *)
(***************************************************************************)
EndReload ==
    /\ reload' = NoReload
    /\ loop' = IF reload.by = "signal" THEN "wait" ELSE loop

(* Variant: a file that does not load is used.                             *)
LoadsUnchecked == TRUE
Loads == disk # Broken

(* The lock is taken and one snapshot of the file is read.  A file that    *)
(* does not load is an error that leaves everything as it is.              *)
ReadConfig(by) ==
    /\ Running /\ reload = NoReload
    /\ IF by = "signal" THEN loop = "reload" ELSE stop.at = "no"
    /\ IF Loads
         THEN /\ reload' = [by |-> by, at |-> "bind", cfg |-> disk]
              /\ UNCHANGED <<loop, asked>>
         ELSE /\ loop' = IF by = "signal" THEN "wait" ELSE loop
              /\ UNCHANGED <<reload, asked>>
    /\ UNCHANGED <<disk, active, runtime, listeners, conn, channel, reloadCanceled,
                   stop, termSent, budget>>

Bound(c) == {listeners[l].addr : l \in Published} \cap AddrsOf[c]
Prepared == {listeners[l].addr : l \in In({"prepared"})}

(* Listener numbers not in use; one of a listener that is gone is taken    *)
(* again.                                                                  *)
Free == {l \in In({"unused", "closing"}) \ stop.known : \A c \in Conns : conn[c].on # l}

(* A new address is bound; clients can connect to it from here on.         *)
BindAddress ==
    /\ Running /\ reload.at = "bind"
    /\ \E a \in AddrsOf[reload.cfg] \ (Bound(reload.cfg) \cup Prepared), l \in Free :
          /\ \A m \in Free : l <= m
          /\ listeners' = [listeners EXCEPT ![l] =
                [addr |-> a, phase |-> "prepared", cfg |-> reload.cfg]]
    /\ UNCHANGED <<disk, active, runtime, reload, conn, channel, loop, reloadCanceled,
                   stop, asked, termSent, budget>>

Closed(ids, phase) == [l \in Ids |->
    IF l \in ids THEN [listeners[l] EXCEPT !.phase = phase] ELSE listeners[l]]
Disconnected(ids) == [c \in Conns |->
    IF conn[c].on \in ids /\ conn[c].at = "open" THEN Away ELSE conn[c]]

(* Variant: the prepared listeners stay open.                              *)
AbortKeeps == {}
Abort == In({"prepared"})

(* A failed bind, or trace capture that cannot be prepared: the prepared   *)
(* listeners are closed, the error is noted, nothing is published.         *)
PrepareFails ==
    /\ Running /\ reload.at = "bind"
    /\ budget.faults < MaxBindFaults
    /\ budget' = [budget EXCEPT !.faults = @ + 1]
    /\ listeners' = Closed(Abort, "closing")
    /\ conn' = Disconnected(Abort)
    /\ asked' = IF asked = reload.cfg THEN Broken ELSE asked
    /\ EndReload
    /\ UNCHANGED <<disk, active, runtime, channel, reloadCanceled, stop, termSent>>

AllBound ==
    /\ Running /\ reload.at = "bind"
    /\ AddrsOf[reload.cfg] \subseteq Bound(reload.cfg) \cup Prepared
    /\ reload' = [reload EXCEPT !.at = "publish"]
    /\ UNCHANGED <<disk, active, runtime, listeners, conn, channel, loop,
                   reloadCanceled, stop, asked, termSent, budget>>

(* Under routingMu: every kept or new listener gets its slice, the others  *)
(* are marked retired and stop accepting.                                  *)
PublishTopology ==
    /\ Running /\ reload.at = "publish"
    /\ listeners' = [l \in Ids |->
          CASE l \in In({"prepared"}) ->
                  [listeners[l] EXCEPT !.phase = "bound", !.cfg = reload.cfg]
            [] l \in Published /\ listeners[l].addr \in AddrsOf[reload.cfg] ->
                  [listeners[l] EXCEPT !.cfg = reload.cfg]
            [] l \in Published /\ listeners[l].addr \notin AddrsOf[reload.cfg] ->
                  [listeners[l] EXCEPT !.phase = "retired"]
            [] OTHER -> listeners[l]]
    /\ reload' = [reload EXCEPT !.at = "activate"]
    /\ UNCHANGED <<disk, active, runtime, conn, channel, loop, reloadCanceled, stop,
                   asked, termSent, budget>>

(* Variant: the token is taken from the file again.                        *)
ActivatedFromDisk == IF disk = Broken THEN reload.cfg ELSE disk
Activated == reload.cfg

(* Then the runtime config and the active snapshot, and routingMu is free. *)
Activate ==
    /\ Running /\ reload.at = "activate"
    /\ runtime' = reload.cfg /\ active' = Activated
    /\ reload' = [reload EXCEPT !.at = "start"]
    /\ UNCHANGED <<disk, listeners, conn, channel, loop, reloadCanceled, stop, asked,
                   termSent, budget>>

(* The new listeners are served, the retired servers shut down: idle       *)
(* connections are closed, busy ones after their response.                 *)
StartAndRetire ==
    /\ Running /\ reload.at = "start"
    /\ listeners' = [l \in Ids |->
          [listeners[l] EXCEPT !.phase =
              CASE @ = "bound" -> "serving" [] @ = "retired" -> "closing" [] OTHER -> @]]
    /\ conn' = Disconnected(In({"retired"}))
    /\ EndReload
    /\ UNCHANGED <<disk, active, runtime, channel, reloadCanceled, stop, asked,
                   termSent, budget>>

(***************************************************************************)
(* Requests.  groupHandle holds routingMu for reading while it looks at    *)
(* the retired flag and picks the client's immutable snapshot.             *)
(***************************************************************************)
RoutingFree == reload.at # "activate"

Connect(c) ==
    /\ Running /\ conn[c].at = "away"
    /\ \E l \in Accepting : conn' = [conn EXCEPT ![c] = [Away EXCEPT !.on = l, !.at = "open"]]
    /\ UNCHANGED <<disk, active, runtime, listeners, reload, channel, loop,
                   reloadCanceled, stop, asked, termSent, budget>>

(* Variant: the retired flag is not looked at.                             *)
ServedAnyway(l) == listeners[l].phase \in {"serving", "retired"}
Served(l) == listeners[l].phase = "serving"

Pick(c) ==
    /\ Running /\ conn[c].at = "open" /\ RoutingFree
    /\ Served(conn[c].on)
    /\ conn' = [conn EXCEPT ![c].at = "running", ![c].cfg = listeners[conn[c].on].cfg]
    /\ UNCHANGED <<disk, active, runtime, listeners, reload, channel, loop,
                   reloadCanceled, stop, asked, termSent, budget>>

(* A request on a retired listener is told so and leaves the connection as *)
(* it was; a client may also go away.                                      *)
Disconnect(c) ==
    /\ Running /\ conn[c].at = "open"
    /\ conn' = [conn EXCEPT ![c] = Away]
    /\ UNCHANGED <<disk, active, runtime, listeners, reload, channel, loop,
                   reloadCanceled, stop, asked, termSent, budget>>

Answer(c) ==
    /\ Running /\ conn[c].at = "running"
    /\ conn' = [conn EXCEPT ![c] =
          IF listeners[@.on].phase \in {"shut", "closing"} THEN Away
          ELSE [@ EXCEPT !.at = "open", !.cfg = Broken]]
    /\ UNCHANGED <<disk, active, runtime, listeners, reload, channel, loop,
                   reloadCanceled, stop, asked, termSent, budget>>

(***************************************************************************)
(* Serve ends when the context is canceled: Shutdown waits for the admin   *)
(* server's handlers, takes the published groups, shuts each of them down, *)
(* waits for every request that is counted, and closes the stores.         *)
(***************************************************************************)
ShutdownStarts ==
    /\ reloadCanceled /\ stop.at = "no"
    /\ stop' = [stop EXCEPT !.at = "list"]
    /\ UNCHANGED <<disk, active, runtime, listeners, reload, conn, channel, loop,
                   reloadCanceled, asked, termSent, budget>>

SnapshotGroups ==
    /\ stop.at = "list" /\ reload.by # "admin"
    /\ stop' = [at |-> "shut", taken |-> Published,
                known |-> Published \cup In({"retired", "closing"})]
    /\ UNCHANGED <<disk, active, runtime, listeners, reload, conn, channel, loop,
                   reloadCanceled, asked, termSent, budget>>

ShutGroups ==
    /\ stop.at = "shut"
    /\ listeners' = Closed(stop.taken \cap Published, "shut")
    /\ conn' = Disconnected(stop.taken)
    /\ stop' = [stop EXCEPT !.at = "drain"]
    /\ UNCHANGED <<disk, active, runtime, reload, channel, loop, reloadCanceled, asked,
                   termSent, budget>>

Busy(ids) == \E c \in Conns : conn[c].at = "running" /\ conn[c].on \in ids
(* Variant: only the groups on the list are waited for.                    *)
DrainedGroups == ~Busy(stop.taken)
Drained == ~Busy(Ids)

Drain ==
    /\ stop.at = "drain" /\ Drained
    /\ stop' = [stop EXCEPT !.at = "stores"]
    /\ UNCHANGED <<disk, active, runtime, listeners, reload, conn, channel, loop,
                   reloadCanceled, asked, termSent, budget>>

Exit ==
    /\ stop.at = "stores"
    /\ stop' = [stop EXCEPT !.at = "exited"]
    /\ UNCHANGED <<disk, active, runtime, listeners, reload, conn, channel, loop,
                   reloadCanceled, asked, termSent, budget>>

ReloadStep ==
    \/ BindAddress \/ AllBound \/ PublishTopology \/ Activate \/ StartAndRetire

StopStep == ShutdownStarts \/ SnapshotGroups \/ ShutGroups \/ Drain \/ Exit

ReloadNext ==
    \/ Edit
    \/ \E sig \in {"hup", "term"} : Signal(sig)
    \/ TakeSignal
    \/ \E by \in {"signal", "admin"} : ReadConfig(by)
    \/ BindAddress \/ PrepareFails \/ AllBound \/ PublishTopology \/ Activate
    \/ StartAndRetire
    \/ \E c \in Conns : Connect(c) \/ Pick(c) \/ Disconnect(c) \/ Answer(c)
    \/ ShutdownStarts \/ SnapshotGroups \/ ShutGroups \/ Drain \/ Exit

(* Goroutines run on, the mutex is handed to whoever waits for it, and a   *)
(* request ends.  Nobody has to signal, edit or connect.                   *)
ReloadFairness ==
    /\ WF_routerVars(TakeSignal) /\ WF_routerVars(ReloadStep)
    /\ SF_routerVars(ReadConfig("signal"))
    /\ WF_routerVars(StopStep)
    /\ \A c \in Conns : WF_routerVars(Answer(c))

ReloadSpec == ReloadInit /\ [][ReloadNext]_routerVars /\ ReloadFairness

(***************************************************************************)
(* Properties.                                                             *)
(***************************************************************************)

(* Whoever takes the routing lock finds one config: the runtime config,    *)
(* the active token and the slice of every published listener agree, and   *)
(* the published addresses are the ones that config binds, also after a    *)
(* reload that failed at any step (gateway.go:5217-5225, 5299-5343).       *)
OneRouting ==
    RoutingFree =>
        /\ runtime = active
        /\ {listeners[l].addr : l \in Published} = AddrsOf[active]
        /\ \A l \in Published : listeners[l].cfg = active

(* A request picks the config that is active at that moment: once a config *)
(* was reported active no request, on whatever old connection, is routed   *)
(* by an earlier one (gateway.go:1389-1405, 366-371).                      *)
NoStaleRouting ==
    [][\A c \in Conns : conn[c].at = "open" /\ conn'[c].at = "running"
          => conn'[c].cfg = active]_routerVars

(* A listener that is bound and not published belongs to the reload under  *)
(* way: a failed reload leaves no socket behind (gateway.go:5263-5289).    *)
NoLeakedListener ==
    In({"prepared"}) # {} => reload.at \in {"bind", "publish"}

(* No request is cut when the process ends, except on a listener that a    *)
(* reload published after Shutdown had taken its list: also requests on    *)
(* retired listeners, which Shutdown does not know, are waited for         *)
(* (gateway.go:4777-4807).                                                 *)
DrainedExit ==
    stop.at = "exited" => ~Busy(stop.known)

(* A SIGHUP that is not followed by an edit takes effect: the router       *)
(* becomes active on the file as it was, or a reload of it has failed,     *)
(* although the signal may find the channel full (gateway.go:5455-5466).   *)
HupTakesEffect ==
    asked # Broken ~> (asked \in {Broken, active} \/ reloadCanceled)

(* Run serves until SIGINT or SIGTERM: a SIGTERM ends the serving          *)
(* (gateway.go:5397-5398).                                                 *)
TermEndsServing == termSent ~> reloadCanceled

(* The listeners and their routing are sound: the three invariants above.  *)
ListenersSound == OneRouting /\ NoLeakedListener /\ DrainedExit

=============================================================================
