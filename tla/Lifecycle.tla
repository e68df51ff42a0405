----------------------------- MODULE Lifecycle -----------------------------
(***************************************************************************)
(* up, down, restart, up --install, up --uninstall and uninstall against   *)
(* the router and the door: their processes and pidfiles, and launchd with *)
(* its KeepAlive jobs, whose bootout returns before the label is gone.     *)
(* A command works through an agenda of tasks, one component each; every   *)
(* probe, signal and launchctl call is a step, and processes boot, drain,  *)
(* crash and are relaunched in between.  A component has one port.         *)
(***************************************************************************)
EXTENDS Naturals, Sequences, FiniteSets

CONSTANTS MaxPids,       \* bound: processes alive or named by a pidfile at a time
          MaxCommands,   \* bound: commands run one after the other, divided among the components
          MaxFaults      \* bound: crashes, failing launchctl calls and failing migrations

ASSUME LifecycleBounds == MaxPids \in Nat \ {0} /\ MaxCommands \in Nat /\ MaxFaults \in Nat

Components == {"door", "router"}
Pids    == 1..MaxPids
Missing == 0
Corrupt == MaxPids + 1

VARIABLES
    configured,   \* the components: a config without a door section has only the router
    process,      \* pid |-> the process that has it
    pidfile,      \* component |-> a pid, Missing or Corrupt
    label,        \* component |-> the launchd job: absent, loaded, or leaving the domain
    plist,        \* component |-> the binary its LaunchAgent names, "none" when there is no file
    squatted,     \* the ports a foreign process listens on
    command,      \* the command that runs, with what is left of its agenda
    report,       \* how the last command ended
    trouble       \* faults so far, and whether a binary was upgraded and a pid reused

lifecycleVars == <<configured, process, pidfile, label, plist, squatted, command, report, trouble>>

NoProcess == [of |-> "none", stage |-> "none", current |-> FALSE, job |-> FALSE, old |-> FALSE]

Alive(p) == process[p].stage # "none"
ProcessesOf(c)  == {p \in Pids : process[p].of = c}
Holder(c) == {p \in ProcessesOf(c) : process[p].stage \in {"unwritten", "writing", "serving"}}

\* The door answers its health endpoint as soon as it is bound, the router once it serves.
Answering(p) == \/ process[p].stage = "serving"
                \/ process[p].of = "door" /\ process[p].stage \in {"unwritten", "writing"}
Answers(c) == \E p \in Holder(c) : Answering(p)

probePort(c) == IF Answers(c) THEN "ours"
                ELSE IF Holder(c) # {} \/ c \in squatted THEN "foreign" ELSE "down"

classifyPidfile(c) == IF pidfile[c] = Missing THEN "missing"
                      ELSE IF pidfile[c] = Corrupt THEN "corrupt"
                      ELSE IF Alive(pidfile[c]) THEN "alive" ELSE "dead"

\* launchctl print lists a label until its process is reaped.
Loaded(c) == label[c] # "absent"
supervised(c) == plist[c] # "none" /\ Loaded(c)

\* A pid for a new process: one that nothing names.
FreePids == {p \in Pids : ~Alive(p) /\ p # command.target /\ \A c \in Components : pidfile[c] # p}
Started(c, current, job) ==
    LET p == CHOOSE q \in FreePids : \A r \in FreePids : q <= r IN
    /\ FreePids # {}
    /\ process' = [process EXCEPT ![p] = [of |-> c, stage |-> "booting", current |-> current,
                                          job |-> job, old |-> FALSE]]

\* Sends a process SIGTERM: its listener closes and it drains; a stranger dies of it.
Signalled(p) ==
    IF process[p].of = "stranger" THEN NoProcess ELSE [process[p] EXCEPT !.stage = "draining"]

(***************************************************************************)
(* The processes and launchd                                               *)
(***************************************************************************)

World(p) == UNCHANGED <<configured, plist, squatted, command, report>>

\* Bind: a process that finds its port taken, or the gateway answering, exits.
Bind(p) ==
    LET c == process[p].of IN
    /\ process[p].stage = "booting"
    /\ process' = [process EXCEPT ![p] =
           IF probePort(c) = "down" THEN [@ EXCEPT !.stage = "unwritten"] ELSE NoProcess]
    /\ World(p) /\ UNCHANGED <<pidfile, label, trouble>>

\* WriteAt truncates the pidfile and then writes it.
TruncatePidfile(p) ==
    /\ process[p].stage = "unwritten"
    /\ process' = [process EXCEPT ![p].stage = "writing"]
    /\ pidfile' = [pidfile EXCEPT ![process[p].of] = Corrupt]
    /\ World(p) /\ UNCHANGED <<label, trouble>>

\* The write reaches the file, unless the file was removed meanwhile.
WritePidfile(p) ==
    LET c == process[p].of IN
    /\ process[p].stage = "writing"
    /\ process' = [process EXCEPT ![p].stage = "serving"]
    /\ pidfile' = IF pidfile[c] = Corrupt THEN [pidfile EXCEPT ![c] = p] ELSE pidfile
    /\ World(p) /\ UNCHANGED <<label, trouble>>

\* A drained process unlinks the pidfile, whoever it names, and exits.
Exit(p) ==
    /\ process[p].stage = "draining"
    /\ process' = [process EXCEPT ![p] = NoProcess]
    /\ pidfile' = [pidfile EXCEPT ![process[p].of] = Missing]
    /\ World(p) /\ UNCHANGED <<label, trouble>>

Crash(p) ==
    /\ process[p].stage \in {"serving", "writing"} /\ trouble.faults < MaxFaults
    /\ process' = [process EXCEPT ![p] = NoProcess]
    /\ trouble' = [trouble EXCEPT !.faults = @ + 1]
    /\ World(p) /\ UNCHANGED <<pidfile, label>>

\* The pid that a pidfile still names goes to another program.
ReusePid(p) ==
    /\ ~Alive(p) /\ ~trouble.reused /\ \E c \in Components : pidfile[c] = p
    /\ process' = [process EXCEPT ![p] = [NoProcess EXCEPT !.of = "stranger", !.stage = "stranger"]]
    /\ trouble' = [trouble EXCEPT !.reused = TRUE]
    /\ World(p) /\ UNCHANGED <<pidfile, label>>

Job(c) == {p \in ProcessesOf(c) : process[p].job}

\* KeepAlive: a loaded job has a process.
Relaunch(c) ==
    /\ label[c] = "loaded" /\ Job(c) = {}
    /\ Started(c, plist[c] = "ours", TRUE)
    /\ World(c) /\ UNCHANGED <<pidfile, label, trouble>>

\* After a bootout launchd signals the process of the job ...
SignalJob(c) ==
    /\ label[c] = "leaving"
    /\ \E p \in Job(c) :
           /\ process[p].stage # "draining"
           /\ process' = [process EXCEPT ![p] = Signalled(p)]
    /\ World(c) /\ UNCHANGED <<pidfile, label, trouble>>

\* ... and drops the label when it is reaped.
DropLabel(c) ==
    /\ label[c] = "leaving" /\ Job(c) = {}
    /\ label' = [label EXCEPT ![c] = "absent"]
    /\ World(c) /\ UNCHANGED <<process, pidfile, trouble>>

\* The binary is replaced: what runs is of the older version.
Upgrade ==
    /\ command.name = "none" /\ ~trouble.upgraded
    /\ process' = [p \in Pids |-> [process[p] EXCEPT !.current = FALSE]]
    /\ trouble' = [trouble EXCEPT !.upgraded = TRUE]
    /\ World("all") /\ UNCHANGED <<pidfile, label>>

(***************************************************************************)
(* The commands                                                            *)
(***************************************************************************)

NoCommand == [name |-> "none", agenda |-> <<>>, at |-> "begin", target |-> 0, failed |-> FALSE,
              adopting |-> FALSE, adopted |-> {}, listed |-> {}, hasty |-> FALSE]

Do(task, order) == LET wanted(c) == c \in configured \/ task \in {"stop", "quit", "unagent"}
                       tasks     == [i \in 1..Len(order) |-> <<task, order[i]>>]
                       kept(t)   == wanted(t[2]) IN SelectSeq(tasks, kept)

DoorFirst   == <<"door", "router">>
RouterFirst == <<"router", "door">>

Agenda(name) ==
    CASE name = "up"        -> Do("start", RouterFirst)
      [] name = "down"      -> Do("stop", DoorFirst)
      [] name = "restart"   -> Do("stop", DoorFirst) \o <<<<"resume", "router">>>> \o Do("start", RouterFirst)
      [] name = "install"   -> Do("yield", DoorFirst) \o Do("agent", RouterFirst) \o Do("await", RouterFirst)
      [] name = "uninstall" -> Do("unagent", DoorFirst)
      [] name = "remove"    -> Do("unagent", DoorFirst) \o Do("quit", DoorFirst) \o <<<<"residue", "router">>>>

\* A command starts; what serves by then is marked, as is a bootout that an earlier command did not
\* wait for, and --install lists the loaded labels.
Invoke(name) ==
    /\ command.name = "none" /\ report.number < MaxCommands \div Cardinality(configured)
    /\ command' = [NoCommand EXCEPT !.name = name, !.agenda = Agenda(name),
                       !.listed = {c \in Components : Loaded(c)},
                       !.hasty = \E c \in Components : label[c] = "leaving"]
    /\ process' = [p \in Pids |-> [process[p] EXCEPT !.old = process[p].stage = "serving"]]
    /\ UNCHANGED <<configured, pidfile, label, plist, squatted, report, trouble>>

Task == command.agenda[1][1]
Part == command.agenda[1][2]
At(task, step) == command.agenda # <<>> /\ Task = task /\ command.at = step
AtStep(step)     == command.agenda # <<>> /\ command.at = step

Continue(step) == command' = [command EXCEPT !.at = step]
NextTask(cmd) == [cmd EXCEPT !.agenda = Tail(@), !.at = "begin", !.target = 0, !.adopting = FALSE]
Succeed == command' = NextTask(command)
\* A failure is counted and the next component tried; up --install gives up.
Fail == command' = IF command.name = "install" /\ Task # "await"
                   THEN [NextTask(command) EXCEPT !.failed = TRUE, !.agenda = <<>>]
                   ELSE [NextTask(command) EXCEPT !.failed = TRUE]

Fault == trouble.faults < MaxFaults /\ trouble' = [trouble EXCEPT !.faults = @ + 1]
Steady == UNCHANGED <<configured, squatted, report>>
OnlyCommand == Steady /\ UNCHANGED <<process, pidfile, label, plist, trouble>>

\* upRouter, upDoor: the port decides.
ProbeFirst ==
    /\ At("start", "begin")
    /\ CASE probePort(Part) = "ours"    -> Continue("version")
         [] probePort(Part) = "foreign" -> Fail
         [] probePort(Part) = "down"    -> Continue("launch")
    /\ OnlyCommand

\* ProgramBinary: the plist is known to start another binary than this one.
StartsAnother(c) == plist[c] = "other"

\* adoptComponent: a stale component is stopped, if its restart would be this binary and it is
\* launchd's or its pidfile is good; a failed fetch leaves it alone.
Adopt ==
    /\ At("start", "version")
    /\ \/ Succeed
       \/ \E p \in Holder(Part) :
              /\ Answering(p) /\ ~process[p].current
              /\ IF StartsAnother(Part) THEN Fail
                 ELSE IF ~supervised(Part) /\ classifyPidfile(Part) # "alive" THEN Succeed
                 ELSE command' = [command EXCEPT !.at = "stopping", !.adopting = TRUE, !.adopted = @ \cup {Part}]
    /\ OnlyCommand

\* downComponent: a supervised component is booted out, another is stopped by its pidfile.
ReadSupervision ==
    /\ At("stop", "begin") \/ At("start", "stopping")
    /\ Continue(IF supervised(Part) THEN "bootout" ELSE "direct")
    /\ OnlyCommand

Bootout(c) == [label EXCEPT ![c] = IF @ = "loaded" THEN "leaving" ELSE @]

BootOut ==
    /\ AtStep("bootout")
    /\ \/ label' = Bootout(Part) /\ Continue("labelgone") /\ UNCHANGED trouble
       \/ Fault /\ Fail /\ UNCHANGED label
    /\ Steady /\ UNCHANGED <<process, pidfile, plist>>

WaitLabelGone ==
    /\ AtStep("labelgone")
    /\ IF Loaded(Part) THEN Fail ELSE Continue("portgone")
    /\ OnlyCommand

Removed(c) == [pidfile EXCEPT ![c] = Missing]
Stopped == IF command.adopting THEN Continue("launch") ELSE Succeed

WaitGone ==
    /\ AtStep("portgone")
    /\ IF Answers(Part) THEN Fail /\ UNCHANGED pidfile
       ELSE /\ Stopped
            /\ pidfile' = IF classifyPidfile(Part) \in {"dead", "corrupt"} THEN Removed(Part) ELSE pidfile
    /\ Steady /\ UNCHANGED <<process, label, plist, trouble>>

\* stopComponent: whoever has the pid of the pidfile is signalled.
StopDirectly ==
    /\ AtStep("direct") \/ At("quit", "begin") \/ (At("yield", "begin") /\ Part \notin command.listed)
    /\ IF classifyPidfile(Part) = "alive"
       THEN /\ process' = [process EXCEPT ![pidfile[Part]] = Signalled(pidfile[Part])]
            /\ command' = [command EXCEPT !.at = "dying", !.target = pidfile[Part]]
            /\ UNCHANGED pidfile
       ELSE /\ pidfile' = Removed(Part) /\ UNCHANGED process
            /\ IF probePort(Part) = "ours" THEN Fail ELSE Stopped
    /\ Steady /\ UNCHANGED <<label, plist, trouble>>

\* terminateGateway: SIGKILL when the process does not go, which unlinks nothing.
WaitDead ==
    /\ AtStep("dying")
    /\ \/ ~Alive(command.target) /\ UNCHANGED process
       \/ Alive(command.target) /\ process' = [process EXCEPT ![command.target] = NoProcess]
    /\ pidfile' = Removed(Part) /\ Stopped
    /\ Steady /\ UNCHANGED <<label, plist, trouble>>

\* migrateFallbackPolicyBeforeStart, then upSupervised or a detached process.
Launch ==
    /\ At("start", "launch")
    /\ \/ Part = "router" /\ Fault /\ Fail /\ UNCHANGED <<process, label>>
       \/ /\ plist[Part] # "none" /\ Loaded(Part)
          /\ Continue("await") /\ UNCHANGED <<process, label, trouble>>
       \/ /\ plist[Part] # "none" /\ ~Loaded(Part)
          /\ \/ label' = [label EXCEPT ![Part] = "loaded"] /\ Continue("await") /\ UNCHANGED <<process, trouble>>
             \/ Fault /\ Fail /\ UNCHANGED <<process, label>>
       \/ /\ plist[Part] = "none"
          /\ IF Part = "door" /\ classifyPidfile(Part) = "alive"
             THEN Fail /\ UNCHANGED process
             ELSE Started(Part, TRUE, FALSE) /\ Continue("await")
          /\ UNCHANGED <<label, trouble>>
    /\ Steady /\ UNCHANGED <<pidfile, plist>>

\* waitOurs: the component answers, or the wait times out.
Await ==
    /\ At("start", "await") \/ At("await", "begin")
    /\ IF Answers(Part) THEN (IF command.adopting THEN Continue("verify") ELSE Succeed) ELSE Fail
    /\ OnlyCommand

verifyAdoption ==
    /\ At("start", "verify")
    /\ \/ Fail
       \/ \E p \in Holder(Part) : Answering(p) /\ process[p].current /\ Succeed
    /\ OnlyCommand

\* --install: a job that was listed is left to installAgents.
LeaveToLaunchd ==
    /\ At("yield", "begin") /\ Part \in command.listed
    /\ Succeed /\ OnlyCommand

\* installAgents: the plist is written and the label booted out; the bootstrap waits until it is gone.
WriteAgent ==
    /\ At("agent", "begin")
    /\ plist' = [plist EXCEPT ![Part] = "ours"]
    /\ \/ label' = Bootout(Part) /\ Continue(IF Loaded(Part) THEN "agentgone" ELSE "bootstrap") /\ UNCHANGED trouble
       \/ Fault /\ Fail /\ UNCHANGED label
    /\ Steady /\ UNCHANGED <<process, pidfile>>

AgentGone ==
    /\ AtStep("agentgone")
    /\ IF Loaded(Part) THEN Fail ELSE Continue("bootstrap")
    /\ OnlyCommand

Bootstrap ==
    /\ AtStep("bootstrap")
    /\ \/ label' = [label EXCEPT ![Part] = "loaded"] /\ Succeed /\ UNCHANGED trouble
       \/ Fault /\ Fail /\ UNCHANGED label
    /\ Steady /\ UNCHANGED <<process, pidfile, plist>>

\* cmdUpUninstall, uninstallLaunchd: no wait, and a failed bootout still removes the plist.
RemoveAgent ==
    /\ At("unagent", "begin")
    /\ plist' = [plist EXCEPT ![Part] = "none"]
    /\ \/ label' = Bootout(Part) /\ Succeed /\ UNCHANGED trouble
       \/ Fault /\ Fail /\ UNCHANGED label
    /\ Steady /\ UNCHANGED <<process, pidfile>>

removeRuntimeResidue ==
    /\ At("residue", "begin")
    /\ pidfile' = [c \in Components |-> Missing]
    /\ Succeed /\ Steady /\ UNCHANGED <<process, label, plist, trouble>>

\* cmdRestart: a down that failed ends it.
Resume ==
    /\ At("resume", "begin")
    /\ command' = IF command.failed THEN [NextTask(command) EXCEPT !.agenda = <<>>] ELSE NextTask(command)
    /\ OnlyCommand

\* printStatus counts for the exit code of up.
ReportEnd ==
    /\ command.name # "none" /\ command.agenda = <<>>
    /\ report' = [name |-> command.name, number |-> report.number + 1,
                  ok |-> /\ ~command.failed
                         /\ command.name \in {"up", "install", "restart"} => \A c \in configured : probePort(c) = "ours",
                  adopted |-> command.adopted, hasty |-> command.hasty]
    /\ command' = NoCommand
    /\ UNCHANGED <<configured, process, pidfile, label, plist, squatted, trouble>>

(***************************************************************************)

LifecycleTypeOK ==
    /\ process \in [Pids -> [of : Components \cup {"none", "stranger"}, current : BOOLEAN, job : BOOLEAN, old : BOOLEAN,
                             stage : {"none", "booting", "unwritten", "writing", "serving", "draining", "stranger"}]]
    /\ pidfile \in [Components -> 0..Corrupt]
    /\ label \in [Components -> {"absent", "loaded", "leaving"}]
    /\ plist \in [Components -> {"none", "ours", "other", "unreadable"}]
    /\ trouble.faults \in 0..MaxFaults /\ report.number \in 0..MaxCommands

NoTrouble == [faults |-> 0, upgraded |-> FALSE, reused |-> FALSE]
NoReport  == [name |-> "none", number |-> 0, ok |-> FALSE, adopted |-> {}, hasty |-> FALSE]

\* Nothing runs, perhaps with a foreign listener on the router's port; or everything serves, started
\* by up or by launchd, whose plist may name another binary, which is then the older one.
LifecycleInit ==
    /\ configured \in {{"router"}, Components}
    /\ \E agent \in {"none", "ours", "other", "unreadable"}, runs \in BOOLEAN :
           LET pid(c) == IF c = "router" THEN 1 ELSE 2 IN
           /\ plist = [c \in Components |-> IF c \in configured THEN agent ELSE "none"]
           /\ label = [c \in Components |-> IF runs /\ plist[c] # "none" THEN "loaded" ELSE "absent"]
           /\ pidfile = [c \in Components |-> IF runs /\ c \in configured THEN pid(c) ELSE Missing]
           /\ process = [p \in Pids |->
                  IF runs /\ \E c \in configured : p = pid(c)
                  THEN LET c == CHOOSE c \in configured : p = pid(c) IN
                       [of |-> c, stage |-> "serving", current |-> agent \in {"none", "ours"},
                        job |-> agent # "none", old |-> FALSE]
                  ELSE NoProcess]
           /\ squatted \in IF runs THEN {{}} ELSE {{}, {"router"}}
    /\ command = NoCommand /\ report = NoReport /\ trouble = NoTrouble

LifecycleNext ==
    \/ \E p \in Pids : Bind(p) \/ TruncatePidfile(p) \/ WritePidfile(p) \/ Exit(p) \/ Crash(p) \/ ReusePid(p)
    \/ \E c \in Components : Relaunch(c) \/ SignalJob(c) \/ DropLabel(c)
    \/ \E name \in {"up", "down", "restart", "install", "uninstall", "remove"} : Invoke(name)
    \/ Upgrade \/ ProbeFirst \/ Adopt \/ ReadSupervision \/ BootOut \/ WaitLabelGone \/ WaitGone
    \/ StopDirectly \/ WaitDead \/ Launch \/ Await \/ verifyAdoption \/ LeaveToLaunchd
    \/ WriteAgent \/ AgentGone \/ Bootstrap \/ RemoveAgent \/ removeRuntimeResidue \/ Resume \/ ReportEnd

LifecycleSpec == LifecycleInit /\ [][LifecycleNext]_lifecycleVars

\* What up, restart or --install report as up is not about to be stopped by a bootout still
\* under way (one begun before an earlier bootout was over aside).
SuccessLasts ==
    [][report' # report /\ report'.ok /\ ~report'.hasty /\ report'.name \in {"up", "install", "restart"} =>
           \A c \in configured : \E p \in Holder(c) : Answering(p) /\ (process[p].job => label[c] = "loaded")]_lifecycleVars

\* When up has stopped a component to adopt this binary and succeeds, this binary serves.
AdoptionMoves ==
    [][report' # report /\ report'.ok => \A c \in report'.adopted : \E p \in Holder(c) : process[p].current]_lifecycleVars

\* After a down, an uninstall or a restart that succeeded, nothing that served before it listens.
OldGone ==
    [][report' # report /\ report'.ok /\ report'.name \in {"down", "remove", "restart"} =>
           \A c \in Components : \A p \in Holder(c) : ~process[p].old]_lifecycleVars

\* ... and launchd will not start it again (a label whose plist is gone is told apart below).
NotRelaunched ==
    [][report' # report /\ report'.ok /\ report'.name \in {"down", "remove"} =>
           \A c \in Components : label[c] = "loaded" => report'.name = "down" /\ plist[c] = "none"]_lifecycleVars

\* What the lifecycle commands report as done is done, and lasts.
LifecycleSound == SuccessLasts /\ AdoptionMoves /\ OldGone /\ NotRelaunched

\* A down that succeeded leaves no job loaded.  Refuted: an up --uninstall whose bootout fails
\* removes the plist all the same, and the component is then taken for an unmanaged one.
DownStaysDown ==
    [][report' # report /\ report'.ok /\ report'.name \in {"down", "remove"} =>
           \A c \in Components : label[c] # "loaded"]_lifecycleVars

\* After --install launchd's processes are the only ones.  Refuted: one that an earlier up gave up
\* waiting for may bind its port after the install has found it free.
OneSupervisor ==
    [][report' # report /\ report'.ok /\ report'.name = "install" =>
           \A c \in configured : \A p \in ProcessesOf(c) : process[p].job]_lifecycleVars

\* Only processes of the component are signalled or killed.  Refuted: a pidfile outlives a crash.
KillsOnlyOurs ==
    [][\A p \in Pids : process[p].of = "stranger" => process'[p].of = "stranger"]_lifecycleVars

\* After an up that succeeded the pidfile names what serves, once nothing else of it starts or stops.
\* Refuted: a process that still drains after up --uninstall unlinks the pidfile of its successor.
StillManaged ==
    [][report' # report /\ report'.ok /\ report'.name = "up" =>
           \A c \in configured : \A p \in ProcessesOf(c) : ProcessesOf(c) = {p} /\ process[p].stage = "serving" => pidfile[c] = p]_lifecycleVars
=============================================================================
