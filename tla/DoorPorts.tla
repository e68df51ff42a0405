----------------------------- MODULE DoorPorts -----------------------------
(***************************************************************************)
(* The front-door process: the doors it derives from gateway.yaml, one for *)
(* each port, and SIGHUP, which closes the ports that are gone or changed  *)
(* before it binds the new ones.  The file is edited, signals arrive and   *)
(* ports are taken by others while a reload is under way.                  *)
(***************************************************************************)
EXTENDS Naturals, Sequences, FiniteSets

CONSTANTS DoorConfigs,       \* what gateway.yaml can hold: whether it loads, and its entries
          MaxDoorEdits,      \* bound: edits of the file
          MaxDoorSignals,    \* bound: signals sent
          MaxTaken           \* bound: binds that find their address taken

ASSUME DoorBounds == MaxDoorEdits \in Nat /\ MaxDoorSignals \in Nat /\ MaxTaken \in Nat

VARIABLES
    doorFile,     \* gateway.yaml
    specs,        \* the specs the process believes it serves, as Run keeps them
    doors,        \* the doors that listen: address |-> spec and the reload that opened it
    pending,      \* the signals waiting in a channel of two
    reloading,    \* what a reload has still to close and to open
    stage,        \* idle, closing, opening, stopping, stopped
    doorLedger    \* reloads, edits, signals and failed binds so far, and the config read last

doorPortVars == <<doorFile, specs, doors, pending, reloading, stage, doorLedger>>

(***************************************************************************)
(* An entry names a port, the router's listener behind it, and the shapes  *)
(* of the enabled clients there: none, or some that forbid native use.     *)
(***************************************************************************)

\* SpecsFromConfig: an entry that no enabled client is behind is skipped, with none left the config
\* is refused, as it is for a client that must not fall back.
Fronted(file) == {e \in file.entries : e.shapes # {}}
SpecsValid(file) ==
    /\ file.loads /\ Fronted(file) # {}
    /\ \A e \in Fronted(file) : "exclusive" \notin e.shapes
    /\ \A e, f \in Fronted(file) : e.addr = f.addr => e = f

Addresses(set) == {e.addr : e \in set}

\* DiffSpecs, by address: a port with another spec is closed and opened.
RemovedSpecs(next) == specs \ next
AddedSpecs(next)   == next \ specs

(***************************************************************************)

NothingToDo == [close |-> {}, open |-> {}]

\* startOne at boot: one port that cannot be bound ends the process.
DoorPortInit ==
    /\ doorFile \in {f \in DoorConfigs : SpecsValid(f)}
    /\ specs = Fronted(doorFile)
    /\ doors = [a \in Addresses(specs) |-> [spec |-> CHOOSE e \in specs : e.addr = a, opened |-> 0]]
    /\ pending = <<>> /\ reloading = NothingToDo /\ stage = "idle"
    /\ doorLedger = [reloads |-> 0, edits |-> 0, signals |-> 0, taken |-> 0, read |-> specs, failed |-> {}]

EditDoorFile(file) ==
    /\ doorLedger.edits < MaxDoorEdits /\ file # doorFile
    /\ doorFile' = file
    /\ doorLedger' = [doorLedger EXCEPT !.edits = @ + 1]
    /\ UNCHANGED <<specs, doors, pending, reloading, stage>>

\* signal.Notify drops a signal when the channel is full.
SignalDoor(kind) ==
    /\ doorLedger.signals < MaxDoorSignals /\ stage \notin {"stopping", "stopped"}
    /\ pending' = IF Len(pending) < 2 THEN Append(pending, kind) ELSE pending
    /\ doorLedger' = [doorLedger EXCEPT !.signals = @ + 1]
    /\ UNCHANGED <<doorFile, specs, doors, reloading, stage>>

\* reload: a config that does not load, or yields no spec, keeps the current ports.
ReadDoorFile ==
    /\ stage = "idle" /\ pending # <<>> /\ Head(pending) = "hup"
    /\ pending' = Tail(pending)
    /\ IF SpecsValid(doorFile) /\ Fronted(doorFile) # specs
       THEN /\ reloading' = [close |-> RemovedSpecs(Fronted(doorFile)), open |-> AddedSpecs(Fronted(doorFile))]
            /\ specs' = specs \cap Fronted(doorFile)
            /\ stage' = "closing"
       ELSE UNCHANGED <<reloading, specs, stage>>
    /\ doorLedger' = IF SpecsValid(doorFile)
                     THEN [doorLedger EXCEPT !.reloads = @ + 1, !.read = Fronted(doorFile), !.failed = {}]
                     ELSE doorLedger
    /\ UNCHANGED <<doorFile, doors>>

\* Removed ports shut down before added ones bind; one that failed to open earlier has no door.
CloseRemoved ==
    /\ stage = "closing"
    /\ IF reloading.close = {} THEN stage' = "opening" /\ UNCHANGED <<doors, reloading>>
       ELSE \E e \in reloading.close :
                /\ doors' = [a \in DOMAIN doors \ {e.addr} |-> doors[a]]
                /\ reloading' = [reloading EXCEPT !.close = @ \ {e}]
                /\ UNCHANGED stage
    /\ UNCHANGED <<doorFile, specs, pending, doorLedger>>

\* An address that is taken is left out of the specs, so that the next SIGHUP tries it again.
OpenAdded ==
    /\ stage = "opening"
    /\ IF reloading.open = {} THEN stage' = "idle" /\ UNCHANGED <<doors, specs, reloading, doorLedger>>
       ELSE \E e \in reloading.open :
                /\ reloading' = [reloading EXCEPT !.open = @ \ {e}]
                /\ \/ /\ e.addr \notin DOMAIN doors
                      /\ doors' = [a \in DOMAIN doors \cup {e.addr} |->
                              IF a = e.addr THEN [spec |-> e, opened |-> doorLedger.reloads] ELSE doors[a]]
                      /\ specs' = specs \cup {e} /\ UNCHANGED doorLedger
                   \/ /\ doorLedger.taken < MaxTaken \/ e.addr \in DOMAIN doors
                      /\ doorLedger' = [doorLedger EXCEPT !.taken = @ + 1, !.failed = @ \cup {e}]
                      /\ UNCHANGED <<doors, specs>>
                /\ UNCHANGED stage
    /\ UNCHANGED <<doorFile, pending>>

\* SIGTERM, shutdownAll.
TakeTerm ==
    /\ stage = "idle" /\ pending # <<>> /\ Head(pending) = "term"
    /\ pending' = Tail(pending) /\ stage' = "stopping"
    /\ UNCHANGED <<doorFile, specs, doors, reloading, doorLedger>>

shutdownAll ==
    /\ stage = "stopping"
    /\ IF doors = <<>> THEN stage' = "stopped" /\ UNCHANGED doors
       ELSE \E b \in DOMAIN doors : doors' = [a \in DOMAIN doors \ {b} |-> doors[a]] /\ UNCHANGED stage
    /\ UNCHANGED <<doorFile, specs, pending, reloading, doorLedger>>

DoorPortNext ==
    \/ \E f \in DoorConfigs : EditDoorFile(f)
    \/ \E k \in {"hup", "term"} : SignalDoor(k)
    \/ ReadDoorFile \/ CloseRemoved \/ OpenAdded \/ TakeTerm \/ shutdownAll

DoorPortSpec == DoorPortInit /\ [][DoorPortNext]_doorPortVars

Entries == UNION {f.entries : f \in DoorConfigs}

DoorFileType == doorFile \in DoorConfigs /\ specs \subseteq Entries
DoorsType ==
    /\ doors = [a \in DOMAIN doors |-> doors[a]]
    /\ \A a \in DOMAIN doors :
          doors[a] \in [spec : Entries, opened : 0..doorLedger.reloads] /\ doors[a].spec.addr = a
PendingType == pending \in Seq({"hup", "term"}) /\ Len(pending) <= 2
ReloadingType ==
    /\ reloading \in [close : SUBSET Entries, open : SUBSET Entries]
    /\ stage \in {"idle", "closing", "opening", "stopping", "stopped"}
DoorLedgerType ==
    /\ doorLedger \in [reloads : Nat, edits : 0..MaxDoorEdits, signals : 0..MaxDoorSignals,
                       taken : Nat, read : SUBSET Entries, failed : SUBSET Entries]
    /\ doorLedger.reloads + Len(pending) <= doorLedger.signals

DoorPortTypeOK == DoorFileType /\ DoorsType /\ PendingType /\ ReloadingType /\ DoorLedgerType

\* Between reloads the process serves what the last config it accepted asks for, each port with the
\* spec of that config, but for the ports whose address was taken at the last SIGHUP.
DoorsFollowConfig ==
    stage = "idle" =>
        /\ {doors[a].spec : a \in DOMAIN doors} = doorLedger.read \ doorLedger.failed
        /\ specs = {doors[a].spec : a \in DOMAIN doors}

\* A port whose spec both configs hold is not touched by a reload.
PortsKept ==
    [][\A a \in DOMAIN doors : (stage \notin {"idle", "stopping", "stopped"} /\ doors[a].spec \in doorLedger.read)
           => a \in DOMAIN doors' /\ (doors[a].opened < doorLedger.reloads => doors'[a] = doors[a])]_doorPortVars

\* SIGTERM ends the process.  Refuted: two SIGHUPs behind a reload that drains a door fill the channel.
DoorTermHeard == [][\A k \in {"term"} : SignalDoor(k) => pending' # pending]_doorPortVars
=============================================================================
