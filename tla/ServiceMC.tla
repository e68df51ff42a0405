----------------------------- MODULE ServiceMC -----------------------------
(***************************************************************************)
(* One run for components of the router and the front-door process that    *)
(* share no state: in each behaviour one of them moves and the others keep *)
(* their initial state.                                                    *)
(***************************************************************************)
EXTENDS RouterReload, AuthLineage, DoorPorts

CONSTANTS left, right, both     \* configs: one address, the other, both

MCAddrs == {"l", "r"}
MCConfigs == {left, right, both}
MCAddrsOf == [c \in MCConfigs |->
    CASE c = left -> {"l"} [] c = right -> {"r"} [] OTHER -> MCAddrs]

\* Entries of door.ports, and the configs that hold them: one port, two, one of them changed or
\* with no client behind it, a client that forbids native use, none, and a file that does not load.
Fronts(addr, router, shapes) == [addr |-> addr, router |-> router, shapes |-> shapes]
MCDoorConfigs ==
    {[loads |-> FALSE, entries |-> {}]} \cup
    {[loads |-> TRUE, entries |-> entries] : entries \in
        {{}, {Fronts("p", "l", {"a"})}, {Fronts("p", "l", {"exclusive"})},
         {Fronts("p", "l", {"a"}), Fronts("q", "m", {"o"})},
         {Fronts("p", "m", {"o"}), Fronts("q", "m", {"o"})},
         {Fronts("p", "l", {}), Fronts("q", "m", {"o"})}}}

VARIABLE part    \* the component that moves

Parts == {"reload", "lineage", "doors"}

ServiceInit ==
    /\ part \in Parts
    /\ ReloadInit /\ (part # "reload" => disk = left)
    /\ LineageInit /\ (part = "lineage" <=> profile = "oauth")
    /\ DoorPortInit /\ (part # "doors" => doorFile.entries = {Fronts("p", "l", {"a"})})

ReloadMoves  == part = "reload" /\ ReloadNext /\ UNCHANGED <<part, lineageVars, doorPortVars>>
LineageMoves == part = "lineage" /\ LineageNext /\ UNCHANGED <<part, routerVars, doorPortVars>>
DoorsMove    == part = "doors" /\ DoorPortNext /\ UNCHANGED <<part, routerVars, lineageVars>>

ServiceNext == DoorsMove \/ ReloadMoves \/ LineageMoves

\* The fairness of a component, as its module states it, while it moves.
FairReload ==
    /\ WF_routerVars(part = "reload" /\ TakeSignal) /\ WF_routerVars(part = "reload" /\ ReloadStep)
    /\ SF_routerVars(part = "reload" /\ ReadConfig("signal"))
    /\ WF_routerVars(part = "reload" /\ StopStep)
    /\ \A c \in Conns : WF_routerVars(part = "reload" /\ Answer(c))
FairLineage ==
    /\ WF_lineageVars(part = "lineage" /\ refreshAuthLocked)
    /\ WF_lineageVars(part = "lineage" /\ TickSnapshots) /\ WF_lineageVars(part = "lineage" /\ TickObserves)
    /\ SF_lineageVars(part = "lineage" /\ TickReloads) /\ SF_lineageVars(part = "lineage" /\ TickRests)
    /\ \A g \in Gens : /\ WF_lineageVars(part = "lineage" /\ noteAuthRefresh(g))
                        /\ WF_lineageVars(part = "lineage" /\ Save(g))

ServiceSpec == /\ ServiceInit /\ [][ServiceNext]_<<part, routerVars, lineageVars, doorPortVars>>
               /\ FairReload /\ FairLineage

TypesOK == ReloadTypeOK /\ LineageTypeOK /\ DoorPortTypeOK

\* The listeners of the router are those of one config that was read, the credential is the one
\* saved, and the doors are those of the config read last.
ServiceSound == [](ListenersSound /\ CredentialTrue /\ DoorsFollowConfig) /\ PortsKept
=============================================================================
