---------------------------- MODULE ServiceProofs ----------------------------
(* Theorems about the router's reloads, its credential and the doors of the  *)
(* front-door process, each on its own and in their composition ServiceMC,   *)
(* for any configs, addresses and connections and any values of the bounds.  *)
EXTENDS ServiceMC, FiniteSetTheorems, TLAPS

---------------------------------------------------------------------------
(* RouterReload: types.                                                     *)

\* Numbering the addresses of the first config gives each a listener.
LEMMA NumberedListeners ==
    ASSUME NEW c \in Configs, NEW number \in [AddrsOf[c] -> 1 .. Cardinality(AddrsOf[c])]
    PROVE  \A a \in AddrsOf[c] : number[a] \in Ids
<1>1. Cardinality(AddrsOf[c]) \in Nat /\ Cardinality(AddrsOf[c]) <= MaxListeners
  BY ReloadBounds, FS_CardinalityType
<1> QED
  BY <1>1, ReloadBounds DEF Ids

\* The first config leaves every variable of the router in its type.
LEMMA ReloadTypeInit == ReloadInit => ReloadTypeOK
<1> SUFFICES ASSUME ReloadInit PROVE ReloadTypeOK
  OBVIOUS
<1> USE DEF ReloadInit
<1>1. disk \in Configs
  OBVIOUS
<1>2. PICK number \in [AddrsOf[disk] -> 1 .. Cardinality(AddrsOf[disk])] :
         listeners = [l \in Ids |->
                IF \E a \in AddrsOf[disk] : number[a] = l
                  THEN [addr |-> CHOOSE a \in AddrsOf[disk] : number[a] = l,
                        phase |-> "serving", cfg |-> disk]
                  ELSE Unused]
  OBVIOUS
<1>3. AddrsOf[disk] \subseteq Addrs
  BY <1>1, Topology
<1>4. Unused \in [addr : Addrs, phase : Phases, cfg : Files]
  BY Topology DEF Unused, Phases, Files
<1>5. ListenerType
  BY <1>1, <1>2, <1>3, <1>4 DEF ListenerType, Phases, Files
<1>6. AddressesApart
  <2> SUFFICES ASSUME NEW l \in Accepting, NEW m \in Accepting,
                      listeners[l].addr = listeners[m].addr
               PROVE  l = m
    BY DEF AddressesApart
  <2>1. PICK a \in AddrsOf[disk] : number[a] = l /\ listeners[l].addr = a
    BY <1>2 DEF Accepting, In, Unused
  <2>2. PICK b \in AddrsOf[disk] : number[b] = m /\ listeners[m].addr = b
    BY <1>2 DEF Accepting, In, Unused
  <2> QED
    BY <2>1, <2>2
<1>7. FileType /\ ActiveType
  BY <1>1, ReloadBounds DEF FileType, ActiveType, Files
<1>8. LockType /\ ConnType
  BY ReloadBounds DEF LockType, ConnType, NoReload, Away, Files
<1>9. SignalType /\ StopType
  BY DEF SignalType, StopType
<1> QED
  BY <1>5, <1>6, <1>7, <1>8, <1>9 DEF ReloadTypeOK

\* Each step of the router keeps the types.
LEMMA ReloadTypeStep == ReloadTypeOK /\ [ReloadNext]_routerVars => ReloadTypeOK'
<1> SUFFICES ASSUME ReloadTypeOK, [ReloadNext]_routerVars PROVE ReloadTypeOK'
  OBVIOUS
<1> USE DEF ReloadTypeOK
<1>1. ReloadTypeOK'
  <2>1. CASE Edit
    <3>1. FileType'
      BY <2>1, ReloadBounds DEF Edit, FileType, Files
    <3>2. (ActiveType /\ ListenerType /\ AddressesApart /\ LockType /\ ConnType /\
       SignalType /\ StopType)'
      BY <2>1 DEF Edit, ActiveType, ListenerType, AddressesApart, LockType,
         ConnType, SignalType, StopType, Accepting, In
    <3> QED
      BY <3>1, <3>2 DEF ReloadTypeOK
  <2>2. ASSUME NEW sig \in {"hup", "term"}, Signal(sig) PROVE ReloadTypeOK'
    <3>1. FileType'
      BY <2>2, ReloadBounds DEF Signal, FileType
    <3>2. SignalType'
      BY <2>2 DEF Signal, SignalType, Buffered
    <3>3. (ActiveType /\ ListenerType /\ AddressesApart /\ LockType /\ ConnType /\
       StopType)'
      BY <2>2 DEF Signal, ActiveType, ListenerType, AddressesApart, LockType,
         ConnType, StopType, Accepting, In
    <3> QED
      BY <3>1, <3>2, <3>3 DEF ReloadTypeOK
  <2>3. CASE TakeSignal
    <3>1. SignalType'
      BY <2>3 DEF TakeSignal, SignalType
    <3>2. (FileType /\ ActiveType /\ ListenerType /\ AddressesApart /\ LockType /\
       ConnType /\ StopType)'
      BY <2>3 DEF TakeSignal, FileType, ActiveType, ListenerType, AddressesApart,
         LockType, ConnType, StopType, Accepting, In
    <3> QED
      BY <3>1, <3>2 DEF ReloadTypeOK
  <2>4. ASSUME NEW by \in {"signal", "admin"}, ReadConfig(by) PROVE ReloadTypeOK'
    <3>1. LockType'
      BY <2>4 DEF ReadConfig, LockType, FileType, Files, Loads
    <3>2. SignalType'
      BY <2>4 DEF ReadConfig, SignalType
    <3>3. (FileType /\ ActiveType /\ ListenerType /\ AddressesApart /\ ConnType /\
       StopType)'
      BY <2>4 DEF ReadConfig, FileType, ActiveType, ListenerType, AddressesApart,
         ConnType, StopType, Accepting, In
    <3> QED
      BY <3>1, <3>2, <3>3 DEF ReloadTypeOK
  <2>5. CASE BindAddress
    <3>1. ListenerType'
      BY <2>5, Topology DEF BindAddress, ListenerType, LockType, Free, In, Ids,
         Phases, Files
    <3>2. AddressesApart'
      BY <2>5, Topology DEF BindAddress, AddressesApart, ListenerType, Accepting,
         In, Ids, LockType, Free, Prepared, Bound, Published
    <3>3. (FileType /\ ActiveType /\ LockType /\ ConnType /\ SignalType /\
       StopType)'
      BY <2>5 DEF BindAddress, FileType, ActiveType, LockType, ConnType,
         SignalType, StopType
    <3> QED
      BY <3>1, <3>2, <3>3 DEF ReloadTypeOK
  <2>6. CASE PrepareFails
    <3>1. FileType'
      BY <2>6, ReloadBounds DEF PrepareFails, FileType, Files
    <3>2. ListenerType'
      BY <2>6 DEF PrepareFails, ListenerType, Closed, Phases
    <3>3. AddressesApart'
      BY <2>6 DEF PrepareFails, AddressesApart, ListenerType, Accepting, In, Ids,
         Closed
    <3>4. LockType'
      BY <2>6 DEF PrepareFails, LockType, EndReload, NoReload, Files
    <3>5. ConnType'
      BY <2>6, ReloadBounds DEF PrepareFails, ConnType, Disconnected, Away, Files
    <3>6. SignalType'
      BY <2>6 DEF PrepareFails, SignalType, EndReload
    <3>7. (ActiveType /\ StopType)'
      BY <2>6 DEF PrepareFails, ActiveType, StopType, EndReload
    <3> QED
      BY <3>1, <3>2, <3>3, <3>4, <3>5, <3>6, <3>7 DEF ReloadTypeOK
  <2>7. CASE AllBound
    <3>1. LockType'
      BY <2>7 DEF AllBound, LockType
    <3>2. (FileType /\ ActiveType /\ ListenerType /\ AddressesApart /\ ConnType /\
       SignalType /\ StopType)'
      BY <2>7 DEF AllBound, FileType, ActiveType, ListenerType, AddressesApart,
         ConnType, SignalType, StopType, Accepting, In
    <3> QED
      BY <3>1, <3>2 DEF ReloadTypeOK
  <2>8. CASE PublishTopology
    <3>1. ListenerType'
      BY <2>8 DEF PublishTopology, ListenerType, LockType, Files, Phases
    <3>2. AddressesApart'
      <4>1. ASSUME NEW l \in Accepting'
            PROVE  l \in Accepting /\ listeners'[l].addr = listeners[l].addr
        <5>1. l \in Ids /\ listeners'[l].phase \in {"prepared", "bound", "serving"}
          BY DEF Accepting, In
        <5>2. CASE l \in In({"prepared"})
          BY <2>8, <5>1, <5>2 DEF PublishTopology, ListenerType, Accepting, In
        <5>3. CASE l \notin In({"prepared"}) /\ l \in Published
          BY <2>8, <5>1, <5>3 DEF PublishTopology, ListenerType, Accepting, Published, In
        <5>4. CASE l \notin In({"prepared"}) /\ l \notin Published
          BY <2>8, <5>1, <5>4 DEF PublishTopology, ListenerType, Accepting, Published, In
        <5> QED
          BY <5>2, <5>3, <5>4
      <4> QED
        BY <4>1 DEF AddressesApart
    <3>3. LockType'
      BY <2>8 DEF PublishTopology, LockType
    <3>4. (FileType /\ ActiveType /\ ConnType /\ SignalType /\ StopType)'
      BY <2>8 DEF PublishTopology, FileType, ActiveType, ConnType, SignalType,
         StopType
    <3> QED
      BY <3>1, <3>2, <3>3, <3>4 DEF ReloadTypeOK
  <2>9. CASE Activate
    <3>1. ActiveType'
      BY <2>9 DEF Activate, ActiveType, LockType, Activated
    <3>2. LockType'
      BY <2>9 DEF Activate, LockType
    <3>3. (FileType /\ ListenerType /\ AddressesApart /\ ConnType /\ SignalType /\
       StopType)'
      BY <2>9 DEF Activate, FileType, ListenerType, AddressesApart, ConnType,
         SignalType, StopType, Accepting, In
    <3> QED
      BY <3>1, <3>2, <3>3 DEF ReloadTypeOK
  <2>10. CASE StartAndRetire
    <3>1. ListenerType'
      BY <2>10 DEF StartAndRetire, ListenerType, Phases
    <3>2. AddressesApart'
      BY <2>10 DEF StartAndRetire, AddressesApart, ListenerType, Accepting, In, Ids
    <3>3. LockType'
      BY <2>10 DEF StartAndRetire, LockType, EndReload, NoReload, Files
    <3>4. ConnType'
      BY <2>10, ReloadBounds DEF StartAndRetire, ConnType, Disconnected, Away,
         Files
    <3>5. SignalType'
      BY <2>10 DEF StartAndRetire, SignalType, EndReload
    <3>6. (FileType /\ ActiveType /\ StopType)'
      BY <2>10 DEF StartAndRetire, FileType, ActiveType, StopType
    <3> QED
      BY <3>1, <3>2, <3>3, <3>4, <3>5, <3>6 DEF ReloadTypeOK
  <2>11. ASSUME NEW c \in Conns, Connect(c) PROVE ReloadTypeOK'
    <3>1. ConnType'
      <4>1. PICK l \in Accepting : conn' = [conn EXCEPT ![c] = [Away EXCEPT !.on = l, !.at = "open"]]
        BY <2>11 DEF Connect
      <4>2. l \in Ids /\ l \in 0..MaxListeners
        BY ReloadBounds DEF Accepting, In, Ids
      <4> QED
        BY <4>1, <4>2 DEF ConnType, Away, Files
    <3>2. (FileType /\ ActiveType /\ ListenerType /\ AddressesApart /\ LockType /\
       SignalType /\ StopType)'
      BY <2>11 DEF Connect, FileType, ActiveType, ListenerType, AddressesApart,
         LockType, SignalType, StopType, Accepting, In
    <3> QED
      BY <3>1, <3>2 DEF ReloadTypeOK
  <2>12. ASSUME NEW c \in Conns, Pick(c) PROVE ReloadTypeOK'
    <3>1. ConnType'
      BY <2>12 DEF Pick, ConnType, ListenerType
    <3>2. (FileType /\ ActiveType /\ ListenerType /\ AddressesApart /\ LockType /\
       SignalType /\ StopType)'
      BY <2>12 DEF Pick, FileType, ActiveType, ListenerType, AddressesApart,
         LockType, SignalType, StopType, Accepting, In
    <3> QED
      BY <3>1, <3>2 DEF ReloadTypeOK
  <2>13. ASSUME NEW c \in Conns, Disconnect(c) PROVE ReloadTypeOK'
    <3>1. ConnType'
      BY <2>13, ReloadBounds DEF Disconnect, ConnType, Away, Files
    <3>2. (FileType /\ ActiveType /\ ListenerType /\ AddressesApart /\ LockType /\
       SignalType /\ StopType)'
      BY <2>13 DEF Disconnect, FileType, ActiveType, ListenerType, AddressesApart,
         LockType, SignalType, StopType, Accepting, In
    <3> QED
      BY <3>1, <3>2 DEF ReloadTypeOK
  <2>14. ASSUME NEW c \in Conns, Answer(c) PROVE ReloadTypeOK'
    <3>1. ConnType'
      <4> DEFINE Row == [on : 0..MaxListeners, at : {"away", "open", "running"}, cfg : Files]
      <4>2. conn[c].on \in Ids /\ conn[c] \in Row
        BY <2>14 DEF Answer, ConnType
      <4>3. PICK r \in Row : conn' = [conn EXCEPT ![c] = r] /\ (r.at # "away" => r.on \in Ids)
        <5>1. Away \in Row /\ Away.at = "away"
          BY ReloadBounds DEF Away, Files
        <5>2. /\ [conn[c] EXCEPT !.at = "open", !.cfg = Broken] \in Row
              /\ [conn[c] EXCEPT !.at = "open", !.cfg = Broken].on = conn[c].on
          BY <4>2 DEF Files
        <5>3. \/ conn' = [conn EXCEPT ![c] = Away]
              \/ conn' = [conn EXCEPT ![c] = [conn[c] EXCEPT !.at = "open", !.cfg = Broken]]
          BY <2>14 DEF Answer, ConnType
        <5> HIDE DEF Row
        <5> QED
          BY <4>2, <5>1, <5>2, <5>3
      <4> QED
        BY <4>3 DEF ConnType
    <3>2. (FileType /\ ActiveType /\ ListenerType /\ AddressesApart /\ LockType /\
       SignalType /\ StopType)'
      BY <2>14 DEF Answer, FileType, ActiveType, ListenerType, AddressesApart,
         LockType, SignalType, StopType, Accepting, In
    <3> QED
      BY <3>1, <3>2 DEF ReloadTypeOK
  <2>15. CASE ShutdownStarts
    <3>1. StopType'
      BY <2>15 DEF ShutdownStarts, StopType
    <3>2. (FileType /\ ActiveType /\ ListenerType /\ AddressesApart /\ LockType /\
       ConnType /\ SignalType)'
      BY <2>15 DEF ShutdownStarts, FileType, ActiveType, ListenerType,
         AddressesApart, LockType, ConnType, SignalType, Accepting, In
    <3> QED
      BY <3>1, <3>2 DEF ReloadTypeOK
  <2>16. CASE SnapshotGroups
    <3>1. StopType'
      BY <2>16 DEF SnapshotGroups, StopType, Published, In, Ids
    <3>2. (FileType /\ ActiveType /\ ListenerType /\ AddressesApart /\ LockType /\
       ConnType /\ SignalType)'
      BY <2>16 DEF SnapshotGroups, FileType, ActiveType, ListenerType,
         AddressesApart, LockType, ConnType, SignalType, Accepting, In
    <3> QED
      BY <3>1, <3>2 DEF ReloadTypeOK
  <2>17. CASE ShutGroups
    <3>1. ListenerType'
      BY <2>17 DEF ShutGroups, ListenerType, Closed, Phases
    <3>2. AddressesApart'
      BY <2>17 DEF ShutGroups, AddressesApart, ListenerType, Accepting, In, Ids,
         Closed, Published
    <3>3. ConnType'
      BY <2>17, ReloadBounds DEF ShutGroups, ConnType, Disconnected, Away, Files
    <3>4. StopType'
      BY <2>17 DEF ShutGroups, StopType
    <3>5. (FileType /\ ActiveType /\ LockType /\ SignalType)'
      BY <2>17 DEF ShutGroups, FileType, ActiveType, LockType, SignalType
    <3> QED
      BY <3>1, <3>2, <3>3, <3>4, <3>5 DEF ReloadTypeOK
  <2>18. CASE Drain
    <3>1. StopType'
      BY <2>18 DEF Drain, StopType
    <3>2. (FileType /\ ActiveType /\ ListenerType /\ AddressesApart /\ LockType /\
       ConnType /\ SignalType)'
      BY <2>18 DEF Drain, FileType, ActiveType, ListenerType, AddressesApart,
         LockType, ConnType, SignalType, Accepting, In
    <3> QED
      BY <3>1, <3>2 DEF ReloadTypeOK
  <2>19. CASE Exit
    <3>1. StopType'
      BY <2>19 DEF Exit, StopType
    <3>2. (FileType /\ ActiveType /\ ListenerType /\ AddressesApart /\ LockType /\
       ConnType /\ SignalType)'
      BY <2>19 DEF Exit, FileType, ActiveType, ListenerType, AddressesApart,
         LockType, ConnType, SignalType, Accepting, In
    <3> QED
      BY <3>1, <3>2 DEF ReloadTypeOK
  <2>20. CASE UNCHANGED routerVars
    BY <2>20 DEF routerVars, Accepting, In, FileType, ActiveType, ListenerType, AddressesApart,
       LockType, ConnType, SignalType, StopType
  <2> QED
    BY <2>1, <2>2, <2>3, <2>4, <2>5, <2>6, <2>7, <2>8, <2>9, <2>10, <2>11, <2>12,
       <2>13, <2>14, <2>15, <2>16, <2>17, <2>18, <2>19, <2>20 DEF ReloadNext
<1> QED
  BY <1>1

---------------------------------------------------------------------------
(* RouterReload: routing, listeners and shutdown.                           *)

RoutedBy(c) ==
    /\ {listeners[l].addr : l \in Published} = AddrsOf[c]
    /\ \A l \in Published : listeners[l].cfg = c

\* While a reload has published the listeners and not yet the config, they are of the config it read.
OneConfig ==
    /\ runtime = active
    /\ IF reload.at = "activate" THEN RoutedBy(reload.cfg) ELSE RoutedBy(active)
PreparedForReload ==
    \A l \in In({"prepared"}) :
        /\ reload.at \in {"bind", "publish"}
        /\ listeners[l].addr \in AddrsOf[reload.cfg]
        /\ \A m \in Published : listeners[m].addr # listeners[l].addr
ReadyToPublish ==
    reload.at = "publish" => AddrsOf[reload.cfg] \subseteq Bound(reload.cfg) \cup Prepared

\* No listener that Shutdown found comes back to serve once the groups are shut.
Down(l) == listeners[l].phase \in {"shut", "retired", "closing"}
KnownGoDown ==
    \A l \in stop.known :
        /\ stop.at = "shut" => Down(l) \/ (l \in stop.taken /\ l \in Published)
        /\ stop.at \in {"drain", "stores", "exited"} => Down(l)
NoneKnownYet == stop.at \in {"no", "list"} => stop.known = {}
NoneCut      == stop.at \in {"stores", "exited"} => ~Busy(stop.known)

ReloadInv ==
    /\ ReloadTypeOK /\ OneConfig /\ PreparedForReload /\ ReadyToPublish
    /\ KnownGoDown /\ NoneKnownYet /\ NoneCut

\* What a config routes depends on the published listeners alone.
LEMMA SamePublished ==
    ASSUME Published' = Published,
           \A l \in Published : /\ listeners'[l].addr = listeners[l].addr
                                /\ listeners'[l].cfg = listeners[l].cfg
    PROVE  \A c : RoutedBy(c)' <=> RoutedBy(c)
BY DEF RoutedBy

\* The router starts with the listeners of the config it read.
LEMMA ReloadInvInit == ReloadInit => ReloadInv
<1> SUFFICES ASSUME ReloadInit PROVE ReloadInv
  OBVIOUS
<1> USE DEF ReloadInit
<1>1. disk \in Configs /\ active = disk
  OBVIOUS
<1>2. PICK number \in [AddrsOf[disk] -> 1 .. Cardinality(AddrsOf[disk])] :
         /\ \A a, b \in AddrsOf[disk] : number[a] = number[b] => a = b
         /\ listeners = [l \in Ids |->
                IF \E a \in AddrsOf[disk] : number[a] = l
                  THEN [addr |-> CHOOSE a \in AddrsOf[disk] : number[a] = l,
                        phase |-> "serving", cfg |-> disk]
                  ELSE Unused]
  OBVIOUS
<1>3. \A a \in AddrsOf[disk] : number[a] \in Ids
  BY <1>1, NumberedListeners
<1>4. ASSUME NEW l \in Published
      PROVE  \E a \in AddrsOf[disk] : number[a] = l /\ listeners[l].addr = a /\ listeners[l].cfg = disk
  BY <1>2 DEF Published, In, Unused
<1>5. ASSUME NEW a \in AddrsOf[disk]
      PROVE  \E l \in Published : listeners[l].addr = a
  <2>1. number[a] \in Ids
    BY <1>3
  <2>2. (CHOOSE b \in AddrsOf[disk] : number[b] = number[a]) = a
    BY <1>2
  <2>3. listeners[number[a]].addr = a /\ listeners[number[a]].phase = "serving"
    BY <1>2, <2>1, <2>2
  <2> QED
    BY <2>1, <2>3 DEF Published, In
<1>6. {listeners[l].addr : l \in Published} = AddrsOf[active]
  <2> DEFINE Routed == {listeners[l].addr : l \in Published}
  <2>1. ASSUME NEW b \in Routed PROVE b \in AddrsOf[disk]
    <3>1. PICK l \in Published : b = listeners[l].addr
      OBVIOUS
    <3>2. listeners[l].addr \in AddrsOf[disk]
      BY <1>4
    <3> QED
      BY <3>1, <3>2
  <2>2. ASSUME NEW a \in AddrsOf[disk] PROVE a \in Routed
    BY <1>5
  <2>3. Routed = AddrsOf[disk]
    BY <2>1, <2>2
  <2> QED
    BY <1>1, <2>3
<1>7. OneConfig
  BY <1>1, <1>4, <1>6 DEF OneConfig, RoutedBy, NoReload
<1>8. PreparedForReload
  BY <1>2 DEF PreparedForReload, In, Unused
<1>9. ReadyToPublish /\ KnownGoDown /\ NoneKnownYet /\ NoneCut
  BY DEF ReadyToPublish, NoReload, KnownGoDown, NoneKnownYet, NoneCut
<1> QED
  BY <1>7, <1>8, <1>9, ReloadTypeInit DEF ReloadInv

\* Each step of the router keeps the invariant.
LEMMA ReloadInvStep == ReloadInv /\ [ReloadNext]_routerVars => ReloadInv'
<1> SUFFICES ASSUME ReloadInv, [ReloadNext]_routerVars PROVE ReloadInv'
  OBVIOUS
<1>1. ReloadTypeOK'
  BY ReloadTypeStep DEF ReloadInv
<1> USE DEF ReloadTypeOK, ReloadInv, Down
<1>2. ReloadInv'
  <2>1. CASE Edit
    <3>1. (OneConfig /\ PreparedForReload /\ ReadyToPublish /\ KnownGoDown /\
       NoneKnownYet /\ NoneCut)'
      BY <2>1 DEF Edit, OneConfig, PreparedForReload, ReadyToPublish, KnownGoDown,
         NoneKnownYet, NoneCut, RoutedBy, Bound, Prepared, Published, In, Ids, Busy
    <3> QED
      BY <1>1, <3>1 DEF ReloadInv
  <2>2. ASSUME NEW sig \in {"hup", "term"}, Signal(sig) PROVE ReloadInv'
    <3>1. (OneConfig /\ PreparedForReload /\ ReadyToPublish /\ KnownGoDown /\
       NoneKnownYet /\ NoneCut)'
      BY <2>2 DEF Signal, OneConfig, PreparedForReload, ReadyToPublish,
         KnownGoDown, NoneKnownYet, NoneCut, RoutedBy, Bound, Prepared, Published,
         In, Ids, Busy
    <3> QED
      BY <1>1, <3>1 DEF ReloadInv
  <2>3. CASE TakeSignal
    <3>1. (OneConfig /\ PreparedForReload /\ ReadyToPublish /\ KnownGoDown /\
       NoneKnownYet /\ NoneCut)'
      BY <2>3 DEF TakeSignal, OneConfig, PreparedForReload, ReadyToPublish,
         KnownGoDown, NoneKnownYet, NoneCut, RoutedBy, Bound, Prepared, Published,
         In, Ids, Busy
    <3> QED
      BY <1>1, <3>1 DEF ReloadInv
  <2>4. ASSUME NEW by \in {"signal", "admin"}, ReadConfig(by) PROVE ReloadInv'
    <3>1. OneConfig'
      BY <2>4 DEF ReadConfig, OneConfig, NoReload, LockType, RoutedBy, Published,
         In, Ids
    <3>2. PreparedForReload'
      BY <2>4 DEF ReadConfig, PreparedForReload, NoReload, LockType, Published, In,
         Ids
    <3>3. ReadyToPublish'
      BY <2>4 DEF ReadConfig, ReadyToPublish, NoReload, LockType, Published, In,
         Ids
    <3>4. (KnownGoDown /\ NoneKnownYet /\ NoneCut)'
      BY <2>4 DEF ReadConfig, KnownGoDown, NoneKnownYet, NoneCut, RoutedBy, Bound,
         Prepared, Published, In, Ids, Busy
    <3> QED
      BY <1>1, <3>1, <3>2, <3>3, <3>4 DEF ReloadInv
  <2>5. CASE BindAddress
    <3>1. OneConfig'
      <4>1. /\ Published' = Published
            /\ \A l \in Published : /\ listeners'[l].addr = listeners[l].addr
                                    /\ listeners'[l].cfg = listeners[l].cfg
        BY <2>5 DEF BindAddress, Published, In, ListenerType, Free
      <4>2. \A d : RoutedBy(d)' <=> RoutedBy(d)
        BY <4>1, SamePublished
      <4>3. reload.at # "activate" \/ reload' = reload
        BY <2>5 DEF BindAddress
      <4>4. reload'.at # "activate" \/ reload' = reload
        BY <2>5 DEF BindAddress
      <4> QED
        BY <2>5, <4>2, <4>3, <4>4 DEF BindAddress, OneConfig
    <3>2. PreparedForReload'
      BY <2>5 DEF BindAddress, PreparedForReload, ListenerType, Free, Bound,
         Published, In, Ids
    <3>3. ReadyToPublish'
      BY <2>5 DEF BindAddress, ReadyToPublish, LockType, EndReload, NoReload
    <3>4. KnownGoDown'
      <4>1. stop' = stop
        BY <2>5 DEF BindAddress
      <4>2. ASSUME NEW l \in stop.known
            PROVE  /\ Down(l) => Down(l)'
                   /\ l \in Published => l \in Published'
        BY <2>5 DEF BindAddress, ListenerType, StopType, Closed, Abort, Free, Published, In
      <4> QED
        BY <4>1, <4>2 DEF KnownGoDown
    <3>5. (NoneKnownYet /\ NoneCut)'
      BY <2>5 DEF BindAddress, NoneKnownYet, NoneCut, RoutedBy, Bound, Prepared,
         Published, In, Ids, Busy
    <3> QED
      BY <1>1, <3>1, <3>2, <3>3, <3>4, <3>5 DEF ReloadInv
  <2>6. CASE PrepareFails
    <3>1. OneConfig'
      <4>1. /\ Published' = Published
            /\ \A l \in Published : /\ listeners'[l].addr = listeners[l].addr
                                    /\ listeners'[l].cfg = listeners[l].cfg
        BY <2>6 DEF PrepareFails, Published, In, ListenerType, Closed, Abort
      <4>2. \A d : RoutedBy(d)' <=> RoutedBy(d)
        BY <4>1, SamePublished
      <4>3. reload.at # "activate" \/ reload' = reload
        BY <2>6 DEF PrepareFails
      <4>4. reload'.at # "activate" \/ reload' = reload
        BY <2>6 DEF PrepareFails, EndReload, NoReload
      <4> QED
        BY <2>6, <4>2, <4>3, <4>4 DEF PrepareFails, OneConfig
    <3>2. PreparedForReload'
      BY <2>6 DEF PrepareFails, PreparedForReload, ListenerType, Closed, Abort,
         Published, In, Ids
    <3>3. ReadyToPublish'
      BY <2>6 DEF PrepareFails, ReadyToPublish, LockType, EndReload, NoReload
    <3>4. KnownGoDown'
      <4>1. stop' = stop
        BY <2>6 DEF PrepareFails
      <4>2. ASSUME NEW l \in stop.known
            PROVE  /\ Down(l) => Down(l)'
                   /\ l \in Published => l \in Published'
        BY <2>6 DEF PrepareFails, ListenerType, StopType, Closed, Abort, Free, Published, In
      <4> QED
        BY <4>1, <4>2 DEF KnownGoDown
    <3>5. NoneCut'
      BY <2>6 DEF PrepareFails, NoneCut, Busy, Disconnected, Away, ConnType
    <3>6. NoneKnownYet'
      BY <2>6 DEF PrepareFails, NoneKnownYet, RoutedBy, Bound, Prepared, Published,
         In, Ids, Busy
    <3> QED
      BY <1>1, <3>1, <3>2, <3>3, <3>4, <3>5, <3>6 DEF ReloadInv
  <2>7. CASE AllBound
    <3>1. OneConfig'
      BY <2>7 DEF AllBound, OneConfig, LockType, RoutedBy, Published, In, Ids
    <3>2. PreparedForReload'
      BY <2>7 DEF AllBound, PreparedForReload, LockType, Published, In, Ids
    <3>3. ReadyToPublish'
      BY <2>7 DEF AllBound, ReadyToPublish, LockType, Bound, Prepared, Published,
         In, Ids
    <3>4. (KnownGoDown /\ NoneKnownYet /\ NoneCut)'
      BY <2>7 DEF AllBound, KnownGoDown, NoneKnownYet, NoneCut, RoutedBy, Bound,
         Prepared, Published, In, Ids, Busy
    <3> QED
      BY <1>1, <3>1, <3>2, <3>3, <3>4 DEF ReloadInv
  <2>8. CASE PublishTopology
    <3> DEFINE c == reload.cfg
               Kept == {l \in Published : listeners[l].addr \in AddrsOf[c]}
               New  == In({"prepared"})
    <3>a. c \in Configs /\ reload' = [reload EXCEPT !.at = "activate"]
      BY <2>8 DEF PublishTopology, LockType
    <3>b. ASSUME NEW l \in Kept \cup New
          PROVE  /\ l \in Published' /\ l \notin In({"prepared"})'
                 /\ listeners'[l].addr = listeners[l].addr /\ listeners'[l].cfg = c
      <4>1. CASE l \in New
        <5>1. listeners' = [m \in Ids |->
                CASE m \in In({"prepared"}) ->
                        [listeners[m] EXCEPT !.phase = "bound", !.cfg = c]
                  [] m \in Published /\ listeners[m].addr \in AddrsOf[c] ->
                        [listeners[m] EXCEPT !.cfg = c]
                  [] m \in Published /\ listeners[m].addr \notin AddrsOf[c] ->
                        [listeners[m] EXCEPT !.phase = "retired"]
                  [] OTHER -> listeners[m]]
          BY <2>8 DEF PublishTopology
        <5>2. l \in Ids /\ listeners[l] \in [addr : Addrs, phase : Phases, cfg : Files]
          BY <4>1 DEF ListenerType, In
        <5> HIDE DEF New, c
        <5>5. l \in In({"prepared"}) /\ l \notin Published
          BY <4>1 DEF New, Published, In
        <5>3. listeners'[l] = [listeners[l] EXCEPT !.phase = "bound", !.cfg = c]
          BY <5>1, <5>2, <5>5
        <5>4. listeners'[l].phase = "bound" /\ listeners'[l].addr = listeners[l].addr /\ listeners'[l].cfg = c
          BY <5>2, <5>3
        <5> QED
          BY <5>2, <5>4 DEF Published, In
      <4>2. CASE l \in Kept
        BY <2>8, <4>2 DEF PublishTopology, ListenerType, Published, In
      <4> QED
        BY <4>1, <4>2
    <3>c. ASSUME NEW l \in Ids, l \notin Kept, l \notin New
          PROVE  l \notin Published' /\ l \notin In({"prepared"})'
      BY <2>8, <3>c DEF PublishTopology, ListenerType, Published, In
    <3>d. Published' = Kept \cup New /\ In({"prepared"})' = {}
      BY <3>b, <3>c DEF Published, In
    <3>e. {listeners'[l].addr : l \in Kept \cup New} = AddrsOf[c]
      <4>1. ASSUME NEW l \in Kept \cup New PROVE listeners'[l].addr \in AddrsOf[c]
        BY <3>b DEF PreparedForReload
      <4>2. ASSUME NEW a \in AddrsOf[c] PROVE \E l \in Kept \cup New : listeners'[l].addr = a
        <5>1. a \in Bound(c) \cup Prepared
          BY <2>8 DEF PublishTopology, ReadyToPublish
        <5>2. PICK l \in Published \cup New : listeners[l].addr = a
          BY <5>1 DEF Bound, Prepared
        <5>3. l \in Kept \cup New
          BY <5>2
        <5> QED
          BY <5>2, <5>3, <3>b
      <4> HIDE DEF Kept, New, c
      <4> QED
        BY <4>1, <4>2
    <3>1. OneConfig'
      <4>1. reload'.at = "activate" /\ reload'.cfg = c
        BY <2>8, <3>a DEF PublishTopology, LockType
      <4>2. RoutedBy(c)'
        BY <3>a, <3>b, <3>d, <3>e, <4>1 DEF RoutedBy
      <4>3. RoutedBy(reload.cfg)'
        BY <4>1, <4>2, <3>a
      <4> QED
        BY <2>8, <4>1, <4>3 DEF PublishTopology, OneConfig
    <3>2. PreparedForReload'
      BY <3>d DEF PreparedForReload
    <3>3. ReadyToPublish'
      BY <2>8 DEF PublishTopology, ReadyToPublish, LockType
    <3>4. KnownGoDown'
      BY <2>8 DEF PublishTopology, KnownGoDown, ListenerType, StopType, Published,
         In, Ids
    <3>5. (NoneKnownYet /\ NoneCut)'
      BY <2>8 DEF PublishTopology, NoneKnownYet, NoneCut, RoutedBy, Bound,
         Prepared, Published, In, Ids, Busy
    <3> QED
      BY <1>1, <3>1, <3>2, <3>3, <3>4, <3>5 DEF ReloadInv
  <2>9. CASE Activate
    <3>1. OneConfig'
      BY <2>9 DEF Activate, OneConfig, LockType, Activated, RoutedBy, Published,
         In, Ids
    <3>2. PreparedForReload'
      BY <2>9 DEF Activate, PreparedForReload, LockType, Published, In, Ids
    <3>3. ReadyToPublish'
      BY <2>9 DEF Activate, ReadyToPublish, LockType
    <3>4. (KnownGoDown /\ NoneKnownYet /\ NoneCut)'
      BY <2>9 DEF Activate, KnownGoDown, NoneKnownYet, NoneCut, RoutedBy, Bound,
         Prepared, Published, In, Ids, Busy
    <3> QED
      BY <1>1, <3>1, <3>2, <3>3, <3>4 DEF ReloadInv
  <2>10. CASE StartAndRetire
    <3>1. OneConfig'
      <4>1. /\ Published' = Published
            /\ \A l \in Published : /\ listeners'[l].addr = listeners[l].addr
                                    /\ listeners'[l].cfg = listeners[l].cfg
        BY <2>10 DEF StartAndRetire, Published, In, ListenerType
      <4>2. \A d : RoutedBy(d)' <=> RoutedBy(d)
        BY <4>1, SamePublished
      <4>3. reload.at # "activate" \/ reload' = reload
        BY <2>10 DEF StartAndRetire
      <4>4. reload'.at # "activate" \/ reload' = reload
        BY <2>10 DEF StartAndRetire, EndReload, NoReload
      <4> QED
        BY <2>10, <4>2, <4>3, <4>4 DEF StartAndRetire, OneConfig
    <3>2. PreparedForReload'
      BY <2>10 DEF StartAndRetire, PreparedForReload, ListenerType, Published, In,
         Ids
    <3>3. ReadyToPublish'
      BY <2>10 DEF StartAndRetire, ReadyToPublish, LockType, EndReload, NoReload
    <3>4. KnownGoDown'
      <4>1. stop' = stop
        BY <2>10 DEF StartAndRetire
      <4>2. ASSUME NEW l \in stop.known
            PROVE  /\ Down(l) => Down(l)'
                   /\ l \in Published => l \in Published'
        BY <2>10 DEF StartAndRetire, ListenerType, StopType, Closed, Abort, Free, Published, In
      <4> QED
        BY <4>1, <4>2 DEF KnownGoDown
    <3>5. NoneCut'
      BY <2>10 DEF StartAndRetire, NoneCut, Busy, Disconnected, Away, ConnType
    <3>6. NoneKnownYet'
      BY <2>10 DEF StartAndRetire, NoneKnownYet, RoutedBy, Bound, Prepared,
         Published, In, Ids, Busy
    <3> QED
      BY <1>1, <3>1, <3>2, <3>3, <3>4, <3>5, <3>6 DEF ReloadInv
  <2>11. ASSUME NEW c \in Conns, Connect(c) PROVE ReloadInv'
    <3>1. NoneCut'
      BY <2>11 DEF Connect, NoneCut, Busy, Away, ConnType
    <3>2. (OneConfig /\ PreparedForReload /\ ReadyToPublish /\ KnownGoDown /\
       NoneKnownYet)'
      BY <2>11 DEF Connect, OneConfig, PreparedForReload, ReadyToPublish,
         KnownGoDown, NoneKnownYet, RoutedBy, Bound, Prepared, Published, In, Ids,
         Busy
    <3> QED
      BY <1>1, <3>1, <3>2 DEF ReloadInv
  <2>12. ASSUME NEW c \in Conns, Pick(c) PROVE ReloadInv'
    <3>1. NoneCut'
      BY <2>12 DEF Pick, NoneCut, Busy, ConnType, KnownGoDown, Served, StopType
    <3>2. (OneConfig /\ PreparedForReload /\ ReadyToPublish /\ KnownGoDown /\
       NoneKnownYet)'
      BY <2>12 DEF Pick, OneConfig, PreparedForReload, ReadyToPublish, KnownGoDown,
         NoneKnownYet, RoutedBy, Bound, Prepared, Published, In, Ids, Busy
    <3> QED
      BY <1>1, <3>1, <3>2 DEF ReloadInv
  <2>13. ASSUME NEW c \in Conns, Disconnect(c) PROVE ReloadInv'
    <3>1. NoneCut'
      BY <2>13 DEF Disconnect, NoneCut, Busy, Away, ConnType
    <3>2. (OneConfig /\ PreparedForReload /\ ReadyToPublish /\ KnownGoDown /\
       NoneKnownYet)'
      BY <2>13 DEF Disconnect, OneConfig, PreparedForReload, ReadyToPublish,
         KnownGoDown, NoneKnownYet, RoutedBy, Bound, Prepared, Published, In, Ids,
         Busy
    <3> QED
      BY <1>1, <3>1, <3>2 DEF ReloadInv
  <2>14. ASSUME NEW c \in Conns, Answer(c) PROVE ReloadInv'
    <3>1. NoneCut'
      BY <2>14 DEF Answer, NoneCut, Busy, Away, ConnType
    <3>2. (OneConfig /\ PreparedForReload /\ ReadyToPublish /\ KnownGoDown /\
       NoneKnownYet)'
      BY <2>14 DEF Answer, OneConfig, PreparedForReload, ReadyToPublish,
         KnownGoDown, NoneKnownYet, RoutedBy, Bound, Prepared, Published, In, Ids,
         Busy
    <3> QED
      BY <1>1, <3>1, <3>2 DEF ReloadInv
  <2>15. CASE ShutdownStarts
    <3>1. KnownGoDown'
      BY <2>15 DEF ShutdownStarts, KnownGoDown, StopType, NoneKnownYet
    <3>2. NoneKnownYet'
      BY <2>15 DEF ShutdownStarts, NoneKnownYet, StopType
    <3>3. NoneCut'
      BY <2>15 DEF ShutdownStarts, NoneCut, StopType, NoneKnownYet, Busy, ConnType
    <3>4. (OneConfig /\ PreparedForReload /\ ReadyToPublish)'
      BY <2>15 DEF ShutdownStarts, OneConfig, PreparedForReload, ReadyToPublish,
         RoutedBy, Bound, Prepared, Published, In, Ids, Busy
    <3> QED
      BY <1>1, <3>1, <3>2, <3>3, <3>4 DEF ReloadInv
  <2>16. CASE SnapshotGroups
    <3>1. KnownGoDown'
      BY <2>16 DEF SnapshotGroups, KnownGoDown, ListenerType, Published, In, Ids
    <3>2. NoneKnownYet'
      BY <2>16 DEF SnapshotGroups, NoneKnownYet, StopType
    <3>3. NoneCut'
      BY <2>16 DEF SnapshotGroups, NoneCut, StopType
    <3>4. (OneConfig /\ PreparedForReload /\ ReadyToPublish)'
      BY <2>16 DEF SnapshotGroups, OneConfig, PreparedForReload, ReadyToPublish,
         RoutedBy, Bound, Prepared, Published, In, Ids, Busy
    <3> QED
      BY <1>1, <3>1, <3>2, <3>3, <3>4 DEF ReloadInv
  <2>17. CASE ShutGroups
    <3>1. OneConfig'
      <4>1. /\ Published' = Published
            /\ \A l \in Published : /\ listeners'[l].addr = listeners[l].addr
                                    /\ listeners'[l].cfg = listeners[l].cfg
        BY <2>17 DEF ShutGroups, Published, In, ListenerType, Closed
      <4>2. \A d : RoutedBy(d)' <=> RoutedBy(d)
        BY <4>1, SamePublished
      <4>3. reload.at # "activate" \/ reload' = reload
        BY <2>17 DEF ShutGroups
      <4>4. reload'.at # "activate" \/ reload' = reload
        BY <2>17 DEF ShutGroups
      <4> QED
        BY <2>17, <4>2, <4>3, <4>4 DEF ShutGroups, OneConfig
    <3>2. PreparedForReload'
      BY <2>17 DEF ShutGroups, PreparedForReload, ListenerType, Closed, Published,
         In, Ids
    <3>3. ReadyToPublish'
      <4>1. /\ Published' = Published /\ In({"prepared"})' = In({"prepared"}) /\ reload' = reload
            /\ \A l \in Published \cup In({"prepared"}) : listeners'[l].addr = listeners[l].addr
        BY <2>17 DEF ShutGroups, Published, In, ListenerType, Closed
      <4> QED
        BY <4>1 DEF ReadyToPublish, Bound, Prepared
    <3>4. KnownGoDown'
      BY <2>17 DEF ShutGroups, KnownGoDown, ListenerType, StopType, Closed,
         Published, In, Ids
    <3>5. NoneKnownYet'
      BY <2>17 DEF ShutGroups, NoneKnownYet, StopType
    <3>6. NoneCut'
      BY <2>17 DEF ShutGroups, NoneCut, StopType
    <3> QED
      BY <1>1, <3>1, <3>2, <3>3, <3>4, <3>5, <3>6 DEF ReloadInv
  <2>18. CASE Drain
    <3>1. KnownGoDown'
      BY <2>18 DEF Drain, KnownGoDown, StopType, NoneKnownYet, Drained
    <3>2. NoneKnownYet'
      BY <2>18 DEF Drain, NoneKnownYet, StopType, Drained
    <3>3. NoneCut'
      BY <2>18 DEF Drain, NoneCut, StopType, NoneKnownYet, Busy, ConnType, Drained
    <3>4. (OneConfig /\ PreparedForReload /\ ReadyToPublish)'
      BY <2>18 DEF Drain, OneConfig, PreparedForReload, ReadyToPublish, RoutedBy,
         Bound, Prepared, Published, In, Ids, Busy
    <3> QED
      BY <1>1, <3>1, <3>2, <3>3, <3>4 DEF ReloadInv
  <2>19. CASE Exit
    <3>1. KnownGoDown'
      BY <2>19 DEF Exit, KnownGoDown, StopType, NoneKnownYet
    <3>2. NoneKnownYet'
      BY <2>19 DEF Exit, NoneKnownYet, StopType
    <3>3. NoneCut'
      BY <2>19 DEF Exit, NoneCut, StopType, NoneKnownYet, Busy, ConnType
    <3>4. (OneConfig /\ PreparedForReload /\ ReadyToPublish)'
      BY <2>19 DEF Exit, OneConfig, PreparedForReload, ReadyToPublish, RoutedBy,
         Bound, Prepared, Published, In, Ids, Busy
    <3> QED
      BY <1>1, <3>1, <3>2, <3>3, <3>4 DEF ReloadInv
  <2>20. CASE UNCHANGED routerVars
    BY <1>1, <2>20 DEF routerVars, RoutedBy, Bound, Prepared, Published, In, Busy, OneConfig, PreparedForReload, ReadyToPublish,
       KnownGoDown, NoneKnownYet, NoneCut
  <2> QED
    BY <2>1, <2>2, <2>3, <2>4, <2>5, <2>6, <2>7, <2>8, <2>9, <2>10, <2>11, <2>12,
       <2>13, <2>14, <2>15, <2>16, <2>17, <2>18, <2>19, <2>20 DEF ReloadNext
<1> QED
  BY <1>2

\* What the invariant says of the listeners in each state.
LEMMA ReloadInvSound == ReloadInv => ListenersSound
<1> SUFFICES ASSUME ReloadInv PROVE ListenersSound
  OBVIOUS
<1> USE DEF ReloadInv
<1>1. OneRouting
  BY DEF OneRouting, OneConfig, RoutedBy, RoutingFree
<1>2. NoLeakedListener
  BY DEF NoLeakedListener, PreparedForReload
<1>3. DrainedExit
  BY DEF DrainedExit, NoneCut
<1> QED
  BY <1>1, <1>2, <1>3 DEF ListenersSound

Starts(c) == conn[c].at = "open" /\ conn'[c].at = "running"

\* A request starts in Pick, which the routing lock keeps out of the middle of a publication.
LEMMA FreshStep ==
    ASSUME ReloadInv, [ReloadNext]_routerVars, NEW c \in Conns, Starts(c)
    PROVE  conn'[c].cfg = active
<1> USE DEF ReloadInv, ReloadTypeOK, ConnType, Starts
<1>1. CASE conn' = conn
  BY <1>1
<1>2. CASE \E ids : conn' = Disconnected(ids)
  BY <1>2 DEF Disconnected, Away
<1>3. ASSUME NEW k \in Conns, Connect(k) PROVE FALSE
  BY <1>3 DEF Connect, Away
<1>4. ASSUME NEW k \in Conns, Disconnect(k) PROVE FALSE
  BY <1>4 DEF Disconnect, Away
<1>5. ASSUME NEW k \in Conns, Answer(k) PROVE FALSE
  BY <1>5 DEF Answer, Away
<1>6. ASSUME NEW k \in Conns, Pick(k) PROVE conn'[c].cfg = active
  <2>1. k = c /\ conn'[c].cfg = listeners[conn[c].on].cfg
    BY <1>6 DEF Pick
  <2>2. conn[c].on \in Published
    BY <1>6, <2>1 DEF Pick, Served, Published, In
  <2> QED
    BY <1>6, <2>1, <2>2 DEF Pick, OneConfig, RoutedBy, RoutingFree
<1>7. CASE PrepareFails \/ StartAndRetire \/ ShutGroups
  BY <1>2, <1>7 DEF PrepareFails, StartAndRetire, ShutGroups
<1>8. CASE \/ Edit \/ (\E sig \in {"hup", "term"} : Signal(sig)) \/ TakeSignal
           \/ (\E by \in {"signal", "admin"} : ReadConfig(by))
           \/ BindAddress \/ AllBound \/ PublishTopology \/ Activate
           \/ ShutdownStarts \/ SnapshotGroups \/ Drain \/ Exit \/ UNCHANGED routerVars
  BY <1>1, <1>8 DEF Edit, Signal, TakeSignal, ReadConfig, BindAddress, AllBound, PublishTopology,
     Activate, ShutdownStarts, SnapshotGroups, Drain, Exit, routerVars
<1> QED
  BY <1>3, <1>4, <1>5, <1>6, <1>7, <1>8 DEF ReloadNext

\* The invariant of the router holds in every state of its specification.
THEOREM ReloadInductive == ReloadSpec => []ReloadInv
<1>1. ReloadInit => ReloadInv
  BY ReloadInvInit
<1>2. ReloadInv /\ [ReloadNext]_routerVars => ReloadInv'
  BY ReloadInvStep
<1> QED
  BY <1>1, <1>2, PTL DEF ReloadSpec

\* Reloads keep the types, and no two listeners that accept have one address.
THEOREM ReloadTypeCorrect == ReloadSpec => []ReloadTypeOK
<1>1. ReloadInv => ReloadTypeOK
  BY DEF ReloadInv
<1> QED
  BY <1>1, ReloadInductive, PTL

\* Whoever takes the routing lock finds the listeners, slices and token of one config; a failed
\* reload leaves no socket; the process ends with no request of a listener it knew under way.
THEOREM ListenersSoundThm == ReloadSpec => []ListenersSound
BY ReloadInvSound, ReloadInductive, PTL

\* A request is routed by the config that is active when it starts.
THEOREM NoStaleRoutingThm == ReloadSpec => NoStaleRouting
<1>1. ReloadInv /\ [ReloadNext]_routerVars
      => [\A c \in Conns : conn[c].at = "open" /\ conn'[c].at = "running"
            => conn'[c].cfg = active]_routerVars
  BY FreshStep DEF Starts
<1> QED
  BY <1>1, ReloadInductive, PTL DEF ReloadSpec, NoStaleRouting

---------------------------------------------------------------------------
(* DoorPorts.                                                               *)

\* What a reload has still to close and to open accounts for the difference between the doors that
\* listen and the config read.
DoorSpecs == {doors[a].spec : a \in DOMAIN doors}
Account(at, listening, served, close, open, wanted) ==
    /\ at = "idle"    => listening = served /\ served = wanted
    /\ at = "closing" => /\ listening = served \cup close /\ close \cap wanted = {}
                         /\ served \cup open = wanted /\ served \cap open = {}
    /\ at = "opening" => /\ listening = served
                         /\ served \cup open = wanted /\ served \cap open = {}
Opening ==
    /\ Account(stage, DoorSpecs, specs, reloading.close, reloading.open,
               doorLedger.read \ doorLedger.failed)
    /\ stage = "closing" => doorLedger.failed = {}

DoorInv == DoorPortTypeOK /\ Opening

\* A door is found under the address of its spec.
LEMMA DoorOfSpec ==
    ASSUME DoorsType, NEW e \in DoorSpecs
    PROVE  e.addr \in DOMAIN doors /\ doors[e.addr].spec = e
BY DEF DoorsType, DoorSpecs

\* The process starts with a door for each entry that is fronted.
LEMMA DoorInvInit == DoorPortInit => DoorInv
<1> SUFFICES ASSUME DoorPortInit PROVE DoorInv
  OBVIOUS
<1> USE DEF DoorPortInit
<1>1. doorFile \in DoorConfigs /\ specs \subseteq Entries
  BY DEF Entries, Fronted
<1>2. \A e, f \in specs : e.addr = f.addr => e = f
  BY DEF SpecsValid
<1>3. DOMAIN doors = Addresses(specs) /\ doors = [a \in DOMAIN doors |-> doors[a]]
  OBVIOUS
<1>4. ASSUME NEW a \in Addresses(specs)
      PROVE  \E e \in specs : e.addr = a /\ doors[a] = [spec |-> e, opened |-> 0]
  <2>1. \E e \in specs : e.addr = a
    BY DEF Addresses
  <2>2. PICK e \in specs : e.addr = a /\ e = CHOOSE f \in specs : f.addr = a
    BY <2>1
  <2> QED
    BY <2>2
<1>5. DoorsType
  <2> SUFFICES ASSUME NEW a \in DOMAIN doors
               PROVE  /\ doors[a] \in [spec : Entries, opened : 0..doorLedger.reloads]
                      /\ doors[a].spec.addr = a
    BY <1>3 DEF DoorsType
  <2>1. PICK e \in specs : e.addr = a /\ doors[a] = [spec |-> e, opened |-> 0]
    BY <1>3, <1>4
  <2>2. doorLedger.reloads = 0
    OBVIOUS
  <2> QED
    BY <1>1, <2>1, <2>2
<1>6. DoorFileType /\ PendingType /\ ReloadingType
  BY <1>1 DEF DoorFileType, PendingType, ReloadingType, NothingToDo
<1>7. DoorLedgerType
  BY <1>1, DoorBounds DEF DoorLedgerType
<1>8. DoorSpecs = specs
  <2>1. ASSUME NEW e \in specs PROVE e \in DoorSpecs
    <3>1. e.addr \in DOMAIN doors
      BY <1>3 DEF Addresses
    <3>2. doors[e.addr].spec = e
      BY <3>1, <1>2, <1>3, <1>4
    <3> QED
      BY <3>1, <3>2 DEF DoorSpecs
  <2>2. ASSUME NEW e \in DoorSpecs PROVE e \in specs
    <3>1. PICK a \in DOMAIN doors : e = doors[a].spec
      BY DEF DoorSpecs
    <3> QED
      BY <3>1, <1>3, <1>4
  <2> QED
    BY <2>1, <2>2
<1>9. Opening
  <2>1. stage = "idle" /\ doorLedger.read = specs /\ doorLedger.failed = {}
    OBVIOUS
  <2>2. DoorSpecs = specs /\ specs = doorLedger.read \ doorLedger.failed
    BY <1>8, <2>1
  <2> QED
    BY <2>1, <2>2 DEF Opening, Account
<1> QED
  BY <1>5, <1>6, <1>7, <1>9 DEF DoorInv, DoorPortTypeOK

\* A door that goes takes its spec along, and no other.
LEMMA DoorCloses ==
    ASSUME DoorsType, NEW a \in DOMAIN doors,
           doors' = [b \in DOMAIN doors \ {a} |-> doors[b]]
    PROVE  /\ DoorSpecs' = DoorSpecs \ {doors[a].spec}
           /\ DOMAIN doors' = DOMAIN doors \ {a}
           /\ \A b \in DOMAIN doors' : doors'[b] = doors[b]
<1>1. DOMAIN doors' = DOMAIN doors \ {a} /\ \A b \in DOMAIN doors' : doors'[b] = doors[b]
  OBVIOUS
<1>2. \A b, c \in DOMAIN doors : doors[b].spec = doors[c].spec => b = c
  BY DEF DoorsType
<1>3. ASSUME NEW e \in DoorSpecs' PROVE e \in DoorSpecs \ {doors[a].spec}
  BY <1>1, <1>2 DEF DoorSpecs
<1>4. ASSUME NEW e \in DoorSpecs \ {doors[a].spec} PROVE e \in DoorSpecs'
  BY <1>1 DEF DoorSpecs
<1> QED
  BY <1>1, <1>3, <1>4

\* A door that opens adds its spec.
LEMMA DoorOpens ==
    ASSUME DoorsType, NEW e, e.addr \notin DOMAIN doors,
           doors' = [a \in DOMAIN doors \cup {e.addr} |->
                       IF a = e.addr THEN [spec |-> e, opened |-> doorLedger.reloads] ELSE doors[a]]
    PROVE  /\ DoorSpecs' = DoorSpecs \cup {e}
           /\ DOMAIN doors' = DOMAIN doors \cup {e.addr}
           /\ doors'[e.addr] = [spec |-> e, opened |-> doorLedger.reloads]
           /\ \A b \in DOMAIN doors : doors'[b] = doors[b]
<1>1. /\ DOMAIN doors' = DOMAIN doors \cup {e.addr}
      /\ doors'[e.addr] = [spec |-> e, opened |-> doorLedger.reloads]
      /\ \A b \in DOMAIN doors : doors'[b] = doors[b]
  OBVIOUS
<1>2. doors'[e.addr].spec = e
  BY <1>1
<1>3. ASSUME NEW f \in DoorSpecs' PROVE f \in DoorSpecs \cup {e}
  BY <1>1, <1>2 DEF DoorSpecs
<1>4. ASSUME NEW f \in DoorSpecs \cup {e} PROVE f \in DoorSpecs'
  BY <1>1, <1>2 DEF DoorSpecs
<1> QED
  BY <1>1, <1>3, <1>4

\* Each step of the process keeps the types.
LEMMA DoorTypeStep == DoorPortTypeOK /\ [DoorPortNext]_doorPortVars => DoorPortTypeOK'
<1> SUFFICES ASSUME DoorPortTypeOK, [DoorPortNext]_doorPortVars PROVE DoorPortTypeOK'
  OBVIOUS
<1> USE DEF DoorPortTypeOK
<1>1. ASSUME NEW f \in DoorConfigs, EditDoorFile(f) PROVE DoorPortTypeOK'
  <2>1. DoorLedgerType' /\ doorLedger'.reloads = doorLedger.reloads
    <3>1. doorLedger' = [doorLedger EXCEPT !.edits = @ + 1] /\ doorLedger.edits + 1 \in 0..MaxDoorEdits
      BY <1>1, DoorBounds DEF EditDoorFile, DoorLedgerType
    <3>2. pending' = pending
      BY <1>1 DEF EditDoorFile
    <3> QED
      BY <3>1, <3>2 DEF DoorLedgerType
  <2>2. DoorFileType' /\ PendingType' /\ ReloadingType'
    BY <1>1 DEF EditDoorFile, DoorFileType, PendingType, ReloadingType
  <2>3. DoorsType'
    BY <1>1, <2>1 DEF EditDoorFile, DoorsType
  <2> QED
    BY <2>1, <2>2, <2>3
<1>2. ASSUME NEW k \in {"hup", "term"}, SignalDoor(k) PROVE DoorPortTypeOK'
  <2>1. PendingType' /\ Len(pending') <= Len(pending) + 1
    BY <1>2 DEF SignalDoor, PendingType
  <2>2. DoorLedgerType' /\ doorLedger'.reloads = doorLedger.reloads
    <3>1. Len(pending) \in Nat /\ Len(pending') \in Nat
      BY <2>1 DEF PendingType
    <3>2. /\ doorLedger' = [doorLedger EXCEPT !.signals = @ + 1]
          /\ doorLedger.signals + 1 \in 0..MaxDoorSignals
      BY <1>2, DoorBounds DEF SignalDoor, DoorLedgerType
    <3> QED
      BY <2>1, <3>1, <3>2 DEF DoorLedgerType
  <2>3. DoorFileType' /\ ReloadingType'
    BY <1>2 DEF SignalDoor, DoorFileType, ReloadingType
  <2>4. DoorsType'
    BY <1>2, <2>2 DEF SignalDoor, DoorsType
  <2> QED
    BY <2>1, <2>2, <2>3, <2>4
<1>3. CASE ReadDoorFile
  <2>1. PendingType' /\ Len(pending') = Len(pending) - 1 /\ Len(pending) \in Nat
    BY <1>3 DEF ReadDoorFile, PendingType
  <2>2. Fronted(doorFile) \subseteq Entries
    BY DEF Fronted, Entries, DoorFileType
  <2>3. /\ DoorLedgerType'
        /\ doorLedger.reloads <= doorLedger'.reloads
    <3>1. CASE SpecsValid(doorFile)
      <4>1. doorLedger' = [doorLedger EXCEPT !.reloads = @ + 1, !.read = Fronted(doorFile), !.failed = {}]
        BY <1>3, <3>1 DEF ReadDoorFile
      <4>2. Fronted(doorFile) \in SUBSET Entries /\ {} \in SUBSET Entries /\ doorLedger.reloads + 1 \in Nat
        BY <2>2 DEF DoorLedgerType
      <4>3. /\ doorLedger'.reloads = doorLedger.reloads + 1 /\ doorLedger'.signals = doorLedger.signals
            /\ doorLedger' \in [reloads : Nat, edits : 0..MaxDoorEdits, signals : 0..MaxDoorSignals,
                               taken : Nat, read : SUBSET Entries, failed : SUBSET Entries]
        BY <4>1, <4>2 DEF DoorLedgerType
      <4> QED
        BY <2>1, <4>3 DEF DoorLedgerType
    <3>2. CASE ~SpecsValid(doorFile)
      <4>1. doorLedger' = doorLedger
        BY <1>3, <3>2 DEF ReadDoorFile
      <4> QED
        BY <2>1, <4>1 DEF DoorLedgerType
    <3> QED
      BY <3>1, <3>2
  <2>4. DoorFileType' /\ ReloadingType'
    BY <1>3, <2>2 DEF ReadDoorFile, RemovedSpecs, AddedSpecs, DoorFileType, ReloadingType
  <2>5. DoorsType'
    BY <1>3, <2>3 DEF ReadDoorFile, DoorsType, DoorLedgerType
  <2> QED
    BY <2>1, <2>3, <2>4, <2>5
<1>4. CASE CloseRemoved
  <2>1. DoorFileType' /\ PendingType' /\ DoorLedgerType'
    BY <1>4 DEF CloseRemoved, DoorFileType, PendingType, DoorLedgerType
  <2>2. ReloadingType'
    BY <1>4 DEF CloseRemoved, ReloadingType
  <2>3. DoorsType'
    <3>1. CASE doors' = doors
      BY <2>1, <3>1, <1>4 DEF CloseRemoved, DoorsType
    <3>2. ASSUME NEW a, doors' = [b \in DOMAIN doors \ {a} |-> doors[b]] PROVE DoorsType'
      BY <1>4, <3>2 DEF CloseRemoved, DoorsType
    <3> QED
      BY <1>4, <3>1, <3>2 DEF CloseRemoved
  <2> QED
    BY <2>1, <2>2, <2>3
<1>5. CASE OpenAdded
  <2>1. PendingType' /\ DoorLedgerType' /\ doorLedger'.reloads = doorLedger.reloads
    <3>1. pending' = pending
      BY <1>5 DEF OpenAdded
    <3>2. CASE doorLedger' = doorLedger
      BY <3>1, <3>2 DEF PendingType, DoorLedgerType
    <3>3. ASSUME NEW e \in Entries,
                 doorLedger' = [doorLedger EXCEPT !.taken = @ + 1, !.failed = @ \cup {e}]
          PROVE  PendingType' /\ DoorLedgerType' /\ doorLedger'.reloads = doorLedger.reloads
      <4>1. doorLedger.failed \cup {e} \in SUBSET Entries /\ doorLedger.taken + 1 \in Nat
        BY DEF DoorLedgerType
      <4>2. /\ doorLedger'.reloads = doorLedger.reloads /\ doorLedger'.signals = doorLedger.signals
            /\ doorLedger' \in [reloads : Nat, edits : 0..MaxDoorEdits, signals : 0..MaxDoorSignals,
                               taken : Nat, read : SUBSET Entries, failed : SUBSET Entries]
        BY <3>3, <4>1 DEF DoorLedgerType
      <4> QED
        BY <3>1, <4>2 DEF PendingType, DoorLedgerType
    <3> QED
      BY <1>5, <3>2, <3>3 DEF OpenAdded, ReloadingType
  <2>2. ReloadingType' /\ DoorFileType'
    BY <1>5 DEF OpenAdded, ReloadingType, DoorFileType
  <2>3. DoorsType'
    <3>1. CASE doors' = doors
      BY <2>1, <3>1 DEF DoorsType
    <3>2. ASSUME NEW e \in Entries, e.addr \notin DOMAIN doors,
                 doors' = [a \in DOMAIN doors \cup {e.addr} |->
                    IF a = e.addr THEN [spec |-> e, opened |-> doorLedger.reloads] ELSE doors[a]]
          PROVE  DoorsType'
      <4>1. /\ DOMAIN doors' = DOMAIN doors \cup {e.addr}
            /\ doors'[e.addr] = [spec |-> e, opened |-> doorLedger.reloads]
            /\ \A b \in DOMAIN doors : doors'[b] = doors[b]
        BY <3>2, DoorOpens
      <4>2. doors' = [a \in DOMAIN doors' |-> doors'[a]]
        BY <3>2
      <4>3. [spec |-> e, opened |-> doorLedger.reloads] \in [spec : Entries, opened : 0..doorLedger.reloads]
        BY DEF DoorLedgerType
      <4>4. \A a \in DOMAIN doors' :
              /\ doors'[a] \in [spec : Entries, opened : 0..doorLedger'.reloads]
              /\ doors'[a].spec.addr = a
        BY <2>1, <4>1, <4>3 DEF DoorsType
      <4> QED
        BY <4>2, <4>4 DEF DoorsType
    <3> QED
      BY <1>5, <3>1, <3>2 DEF OpenAdded, ReloadingType
  <2> QED
    BY <2>1, <2>2, <2>3
<1>6. CASE TakeTerm
  <2>1. PendingType' /\ Len(pending') = Len(pending) - 1 /\ Len(pending) \in Nat
    BY <1>6 DEF TakeTerm, PendingType
  <2>2. DoorLedgerType'
    BY <1>6, <2>1 DEF TakeTerm, DoorLedgerType
  <2>3. DoorFileType' /\ ReloadingType' /\ DoorsType'
    BY <1>6 DEF TakeTerm, DoorFileType, ReloadingType, DoorsType
  <2> QED
    BY <2>1, <2>2, <2>3
<1>7. CASE shutdownAll
  <2>1. DoorFileType' /\ PendingType' /\ DoorLedgerType' /\ ReloadingType'
    BY <1>7 DEF shutdownAll, DoorFileType, PendingType, DoorLedgerType, ReloadingType
  <2>2. DoorsType'
    <3>1. CASE doors' = doors
      BY <3>1, <1>7 DEF shutdownAll, DoorsType
    <3>2. ASSUME NEW a, doors' = [b \in DOMAIN doors \ {a} |-> doors[b]] PROVE DoorsType'
      BY <1>7, <3>2 DEF shutdownAll, DoorsType
    <3> QED
      BY <1>7, <3>1, <3>2 DEF shutdownAll
  <2> QED
    BY <2>1, <2>2
<1>8. CASE UNCHANGED doorPortVars
  BY <1>8 DEF doorPortVars, DoorFileType, DoorsType, PendingType, ReloadingType, DoorLedgerType
<1> QED
  BY <1>1, <1>2, <1>3, <1>4, <1>5, <1>6, <1>7, <1>8 DEF DoorPortNext

\* Each step of the process keeps the account of a reload.
LEMMA DoorInvStep == DoorInv /\ [DoorPortNext]_doorPortVars => DoorInv'
<1> SUFFICES ASSUME DoorInv, [DoorPortNext]_doorPortVars PROVE DoorInv'
  OBVIOUS
<1>t. DoorPortTypeOK /\ DoorPortTypeOK'
  BY DoorTypeStep DEF DoorInv
<1> SUFFICES Opening'
  BY <1>t DEF DoorInv
<1>o. Opening
  BY DEF DoorInv
<1>s. doors' = doors => DoorSpecs' = DoorSpecs
  BY DEF DoorSpecs
<1>p. Opening' <=> /\ Account(stage', DoorSpecs', specs', (reloading').close, (reloading').open,
                             (doorLedger').read \ (doorLedger').failed)
                   /\ stage' = "closing" => (doorLedger').failed = {}
  BY DEF Opening, Account
<1>q. /\ Account(stage, DoorSpecs, specs, reloading.close, reloading.open,
                 doorLedger.read \ doorLedger.failed)
      /\ stage = "closing" => doorLedger.failed = {}
  BY <1>o DEF Opening
<1>a. ASSUME NEW f \in DoorConfigs, EditDoorFile(f) PROVE Opening'
  <2>1. doorLedger'.read = doorLedger.read /\ doorLedger'.failed = doorLedger.failed
    BY <1>a, <1>t DEF EditDoorFile, DoorPortTypeOK, DoorLedgerType
  <2> QED
    BY <1>p, <1>a, <1>o, <1>s, <2>1 DEF EditDoorFile, Opening
<1>b. ASSUME NEW k \in {"hup", "term"}, SignalDoor(k) PROVE Opening'
  <2>1. doorLedger'.read = doorLedger.read /\ doorLedger'.failed = doorLedger.failed
    BY <1>b, <1>t DEF SignalDoor, DoorPortTypeOK, DoorLedgerType
  <2> QED
    BY <1>p, <1>b, <1>o, <1>s, <2>1 DEF SignalDoor, Opening
<1>c. CASE ReadDoorFile
  <2> DEFINE F == Fronted(doorFile)
  <2>1. stage = "idle" /\ DoorSpecs' = DoorSpecs
    BY <1>c, <1>s DEF ReadDoorFile
  <2>2. CASE SpecsValid(doorFile)
    <3>1. doorLedger'.read = F /\ doorLedger'.failed = {} /\ F \ {} = F
      BY <1>c, <2>2, <1>t DEF ReadDoorFile, DoorPortTypeOK, DoorLedgerType
    <3>2. CASE F # specs
      <4>1. /\ stage' = "closing" /\ specs' = specs \cap F
            /\ reloading'.close = specs \ F /\ reloading'.open = F \ specs
        BY <1>c, <2>2, <3>2 DEF ReadDoorFile, RemovedSpecs, AddedSpecs
      <4> HIDE DEF F
      <4> QED
        BY <1>p, <1>q, <2>1, <3>1, <4>1 DEF Account
    <3>3. CASE F = specs
      <4>1. UNCHANGED <<stage, specs, reloading>>
        BY <1>c, <2>2, <3>3 DEF ReadDoorFile
      <4>2. Account("idle", DoorSpecs, specs, reloading.close, reloading.open, specs)
        BY <1>o, <2>1 DEF Opening, Account
      <4> HIDE DEF F
      <4> QED
        BY <1>p, <2>1, <3>1, <3>3, <4>1, <4>2
    <3> QED
      BY <3>2, <3>3
  <2>3. CASE ~SpecsValid(doorFile)
    <3>1. UNCHANGED <<stage, specs, reloading, doorLedger>>
      BY <1>c, <2>3 DEF ReadDoorFile
    <3> QED
      BY <1>p, <1>q, <2>1, <3>1
  <2> QED
    BY <2>2, <2>3
<1>d. CASE CloseRemoved
  <2>1. stage = "closing" /\ UNCHANGED <<specs, doorLedger>>
    BY <1>d DEF CloseRemoved
  <2>2. CASE reloading.close = {}
    <3>1. stage' = "opening" /\ UNCHANGED <<doors, reloading>>
      BY <1>d, <2>2 DEF CloseRemoved
    <3> QED
      BY <1>p, <1>q, <1>s, <2>1, <2>2, <3>1 DEF Account
  <2>3. CASE reloading.close # {}
    <3>1. PICK e \in reloading.close :
             /\ doors' = [a \in DOMAIN doors \ {e.addr} |-> doors[a]]
             /\ reloading' = [reloading EXCEPT !.close = @ \ {e}]
             /\ stage' = stage
      BY <1>d, <2>3 DEF CloseRemoved
    <3>2. e \in DoorSpecs
      BY <1>o, <2>1 DEF Opening, Account
    <3>3. e.addr \in DOMAIN doors /\ doors[e.addr].spec = e
      BY <1>t, <3>2, DoorOfSpec DEF DoorPortTypeOK
    <3>4. DoorSpecs' = DoorSpecs \ {e}
      BY <1>t, <3>1, <3>3, DoorCloses DEF DoorPortTypeOK
    <3>5. reloading'.close = reloading.close \ {e} /\ reloading'.open = reloading.open
      BY <1>t, <3>1 DEF DoorPortTypeOK, ReloadingType
    <3> QED
      BY <1>p, <1>q, <2>1, <3>1, <3>4, <3>5 DEF Account
  <2> QED
    BY <2>2, <2>3
<1>e. CASE OpenAdded
  <2>1. stage = "opening"
    BY <1>e DEF OpenAdded
  <2>2. CASE reloading.open = {}
    <3>1. stage' = "idle" /\ UNCHANGED <<doors, specs, reloading, doorLedger>>
      BY <1>e, <2>2 DEF OpenAdded
    <3> QED
      BY <1>p, <1>q, <1>s, <2>1, <2>2, <3>1 DEF Account
  <2>3. CASE reloading.open # {}
    <3>1. PICK e \in reloading.open :
             /\ reloading' = [reloading EXCEPT !.open = @ \ {e}]
             /\ \/ /\ e.addr \notin DOMAIN doors
                   /\ doors' = [a \in DOMAIN doors \cup {e.addr} |->
                         IF a = e.addr THEN [spec |-> e, opened |-> doorLedger.reloads] ELSE doors[a]]
                   /\ specs' = specs \cup {e} /\ UNCHANGED doorLedger
                \/ /\ doorLedger' = [doorLedger EXCEPT !.taken = @ + 1, !.failed = @ \cup {e}]
                   /\ UNCHANGED <<doors, specs>>
             /\ UNCHANGED stage
      BY <1>e, <2>3 DEF OpenAdded
    <3>2. reloading'.close = reloading.close /\ reloading'.open = reloading.open \ {e}
      BY <1>t, <3>1 DEF DoorPortTypeOK, ReloadingType
    <3>3. CASE specs' = specs \cup {e} /\ UNCHANGED doorLedger /\ DoorSpecs' = DoorSpecs \cup {e}
      BY <1>p, <1>q, <2>1, <3>1, <3>2, <3>3 DEF Account
    <3>4. CASE /\ doorLedger' = [doorLedger EXCEPT !.taken = @ + 1, !.failed = @ \cup {e}]
               /\ UNCHANGED <<doors, specs>>
      <4>1. doorLedger'.read = doorLedger.read /\ doorLedger'.failed = doorLedger.failed \cup {e}
        BY <1>t, <3>4 DEF DoorPortTypeOK, DoorLedgerType
      <4>2. doorLedger'.read \ doorLedger'.failed = (doorLedger.read \ doorLedger.failed) \ {e}
        BY <4>1
      <4> QED
        BY <1>p, <1>q, <1>s, <2>1, <3>1, <3>2, <3>4, <4>2 DEF Account
    <3> QED
      BY <1>t, <3>1, <3>3, <3>4, DoorOpens DEF DoorPortTypeOK
  <2> QED
    BY <2>2, <2>3
<1>f. CASE TakeTerm \/ shutdownAll
  <2>1. stage' \in {"stopping", "stopped"}
    BY <1>f DEF TakeTerm, shutdownAll
  <2>2. Account(stage', DoorSpecs', specs', (reloading').close, (reloading').open,
                (doorLedger').read \ (doorLedger').failed)
    BY <2>1 DEF Account
  <2> QED
    BY <1>p, <2>1, <2>2
<1>g. CASE UNCHANGED doorPortVars
  BY <1>p, <1>q, <1>g, <1>s DEF doorPortVars
<1> QED
  BY <1>a, <1>b, <1>c, <1>d, <1>e, <1>f, <1>g DEF DoorPortNext

\* A door whose spec the config read keeps is neither closed nor opened again.
LEMMA PortsKeptStep ==
    ASSUME DoorInv, [DoorPortNext]_doorPortVars, NEW a \in DOMAIN doors,
           stage \notin {"idle", "stopping", "stopped"}, doors[a].spec \in doorLedger.read
    PROVE  a \in DOMAIN doors' /\ (doors[a].opened < doorLedger.reloads => doors'[a] = doors[a])
<1>t. DoorsType /\ Opening
  BY DEF DoorInv, DoorPortTypeOK
<1>1. CASE doors' = doors
  BY <1>1
<1>2. CASE CloseRemoved /\ reloading.close # {}
  <2>1. PICK e \in reloading.close : doors' = [b \in DOMAIN doors \ {e.addr} |-> doors[b]]
    BY <1>2 DEF CloseRemoved
  <2>2. e \in DoorSpecs /\ e \notin doorLedger.read
    BY <1>t, <1>2 DEF CloseRemoved, Opening, Account
  <2>3. doors[e.addr].spec = e
    BY <1>t, <2>2, DoorOfSpec
  <2>4. a # e.addr
    BY <2>2, <2>3
  <2> QED
    BY <2>1, <2>4
<1>3. CASE OpenAdded /\ doors' # doors
  <2>1. PICK e \in reloading.open :
          /\ e.addr \notin DOMAIN doors
          /\ doors' = [b \in DOMAIN doors \cup {e.addr} |->
                IF b = e.addr THEN [spec |-> e, opened |-> doorLedger.reloads] ELSE doors[b]]
    BY <1>3 DEF OpenAdded
  <2> QED
    BY <2>1
<1> QED
  BY <1>1, <1>2, <1>3 DEF DoorPortNext, EditDoorFile, SignalDoor, ReadDoorFile, CloseRemoved, OpenAdded,
     TakeTerm, shutdownAll, doorPortVars

\* The invariant of the doors holds in every state of their specification.
THEOREM DoorInductive == DoorPortSpec => []DoorInv
<1>1. DoorPortInit => DoorInv
  BY DoorInvInit
<1>2. DoorInv /\ [DoorPortNext]_doorPortVars => DoorInv'
  BY DoorInvStep
<1> QED
  BY <1>1, <1>2, PTL DEF DoorPortSpec

\* A door is kept under the address of its spec, and no more than two signals wait.
THEOREM DoorTypeCorrect == DoorPortSpec => []DoorPortTypeOK
<1>1. DoorInv => DoorPortTypeOK
  BY DEF DoorInv
<1> QED
  BY <1>1, DoorInductive, PTL

\* Between reloads the doors are those of the config read last, but for addresses that were taken.
LEMMA DoorInvFollows == DoorInv => DoorsFollowConfig
BY DEF DoorInv, Opening, Account, DoorsFollowConfig, DoorSpecs

\* Between reloads the doors are those of the config that was read last.
THEOREM DoorsFollowConfigThm == DoorPortSpec => []DoorsFollowConfig
BY DoorInvFollows, DoorInductive, PTL

\* A port that both configs have with one spec is not touched by the reload.
THEOREM PortsKeptThm == DoorPortSpec => PortsKept
<1>1. DoorInv /\ [DoorPortNext]_doorPortVars
      => [\A a \in DOMAIN doors : (stage \notin {"idle", "stopping", "stopped"} /\ doors[a].spec \in doorLedger.read)
           => a \in DOMAIN doors' /\ (doors[a].opened < doorLedger.reloads => doors'[a] = doors[a])]_doorPortVars
  BY PortsKeptStep
<1> QED
  BY <1>1, DoorInductive, PTL DEF DoorPortSpec, PortsKept


---------------------------------------------------------------------------
(* AuthLineage: types.                                                      *)

\* A client of the router holds a token when the credential in use is an OAuth login, and only then.
ClientHeld == source = "oauth" <=> client[authGen] # NoToken

\* What a read of the stores finds: an OAuth entry is never empty.
LEMMA ReadsTyped ==
    ASSUME StoreType, issued \in Nat
    PROVE  LoadDetailed \in Reads /\ (LoadDetailed.kind = "oauth" => LoadDetailed.token # NoToken)
BY DEF StoreType, LoadDetailed, Reads, Found, NoFP, NoToken

\* As many logins as there are tokens.
LEMMA LoginsBounded ==
    ASSUME ServerType
    PROVE  Cardinality(Logins) \in Nat /\ Cardinality(Logins) <= issued
<1> DEFINE f == [t \in 1..issued |-> owner[t]]
<1>1. issued \in Nat
  BY AuthAssumption DEF ServerType, Tokens
<1>2. f \in Surjection(1..issued, Logins)
  BY DEF Surjection, Logins
<1>3. ExistsSurjection(1..issued, Logins)
  BY <1>2 DEF ExistsSurjection
<1>4. IsFiniteSet(Logins)
  BY <1>1, <1>3, FS_NatSurjection
<1> QED
  BY <1>1, <1>3, <1>4, FS_SurjCardinalityBound, FS_CardinalityType

\* More tokens leave what does not change in its type.
LEMMA TypesGrow ==
    ASSUME LineageTypeOK, issued' \in Nat, issued <= issued'
    PROVE  /\ UNCHANGED stores => StoreType'
           /\ UNCHANGED <<source, authStoreFP, health, email>> => SourceType'
           /\ refreshing' = refreshing => RefreshingType'
           /\ tick' = tick => TickType'
<1>1. issued \in Nat /\ \A t \in 0..issued : t \in 0..issued'
  BY AuthAssumption DEF LineageTypeOK, ServerType, Tokens
<1>2. \A p \in Prints : p \in Prints'
  BY <1>1 DEF Prints
<1>3. \A p \in Reads : p \in Reads'
  BY <1>1 DEF Reads
<1>4. UNCHANGED stores => StoreType'
  BY <1>1 DEF LineageTypeOK, stores, StoreType
<1>5. UNCHANGED <<source, authStoreFP, health, email>> => SourceType'
  BY <1>1, <1>2 DEF LineageTypeOK, health, SourceType
<1>6. refreshing' = refreshing => RefreshingType'
  BY <1>3 DEF LineageTypeOK, RefreshingType
<1>7. tick' = tick => TickType'
  BY <1>2 DEF LineageTypeOK, TickType
<1> QED
  BY <1>4, <1>5, <1>6, <1>7

\* A refresh leaves the endpoint's tokens and the clients in their types.
LEMMA AskEndpointTypes ==
    ASSUME LineageTypeOK, NEW g \in Gens, AskEndpoint(g)
    PROVE  /\ issued' \in Nat /\ issued <= issued' /\ ServerType' /\ EventsType'
           /\ client' \in [Gens -> 0..issued']
           /\ refresh' \in [Gens -> {"idle", "rotated", "rejected", "announced"}]
           /\ \A h \in Gens : refresh'[h] # "idle" => client'[h] # NoToken
<1>1. issued \in Tokens /\ issued \in Nat /\ MaxTokens \in Nat
  BY AuthAssumption DEF LineageTypeOK, ServerType, Tokens
<1>2. CASE Rotates(g)
  <2>1. issued' = issued + 1 /\ issued' \in Tokens
    BY <1>1, <1>2 DEF Rotates, Tokens
  <2>2. client[g] \in Tokens
    <3>1. client[g] \in 1..issued
      BY <1>2 DEF Rotates, LineageTypeOK, ServerType
    <3> QED
      BY <1>1, <3>1 DEF Tokens
  <2>3. ServerType'
    <3>1. owner' \in [Tokens -> Tokens]
      BY <1>2, <2>2 DEF Rotates, LineageTypeOK, ServerType
    <3>2. live' \subseteq 1..issued'
      <4>1. live \subseteq 1..issued /\ live' \subseteq live \cup {issued'}
        BY <1>2 DEF Rotates, LineageTypeOK, ServerType
      <4>2. \A t \in (1..issued) \cup {issued'} : t \in 1..issued'
        BY <1>1, <2>1
      <4> QED
        BY <4>1, <4>2
    <3> QED
      BY <2>1, <3>1, <3>2 DEF ServerType
  <2>4. EventsType'
    BY <1>2, AuthAssumption DEF AskEndpoint, Event, LineageTypeOK, EventsType, Rotates
  <2>5. \/ client' = client /\ refresh' = refresh
        \/ client' = [client EXCEPT ![g] = issued'] /\ refresh' = [refresh EXCEPT ![g] = "rotated"]
    BY <1>2 DEF AskEndpoint, Rotates
  <2>6. client \in [Gens -> 0..issued'] /\ issued' \in 0..issued' /\ issued' # NoToken
    BY <1>1, <2>1 DEF LineageTypeOK, ClientType, NoToken
  <2> QED
    BY <1>1, <2>1, <2>3, <2>4, <2>5, <2>6 DEF LineageTypeOK, ClientType
<1>3. CASE /\ client[g] \notin live
           /\ refresh' = [refresh EXCEPT ![g] = "rejected"]
           /\ UNCHANGED <<server, client, events>>
  BY <1>1, <1>3 DEF AskEndpoint, LineageTypeOK, ServerType, ClientType, EventsType, server
<1> QED
  BY <1>2, <1>3 DEF AskEndpoint

\* A reload of the credential leaves it in its type.
LEMMA PublishTypes ==
    ASSUME LineageTypeOK, refreshAuthLocked
    PROVE  ClientType' /\ SourceType'
<1>1. issued' = issued /\ issued \in Nat /\ 0 \in 0..issued
  BY AuthAssumption DEF refreshAuthLocked, server, LineageTypeOK, ServerType, Tokens
<1>2. CASE UNCHANGED <<authGen, client, source, authStoreFP, health, email>>
  BY <1>1, <1>2 DEF refreshAuthLocked, LineageTypeOK, ClientType, SourceType, health, Prints
<1>3. CASE Publish
  <2> DEFINE src  == SourceOf(refreshing.saved, refreshing.found)
             cred == IF src = "oauth" THEN refreshing.found.token ELSE NoToken
  <2>1. /\ refreshing.saved \in {"none", "key", "error"} /\ refreshing.found \in Reads
    BY DEF refreshAuthLocked, LineageTypeOK, RefreshingType, NoStep
  <2>2. src \in {"none", "oauth", "api_key", "saved"} /\ cred \in 0..issued
    BY <1>1, <2>1 DEF SourceOf, StoreFailure, Reads, NoToken
  <2>3. PublishedFP \in Prints
    BY <1>1, <2>1 DEF PublishedFP, StoreFP, StoreFailure, Found, NoFP, Reads, Prints, NoToken
  <2>4. NextGen \in Gens /\ client[NextGen] = NoToken /\ refresh[NextGen] = "idle"
    BY <1>3 DEF Publish, NextGen, FreeGens
  <2>5. ClientType'
    <3>1. authGen' \in Gens /\ refresh' = refresh
      BY <1>3, <2>4 DEF Publish, refreshAuthLocked
    <3>2. client' = [g \in Gens |-> IF g = NextGen THEN cred
                        ELSE IF g = authGen \/ refresh[g] # "idle" THEN client[g] ELSE NoToken]
      BY <1>3 DEF Publish
    <3>3. client' \in [Gens -> 0..issued]
      <4> HIDE DEF cred
      <4> QED
        BY <1>1, <2>2, <3>2 DEF LineageTypeOK, ClientType, NoToken
    <3> HIDE DEF cred
    <3> QED
      BY <1>1, <2>4, <3>1, <3>2, <3>3 DEF LineageTypeOK, ClientType
  <2>6. SourceType'
    <3>1. source' = src /\ authStoreFP' = PublishedFP
      BY <1>3 DEF Publish
    <3>2. authDead' \in BOOLEAN /\ authDeadFP' \in 0..issued
      BY <1>1, <1>3 DEF Publish, LineageTypeOK, SourceType, NoToken
    <3>3. email' \in {NoOne} \cup Tokens
      BY <1>3 DEF Publish, LineageTypeOK, SourceType
    <3>4. Prints' = Prints
      BY <1>1 DEF Prints
    <3> HIDE DEF src
    <3> QED
      BY <1>1, <2>2, <2>3, <3>1, <3>2, <3>3, <3>4 DEF SourceType
  <2> QED
    BY <2>5, <2>6
<1> QED
  BY <1>2, <1>3 DEF refreshAuthLocked

\* The router starts without a credential.
LEMMA LineageTypeInit == LineageInit => LineageTypeOK
<1> SUFFICES ASSUME LineageInit PROVE LineageTypeOK
  OBVIOUS
<1> USE AuthAssumption DEF LineageInit, Fresh
<1>1. 1 \in Tokens /\ 1 \in 0..issued /\ 0 \in Gens
  BY DEF Tokens, Gens
<1>2. StoreType /\ ServerType
  BY <1>1 DEF StoreType, ServerType, NoToken
<1>3. ClientType
  BY <1>1 DEF ClientType, NoToken
<1>4. SourceType
  <2>1. NoFP \in Prints
    BY <1>1 DEF Prints, NoFP, Found, NoToken
  <2>2. source = "none" /\ authStoreFP = NoFP /\ authDead = FALSE /\ email = NoOne
    OBVIOUS
  <2>3. authDeadFP \in 0..issued
    BY <1>1 DEF NoToken
  <2> QED
    BY <2>1, <2>2, <2>3 DEF SourceType
<1>5. RefreshingType /\ TickType /\ MailType /\ EventsType
  BY DEF RefreshingType, TickType, MailType, EventsType
<1> QED
  BY <1>2, <1>3, <1>4, <1>5 DEF LineageTypeOK

\* Each step keeps the types.
LEMMA LineageTypeStep == LineageTypeOK /\ ClientHeld /\ [LineageNext]_lineageVars => LineageTypeOK'
<1> SUFFICES ASSUME LineageTypeOK, ClientHeld, [LineageNext]_lineageVars PROVE LineageTypeOK'
  OBVIOUS
<1> USE DEF LineageTypeOK
<1>1. LineageTypeOK'
  <2>1. CASE AskReload
    <3>1. RefreshingType'
      <4>1. issued \in Nat /\ Reads' = Reads
        BY <2>1, AuthAssumption DEF AskReload, server, ServerType, Tokens, Reads
      <4>2. LoadDetailed \in Reads /\ (LoadDetailed.kind = "oauth" => LoadDetailed.token # NoToken)
        BY <4>1, ReadsTyped
      <4>3. \E saved \in {"none", "key", "error"} :
               refreshing' = [at |-> "read", saved |-> saved, found |-> LoadDetailed]
        BY <2>1 DEF AskReload, ReadStores, StoreType
      <4> HIDE DEF Reads
      <4> QED
        BY <4>1, <4>2, <4>3 DEF RefreshingType
    <3>2. EventsType'
      BY <2>1, AuthAssumption DEF AskReload, EventsType, Event
    <3>3. (StoreType /\ ServerType /\ ClientType /\ SourceType /\ TickType /\
       MailType)'
      BY <2>1 DEF AskReload, StoreType, ServerType, ClientType, SourceType,
         TickType, MailType, stores, server, health, Prints, Reads, Outside
    <3> QED
      BY <3>1, <3>2, <3>3 DEF LineageTypeOK
  <2>2. CASE handleSavedAPIKey
    <3>1. StoreType'
      BY <2>2 DEF handleSavedAPIKey, StoreType, server, Outside, stores, health
    <3>2. RefreshingType'
      <4>1. issued \in Nat /\ Reads' = Reads
        BY <2>2, AuthAssumption DEF handleSavedAPIKey, server, ServerType, Tokens, Reads
      <4>2. LoadDetailed \in Reads /\ (LoadDetailed.kind = "oauth" => LoadDetailed.token # NoToken)
        BY <4>1, ReadsTyped
      <4>3. \E saved \in {"none", "key", "error"} :
               refreshing' = [at |-> "read", saved |-> saved, found |-> LoadDetailed]
        BY <2>2 DEF handleSavedAPIKey, ReadStores, StoreType
      <4> HIDE DEF Reads
      <4> QED
        BY <4>1, <4>2, <4>3 DEF RefreshingType
    <3>3. EventsType'
      BY <2>2, AuthAssumption DEF handleSavedAPIKey, EventsType, Event
    <3>4. (ServerType /\ ClientType /\ SourceType /\ TickType /\ MailType)'
      BY <2>2 DEF handleSavedAPIKey, ServerType, ClientType, SourceType, TickType,
         MailType, stores, server, health, Prints, Reads, Outside
    <3> QED
      BY <3>1, <3>2, <3>3, <3>4 DEF LineageTypeOK
  <2>3. CASE refreshAuthLocked
    <3>a. ClientType' /\ SourceType'
      BY <2>3, PublishTypes
    <3>1. ClientType'
      BY <3>a
    <3>2. SourceType'
      BY <3>a
    <3>3. RefreshingType'
      BY <2>3 DEF refreshAuthLocked, RefreshingType
    <3>4. TickType'
      <4>1. tick' \in {tick, NoStep} /\ Prints' = Prints
        BY <2>3 DEF refreshAuthLocked, server, Prints
      <4> QED
        BY <4>1 DEF TickType
    <3>5. (StoreType /\ ServerType /\ MailType /\ EventsType)'
      BY <2>3 DEF refreshAuthLocked, StoreType, ServerType, MailType, EventsType,
         stores, server, health, Prints, Reads, Outside
    <3> QED
      BY <3>1, <3>2, <3>3, <3>4, <3>5 DEF LineageTypeOK
  <2>4. ASSUME NEW g \in Gens, RequestRefreshes(g) PROVE LineageTypeOK'
    <3>a. AskEndpoint(g) /\ g \in Gens
      BY <2>4 DEF RequestRefreshes
    <3>b. /\ issued' \in Nat /\ issued <= issued' /\ ServerType' /\ EventsType'
          /\ client' \in [Gens -> 0..issued']
          /\ refresh' \in [Gens -> {"idle", "rotated", "rejected", "announced"}]
          /\ \A h \in Gens : refresh'[h] # "idle" => client'[h] # NoToken
      BY <3>a, AskEndpointTypes
    <3>c. ClientType'
      BY <2>4, <3>b DEF RequestRefreshes, ClientType
    <3>d. StoreType' /\ SourceType' /\ RefreshingType' /\ (tick' = tick => TickType')
      BY <2>4, <3>b, TypesGrow DEF RequestRefreshes
    <3>e. TickType' /\ MailType'
      BY <2>4, <3>d DEF RequestRefreshes, MailType
    <3> QED
      BY <3>b, <3>c, <3>d, <3>e
  <2>5. ASSUME NEW g \in Gens, noteAuthRefresh(g) PROVE LineageTypeOK'
    <3>1. ClientType'
      BY <2>5 DEF noteAuthRefresh, ClientType, server, Outside, stores, health
    <3>2. SourceType'
      <4>1. Prints' = Prints /\ issued' = issued /\ UNCHANGED <<source, authStoreFP, email>>
        BY <2>5 DEF noteAuthRefresh, server, Prints
      <4>2. authDead' \in BOOLEAN /\ authDeadFP' \in {authDeadFP, NoToken, client[g]}
        BY <2>5 DEF noteAuthRefresh, health, SourceType
      <4>3. {authDeadFP, NoToken, client[g]} \subseteq 0..issued
        BY AuthAssumption DEF SourceType, ClientType, ServerType, Tokens, NoToken
      <4> HIDE DEF Prints
      <4> QED
        BY <4>1, <4>2, <4>3 DEF SourceType
    <3>3. (StoreType /\ ServerType /\ RefreshingType /\ TickType /\ MailType /\
       EventsType)'
      BY <2>5 DEF noteAuthRefresh, StoreType, ServerType, RefreshingType, TickType,
         MailType, EventsType, stores, server, health, Prints, Reads, Outside
    <3> QED
      BY <3>1, <3>2, <3>3 DEF LineageTypeOK
  <2>6. ASSUME NEW g \in Gens, Save(g) PROVE LineageTypeOK'
    <3>1. StoreType'
      BY <2>6 DEF Save, StoreType, stores, ClientType, server, Outside, health
    <3>2. ClientType'
      BY <2>6 DEF Save, ClientType, server, Outside, stores, health
    <3>3. EventsType'
      BY <2>6, AuthAssumption DEF Save, EventsType, Event
    <3>4. (ServerType /\ SourceType /\ RefreshingType /\ TickType /\ MailType)'
      BY <2>6 DEF Save, ServerType, SourceType, RefreshingType, TickType, MailType,
         stores, server, health, Prints, Reads, Outside
    <3> QED
      BY <3>1, <3>2, <3>3, <3>4 DEF LineageTypeOK
  <2>7. CASE TickSnapshots
    <3>1. TickType'
      <4>1. Prints' = Prints /\ authDead \in BOOLEAN /\ authStoreFP \in Prints /\ authGen \in Gens
        BY <2>7 DEF TickSnapshots, server, Prints, SourceType, ClientType
      <4>2. tick' = [at |-> "snapshot", dead |-> authDead, fp |-> authStoreFP,
                     gen |-> authGen, oauth |-> source = "oauth"]
        BY <2>7 DEF TickSnapshots
      <4>3. (source = "oauth") \in BOOLEAN
        OBVIOUS
      <4> HIDE DEF Prints
      <4> QED
        BY <4>1, <4>2, <4>3 DEF TickType
    <3>2. (StoreType /\ ServerType /\ ClientType /\ SourceType /\ RefreshingType /\
       MailType /\ EventsType)'
      BY <2>7 DEF TickSnapshots, StoreType, ServerType, ClientType, SourceType,
         RefreshingType, MailType, EventsType, stores, server, health, Prints,
         Reads, Outside
    <3> QED
      BY <3>1, <3>2 DEF LineageTypeOK
  <2>8. CASE TickObserves
    <3>1. TickType'
      <4>1. tick.gen \in Gens
        BY <2>8 DEF TickObserves, TickType, NoStep
      <4>2. \/ tick' = NoStep \/ tick' = [at |-> "reload"]
            \/ tick' = [at |-> "token", gen |-> tick.gen]
        BY <2>8 DEF TickObserves
      <4> QED
        BY <4>1, <4>2 DEF TickType
    <3>2. (StoreType /\ ServerType /\ ClientType /\ SourceType /\ RefreshingType /\
       MailType /\ EventsType)'
      BY <2>8 DEF TickObserves, StoreType, ServerType, ClientType, SourceType,
         RefreshingType, MailType, EventsType, stores, server, health, Prints,
         Reads, Outside
    <3> QED
      BY <3>1, <3>2 DEF LineageTypeOK
  <2>9. CASE TickReloads
    <3>1. RefreshingType'
      <4>1. issued \in Nat /\ Reads' = Reads
        BY <2>9, AuthAssumption DEF TickReloads, server, ServerType, Tokens, Reads
      <4>2. LoadDetailed \in Reads /\ (LoadDetailed.kind = "oauth" => LoadDetailed.token # NoToken)
        BY <4>1, ReadsTyped
      <4>3. \E saved \in {"none", "key", "error"} :
               refreshing' = [at |-> "read", saved |-> saved, found |-> LoadDetailed]
        BY <2>9 DEF TickReloads, ReadStores, StoreType
      <4> HIDE DEF Reads
      <4> QED
        BY <4>1, <4>2, <4>3 DEF RefreshingType
    <3>2. TickType'
      BY <2>9 DEF TickReloads, TickType
    <3>3. (StoreType /\ ServerType /\ ClientType /\ SourceType /\ MailType /\
       EventsType)'
      BY <2>9 DEF TickReloads, StoreType, ServerType, ClientType, SourceType,
         MailType, EventsType, stores, server, health, Prints, Reads, Outside
    <3> QED
      BY <3>1, <3>2, <3>3 DEF LineageTypeOK
  <2>10. CASE TickRests
    <3>1. TickType'
      BY <2>10 DEF TickRests, TickType
    <3>2. (StoreType /\ ServerType /\ ClientType /\ SourceType /\ RefreshingType /\
       MailType /\ EventsType)'
      BY <2>10 DEF TickRests, StoreType, ServerType, ClientType, SourceType,
         RefreshingType, MailType, EventsType, stores, server, health, Prints,
         Reads, Outside
    <3> QED
      BY <3>1, <3>2 DEF LineageTypeOK
  <2>11. CASE TickRefreshes
    <3>a. AskEndpoint(tick.gen) /\ tick.gen \in Gens
      BY <2>11 DEF TickRefreshes, TickType, NoStep
    <3>b. /\ issued' \in Nat /\ issued <= issued' /\ ServerType' /\ EventsType'
          /\ client' \in [Gens -> 0..issued']
          /\ refresh' \in [Gens -> {"idle", "rotated", "rejected", "announced"}]
          /\ \A h \in Gens : refresh'[h] # "idle" => client'[h] # NoToken
      BY <3>a, AskEndpointTypes
    <3>c. ClientType'
      BY <2>11, <3>b DEF TickRefreshes, ClientType
    <3>d. StoreType' /\ SourceType' /\ RefreshingType' /\ (tick' = tick => TickType')
      BY <2>11, <3>b, TypesGrow DEF TickRefreshes
    <3>e. TickType' /\ MailType'
      BY <2>11, <3>d DEF TickRefreshes, MailType, TickType, NoStep
    <3> QED
      BY <3>b, <3>c, <3>d, <3>e
  <2>12. CASE MailAsks
    <3>1. MailType'
      <4>1. client[authGen] \in Tokens
        BY <2>12, AuthAssumption DEF MailAsks, ClientHeld, ClientType, ServerType, Tokens, NoToken
      <4>2. owner[client[authGen]] \in Tokens /\ authGen \in Gens
        BY <4>1 DEF ServerType, ClientType
      <4> QED
        BY <2>12, <4>2 DEF MailAsks, MailType
    <3>2. EventsType'
      BY <2>12, AuthAssumption DEF MailAsks, EventsType, Event
    <3>3. (StoreType /\ ServerType /\ ClientType /\ SourceType /\ RefreshingType /\
       TickType)'
      BY <2>12 DEF MailAsks, StoreType, ServerType, ClientType, SourceType,
         RefreshingType, TickType, stores, server, health, Prints, Reads, Outside
    <3> QED
      BY <3>1, <3>2, <3>3 DEF LineageTypeOK
  <2>13. CASE MailStores
    <3>1. SourceType'
      <4>1. /\ Prints' = Prints /\ UNCHANGED <<issued, source, authStoreFP, authDead, authDeadFP>>
            /\ email' \in {email, mail.who}
        BY <2>13 DEF MailStores, server, health, Prints
      <4>2. mail.who \in Tokens
        BY <2>13 DEF MailStores, MailType, NoStep
      <4> QED
        BY <4>1, <4>2 DEF SourceType
    <3>2. MailType'
      BY <2>13 DEF MailStores, MailType
    <3>3. (StoreType /\ ServerType /\ ClientType /\ RefreshingType /\ TickType /\
       EventsType)'
      BY <2>13 DEF MailStores, StoreType, ServerType, ClientType, RefreshingType,
         TickType, EventsType, stores, server, health, Prints, Reads, Outside
    <3> QED
      BY <3>1, <3>2, <3>3 DEF LineageTypeOK
  <2>14. CASE Login
    <3>a. /\ issued' = issued + 1 /\ issued' \in Tokens /\ issued \in Tokens
          /\ issued <= issued' /\ issued' \in Nat
      BY <2>14, AuthAssumption DEF Login, ServerType, Tokens
    <3>b. Cardinality(Logins) + 1 \in Tokens
      BY <3>a, LoginsBounded, AuthAssumption DEF Tokens
    <3>c. ServerType'
      BY <2>14, <3>a, <3>b DEF Login, ServerType, Tokens
    <3>d. StoreType'
      BY <2>14, <3>a DEF Login, StoreType
    <3>e. ClientType'
      BY <2>14, <3>a DEF Login, Outside, ClientType
    <3>f. SourceType' /\ RefreshingType' /\ TickType'
      BY <2>14, <3>a, TypesGrow DEF Login, Outside
    <3>g. MailType' /\ EventsType'
      BY <2>14, AuthAssumption DEF Login, Outside, Event, MailType, EventsType
    <3> QED
      BY <3>c, <3>d, <3>e, <3>f, <3>g
  <2>15. CASE Logout
    <3>1. StoreType'
      BY <2>15, AuthAssumption DEF Logout, StoreType, ServerType, NoToken, Tokens, server, Outside, stores, health
    <3>2. EventsType'
      BY <2>15, AuthAssumption DEF Logout, EventsType, Event
    <3>3. (ServerType /\ ClientType /\ SourceType /\ RefreshingType /\ TickType /\
       MailType)'
      BY <2>15 DEF Logout, ServerType, ClientType, SourceType, RefreshingType,
         TickType, MailType, stores, server, health, Prints, Reads, Outside
    <3> QED
      BY <3>1, <3>2, <3>3 DEF LineageTypeOK
  <2>16. CASE UseProfileKey
    <3>1. StoreType'
      BY <2>16 DEF UseProfileKey, StoreType, server, Outside, stores, health
    <3>2. EventsType'
      BY <2>16, AuthAssumption DEF UseProfileKey, EventsType, Event
    <3>3. (ServerType /\ ClientType /\ SourceType /\ RefreshingType /\ TickType /\
       MailType)'
      BY <2>16 DEF UseProfileKey, ServerType, ClientType, SourceType,
         RefreshingType, TickType, MailType, stores, server, health, Prints, Reads,
         Outside
    <3> QED
      BY <3>1, <3>2, <3>3 DEF LineageTypeOK
  <2>17. CASE FileChanges
    <3>1. StoreType'
      BY <2>17 DEF FileChanges, StoreType, server, Outside, stores, health
    <3>2. EventsType'
      BY <2>17, AuthAssumption DEF FileChanges, EventsType, Event
    <3>3. (ServerType /\ ClientType /\ SourceType /\ RefreshingType /\ TickType /\
       MailType)'
      BY <2>17 DEF FileChanges, ServerType, ClientType, SourceType, RefreshingType,
         TickType, MailType, stores, server, health, Prints, Reads, Outside
    <3> QED
      BY <3>1, <3>2, <3>3 DEF LineageTypeOK
  <2>18. CASE SavedKeyChanges
    <3>1. StoreType'
      BY <2>18 DEF SavedKeyChanges, StoreType, server, Outside, stores, health
    <3>2. EventsType'
      BY <2>18, AuthAssumption DEF SavedKeyChanges, EventsType, Event
    <3>3. (ServerType /\ ClientType /\ SourceType /\ RefreshingType /\ TickType /\
       MailType)'
      BY <2>18 DEF SavedKeyChanges, ServerType, ClientType, SourceType,
         RefreshingType, TickType, MailType, stores, server, health, Prints, Reads,
         Outside
    <3> QED
      BY <3>1, <3>2, <3>3 DEF LineageTypeOK
  <2>19. ASSUME NEW t \in Tokens, Revoke(t) PROVE LineageTypeOK'
    <3>1. ServerType'
      BY <2>19 DEF Revoke, ServerType
    <3>2. EventsType'
      BY <2>19, AuthAssumption DEF Revoke, EventsType, Event
    <3>3. (StoreType /\ ClientType /\ SourceType /\ RefreshingType /\ TickType /\
       MailType)'
      BY <2>19 DEF Revoke, StoreType, ClientType, SourceType, RefreshingType,
         TickType, MailType, stores, server, health, Prints, Reads, Outside
    <3> QED
      BY <3>1, <3>2, <3>3 DEF LineageTypeOK
  <2>20. CASE Restart
    <3>1. ClientType'
      <4>1. 0 \in Gens /\ NoToken \in 0..issued /\ issued' = issued
        BY <2>20, AuthAssumption DEF Restart, server, Gens, NoToken, ServerType, Tokens
      <4> QED
        BY <2>20, <4>1 DEF Restart, ClientType
    <3>2. SourceType'
      <4>1. NoFP \in Prints /\ Prints' = Prints /\ NoToken \in 0..issued /\ issued' = issued
        BY <2>20, AuthAssumption DEF Restart, server, NoFP, Found, Prints, NoToken, ServerType, Tokens
      <4> QED
        BY <2>20, <4>1 DEF Restart, SourceType
    <3>3. RefreshingType'
      BY <2>20 DEF Restart, RefreshingType
    <3>4. TickType'
      BY <2>20 DEF Restart, TickType
    <3>5. MailType'
      BY <2>20 DEF Restart, MailType
    <3>6. EventsType'
      BY <2>20, AuthAssumption DEF Restart, EventsType, Event
    <3>7. (StoreType /\ ServerType)'
      BY <2>20 DEF Restart, StoreType, ServerType, stores, server, health, Prints,
         Reads, Outside
    <3> QED
      BY <3>1, <3>2, <3>3, <3>4, <3>5, <3>6, <3>7 DEF LineageTypeOK
  <2>21. CASE UNCHANGED lineageVars
    BY <2>21 DEF lineageVars, stores, server, health, Prints, Reads, StoreType, ServerType, ClientType, SourceType,
       RefreshingType, TickType, MailType, EventsType
  <2> QED
    BY <2>1, <2>2, <2>3, <2>4, <2>5, <2>6, <2>7, <2>8, <2>9, <2>10, <2>11, <2>12,
       <2>13, <2>14, <2>15, <2>16, <2>17, <2>18, <2>19, <2>20, <2>21 DEF
       LineageNext
<1> QED
  BY <1>1


---------------------------------------------------------------------------
(* AuthLineage: a dead credential and the cached address.                   *)

\* An outcome that is still to be noted is of a token the endpoint does not accept.
RejectedIsDead == \A g \in Gens : refresh[g] = "rejected" => client[g] \notin live
\* What is called dead is the token of the client in use.
DeadClient ==
    authDead => authDeadFP = client[authGen] /\ client[authGen] \notin live /\ source = "oauth"
\* The token of the client in use descends from the one its fingerprint was taken of.
Descends ==
    source = "oauth" =>
        /\ authStoreFP.kind = "oauth" /\ authStoreFP.token # NoToken
        /\ owner[authStoreFP.token] = owner[client[authGen]]
\* An answer that will be cached is about the client in use.
MailFor ==
    mail # NoStep /\ mail.gen = authGen
        => source = "oauth" /\ mail.who = owner[client[authGen]]

CredInv ==
    /\ ClientHeld /\ RejectedIsDead /\ DeadClient /\ Descends /\ EmailBelongs /\ MailFor
LineageInv == LineageTypeOK /\ CredInv

\* The invariant outlives what happens to tokens, as long as none comes back to life, none changes
\* its owner, and a client gets another token only of the same login.
LEMMA TokensMove ==
    ASSUME LineageTypeOK, CredInv,
           UNCHANGED <<authGen, source, authStoreFP, health, email, mail>>,
           \A t \in 1..issued : owner'[t] = owner[t] /\ (t \notin live => t \notin live'),
           \A h \in Gens :
              /\ client[h] = NoToken <=> client'[h] = NoToken
              /\ client[h] # NoToken => owner'[client'[h]] = owner[client[h]]
              /\ client[h] \notin live /\ client[h] # NoToken => client'[h] = client[h]
              /\ refresh'[h] = "rejected" => client'[h] \notin live'
    PROVE  CredInv'
<1> USE DEF CredInv
<1>1. /\ issued \in Nat /\ authGen \in Gens /\ authGen' = authGen
      /\ \A h \in Gens : client[h] # NoToken => client[h] \in 1..issued
  BY AuthAssumption DEF LineageTypeOK, ServerType, ClientType, Tokens, NoToken
<1>2. ClientHeld'
  BY <1>1 DEF ClientHeld
<1>3. RejectedIsDead'
  BY DEF RejectedIsDead
<1>4. DeadClient'
  <2> SUFFICES ASSUME authDead' PROVE (authDeadFP = client[authGen] /\ client[authGen] \notin live /\ source = "oauth")'
    BY DEF DeadClient
  <2>1. /\ authDeadFP' = client[authGen] /\ client[authGen] \notin live /\ source = "oauth"
        /\ source' = source
    BY DEF health, DeadClient
  <2>2. client[authGen] # NoToken
    BY <2>1 DEF ClientHeld
  <2>3. client'[authGen] = client[authGen] /\ client[authGen] \notin live'
    BY <1>1, <2>1, <2>2
  <2> QED
    BY <1>1, <2>1, <2>3
<1>5. Descends'
  <2> SUFFICES ASSUME source = "oauth"
               PROVE  /\ authStoreFP.kind = "oauth" /\ authStoreFP.token # NoToken
                      /\ owner'[authStoreFP.token] = owner'[client'[authGen]]
    BY <1>1 DEF Descends
  <2>1. /\ authStoreFP.kind = "oauth" /\ authStoreFP.token # NoToken
        /\ owner[authStoreFP.token] = owner[client[authGen]] /\ client[authGen] # NoToken
    BY DEF Descends, ClientHeld
  <2>2. authStoreFP.token \in 1..issued
    BY <1>1, <2>1 DEF LineageTypeOK, SourceType, Prints, NoToken
  <2> QED
    BY <1>1, <2>1, <2>2
<1>6. EmailBelongs'
  BY <1>1 DEF EmailBelongs, ClientHeld
<1>7. MailFor'
  BY <1>1 DEF MailFor, ClientHeld
<1> QED
  BY <1>2, <1>3, <1>4, <1>5, <1>6, <1>7

\* A refresh is such a step.
LEMMA AskEndpointKeeps ==
    ASSUME LineageTypeOK, CredInv, NEW g \in Gens, AskEndpoint(g),
           UNCHANGED <<authGen, source, authStoreFP, health, email, mail>>
    PROVE  CredInv'
<1>1. /\ issued \in Nat /\ live \subseteq 1..issued /\ owner \in [Tokens -> Tokens]
      /\ client \in [Gens -> 0..issued] /\ 1..issued \subseteq Tokens
      /\ refresh \in [Gens -> {"idle", "rotated", "rejected", "announced"}]
  <2>1. live \subseteq 1..issued /\ owner \in [Tokens -> Tokens] /\ issued \in Tokens
    BY DEF LineageTypeOK, ServerType
  <2>2. issued \in Nat /\ 1..issued \subseteq Tokens
    BY <2>1, AuthAssumption DEF Tokens
  <2> QED
    BY <2>1, <2>2 DEF LineageTypeOK, ClientType
<1>2. \A h \in Gens : refresh[h] = "rejected" => client[h] \notin live
  BY DEF CredInv, RejectedIsDead
<1>3. CASE Rotates(g)
  <2>1. /\ issued' = issued + 1 /\ live' = (live \ {client[g]}) \cup {issued'}
        /\ owner' = [owner EXCEPT ![issued'] = owner[client[g]]] /\ issued' \in Tokens
        /\ client[g] \in live
    BY <1>1, <1>3, AuthAssumption DEF Rotates, Tokens
  <2>2. \/ client' = client /\ refresh' = refresh
        \/ client' = [client EXCEPT ![g] = issued'] /\ refresh' = [refresh EXCEPT ![g] = "rotated"]
    BY <1>3 DEF AskEndpoint, Rotates
  <2>3. \A t \in 1..issued : t # issued'
    BY <1>1, <2>1
  <2>4. \A t \in 1..issued : owner'[t] = owner[t] /\ (t \notin live => t \notin live')
    BY <1>1, <2>1, <2>3
  <2>5. owner'[issued'] = owner[client[g]] /\ issued' # NoToken /\ client[g] \in 1..issued
    BY <1>1, <2>1 DEF NoToken
  <2>6. ASSUME NEW h \in Gens
        PROVE  /\ client[h] = NoToken <=> client'[h] = NoToken
               /\ client[h] # NoToken => owner'[client'[h]] = owner[client[h]]
               /\ client[h] \notin live /\ client[h] # NoToken => client'[h] = client[h]
               /\ refresh'[h] = "rejected" => client'[h] \notin live'
    <3>1. client[h] # NoToken => client[h] \in 1..issued
      BY <1>1 DEF NoToken
    <3>2. CASE client'[h] = client[h] /\ refresh'[h] = refresh[h]
      <4>1. client[h] \notin live => client[h] \notin live'
        BY <1>1, <2>1
      <4> QED
        BY <1>2, <2>4, <3>1, <3>2, <4>1
    <3>3. CASE h = g /\ client'[h] = issued' /\ refresh'[h] = "rotated"
      BY <2>1, <2>5, <3>3, <1>1 DEF NoToken
    <3> QED
      BY <1>1, <2>2, <3>2, <3>3
  <2> QED
    BY <2>4, <2>6, TokensMove
<1>4. CASE /\ client[g] \notin live
           /\ refresh' = [refresh EXCEPT ![g] = "rejected"]
           /\ UNCHANGED <<server, client, events>>
  <2>1. live' = live /\ owner' = owner /\ client' = client
    BY <1>4 DEF server
  <2>2. \A h \in Gens : refresh'[h] = "rejected" => client[h] \notin live
    BY <1>1, <1>2, <1>4
  <2> QED
    BY <2>1, <2>2, TokensMove
<1> QED
  BY <1>3, <1>4 DEF AskEndpoint

\* A reload of the credential keeps what is dead and what is cached only with the same login.
LEMMA PublishKeeps ==
    ASSUME LineageTypeOK, CredInv, refreshAuthLocked, Publish
    PROVE  CredInv'
<1> USE DEF CredInv
<1> DEFINE src  == SourceOf(refreshing.saved, refreshing.found)
           cred == IF src = "oauth" THEN refreshing.found.token ELSE NoToken
<1>1. /\ refreshing.saved \in {"none", "key", "error"} /\ refreshing.found \in Reads
      /\ refreshing.found.kind = "oauth" => refreshing.found.token # NoToken
  BY DEF refreshAuthLocked, LineageTypeOK, RefreshingType, NoStep
<1>2. src = "oauth" <=> cred # NoToken
  BY <1>1 DEF SourceOf, StoreFailure
<1>3. src = "oauth" <=> PublishedFP.kind = "oauth"
  BY <1>1 DEF SourceOf, PublishedFP, StoreFP, StoreFailure, Found, NoFP
<1>4. src = "oauth" => PublishedFP.token = cred
  BY <1>1 DEF SourceOf, PublishedFP, StoreFP, StoreFailure, Found, NoFP
<1>5. /\ NextGen \in Gens /\ NextGen # authGen /\ refresh[NextGen] = "idle"
      /\ "gen" \in DOMAIN mail => mail.gen # NextGen
  BY DEF Publish, NextGen, FreeGens
<1>6. /\ authGen' = NextGen /\ source' = src /\ authStoreFP' = PublishedFP
      /\ client' = [g \in Gens |-> IF g = NextGen THEN cred
                      ELSE IF g = authGen \/ refresh[g] # "idle" THEN client[g] ELSE NoToken]
      /\ UNCHANGED <<live, owner, refresh, mail>>
  BY DEF Publish, refreshAuthLocked, server
<1>7. /\ authDead' => authDead /\ PublishedFP = authStoreFP /\ cred = authDeadFP /\ authDeadFP' = authDeadFP
      /\ email' # NoOne => PublishedFP = authStoreFP /\ email' = email
  BY DEF Publish, LineageTypeOK, SourceType
<1>8. client'[NextGen] = cred
  BY <1>5, <1>6
<1> HIDE DEF src, cred
<1>9. ClientHeld'
  BY <1>2, <1>6, <1>8 DEF ClientHeld
<1>10. RejectedIsDead'
  BY <1>5, <1>6 DEF RejectedIsDead
<1>11. DeadClient'
  BY <1>2, <1>6, <1>7, <1>8 DEF DeadClient, ClientHeld
<1>12. Descends'
  <2> SUFFICES ASSUME source' = "oauth"
               PROVE  /\ PublishedFP.kind = "oauth" /\ PublishedFP.token # NoToken
                      /\ owner[PublishedFP.token] = owner[cred]
    BY <1>6, <1>8 DEF Descends
  <2> QED
    BY <1>2, <1>3, <1>4, <1>6
<1>13. EmailBelongs'
  <2> SUFFICES ASSUME email' # NoOne PROVE src = "oauth" /\ email = owner[cred]
    BY <1>6, <1>7, <1>8 DEF EmailBelongs
  <2>1. PublishedFP = authStoreFP /\ email # NoOne
    BY <1>7
  <2>2. source = "oauth" /\ email = owner[client[authGen]]
    BY <2>1 DEF EmailBelongs
  <2>3. authStoreFP.kind = "oauth" /\ owner[authStoreFP.token] = owner[client[authGen]]
    BY <2>2 DEF Descends
  <2> QED
    BY <1>3, <1>4, <2>1, <2>2, <2>3
<1>14. MailFor'
  <2>1. mail # NoStep => mail.gen # NextGen
    BY <1>5 DEF LineageTypeOK, MailType
  <2> QED
    BY <1>6, <2>1 DEF MailFor
<1> QED
  BY <1>9, <1>10, <1>11, <1>12, <1>13, <1>14

\* Each step of the router and of what is around it keeps the invariant.
LEMMA LineageInvStep == LineageInv /\ [LineageNext]_lineageVars => LineageInv'
<1> SUFFICES ASSUME LineageInv, [LineageNext]_lineageVars PROVE LineageInv'
  OBVIOUS
<1>t. LineageTypeOK /\ LineageTypeOK' /\ CredInv
  BY LineageTypeStep DEF LineageInv, CredInv
<1> SUFFICES CredInv'
  BY <1>t DEF LineageInv
<1>n. /\ issued \in Nat /\ live \subseteq 1..issued
      /\ \A h \in Gens : client[h] # NoToken => client[h] \in 1..issued
  <2>1. live \subseteq 1..issued /\ issued \in Tokens /\ client \in [Gens -> 0..issued]
    BY <1>t DEF LineageTypeOK, ServerType, ClientType
  <2>2. issued \in Nat
    BY <2>1, AuthAssumption DEF Tokens
  <2> QED
    BY <2>1, <2>2 DEF NoToken
<1>r. \A h \in Gens : refresh[h] = "rejected" => client[h] \notin live
  BY <1>t DEF CredInv, RejectedIsDead
<1>1. ASSUME NEW g \in Gens, AskEndpoint(g),
             UNCHANGED <<authGen, source, authStoreFP, health, email, mail>>
      PROVE  CredInv'
  BY <1>1, <1>t, AskEndpointKeeps
<1>2. ASSUME NEW g \in Gens, RequestRefreshes(g) PROVE CredInv'
  BY <1>1, <1>2 DEF RequestRefreshes
<1>3. CASE TickRefreshes
  <2>1. tick.gen \in Gens
    BY <1>3, <1>t DEF TickRefreshes, LineageTypeOK, TickType, NoStep
  <2> QED
    BY <1>1, <1>3, <2>1 DEF TickRefreshes
<1>4. CASE refreshAuthLocked
  <2>1. CASE Publish
    BY <1>4, <1>t, <2>1, PublishKeeps
  <2>2. CASE UNCHANGED <<authGen, client, source, authStoreFP, health, email>>
    BY <1>4, <1>t, <1>n, <1>r, <2>2, TokensMove DEF refreshAuthLocked, server
  <2> QED
    BY <1>4, <2>1, <2>2 DEF refreshAuthLocked
<1>5. ASSUME NEW g \in Gens, noteAuthRefresh(g) PROVE CredInv'
  <2>1. UNCHANGED <<server, authGen, client, source, authStoreFP, email, mail>>
    BY <1>5 DEF noteAuthRefresh
  <2>2. /\ \A h \in Gens : refresh'[h] = "rejected" => refresh[h] = "rejected"
        /\ \/ UNCHANGED health
           \/ authDead' = FALSE
           \/ g = authGen /\ refresh[g] = "rejected" /\ authDeadFP' = client[g]
    BY <1>5, <1>t DEF noteAuthRefresh, Notes, LineageTypeOK, ClientType
  <2>3. ClientHeld' /\ RejectedIsDead' /\ Descends' /\ EmailBelongs' /\ MailFor'
    BY <1>t, <2>1, <2>2 DEF CredInv, server, ClientHeld, RejectedIsDead, Descends, EmailBelongs, MailFor
  <2>4. DeadClient'
    <3>1. CASE UNCHANGED health
      BY <1>t, <2>1, <3>1 DEF CredInv, server, health, DeadClient
    <3>2. CASE authDead' = FALSE
      BY <3>2 DEF DeadClient
    <3>3. CASE g = authGen /\ refresh[g] = "rejected" /\ authDeadFP' = client[g]
      <4>1. client[g] \notin live /\ client[g] # NoToken
        BY <1>r, <1>t, <3>3 DEF LineageTypeOK, ClientType
      <4>2. source = "oauth"
        BY <1>t, <3>3, <4>1 DEF CredInv, ClientHeld
      <4> QED
        BY <2>1, <3>3, <4>1, <4>2 DEF DeadClient, server
    <3> QED
      BY <2>2, <3>1, <3>2, <3>3
  <2> QED
    BY <2>3, <2>4 DEF CredInv
<1>6. CASE MailAsks
  <2>1. /\ UNCHANGED <<server, authGen, client, refresh, source, authStoreFP, health, email>>
        /\ source = "oauth" /\ mail'.gen = authGen /\ mail'.who = owner[client[authGen]]
    BY <1>6 DEF MailAsks
  <2> QED
    BY <1>t, <2>1 DEF CredInv, server, health, ClientHeld, RejectedIsDead, DeadClient, Descends, EmailBelongs, MailFor
<1>7. CASE MailStores
  <2>1. /\ UNCHANGED <<server, authGen, client, refresh, source, authStoreFP, health>>
        /\ mail # NoStep /\ mail' = NoStep
        /\ email' = email \/ (mail.gen = authGen /\ email' = mail.who)
    BY <1>7 DEF MailStores, MailCurrent, NoStep
  <2> QED
    BY <1>t, <2>1 DEF CredInv, server, health, ClientHeld, RejectedIsDead, DeadClient, Descends, EmailBelongs, MailFor
<1>8. CASE Login
  <2>1. /\ UNCHANGED <<authGen, client, refresh, source, authStoreFP, health, email, mail>>
        /\ issued' = issued + 1 /\ live' = live \cup {issued'}
        /\ owner' = [owner EXCEPT ![issued'] = Cardinality(Logins) + 1]
    BY <1>8 DEF Login, Outside
  <2>2. \A t \in 1..issued : t # issued'
    BY <1>n, <2>1
  <2>3. \A t \in 1..issued : owner'[t] = owner[t] /\ (t \notin live => t \notin live')
    <3>1. \A t \in 1..issued : t \in Tokens
      BY <1>t, AuthAssumption DEF LineageTypeOK, ServerType, Tokens
    <3> QED
      BY <1>t, <2>1, <2>2, <3>1 DEF LineageTypeOK, ServerType
  <2>4. \A h \in Gens : refresh'[h] = "rejected" => client'[h] \notin live'
    BY <1>n, <1>r, <1>t, <2>1, <2>3 DEF LineageTypeOK, ClientType
  <2> QED
    BY <1>n, <1>t, <2>1, <2>3, <2>4, TokensMove
<1>9. ASSUME NEW t \in Tokens, Revoke(t) PROVE CredInv'
  <2>1. /\ UNCHANGED <<owner, authGen, client, refresh, source, authStoreFP, health, email, mail>>
        /\ live' \subseteq live
    BY <1>9 DEF Revoke, Outside
  <2> QED
    BY <1>n, <1>r, <1>t, <2>1, TokensMove
<1>10. CASE Restart
  BY <1>10, AuthAssumption DEF Restart, CredInv, ClientHeld, RejectedIsDead, DeadClient, Descends, EmailBelongs, MailFor, Gens
<1>11. CASE /\ UNCHANGED <<server, authGen, client, source, authStoreFP, health, email, mail>>
            /\ \A h \in Gens : refresh'[h] = "rejected" => refresh[h] = "rejected"
  BY <1>11, <1>n, <1>r, <1>t, TokensMove DEF server
<1>12. ASSUME NEW g \in Gens, Save(g) PROVE CredInv'
  BY <1>11, <1>12, <1>t DEF Save, LineageTypeOK, ClientType
<1>13. CASE \/ AskReload \/ handleSavedAPIKey \/ TickSnapshots \/ TickObserves \/ TickReloads \/ TickRests
            \/ Logout \/ UseProfileKey \/ FileChanges \/ SavedKeyChanges \/ UNCHANGED lineageVars
  BY <1>11, <1>13 DEF AskReload, handleSavedAPIKey, TickSnapshots, TickObserves, TickReloads, TickRests,
     Logout, UseProfileKey, FileChanges, SavedKeyChanges, Outside, lineageVars
<1> QED
  BY <1>2, <1>3, <1>4, <1>5, <1>6, <1>7, <1>8, <1>9, <1>10, <1>12, <1>13 DEF LineageNext

\* The router starts without a credential, dead or alive.
LEMMA LineageInvInit == LineageInit => LineageInv
<1> SUFFICES ASSUME LineageInit PROVE LineageInv
  OBVIOUS
<1>1. LineageTypeOK
  BY LineageTypeInit
<1>2. /\ source = "none" /\ client[authGen] = NoToken /\ authDead = FALSE /\ email = NoOne /\ mail = NoStep
      /\ \A g \in Gens : refresh[g] = "idle"
  BY AuthAssumption DEF LineageInit, Fresh, Gens
<1> QED
  BY <1>1, <1>2 DEF LineageInv, CredInv, ClientHeld, RejectedIsDead, DeadClient, Descends, EmailBelongs,
     MailFor

\* What the invariant says of the credential in each state.
LEMMA LineageInvTrue == LineageInv => CredentialTrue
BY DEF LineageInv, CredInv, DeadClient, CredentialTrue, DeadIsTrue

\* The invariant of the credential holds in every state of its specification.
THEOREM LineageInductive == LineageSpec => []LineageInv
<1>1. LineageInit => LineageInv
  BY LineageInvInit
<1>2. LineageInv /\ [LineageNext]_lineageVars => LineageInv'
  BY LineageInvStep
<1> QED
  BY <1>1, <1>2, PTL DEF LineageSpec

\* Tokens, generations and what a tick or a lookup holds of them stay in their types.
THEOREM LineageTypeCorrect == LineageSpec => []LineageTypeOK
<1>1. LineageInv => LineageTypeOK
  BY DEF LineageInv
<1> QED
  BY <1>1, LineageInductive, PTL

\* A credential is called dead only when its own token was rejected, and a cached address is its own.
THEOREM CredentialTrueThm == LineageSpec => []CredentialTrue
BY LineageInvTrue, LineageInductive, PTL

---------------------------------------------------------------------------
(* The composition ServiceMC.                                               *)

ServiceInv == ReloadInv /\ LineageInv /\ DoorInv
serviceVars == <<part, routerVars, lineageVars, doorPortVars>>

\* A step of the composition is one of each component, or leaves it as it was.
LEMMA ServiceSteps ==
    [ServiceNext]_serviceVars
        => [ReloadNext]_routerVars /\ [LineageNext]_lineageVars /\ [DoorPortNext]_doorPortVars
BY DEF ServiceNext, ReloadMoves, LineageMoves, DoorsMove, serviceVars

\* The invariants of the components hold together.
THEOREM ServiceInductive == ServiceSpec => []ServiceInv
<1>1. ServiceInit => ServiceInv
  BY ReloadInvInit, LineageInvInit, DoorInvInit DEF ServiceInit, ServiceInv
<1>2. ServiceInv /\ [ServiceNext]_serviceVars => ServiceInv'
  BY ServiceSteps, ReloadInvStep, LineageInvStep, DoorInvStep DEF ServiceInv
<1> QED
  BY <1>1, <1>2, PTL DEF ServiceSpec, serviceVars

\* The types of the router, its credential and the doors are correct.
THEOREM ServiceTypes == ServiceSpec => []TypesOK
<1>1. ServiceInv => TypesOK
  BY DEF ServiceInv, ReloadInv, LineageInv, DoorInv, TypesOK
<1> QED
  BY <1>1, ServiceInductive, PTL

\* The listeners are those of one config, the credential is the one saved, the doors are those of
\* the config read last, and a port both configs have is not touched.
THEOREM ServiceSoundThm == ServiceSpec => ServiceSound
<1>1. ServiceInv => ListenersSound /\ CredentialTrue /\ DoorsFollowConfig
  BY ReloadInvSound, LineageInvTrue, DoorInvFollows DEF ServiceInv
<1>2. ServiceInv /\ [ServiceNext]_serviceVars
      => [\A a \in DOMAIN doors : (stage \notin {"idle", "stopping", "stopped"} /\ doors[a].spec \in doorLedger.read)
           => a \in DOMAIN doors' /\ (doors[a].opened < doorLedger.reloads => doors'[a] = doors[a])]_doorPortVars
  BY ServiceSteps, PortsKeptStep DEF ServiceInv
<1> QED
  BY <1>1, <1>2, ServiceInductive, PTL DEF ServiceSpec, serviceVars, ServiceSound, PortsKept

\* In the composition too, a request is routed by the config that is active when it starts.
THEOREM ServiceRoutesFresh == ServiceSpec => NoStaleRouting
<1>1. ServiceInv /\ [ServiceNext]_serviceVars
      => [\A c \in Conns : conn[c].at = "open" /\ conn'[c].at = "running"
            => conn'[c].cfg = active]_routerVars
  BY ServiceSteps, FreshStep DEF ServiceInv, Starts
<1> QED
  BY <1>1, ServiceInductive, PTL DEF ServiceSpec, serviceVars, NoStaleRouting

=============================================================================
