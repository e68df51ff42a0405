---------------------------- MODULE DoorProofs ----------------------------
(* Theorems about Door, for any set of requests and any bound on the       *)
(* router's health changes.                                                *)
EXTENDS Door, TLAPS

USE RequestsAssumption DEF RequestsAssumption

\* The registry holds exactly the forwards between their registration and
\* dropInflight.
RegistryMatches == inflight = {r \in Requests : pc[r] \in Registered}

---------------------------------------------------------------------------

\* Every variable stays in its set.
THEOREM TypeCorrect == Spec => []TypeOK
<1>1. Init => TypeOK
  <2> SUFFICES ASSUME Init PROVE TypeOK
    OBVIOUS
  <2>1. \A r \in Requests : pc[r] = "idle"
    BY DEF Init, Actors
  <2>2. pc[Probe] = "waiting"
    BY DEF Init, Actors
  <2>3. pc \in [Actors -> RequestPC \cup ProbePC]
    BY DEF Init, RequestPC, ProbePC
  <2>4. cancels \in [Actors -> SUBSET Requests]
    BY DEF Init
  <2>5. via \in [Requests -> ViaSet]
    BY DEF Init, ViaSet
  <2>6. flips \in 0..MaxFlips /\ router \in RouterStates
    BY DEF Init
  <2>7. /\ tripped \in BOOLEAN /\ cooling \in BOOLEAN /\ stopping \in BOOLEAN
        /\ inflight \subseteq Requests /\ canceled \subseteq Requests
        /\ gone \subseteq Requests /\ cut \subseteq Requests
    BY DEF Init
  <2>8. \A r \in Requests : pc[r] \in RequestPC
    BY <2>1 DEF RequestPC
  <2>9. pc[Probe] \in ProbePC
    BY <2>2 DEF ProbePC
  <2> QED
    BY <2>3, <2>4, <2>5, <2>6, <2>7, <2>8, <2>9 DEF TypeOK
<1>2. TypeOK /\ [Next]_vars => TypeOK'
  <2> SUFFICES ASSUME TypeOK, [Next]_vars PROVE TypeOK'
    OBVIOUS
  <2> USE DEF TypeOK, Actors, RequestPC, ProbePC, ViaSet, env, trip, fate,
              Goto, ServedBy, TripNow, ClearTrip
  <2>1. ASSUME NEW r \in Requests, Arrive(r) PROVE TypeOK'
    BY <2>1 DEF Arrive
  <2>2. ASSUME NEW r \in Requests, BodyReadFails(r) PROVE TypeOK'
    BY <2>2 DEF BodyReadFails
  <2>3. ASSUME NEW r \in Requests, StartForward(r) PROVE TypeOK'
    BY <2>3 DEF StartForward
  <2>4. ASSUME NEW r \in Requests, HeadersArrive(r) PROVE TypeOK'
    BY <2>4 DEF HeadersArrive
  <2>5. ASSUME NEW r \in Requests, ForwardFails(r) PROVE TypeOK'
    BY <2>5 DEF ForwardFails
  <2>6. ASSUME NEW r \in Requests, DropInflight(r) PROVE TypeOK'
    BY <2>6 DEF DropInflight
  <2>7. ASSUME NEW r \in Requests, HarnessWentAway(r) PROVE TypeOK'
    BY <2>7 DEF HarnessWentAway
  <2>8. ASSUME NEW r \in Requests, ForwardErrorTrips(r) PROVE TypeOK'
    BY <2>8 DEF ForwardErrorTrips
  <2>9. ASSUME NEW a \in Actors, SnapshotInflight(a) PROVE TypeOK'
    BY <2>9 DEF SnapshotInflight
  <2>10. ASSUME NEW a \in Actors, CancelOne(a) PROVE TypeOK'
    BY <2>10 DEF CancelOne
  <2>11. ASSUME NEW r \in Requests, Replay(r) PROVE TypeOK'
    BY <2>11 DEF Replay
  <2>12. ASSUME NEW r \in Requests, RouterAnswered(r) PROVE TypeOK'
    BY <2>12 DEF RouterAnswered
  <2>13. ASSUME NEW r \in Requests, RelayEnds(r) PROVE TypeOK'
    BY <2>13 DEF RelayEnds
  <2>14. ASSUME NEW r \in Requests, ServeFallback(r) PROVE TypeOK'
    BY <2>14 DEF ServeFallback
  <2>15. ASSUME NEW r \in Requests, HarnessHangsUp(r) PROVE TypeOK'
    BY <2>15 DEF HarnessHangsUp
  <2>16. CASE ProbeSend
    BY <2>16 DEF ProbeSend
  <2>17. CASE ProbeReply
    BY <2>17 DEF ProbeReply
  <2>18. CASE ProbeClears
    BY <2>18 DEF ProbeClears
  <2>19. CASE ProbeTrips
    BY <2>19 DEF ProbeTrips
  <2>20. CASE ProbeRescued
    BY <2>20 DEF ProbeRescued
  <2>21. CASE ProbeStops
    BY <2>21 DEF ProbeStops
  <2>22. CASE RouterChanges
    BY <2>22 DEF RouterChanges
  <2>23. CASE CooldownExpires \/ Shutdown
    BY <2>23 DEF CooldownExpires, Shutdown
  <2>24. CASE UNCHANGED vars
    BY <2>24 DEF vars
  <2> QED
    BY <2>1, <2>2, <2>3, <2>4, <2>5, <2>6, <2>7, <2>8, <2>9, <2>10, <2>11,
       <2>12, <2>13, <2>14, <2>15, <2>16, <2>17, <2>18, <2>19, <2>20, <2>21,
       <2>22, <2>23, <2>24 DEF Next, Handle, ProbeLoop
<1> QED
  BY <1>1, <1>2, PTL DEF Spec

---------------------------------------------------------------------------

\* The registry is exact: no handler leaves its forward behind, and none is
\* dropped before its headers or its error are in.
THEOREM RegistryExact == Spec => []RegistryMatches
<1>1. Init => RegistryMatches
  BY DEF Init, RegistryMatches, Registered, Actors
<1>2. TypeOK /\ RegistryMatches /\ [Next]_vars => RegistryMatches'
  <2> SUFFICES ASSUME TypeOK, RegistryMatches, [Next]_vars
               PROVE  RegistryMatches'
    OBVIOUS
  <2>0. pc \in [Actors -> RequestPC \cup ProbePC]
    BY DEF TypeOK
  <2> USE <2>0 DEF RegistryMatches, Registered, Actors, env, trip, fate,
              Goto, TripNow
  <2>1. ASSUME NEW r \in Requests, Arrive(r) PROVE RegistryMatches'
    BY <2>1 DEF Arrive
  <2>2. ASSUME NEW r \in Requests, BodyReadFails(r) \/ StartForward(r)
        PROVE RegistryMatches'
    BY <2>2 DEF BodyReadFails, StartForward
  <2>3. ASSUME NEW r \in Requests, HeadersArrive(r) \/ ForwardFails(r)
        PROVE RegistryMatches'
    BY <2>3 DEF HeadersArrive, ForwardFails
  <2>4. ASSUME NEW r \in Requests, DropInflight(r) PROVE RegistryMatches'
    BY <2>4 DEF DropInflight
  <2>5. ASSUME NEW r \in Requests, HarnessWentAway(r) \/ ForwardErrorTrips(r)
        PROVE RegistryMatches'
    BY <2>5 DEF HarnessWentAway, ForwardErrorTrips
  <2>6. ASSUME NEW a \in Actors, SnapshotInflight(a) PROVE RegistryMatches'
    BY <2>6 DEF SnapshotInflight
  <2>7. ASSUME NEW a \in Actors, CancelOne(a) PROVE RegistryMatches'
    BY <2>7 DEF CancelOne
  <2>8. ASSUME NEW r \in Requests, Replay(r) PROVE RegistryMatches'
    BY <2>8 DEF Replay
  <2>9. ASSUME NEW r \in Requests,
               RouterAnswered(r) \/ RelayEnds(r) \/ ServeFallback(r)
        PROVE RegistryMatches'
    BY <2>9 DEF RouterAnswered, RelayEnds, ServeFallback
  <2>10. CASE ProbeSend \/ ProbeReply \/ ProbeClears \/ ProbeTrips
              \/ ProbeRescued \/ ProbeStops
    BY <2>10 DEF ProbeSend, ProbeReply, ProbeClears, ProbeTrips,
                 ProbeRescued, ProbeStops
  <2>11. ASSUME NEW r \in Requests, HarnessHangsUp(r) PROVE RegistryMatches'
    BY <2>11 DEF HarnessHangsUp
  <2>12. CASE RouterChanges \/ CooldownExpires \/ Shutdown \/ UNCHANGED vars
    BY <2>12 DEF RouterChanges, CooldownExpires, Shutdown, vars
  <2> QED
    BY <2>1, <2>2, <2>3, <2>4, <2>5, <2>6, <2>7, <2>8, <2>9, <2>10, <2>11,
       <2>12 DEF Next, Handle, ProbeLoop
<1> QED
  BY <1>1, <1>2, TypeCorrect, PTL DEF Spec

---------------------------------------------------------------------------

\* Only SnapshotInflight adds to what an actor is about to cancel, and it
\* adds what is registered.
LEMMA OnlySnapshotCollects ==
    ASSUME TypeOK, Next, NEW a \in Actors
    PROVE  cancels'[a] \subseteq cancels[a] \cup inflight
<1>0. cancels \in [Actors -> SUBSET Requests]
  BY DEF TypeOK
<1>1. ASSUME NEW b \in Actors, SnapshotInflight(b) \/ CancelOne(b)
      PROVE  cancels'[a] \subseteq cancels[a] \cup inflight
  BY <1>0, <1>1 DEF SnapshotInflight, CancelOne
<1>2. \/ \E b \in Actors : SnapshotInflight(b) \/ CancelOne(b)
      \/ UNCHANGED cancels
  BY DEF Next, Handle, ProbeLoop, Arrive, BodyReadFails, StartForward,
         HeadersArrive, ForwardFails, DropInflight, HarnessWentAway,
         ForwardErrorTrips, Replay, RouterAnswered, RelayEnds, ServeFallback,
         HarnessHangsUp, ProbeSend, ProbeReply, ProbeClears, ProbeTrips,
         ProbeRescued, ProbeStops, RouterChanges, CooldownExpires, Shutdown,
         Actors
<1> QED
  BY <1>1, <1>2

\* A rescue collects only forwards whose handler has not been past
\* dropInflight: a trip that starts once a body streams never cuts it.
THEOREM RescueSparesStreamsThm == Spec => RescueSparesStreams
<1>1. TypeOK /\ RegistryMatches /\ [Next]_vars =>
        [\A a \in Actors : \A r \in cancels'[a] \ cancels[a] :
            pc[r] \in Registered]_vars
  BY OnlySnapshotCollects DEF RegistryMatches
<1> QED
  BY <1>1, TypeCorrect, RegistryExact, PTL DEF Spec, RescueSparesStreams
---------------------------------------------------------------------------

\* While the router has never failed: nothing has tripped, nobody is on the
\* way to a trip, and every failed forward is one its harness gave up.
NoFailureYet == flips = 0 /\ router = "up"
Calm ==
    /\ ~tripped /\ canceled = {}
    /\ \A a \in Actors : /\ cancels[a] = {}
                         /\ pc[a] \notin {"snapshot", "canceling", "unhealthy"}
    /\ \A r \in Requests : /\ pc[r] # "fallback" /\ via[r] # "fallback"
                           /\ pc[r] \in {"failed", "erred"} => r \in gone
CalmUntilFailure == NoFailureYet => Calm

\* Nothing a harness does makes the door fail over from a healthy router.
THEOREM NoFailoverThm == Spec => []NoFailoverWithoutFailure
<1>1. Init => CalmUntilFailure
  BY DEF Init, CalmUntilFailure, Calm, Actors
<1>2. TypeOK /\ CalmUntilFailure /\ [Next]_vars => CalmUntilFailure'
  <2> SUFFICES ASSUME TypeOK, CalmUntilFailure, [Next]_vars, NoFailureYet'
               PROVE  Calm'
    BY DEF CalmUntilFailure
  <2>0. /\ NoFailureYet
        /\ ~RouterChanges
    <3>1. flips \in Nat
      BY DEF TypeOK
    <3>2. ~RouterChanges
      BY <3>1 DEF RouterChanges, NoFailureYet
    <3>3. UNCHANGED <<flips, router>>
      BY <3>2 DEF Next, Handle, ProbeLoop, Arrive, BodyReadFails, StartForward,
         HeadersArrive, ForwardFails, DropInflight, HarnessWentAway,
         ForwardErrorTrips, Replay, RouterAnswered, RelayEnds, ServeFallback,
         HarnessHangsUp, ProbeSend, ProbeReply, ProbeClears, ProbeTrips,
         ProbeRescued, ProbeStops, CooldownExpires, Shutdown,
         SnapshotInflight, CancelOne, env, vars
    <3> QED
      BY <3>2, <3>3 DEF NoFailureYet
  <2>1. Calm /\ router = "up"
    BY <2>0 DEF CalmUntilFailure, NoFailureYet
  <2>2. /\ pc \in [Actors -> RequestPC \cup ProbePC]
        /\ cancels \in [Actors -> SUBSET Requests]
        /\ via \in [Requests -> ViaSet]
    BY DEF TypeOK
  <2> USE <2>1, <2>2 DEF Calm, Actors, env, trip, fate, Goto, ServedBy,
              TripNow, ClearTrip
  <2>3. ASSUME NEW r \in Requests, Arrive(r)
        PROVE Calm'
    BY <2>3 DEF Arrive, SkipRouter
  <2>4. ASSUME NEW r \in Requests, BodyReadFails(r) \/ StartForward(r)
        PROVE Calm'
    BY <2>4 DEF BodyReadFails, StartForward
  <2>5. ASSUME NEW r \in Requests, HeadersArrive(r)
        PROVE Calm'
    BY <2>5 DEF HeadersArrive
  <2>6. ASSUME NEW r \in Requests, ForwardFails(r)
        PROVE Calm'
    BY <2>6 DEF ForwardFails
  <2>7. ASSUME NEW r \in Requests, DropInflight(r)
        PROVE Calm'
    BY <2>7 DEF DropInflight
  <2>8. ASSUME NEW r \in Requests, HarnessWentAway(r) \/ ForwardErrorTrips(r)
        PROVE Calm'
    BY <2>8 DEF HarnessWentAway, ForwardErrorTrips
  <2>9. ASSUME NEW r \in Requests, Replay(r)
        PROVE Calm'
    BY <2>9 DEF Replay
  <2>10. ASSUME NEW r \in Requests, RouterAnswered(r)
        PROVE Calm'
    BY <2>10 DEF RouterAnswered
  <2>11. ASSUME NEW r \in Requests, RelayEnds(r) \/ ServeFallback(r)
        PROVE Calm'
    BY <2>11 DEF RelayEnds, ServeFallback
  <2>12. ASSUME NEW r \in Requests, HarnessHangsUp(r)
        PROVE Calm'
    BY <2>12 DEF HarnessHangsUp
  <2>13. ASSUME NEW a \in Actors, SnapshotInflight(a) \/ CancelOne(a)
        PROVE Calm'
    BY <2>13 DEF SnapshotInflight, CancelOne
  <2>14. CASE ProbeSend \/ ProbeReply
    BY <2>14 DEF ProbeSend, ProbeReply
  <2>15. CASE ProbeClears \/ ProbeTrips
    BY <2>15 DEF ProbeClears, ProbeTrips
  <2>16. CASE ProbeRescued \/ ProbeStops
    BY <2>16 DEF ProbeRescued, ProbeStops
  <2>17. CASE CooldownExpires \/ Shutdown \/ UNCHANGED vars
    BY <2>17 DEF CooldownExpires, Shutdown, vars
  <2> QED
    BY <2>0, <2>3, <2>4, <2>5, <2>6, <2>7, <2>8, <2>9, <2>10, <2>11,
       <2>12, <2>13, <2>14, <2>15, <2>16, <2>17 DEF Next, Handle,
       ProbeLoop
<1>3. CalmUntilFailure => NoFailoverWithoutFailure
  BY DEF CalmUntilFailure, Calm, NoFailureYet, NoFailoverWithoutFailure
<1> QED
  BY <1>1, <1>2, <1>3, TypeCorrect, PTL DEF Spec
===========================================================================
