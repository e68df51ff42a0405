------------------------- MODULE TraceCaptureProofs -------------------------
(* Theorems about TraceCapture, for any requests, policies and limits, any   *)
(* number of writers, reloads, faults and sweeps.                            *)
EXTENDS TraceCapture, FiniteSetTheorems, TLAPS

---------------------------------------------------------------------------
(* Counting units.                                                          *)

Counts == [Requests -> 0..(2 * (MaxBody + 1))]

\* n units of one request are n.
LEMMA OneRequestUnits ==
    ASSUME NEW r, NEW n \in Nat
    PROVE  /\ IsFiniteSet({r} \X (1..n))
           /\ Cardinality({r} \X (1..n)) = n
<1> DEFINE R == {r}
           N == 1..n
<1>1. IsFiniteSet(R) /\ Cardinality(R) = 1
  BY FS_Singleton
<1>2. IsFiniteSet(N) /\ Cardinality(N) = n
  BY FS_Interval
<1>3. IsFiniteSet(R \X N) /\ Cardinality(R \X N) = Cardinality(R) * Cardinality(N)
  <2> HIDE DEF R, N
  <2> QED
    BY <1>1, <1>2, FS_Product
<1>4. Cardinality(R \X N) = 1 * n
  BY <1>1, <1>2, <1>3
<1> QED
  BY <1>3, <1>4

\* The units of memory of all requests can be counted.
LEMMA UnitsFinite ==
    ASSUME NEW n \in Counts
    PROVE  IsFiniteSet(Units(n)) /\ Cardinality(Units(n)) \in Nat
<1> DEFINE All == Requests \X (1..(2 * (MaxBody + 1)))
<1>0. 2 * (MaxBody + 1) \in Nat
  BY TraceAssumption DEF TraceAssumption
<1>1. IsFiniteSet(1..(2 * (MaxBody + 1)))
  BY <1>0, FS_Interval
<1>2. IsFiniteSet(All)
  BY <1>1, FS_Product, TraceAssumption DEF TraceAssumption
<1>3. Units(n) \subseteq All
  <2> SUFFICES ASSUME NEW r \in Requests, NEW k \in 1..n[r] PROVE <<r, k>> \in All
    BY DEF Units
  <2>1. n[r] \in 0..(2 * (MaxBody + 1))
    BY DEF Counts
  <2> QED
    BY <2>1, <1>0
<1>4. IsFiniteSet(Units(n))
  BY <1>2, <1>3, FS_Subset
<1> QED
  BY <1>4, FS_CardinalityType

\* When the count of one request changes, the sum changes by the difference.
LEMMA UnitsOfOne ==
    ASSUME NEW m \in Counts, NEW n \in Counts, NEW r \in Requests,
           \A s \in Requests \ {r} : m[s] = n[s]
    PROVE  /\ Cardinality(Units(n)) = Cardinality(Units(m)) - m[r] + n[r]
           /\ m[r] <= Cardinality(Units(m))
<1> DEFINE Of(k)  == {r} \X (1..k[r])
           Rest   == UNION {{s} \X (1..m[s]) : s \in Requests \ {r}}
<1>1. m[r] \in Nat /\ n[r] \in Nat
  BY TraceAssumption DEF Counts, TraceAssumption
<1>2. Units(m) = Rest \cup Of(m)
  BY DEF Units
<1>3. Units(n) = Rest \cup Of(n)
  BY DEF Units
<1>4. Rest \cap Of(m) = {} /\ Rest \cap Of(n) = {}
  OBVIOUS
<1>5. IsFiniteSet(Units(m)) /\ IsFiniteSet(Units(n))
  BY UnitsFinite
<1>6. IsFiniteSet(Rest) /\ Cardinality(Rest) \in Nat
  <2>1. Rest \subseteq Units(m)
    BY <1>2
  <2>2. IsFiniteSet(Rest)
    BY <1>5, <2>1, FS_Subset
  <2> QED
    BY <2>2, FS_CardinalityType
<1>7. IsFiniteSet(Of(m)) /\ Cardinality(Of(m)) = m[r]
  BY <1>1, OneRequestUnits
<1>8. IsFiniteSet(Of(n)) /\ Cardinality(Of(n)) = n[r]
  BY <1>1, OneRequestUnits
<1>9. Cardinality(Units(m)) = Cardinality(Rest) + m[r]
  <2> HIDE DEF Rest, Of
  <2>1. Cardinality(Rest \cup Of(m)) = Cardinality(Rest) + Cardinality(Of(m)) - Cardinality({})
    BY <1>4, <1>6, <1>7, FS_Union
  <2> QED
    BY <1>1, <1>2, <1>6, <1>7, <2>1, FS_EmptySet
<1>10. Cardinality(Units(n)) = Cardinality(Rest) + n[r]
  <2> HIDE DEF Rest, Of
  <2>1. Cardinality(Rest \cup Of(n)) = Cardinality(Rest) + Cardinality(Of(n)) - Cardinality({})
    BY <1>4, <1>6, <1>8, FS_Union
  <2> QED
    BY <1>1, <1>3, <1>6, <1>8, <2>1, FS_EmptySet
<1> QED
  BY <1>1, <1>6, <1>9, <1>10
---------------------------------------------------------------------------
(* Types.                                                                   *)

\* The variables stay in their sets.
THEOREM TypeCorrect == Spec => []TypeOK
<1> USE TraceAssumption DEF TraceAssumption, Policy
<1>1. Init => TypeOK
  <2> SUFFICES ASSUME Init PROVE TypeOK
    OBVIOUS
  <2> USE DEF Init
  <2>1. GatewayType /\ MemoryType
    <3>1. policy \in Policies /\ config \in Policies
      OBVIOUS
    <3>2. traceWriter \in Writers \cup {None}
      BY DEF Writers, None
    <3>3. closing \in BOOLEAN /\ stopped \in BOOLEAN
      OBVIOUS
    <3>5. generation \in Nat \ {0} /\ transition \in Nat
      OBVIOUS
    <3>4. captures \subseteq Requests /\ reserved \in 0..MemoryLimit
      OBVIOUS
    <3> QED
      BY <3>1, <3>2, <3>3, <3>4, <3>5 DEF GatewayType, MemoryType
  <2>2. WritersType
    BY DEF WritersType, Writers, None
  <2>3. RequestType
    BY DEF RequestType, Nothing
  <2>4. ReloadType
    BY DEF ReloadType, None
  <2>6. OthersType
    BY DEF OthersType, None
  <2>7. HistoryType
    <3>1. revoked \subseteq Requests /\ lockedOut \in BOOLEAN
      OBVIOUS
    <3>2. reloads \in 0..MaxReloads /\ faults \in 0..MaxFaults /\ sweeps \in 0..MaxSweeps
      OBVIOUS
    <3> QED
      BY <3>1, <3>2 DEF HistoryType
  <2>5. OpenerType
    BY DEF OpenerType, Off, None
  <2> QED
    BY <2>1, <2>2, <2>3, <2>4, <2>5, <2>6, <2>7 DEF TypeOK
<1>2. TypeOK /\ [Next]_vars => TypeOK'
  <2> SUFFICES ASSUME TypeOK, [Next]_vars PROVE TypeOK'
    OBVIOUS
  <2> USE DEF TypeOK, Openers, Reload, None, gateway, memory, writers, request, reload, opener,
      others, history, GiveBack, Fits, RoomFor, Nothing, Off, Consent, Create, CreateFails,
      BeginClose, Drained, GaveUp, OpenEnds, Active
  <2>1. ASSUME NEW r \in Requests, Arrive(r) PROVE TypeOK'
    <3>1. RequestType'
      BY <2>1 DEF Arrive, RequestType, GatewayType
    <3>2. HistoryType'
      BY <2>1 DEF Arrive, HistoryType
    <3>3. (GatewayType /\ MemoryType /\ WritersType /\ ReloadType /\ OpenerType /\
       OthersType)'
      BY <2>1 DEF Arrive, GatewayType, MemoryType, WritersType, ReloadType,
         OpenerType, OthersType
    <3> QED
      BY <3>1, <3>2, <3>3 DEF TypeOK
  <2>2. ASSUME NEW r \in Requests, Begin(r) PROVE TypeOK'
    <3>1. RequestType'
      BY <2>2 DEF Begin, RequestType
    <3>2. MemoryType'
      BY <2>2 DEF Begin, MemoryType
    <3>3. (GatewayType /\ WritersType /\ ReloadType /\ OpenerType /\ OthersType /\
       HistoryType)'
      BY <2>2 DEF Begin, GatewayType, WritersType, ReloadType, OpenerType,
         OthersType, HistoryType
    <3> QED
      BY <3>1, <3>2, <3>3 DEF TypeOK
  <2>3. ASSUME NEW r \in Requests, PassBy(r) PROVE TypeOK'
    <3>1. RequestType'
      BY <2>3 DEF PassBy, RequestType
    <3>2. (GatewayType /\ MemoryType /\ WritersType /\ ReloadType /\ OpenerType /\
       OthersType /\ HistoryType)'
      BY <2>3 DEF PassBy, GatewayType, MemoryType, WritersType, ReloadType,
         OpenerType, OthersType, HistoryType
    <3> QED
      BY <3>1, <3>2 DEF TypeOK
  <2>4. ASSUME NEW r \in Requests, Observe(r) PROVE TypeOK'
    <3>1. RequestType'
      <4>1. (pc \in [Requests -> {"idle", "reading", "capturing", "finalizing", "done"}])'
        BY <2>4 DEF Observe, RequestType
      <4>2. (admission \in [Requests -> Nat])'
        BY <2>4 DEF Observe, RequestType
      <4>3. (held \in [Requests -> [request : 0..1, response : 0..MaxBody]])'
        BY <2>4 DEF Observe, RequestType
      <4>4. (capturing \in [Requests -> BOOLEAN])'
        BY <2>4 DEF Observe, RequestType
      <4>5. (owed \in [Requests -> 0..(MaxBody + 1)])'
        BY <2>4 DEF Observe, RequestType
      <4> QED
        BY <4>1, <4>2, <4>3, <4>4, <4>5 DEF RequestType
    <3>2. MemoryType'
      BY <2>4 DEF Observe, MemoryType, RequestType
    <3>3. (GatewayType /\ WritersType /\ ReloadType /\ OpenerType /\ OthersType /\
       HistoryType)'
      BY <2>4 DEF Observe, GatewayType, WritersType, ReloadType, OpenerType,
         OthersType, HistoryType
    <3> QED
      BY <3>1, <3>2, <3>3 DEF TypeOK
  <2>5. ASSUME NEW r \in Requests, Finalize(r) PROVE TypeOK'
    <3>1. RequestType'
      BY <2>5 DEF Finalize, RequestType
    <3>2. (GatewayType /\ MemoryType /\ WritersType /\ ReloadType /\ OpenerType /\
       OthersType /\ HistoryType)'
      BY <2>5 DEF Finalize, GatewayType, MemoryType, WritersType, ReloadType,
         OpenerType, OthersType, HistoryType
    <3> QED
      BY <3>1, <3>2 DEF TypeOK
  <2>6. ASSUME NEW r \in Requests, Submit(r) PROVE TypeOK'
    <3>1. RequestType'
      BY <2>6 DEF Submit, RequestType
    <3>2. MemoryType'
      BY <2>6 DEF Submit, MemoryType, RequestType
    <3>3. WritersType'
      BY <2>6 DEF Submit, WritersType
    <3>4. (GatewayType /\ ReloadType /\ OpenerType /\ OthersType /\ HistoryType)'
      BY <2>6 DEF Submit, GatewayType, ReloadType, OpenerType, OthersType,
         HistoryType
    <3> QED
      BY <3>1, <3>2, <3>3, <3>4 DEF TypeOK
  <2>7. CASE PrepareEnable
    <3>1. ReloadType'
      BY <2>7 DEF PrepareEnable, ReloadType
    <3>2. HistoryType'
      BY <2>7 DEF PrepareEnable, HistoryType
    <3>3. (GatewayType /\ MemoryType /\ WritersType /\ RequestType /\ OpenerType /\
       OthersType)'
      BY <2>7 DEF PrepareEnable, GatewayType, MemoryType, WritersType, RequestType,
         OpenerType, OthersType
    <3> QED
      BY <3>1, <3>2, <3>3 DEF TypeOK
  <2>8. CASE Prepare
    <3>1. WritersType'
      BY <2>8 DEF Prepare, WritersType, ReloadType
    <3>2. ReloadType'
      BY <2>8 DEF Prepare, ReloadType
    <3>3. HistoryType'
      <4>1. (revoked \subseteq Requests)'
        BY <2>8 DEF Prepare, HistoryType
      <4>2. (lockedOut \in BOOLEAN)'
        BY <2>8 DEF Prepare, HistoryType
      <4>3. (faults \in 0..MaxFaults)'
        BY <2>8 DEF Prepare, HistoryType
      <4>4. (reloads \in 0..MaxReloads /\ sweeps \in 0..MaxSweeps)'
        BY <2>8 DEF Prepare, HistoryType
      <4> QED
        BY <4>1, <4>2, <4>3, <4>4 DEF HistoryType
    <3>4. (GatewayType /\ MemoryType /\ RequestType /\ OpenerType /\ OthersType)'
      BY <2>8 DEF Prepare, GatewayType, MemoryType, RequestType, OpenerType,
         OthersType
    <3> QED
      BY <3>1, <3>2, <3>3, <3>4 DEF TypeOK
  <2>9. CASE Publish
    <3>1. GatewayType'
      BY <2>9 DEF Publish, GatewayType, ReloadType
    <3>2. ReloadType'
      BY <2>9 DEF Publish, ReloadType
    <3>3. (MemoryType /\ WritersType /\ RequestType /\ OpenerType /\ OthersType /\
       HistoryType)'
      BY <2>9 DEF Publish, MemoryType, WritersType, RequestType, OpenerType,
         OthersType, HistoryType
    <3> QED
      BY <3>1, <3>2, <3>3 DEF TypeOK
  <2>10. CASE InstallPrepared
    <3>1. GatewayType'
      BY <2>10 DEF InstallPrepared, GatewayType, ReloadType
    <3>2. ReloadType'
      BY <2>10 DEF InstallPrepared, ReloadType
    <3>3. HistoryType'
      BY <2>10 DEF InstallPrepared, HistoryType
    <3>4. (MemoryType /\ WritersType /\ RequestType /\ OpenerType /\ OthersType)'
      BY <2>10 DEF InstallPrepared, MemoryType, WritersType, RequestType,
         OpenerType, OthersType
    <3> QED
      BY <3>1, <3>2, <3>3, <3>4 DEF TypeOK
  <2>11. CASE Reconcile
    <3>1. GatewayType'
      BY <2>11 DEF Reconcile, GatewayType, ReloadType
    <3>2. ReloadType'
      BY <2>11 DEF Reconcile, ReloadType, GatewayType, MemoryType
    <3>3. OpenerType'
      BY <2>11 DEF Reconcile, OpenerType, GatewayType
    <3>4. HistoryType'
      BY <2>11 DEF Reconcile, HistoryType
    <3>5. (MemoryType /\ WritersType /\ RequestType /\ OthersType)'
      BY <2>11 DEF Reconcile, MemoryType, WritersType, RequestType, OthersType
    <3> QED
      BY <3>1, <3>2, <3>3, <3>4, <3>5 DEF TypeOK
  <2>12. CASE Invalidate
    <3>1. ReloadType'
      BY <2>12 DEF Invalidate, ReloadType, RequestType
    <3>2. RequestType'
      <4>1. (pc \in [Requests -> {"idle", "reading", "capturing", "finalizing", "done"}])'
        BY <2>12 DEF Invalidate, RequestType
      <4>2. (admission \in [Requests -> Nat])'
        BY <2>12 DEF Invalidate, RequestType
      <4>3. (held \in [Requests -> [request : 0..1, response : 0..MaxBody]])'
        BY <2>12 DEF Invalidate, RequestType
      <4>4. (capturing \in [Requests -> BOOLEAN])'
        BY <2>12 DEF Invalidate, RequestType
      <4>5. (owed \in [Requests -> 0..(MaxBody + 1)])'
        BY <2>12 DEF Invalidate, RequestType
      <4> QED
        BY <4>1, <4>2, <4>3, <4>4, <4>5 DEF RequestType
    <3>3. (GatewayType /\ MemoryType /\ WritersType /\ OpenerType /\ OthersType /\
       HistoryType)'
      BY <2>12 DEF Invalidate, GatewayType, MemoryType, WritersType, OpenerType,
         OthersType, HistoryType
    <3> QED
      BY <3>1, <3>2, <3>3 DEF TypeOK
  <2>13. CASE GiveBackInvalidated
    <3>1. MemoryType'
      BY <2>13 DEF GiveBackInvalidated, MemoryType, ReloadType
    <3>2. ReloadType'
      BY <2>13 DEF GiveBackInvalidated, ReloadType
    <3>3. (GatewayType /\ WritersType /\ RequestType /\ OpenerType /\ OthersType /\
       HistoryType)'
      BY <2>13 DEF GiveBackInvalidated, GatewayType, WritersType, RequestType,
         OpenerType, OthersType, HistoryType
    <3> QED
      BY <3>1, <3>2, <3>3 DEF TypeOK
  <2>14. CASE Proceed
    <3>1. WritersType'
      BY <2>14 DEF Proceed, WritersType
    <3>2. ReloadType'
      BY <2>14 DEF Proceed, ReloadType
    <3>3. OpenerType'
      BY <2>14 DEF Proceed, OpenerType
    <3>4. (GatewayType /\ MemoryType /\ RequestType /\ OthersType /\ HistoryType)'
      BY <2>14 DEF Proceed, GatewayType, MemoryType, RequestType, OthersType,
         HistoryType
    <3> QED
      BY <3>1, <3>2, <3>3, <3>4 DEF TypeOK
  <2>15. CASE Closed
    <3>1. GatewayType'
      BY <2>15 DEF Closed, GatewayType
    <3>2. ReloadType'
      BY <2>15 DEF Closed, ReloadType
    <3>3. OpenerType'
      <4>1. (openMu = {} \/ \E b \in Openers : openMu = {b})'
        BY <2>15 DEF Closed, OpenerType, GatewayType
      <4>2. (opening \in [Openers -> {"no", "wanted", "read", "create", "install", "discard"}])'
        <5>1. opening' \in {opening, [opening EXCEPT ![Reload] = "read"]}
          BY <2>15 DEF Closed
        <5> QED
          BY <5>1 DEF OpenerType
      <4>3. (using \in [Openers -> Policies \cup {Off}])'
        BY <2>15 DEF Closed, OpenerType, GatewayType
      <4>4. (expect \in [Openers -> Nat])'
        BY <2>15 DEF Closed, OpenerType, GatewayType
      <4>5. (made \in [Openers -> Writers \cup {None}])'
        BY <2>15 DEF Closed, OpenerType, GatewayType
      <4> QED
        BY <4>1, <4>2, <4>3, <4>4, <4>5 DEF OpenerType
    <3>4. (MemoryType /\ WritersType /\ RequestType /\ OthersType /\ HistoryType)'
      BY <2>15 DEF Closed, MemoryType, WritersType, RequestType, OthersType,
         HistoryType
    <3> QED
      BY <3>1, <3>2, <3>3, <3>4 DEF TypeOK
  <2>16. CASE GiveUpClosing
    <3>1. GatewayType'
      BY <2>16 DEF GiveUpClosing, GatewayType
    <3>2. ReloadType'
      BY <2>16 DEF GiveUpClosing, ReloadType
    <3>3. OthersType'
      BY <2>16 DEF GiveUpClosing, OthersType, ReloadType
    <3>4. (MemoryType /\ WritersType /\ RequestType /\ OpenerType /\ HistoryType)'
      BY <2>16 DEF GiveUpClosing, MemoryType, WritersType, RequestType, OpenerType,
         HistoryType
    <3> QED
      BY <3>1, <3>2, <3>3, <3>4 DEF TypeOK
  <2>17. ASSUME NEW a \in Openers, ReadConfig(a) PROVE TypeOK'
    <3>1. OpenerType'
      BY <2>17 DEF ReadConfig, OpenerType, GatewayType
    <3>2. (GatewayType /\ MemoryType /\ WritersType /\ RequestType /\ ReloadType /\
       OthersType /\ HistoryType)'
      BY <2>17 DEF ReadConfig, GatewayType, MemoryType, WritersType, RequestType,
         ReloadType, OthersType, HistoryType
    <3> QED
      BY <3>1, <3>2 DEF TypeOK
  <2>18. ASSUME NEW a \in Openers, OpenCreate(a) PROVE TypeOK'
    <3>1. WritersType'
      BY <2>18 DEF OpenCreate, WritersType, OpenerType
    <3>2. OpenerType'
      <4>1. (openMu = {} \/ \E b \in Openers : openMu = {b})'
        BY <2>18 DEF OpenCreate, OpenerType
      <4>2. (opening \in [Openers -> {"no", "wanted", "read", "create", "install", "discard"}])'
        <5>1. opening' \in {[opening EXCEPT ![a] = "install"], [opening EXCEPT ![a] = "no"]}
          BY <2>18 DEF OpenCreate
        <5> QED
          BY <5>1 DEF OpenerType
      <4>3. (using \in [Openers -> Policies \cup {Off}])'
        BY <2>18 DEF OpenCreate, OpenerType
      <4>4. (expect \in [Openers -> Nat])'
        <5>1. expect' = expect \/ expect' = [expect EXCEPT ![a] = 0]
          BY <2>18 DEF OpenCreate
        <5>2. 0 \in Nat
          OBVIOUS
        <5> QED
          BY <5>1, <5>2, Zenon DEF OpenerType
      <4>5. (made \in [Openers -> Writers \cup {None}])'
        <5>1. \E v \in Writers \cup {None} : made' = [made EXCEPT ![a] = v]
          BY <2>18 DEF OpenCreate
        <5> QED
          BY <5>1 DEF OpenerType
      <4> QED
        BY <4>1, <4>2, <4>3, <4>4, <4>5 DEF OpenerType
    <3>3. ReloadType'
      BY <2>18 DEF OpenCreate, ReloadType
    <3>4. HistoryType'
      <4>1. (revoked \subseteq Requests)'
        BY <2>18 DEF OpenCreate, HistoryType
      <4>2. (lockedOut \in BOOLEAN)'
        BY <2>18 DEF OpenCreate, HistoryType
      <4>3. (faults \in 0..MaxFaults)'
        BY <2>18 DEF OpenCreate, HistoryType
      <4>4. (reloads \in 0..MaxReloads /\ sweeps \in 0..MaxSweeps)'
        BY <2>18 DEF OpenCreate, HistoryType
      <4> QED
        BY <4>1, <4>2, <4>3, <4>4 DEF HistoryType
    <3>5. (GatewayType /\ MemoryType /\ RequestType /\ OthersType)'
      BY <2>18 DEF OpenCreate, GatewayType, MemoryType, RequestType, OthersType
    <3> QED
      BY <3>1, <3>2, <3>3, <3>4, <3>5 DEF TypeOK
  <2>19. ASSUME NEW a \in Openers, OpenInstall(a) PROVE TypeOK'
    <3>1. GatewayType'
      BY <2>19 DEF OpenInstall, GatewayType, OpenerType
    <3>2. WritersType'
      BY <2>19 DEF OpenInstall, WritersType
    <3>3. OpenerType'
      <4>1. (openMu = {} \/ \E b \in Openers : openMu = {b})'
        BY <2>19 DEF OpenInstall, OpenerType
      <4>2. (opening \in [Openers -> {"no", "wanted", "read", "create", "install", "discard"}])'
        BY <2>19 DEF OpenInstall, OpenerType
      <4>3. (using \in [Openers -> Policies \cup {Off}])'
        BY <2>19 DEF OpenInstall, OpenerType
      <4>4. (expect \in [Openers -> Nat])'
        <5>1. expect' = expect \/ expect' = [expect EXCEPT ![a] = 0]
          BY <2>19 DEF OpenInstall
        <5>2. 0 \in Nat
          OBVIOUS
        <5> QED
          BY <5>1, <5>2, Zenon DEF OpenerType
      <4>5. (made \in [Openers -> Writers \cup {None}])'
        BY <2>19 DEF OpenInstall, OpenerType
      <4> QED
        BY <4>1, <4>2, <4>3, <4>4, <4>5 DEF OpenerType
    <3>4. ReloadType'
      BY <2>19 DEF OpenInstall, ReloadType
    <3>5. (MemoryType /\ RequestType /\ OthersType /\ HistoryType)'
      BY <2>19 DEF OpenInstall, MemoryType, RequestType, OthersType, HistoryType
    <3> QED
      BY <3>1, <3>2, <3>3, <3>4, <3>5 DEF TypeOK
  <2>20. ASSUME NEW a \in Openers, OpenDiscard(a) PROVE TypeOK'
    <3>1. OpenerType'
      BY <2>20 DEF OpenDiscard, OpenerType
    <3>2. ReloadType'
      BY <2>20 DEF OpenDiscard, ReloadType
    <3>3. HistoryType'
      BY <2>20 DEF OpenDiscard, HistoryType
    <3>4. (GatewayType /\ MemoryType /\ WritersType /\ RequestType /\ OthersType)'
      BY <2>20 DEF OpenDiscard, GatewayType, MemoryType, WritersType, RequestType,
         OthersType
    <3> QED
      BY <3>1, <3>2, <3>3, <3>4 DEF TypeOK
  <2>21. ASSUME NEW w \in Writers, Take(w) PROVE TypeOK'
    <3>1. WritersType'
      BY <2>21 DEF Take, WritersType
    <3>2. (GatewayType /\ MemoryType /\ RequestType /\ ReloadType /\ OpenerType /\
       OthersType /\ HistoryType)'
      BY <2>21 DEF Take, GatewayType, MemoryType, RequestType, ReloadType,
         OpenerType, OthersType, HistoryType
    <3> QED
      BY <3>1, <3>2 DEF TypeOK
  <2>22. ASSUME NEW w \in Writers, Release(w) PROVE TypeOK'
    <3>1. WritersType'
      BY <2>22 DEF Release, WritersType
    <3>2. MemoryType'
      <4>1. PICK r \in hand[w] : GiveBack(owed[r])
        BY <2>22 DEF Release
      <4>2. owed[r] \in Nat
        BY DEF RequestType, WritersType
      <4> QED
        BY <2>22, <4>1, <4>2 DEF Release, MemoryType
    <3>3. RequestType'
      <4>1. (pc \in [Requests -> {"idle", "reading", "capturing", "finalizing", "done"}])'
        BY <2>22 DEF Release, RequestType
      <4>2. (admission \in [Requests -> Nat])'
        BY <2>22 DEF Release, RequestType
      <4>3. (held \in [Requests -> [request : 0..1, response : 0..MaxBody]])'
        BY <2>22 DEF Release, RequestType
      <4>4. (capturing \in [Requests -> BOOLEAN])'
        BY <2>22 DEF Release, RequestType
      <4>5. (owed \in [Requests -> 0..(MaxBody + 1)])'
        <5>1. PICK r \in hand[w] : owed' = [owed EXCEPT ![r] = 0]
          BY <2>22 DEF Release
        <5>2. 0 \in 0..(MaxBody + 1)
          OBVIOUS
        <5> QED
          BY <5>1, <5>2, Zenon DEF RequestType
      <4> QED
        BY <4>1, <4>2, <4>3, <4>4, <4>5 DEF RequestType
    <3>4. (GatewayType /\ ReloadType /\ OpenerType /\ OthersType /\ HistoryType)'
      BY <2>22 DEF Release, GatewayType, ReloadType, OpenerType, OthersType,
         HistoryType
    <3> QED
      BY <3>1, <3>2, <3>3, <3>4 DEF TypeOK
  <2>23. ASSUME NEW w \in Writers, DropQueued(w) PROVE TypeOK'
    <3>1. WritersType'
      BY <2>23 DEF DropQueued, WritersType
    <3>2. MemoryType'
      <4>1. PICK r \in queue[w] : GiveBack(owed[r])
        BY <2>23 DEF DropQueued
      <4>2. owed[r] \in Nat
        BY DEF RequestType, WritersType
      <4> QED
        BY <2>23, <4>1, <4>2 DEF DropQueued, MemoryType
    <3>3. RequestType'
      <4>1. (pc \in [Requests -> {"idle", "reading", "capturing", "finalizing", "done"}])'
        BY <2>23 DEF DropQueued, RequestType
      <4>2. (admission \in [Requests -> Nat])'
        BY <2>23 DEF DropQueued, RequestType
      <4>3. (held \in [Requests -> [request : 0..1, response : 0..MaxBody]])'
        BY <2>23 DEF DropQueued, RequestType
      <4>4. (capturing \in [Requests -> BOOLEAN])'
        BY <2>23 DEF DropQueued, RequestType
      <4>5. (owed \in [Requests -> 0..(MaxBody + 1)])'
        <5>1. PICK r \in queue[w] : owed' = [owed EXCEPT ![r] = 0]
          BY <2>23 DEF DropQueued
        <5>2. 0 \in 0..(MaxBody + 1)
          OBVIOUS
        <5> QED
          BY <5>1, <5>2, Zenon DEF RequestType
      <4> QED
        BY <4>1, <4>2, <4>3, <4>4, <4>5 DEF RequestType
    <3>4. (GatewayType /\ ReloadType /\ OpenerType /\ OthersType /\ HistoryType)'
      BY <2>23 DEF DropQueued, GatewayType, ReloadType, OpenerType, OthersType,
         HistoryType
    <3> QED
      BY <3>1, <3>2, <3>3, <3>4 DEF TypeOK
  <2>24. ASSUME NEW w \in Writers, LoopEnds(w) PROVE TypeOK'
    <3>1. WritersType'
      BY <2>24 DEF LoopEnds, WritersType
    <3>2. (GatewayType /\ MemoryType /\ RequestType /\ ReloadType /\ OpenerType /\
       OthersType /\ HistoryType)'
      BY <2>24 DEF LoopEnds, GatewayType, MemoryType, RequestType, ReloadType,
         OpenerType, OthersType, HistoryType
    <3> QED
      BY <3>1, <3>2 DEF TypeOK
  <2>25. ASSUME NEW w \in Writers, Expire(w) PROVE TypeOK'
    <3>1. WritersType'
      BY <2>25 DEF Expire, WritersType
    <3>2. (GatewayType /\ MemoryType /\ RequestType /\ ReloadType /\ OpenerType /\
       OthersType /\ HistoryType)'
      BY <2>25 DEF Expire, GatewayType, MemoryType, RequestType, ReloadType,
         OpenerType, OthersType, HistoryType
    <3> QED
      BY <3>1, <3>2 DEF TypeOK
  <2>26. ASSUME NEW w \in Writers, Finish(w) PROVE TypeOK'
    <3>1. GatewayType'
      BY <2>26 DEF Finish, GatewayType
    <3>2. OpenerType'
      <4>1. (openMu = {} \/ \E b \in Openers : openMu = {b})'
        BY <2>26 DEF Finish, OpenerType, GatewayType
      <4>2. (opening \in [Openers -> {"no", "wanted", "read", "create", "install", "discard"}])'
        <5>1. opening' \in {opening, [opening EXCEPT ![w] = "read"]}
          BY <2>26 DEF Finish
        <5> QED
          BY <5>1 DEF OpenerType
      <4>3. (using \in [Openers -> Policies \cup {Off}])'
        BY <2>26 DEF Finish, OpenerType, GatewayType
      <4>4. (expect \in [Openers -> Nat])'
        BY <2>26 DEF Finish, OpenerType, GatewayType
      <4>5. (made \in [Openers -> Writers \cup {None}])'
        BY <2>26 DEF Finish, OpenerType, GatewayType
      <4> QED
        BY <4>1, <4>2, <4>3, <4>4, <4>5 DEF OpenerType
    <3>3. OthersType'
      BY <2>26 DEF Finish, OthersType
    <3>4. (MemoryType /\ WritersType /\ RequestType /\ ReloadType /\ HistoryType)'
      BY <2>26 DEF Finish, MemoryType, WritersType, RequestType, ReloadType,
         HistoryType
    <3> QED
      BY <3>1, <3>2, <3>3, <3>4 DEF TypeOK
  <2>27. CASE CloseCapture
    <3>1. GatewayType'
      <4>1. (config \in Policies /\ policy \in Policies)'
        BY <2>27 DEF CloseCapture, GatewayType
      <4>2. (generation \in Nat \ {0} /\ transition \in Nat)'
        BY <2>27 DEF CloseCapture, GatewayType
      <4>3. (traceWriter \in Writers \cup {None})'
        BY <2>27 DEF CloseCapture, GatewayType
      <4>4. (closing \in BOOLEAN /\ stopped \in BOOLEAN)'
        BY <2>27 DEF CloseCapture, GatewayType
      <4> QED
        BY <4>1, <4>2, <4>3, <4>4 DEF GatewayType
    <3>2. WritersType'
      BY <2>27 DEF CloseCapture, WritersType
    <3>3. OthersType'
      BY <2>27 DEF CloseCapture, OthersType, GatewayType
    <3>4. (MemoryType /\ RequestType /\ ReloadType /\ OpenerType /\ HistoryType)'
      BY <2>27 DEF CloseCapture, MemoryType, RequestType, ReloadType, OpenerType,
         HistoryType
    <3> QED
      BY <3>1, <3>2, <3>3, <3>4 DEF TypeOK
  <2>28. CASE CaptureClosed
    <3>1. GatewayType'
      BY <2>28 DEF CaptureClosed, GatewayType
    <3>2. OthersType'
      BY <2>28 DEF CaptureClosed, OthersType
    <3>3. (MemoryType /\ WritersType /\ RequestType /\ ReloadType /\ OpenerType /\
       HistoryType)'
      BY <2>28 DEF CaptureClosed, MemoryType, WritersType, RequestType, ReloadType,
         OpenerType, HistoryType
    <3> QED
      BY <3>1, <3>2, <3>3 DEF TypeOK
  <2>29. CASE Sweep
    <3>1. OthersType'
      BY <2>29 DEF Sweep, OthersType
    <3>2. HistoryType'
      BY <2>29 DEF Sweep, HistoryType
    <3>3. (GatewayType /\ MemoryType /\ WritersType /\ RequestType /\ ReloadType /\
       OpenerType)'
      BY <2>29 DEF Sweep, GatewayType, MemoryType, WritersType, RequestType,
         ReloadType, OpenerType
    <3> QED
      BY <3>1, <3>2, <3>3 DEF TypeOK
  <2>30. CASE SweepStore
    <3>1. OthersType'
      BY <2>30 DEF SweepStore, OthersType
    <3>2. (GatewayType /\ MemoryType /\ WritersType /\ RequestType /\ ReloadType /\
       OpenerType /\ HistoryType)'
      BY <2>30 DEF SweepStore, GatewayType, MemoryType, WritersType, RequestType,
         ReloadType, OpenerType, HistoryType
    <3> QED
      BY <3>1, <3>2 DEF TypeOK
  <2>31. CASE UNCHANGED vars
    BY <2>31 DEF vars, GatewayType, MemoryType, WritersType, RequestType,
       ReloadType, OpenerType, OthersType, HistoryType
  <2> QED
    BY <2>1, <2>2, <2>3, <2>4, <2>5, <2>6, <2>7, <2>8, <2>9, <2>10, <2>11, <2>12,
       <2>13, <2>14, <2>15, <2>16, <2>17, <2>18, <2>19, <2>20, <2>21, <2>22, <2>23,
       <2>24, <2>25, <2>26, <2>27, <2>28, <2>29, <2>30, <2>31 DEF Next, Handle,
       Reloading, Open, Run
<1> QED
  BY <1>1, <1>2, PTL DEF Spec

---------------------------------------------------------------------------
(* Writers.                                                                 *)

\* One writer at a time has the store's lock.
OneLocked == \A u, v \in LockedBy : u = v

\* The open writer somebody answers for: none is in use while one is being
\* installed or on its way out.
Pending == other # None /\ rl \in {"publish", "install", "invalidate"}

OneOwner ==
    /\ Pending => traceWriter = None /\ writer[other] = "open"
    /\ rl = "install" => other # None
    /\ rl \in {"reconcile", "idle", "prepare", "open"} => other = None
    /\ rl = "close" => other # None
    /\ \A a \in Openers : opening[a] = "install" =>
        /\ writer[made[a]] = "open" /\ days[made[a]] = using[a].days
        /\ traceWriter = None /\ ~Pending

\* What the reload has prepared fits the policy it brings.
PreparedFits ==
    /\ rl = "prepare" => target.enabled
    /\ (other # None /\ rl \in {"publish", "install"}) =>
            target.enabled /\ days[other] = target.days

\* Who holds traceOpenMu has made a writer.
OpenMuHeld ==
    \A a \in Openers :
        /\ opening[a] \in {"install", "discard"} <=> openMu = {a}
        /\ opening[a] \in {"install", "discard"} => made[a] # None

\* Where the reload and the goroutines of closed writers open.
OpenersInStep ==
    /\ opening[Reload] \in {"read", "create", "install", "discard"} => rl = "open"
    /\ \A w \in Writers :
        /\ opening[w] # "no" => writer[w] = "done" /\ finishing[w] = "no"
        /\ finishing[w] = "waiting" => writer[w] \in {"aborting", "done"}

WInv ==
    /\ OneLocked /\ OneOwner /\ PreparedFits /\ OpenMuHeld
    /\ OpenersInStep /\ WritersSound

\* Neither a reload nor nobody is a writer.
LEMMA NoWriterIsZero == Reload \notin Writers /\ None \notin Writers
BY DEF Reload, None, Writers

\* The parts of WInv hold initially and every step preserves them.
THEOREM WritersInv == Spec => []WInv
<1> USE TraceAssumption, NoWriterIsZero DEF TraceAssumption, Policy
<1>1. Init => WInv
  BY DEF Init, WInv, OneLocked, LockedBy, Pending, OneOwner, PreparedFits, OpenMuHeld,
     OpenersInStep, WritersSound, InstalledWriterFits, NoWriterLost, None, Reload, Openers, Writers
<1>2. TypeOK /\ WInv /\ [Next]_vars => WInv'
  <2> SUFFICES ASSUME TypeOK, WInv, [Next]_vars PROVE WInv'
    OBVIOUS
  <2> USE DEF TypeOK, WInv, Openers, Reload, None, gateway, memory, writers, request, reload,
      opener, others, history, Consent, Create, CreateFails, Free, Unused, BeginClose,
      Drained, GaveUp, OpenEnds, StillWanted, ConsentChanged, WriterChanged
  <2>1. ASSUME NEW r \in Requests, Arrive(r) PROVE WInv'
    <3>1. OneLocked'
      BY <2>1 DEF Arrive, OneLocked, LockedBy
    <3>2. OneOwner'
      BY <2>1 DEF Arrive, OneOwner, Pending
    <3>3. PreparedFits'
      BY <2>1 DEF Arrive, PreparedFits
    <3>4. OpenMuHeld'
      BY <2>1 DEF Arrive, OpenMuHeld
    <3>5. OpenersInStep'
      BY <2>1 DEF Arrive, OpenersInStep
    <3>6. WritersSound'
      BY <2>1 DEF Arrive, WritersSound, InstalledWriterFits, NoWriterLost
    <3> QED
      BY <3>1, <3>2, <3>3, <3>4, <3>5, <3>6
  <2>2. ASSUME NEW r \in Requests, Begin(r) PROVE WInv'
    BY <2>2 DEF Begin, OneLocked, LockedBy, OneOwner, Pending, PreparedFits,
       OpenMuHeld, OpenersInStep, WritersSound, InstalledWriterFits, NoWriterLost
  <2>3. ASSUME NEW r \in Requests, PassBy(r) PROVE WInv'
    BY <2>3 DEF PassBy, OneLocked, LockedBy, OneOwner, Pending, PreparedFits,
       OpenMuHeld, OpenersInStep, WritersSound, InstalledWriterFits, NoWriterLost
  <2>4. ASSUME NEW r \in Requests, Observe(r) PROVE WInv'
    BY <2>4 DEF Observe, OneLocked, LockedBy, OneOwner, Pending, PreparedFits,
       OpenMuHeld, OpenersInStep, WritersSound, InstalledWriterFits, NoWriterLost
  <2>5. ASSUME NEW r \in Requests, Finalize(r) PROVE WInv'
    BY <2>5 DEF Finalize, OneLocked, LockedBy, OneOwner, Pending, PreparedFits,
       OpenMuHeld, OpenersInStep, WritersSound, InstalledWriterFits, NoWriterLost
  <2>6. ASSUME NEW r \in Requests, Submit(r) PROVE WInv'
    BY <2>6 DEF Submit, OneLocked, LockedBy, OneOwner, Pending, PreparedFits,
       OpenMuHeld, OpenersInStep, WritersSound, InstalledWriterFits, NoWriterLost
  <2>7. CASE PrepareEnable
    <3>1. OneLocked'
      BY <2>7 DEF PrepareEnable, GatewayType, WritersType, ReloadType, OpenerType,
         OthersType, OneLocked, LockedBy, OneOwner, Pending, PreparedFits,
         OpenMuHeld, OpenersInStep, WritersSound, InstalledWriterFits, NoWriterLost
    <3>2. OneOwner'
      BY <2>7 DEF PrepareEnable, GatewayType, WritersType, ReloadType, OpenerType,
         OthersType, OneLocked, LockedBy, OneOwner, Pending, PreparedFits,
         OpenMuHeld, OpenersInStep, WritersSound, InstalledWriterFits, NoWriterLost
    <3>3. PreparedFits'
      BY <2>7 DEF PrepareEnable, GatewayType, WritersType, ReloadType, OpenerType,
         OthersType, OneLocked, LockedBy, OneOwner, Pending, PreparedFits,
         OpenMuHeld, OpenersInStep, WritersSound, InstalledWriterFits, NoWriterLost
    <3>4. OpenMuHeld'
      BY <2>7 DEF PrepareEnable, GatewayType, WritersType, ReloadType, OpenerType,
         OthersType, OneLocked, LockedBy, OneOwner, Pending, PreparedFits,
         OpenMuHeld, OpenersInStep, WritersSound, InstalledWriterFits, NoWriterLost
    <3>5. OpenersInStep'
      BY <2>7 DEF PrepareEnable, GatewayType, WritersType, ReloadType, OpenerType,
         OthersType, OneLocked, LockedBy, OneOwner, Pending, PreparedFits,
         OpenMuHeld, OpenersInStep, WritersSound, InstalledWriterFits, NoWriterLost
    <3>6. WritersSound'
      BY <2>7 DEF PrepareEnable, GatewayType, WritersType, ReloadType, OpenerType,
         OthersType, OneLocked, LockedBy, OneOwner, Pending, PreparedFits,
         OpenMuHeld, OpenersInStep, WritersSound, InstalledWriterFits, NoWriterLost
    <3> QED
      BY <3>1, <3>2, <3>3, <3>4, <3>5, <3>6
  <2>8. CASE Prepare
    <3>1. OneLocked'
      BY <2>8 DEF Prepare, GatewayType, WritersType, ReloadType, OpenerType,
         OthersType, OneLocked, LockedBy, OneOwner, Pending, PreparedFits,
         OpenMuHeld, OpenersInStep, WritersSound, InstalledWriterFits, NoWriterLost
    <3>2. OneOwner'
      BY <2>8 DEF Prepare, GatewayType, WritersType, ReloadType, OpenerType,
         OthersType, OneLocked, LockedBy, OneOwner, Pending, PreparedFits,
         OpenMuHeld, OpenersInStep, WritersSound, InstalledWriterFits, NoWriterLost
    <3>3. PreparedFits'
      BY <2>8 DEF Prepare, GatewayType, WritersType, ReloadType, OpenerType,
         OthersType, OneLocked, LockedBy, OneOwner, Pending, PreparedFits,
         OpenMuHeld, OpenersInStep, WritersSound, InstalledWriterFits, NoWriterLost
    <3>4. OpenMuHeld'
      BY <2>8 DEF Prepare, GatewayType, WritersType, ReloadType, OpenerType,
         OthersType, OneLocked, LockedBy, OneOwner, Pending, PreparedFits,
         OpenMuHeld, OpenersInStep, WritersSound, InstalledWriterFits, NoWriterLost
    <3>5. OpenersInStep'
      BY <2>8 DEF Prepare, GatewayType, WritersType, ReloadType, OpenerType,
         OthersType, OneLocked, LockedBy, OneOwner, Pending, PreparedFits,
         OpenMuHeld, OpenersInStep, WritersSound, InstalledWriterFits, NoWriterLost
    <3>6. WritersSound'
      BY <2>8 DEF Prepare, GatewayType, WritersType, ReloadType, OpenerType,
         OthersType, OneLocked, LockedBy, OneOwner, Pending, PreparedFits,
         OpenMuHeld, OpenersInStep, WritersSound, InstalledWriterFits, NoWriterLost
    <3> QED
      BY <3>1, <3>2, <3>3, <3>4, <3>5, <3>6
  <2>9. CASE Publish
    <3>1. OneLocked'
      BY <2>9 DEF Publish, GatewayType, WritersType, ReloadType, OpenerType,
         OthersType, OneLocked, LockedBy, OneOwner, Pending, PreparedFits,
         OpenMuHeld, OpenersInStep, WritersSound, InstalledWriterFits, NoWriterLost
    <3>2. OneOwner'
      BY <2>9 DEF Publish, GatewayType, WritersType, ReloadType, OpenerType,
         OthersType, OneLocked, LockedBy, OneOwner, Pending, PreparedFits,
         OpenMuHeld, OpenersInStep, WritersSound, InstalledWriterFits, NoWriterLost
    <3>3. PreparedFits'
      BY <2>9 DEF Publish, GatewayType, WritersType, ReloadType, OpenerType,
         OthersType, OneLocked, LockedBy, OneOwner, Pending, PreparedFits,
         OpenMuHeld, OpenersInStep, WritersSound, InstalledWriterFits, NoWriterLost
    <3>4. OpenMuHeld'
      BY <2>9 DEF Publish, GatewayType, WritersType, ReloadType, OpenerType,
         OthersType, OneLocked, LockedBy, OneOwner, Pending, PreparedFits,
         OpenMuHeld, OpenersInStep, WritersSound, InstalledWriterFits, NoWriterLost
    <3>5. OpenersInStep'
      BY <2>9 DEF Publish, GatewayType, WritersType, ReloadType, OpenerType,
         OthersType, OneLocked, LockedBy, OneOwner, Pending, PreparedFits,
         OpenMuHeld, OpenersInStep, WritersSound, InstalledWriterFits, NoWriterLost
    <3>6. WritersSound'
      BY <2>9 DEF Publish, GatewayType, WritersType, ReloadType, OpenerType,
         OthersType, OneLocked, LockedBy, OneOwner, Pending, PreparedFits,
         OpenMuHeld, OpenersInStep, WritersSound, InstalledWriterFits, NoWriterLost
    <3> QED
      BY <3>1, <3>2, <3>3, <3>4, <3>5, <3>6
  <2>10. CASE InstallPrepared
    <3>1. OneLocked'
      BY <2>10 DEF InstallPrepared, GatewayType, WritersType, ReloadType,
         OpenerType, OthersType, OneLocked, LockedBy, OneOwner, Pending,
         PreparedFits, OpenMuHeld, OpenersInStep, WritersSound,
         InstalledWriterFits, NoWriterLost
    <3>2. OneOwner'
      BY <2>10 DEF InstallPrepared, GatewayType, WritersType, ReloadType,
         OpenerType, OthersType, OneLocked, LockedBy, OneOwner, Pending,
         PreparedFits, OpenMuHeld, OpenersInStep, WritersSound,
         InstalledWriterFits, NoWriterLost
    <3>3. PreparedFits'
      BY <2>10 DEF InstallPrepared, GatewayType, WritersType, ReloadType,
         OpenerType, OthersType, OneLocked, LockedBy, OneOwner, Pending,
         PreparedFits, OpenMuHeld, OpenersInStep, WritersSound,
         InstalledWriterFits, NoWriterLost
    <3>4. OpenMuHeld'
      BY <2>10 DEF InstallPrepared, GatewayType, WritersType, ReloadType,
         OpenerType, OthersType, OneLocked, LockedBy, OneOwner, Pending,
         PreparedFits, OpenMuHeld, OpenersInStep, WritersSound,
         InstalledWriterFits, NoWriterLost
    <3>5. OpenersInStep'
      BY <2>10 DEF InstallPrepared, GatewayType, WritersType, ReloadType,
         OpenerType, OthersType, OneLocked, LockedBy, OneOwner, Pending,
         PreparedFits, OpenMuHeld, OpenersInStep, WritersSound,
         InstalledWriterFits, NoWriterLost
    <3>6. WritersSound'
      BY <2>10 DEF InstallPrepared, GatewayType, WritersType, ReloadType,
         OpenerType, OthersType, OneLocked, LockedBy, OneOwner, Pending,
         PreparedFits, OpenMuHeld, OpenersInStep, WritersSound,
         InstalledWriterFits, NoWriterLost
    <3> QED
      BY <3>1, <3>2, <3>3, <3>4, <3>5, <3>6
  <2>11. CASE Reconcile
    <3>1. OneLocked'
      BY <2>11 DEF Reconcile, GatewayType, WritersType, ReloadType, OpenerType,
         OthersType, OneLocked, LockedBy, OneOwner, Pending, PreparedFits,
         OpenMuHeld, OpenersInStep, WritersSound, InstalledWriterFits, NoWriterLost
    <3>2. OneOwner'
      BY <2>11 DEF Reconcile, GatewayType, WritersType, ReloadType, OpenerType,
         OthersType, OneLocked, LockedBy, OneOwner, Pending, PreparedFits,
         OpenMuHeld, OpenersInStep, WritersSound, InstalledWriterFits, NoWriterLost
    <3>3. PreparedFits'
      BY <2>11 DEF Reconcile, GatewayType, WritersType, ReloadType, OpenerType,
         OthersType, OneLocked, LockedBy, OneOwner, Pending, PreparedFits,
         OpenMuHeld, OpenersInStep, WritersSound, InstalledWriterFits, NoWriterLost
    <3>4. OpenMuHeld'
      BY <2>11 DEF Reconcile, GatewayType, WritersType, ReloadType, OpenerType,
         OthersType, OneLocked, LockedBy, OneOwner, Pending, PreparedFits,
         OpenMuHeld, OpenersInStep, WritersSound, InstalledWriterFits, NoWriterLost
    <3>5. OpenersInStep'
      BY <2>11 DEF Reconcile, GatewayType, WritersType, ReloadType, OpenerType,
         OthersType, OneLocked, LockedBy, OneOwner, Pending, PreparedFits,
         OpenMuHeld, OpenersInStep, WritersSound, InstalledWriterFits, NoWriterLost
    <3>6. WritersSound'
      BY <2>11 DEF Reconcile, GatewayType, WritersType, ReloadType, OpenerType,
         OthersType, OneLocked, LockedBy, OneOwner, Pending, PreparedFits,
         OpenMuHeld, OpenersInStep, WritersSound, InstalledWriterFits, NoWriterLost
    <3> QED
      BY <3>1, <3>2, <3>3, <3>4, <3>5, <3>6
  <2>12. CASE Invalidate
    BY <2>12 DEF Invalidate, OneLocked, LockedBy, OneOwner, Pending, PreparedFits,
       OpenMuHeld, OpenersInStep, WritersSound, InstalledWriterFits, NoWriterLost
  <2>13. CASE GiveBackInvalidated
    BY <2>13 DEF GiveBackInvalidated, OneLocked, LockedBy, OneOwner, Pending,
       PreparedFits, OpenMuHeld, OpenersInStep, WritersSound, InstalledWriterFits,
       NoWriterLost
  <2>14. CASE Proceed
    <3>1. OneLocked'
      BY <2>14 DEF Proceed, GatewayType, WritersType, ReloadType, OpenerType,
         OthersType, OneLocked, LockedBy, OneOwner, Pending, PreparedFits,
         OpenMuHeld, OpenersInStep, WritersSound, InstalledWriterFits, NoWriterLost
    <3>2. OneOwner'
      BY <2>14 DEF Proceed, GatewayType, WritersType, ReloadType, OpenerType,
         OthersType, OneLocked, LockedBy, OneOwner, Pending, PreparedFits,
         OpenMuHeld, OpenersInStep, WritersSound, InstalledWriterFits, NoWriterLost
    <3>3. PreparedFits'
      BY <2>14 DEF Proceed, GatewayType, WritersType, ReloadType, OpenerType,
         OthersType, OneLocked, LockedBy, OneOwner, Pending, PreparedFits,
         OpenMuHeld, OpenersInStep, WritersSound, InstalledWriterFits, NoWriterLost
    <3>4. OpenMuHeld'
      BY <2>14 DEF Proceed, GatewayType, WritersType, ReloadType, OpenerType,
         OthersType, OneLocked, LockedBy, OneOwner, Pending, PreparedFits,
         OpenMuHeld, OpenersInStep, WritersSound, InstalledWriterFits, NoWriterLost
    <3>5. OpenersInStep'
      <4>1. \A u \in Writers : writer[u] \in {"aborting", "done"} => writer'[u] = writer[u]
        BY <2>14 DEF Proceed, WritersType
      <4>2. \A u \in Writers : opening'[u] = opening[u] /\ finishing'[u] = finishing[u]
        BY <2>14 DEF Proceed, OpenerType
      <4>3. opening'[Reload] \in {"read", "create", "install", "discard"} => rl' = "open"
        BY <2>14 DEF Proceed, OpenerType, OpenersInStep
      <4> QED
        BY <4>1, <4>2, <4>3 DEF OpenersInStep
    <3>6. WritersSound'
      BY <2>14 DEF Proceed, GatewayType, WritersType, ReloadType, OpenerType,
         OthersType, OneLocked, LockedBy, OneOwner, Pending, PreparedFits,
         OpenMuHeld, OpenersInStep, WritersSound, InstalledWriterFits, NoWriterLost
    <3> QED
      BY <3>1, <3>2, <3>3, <3>4, <3>5, <3>6
  <2>15. CASE Closed
    <3>1. OneLocked'
      BY <2>15 DEF Closed, GatewayType, WritersType, ReloadType, OpenerType,
         OthersType, OneLocked, LockedBy, OneOwner, Pending, PreparedFits,
         OpenMuHeld, OpenersInStep, WritersSound, InstalledWriterFits, NoWriterLost
    <3>2. OneOwner'
      BY <2>15 DEF Closed, GatewayType, WritersType, ReloadType, OpenerType,
         OthersType, OneLocked, LockedBy, OneOwner, Pending, PreparedFits,
         OpenMuHeld, OpenersInStep, WritersSound, InstalledWriterFits, NoWriterLost
    <3>3. PreparedFits'
      BY <2>15 DEF Closed, GatewayType, WritersType, ReloadType, OpenerType,
         OthersType, OneLocked, LockedBy, OneOwner, Pending, PreparedFits,
         OpenMuHeld, OpenersInStep, WritersSound, InstalledWriterFits, NoWriterLost
    <3>4. OpenMuHeld'
      BY <2>15 DEF Closed, GatewayType, WritersType, ReloadType, OpenerType,
         OthersType, OneLocked, LockedBy, OneOwner, Pending, PreparedFits,
         OpenMuHeld, OpenersInStep, WritersSound, InstalledWriterFits, NoWriterLost
    <3>5. OpenersInStep'
      <4>1. \A u \in Writers : opening'[u] = opening[u]
        BY <2>15 DEF Closed, OpenerType
      <4>2. writer' = writer /\ finishing' = finishing
        BY <2>15 DEF Closed
      <4>3. opening'[Reload] \in {"read", "create", "install", "discard"} => rl' = "open"
        BY <2>15 DEF Closed, OpenerType, OpenersInStep
      <4> QED
        BY <4>1, <4>2, <4>3 DEF OpenersInStep
    <3>6. WritersSound'
      BY <2>15 DEF Closed, GatewayType, WritersType, ReloadType, OpenerType,
         OthersType, OneLocked, LockedBy, OneOwner, Pending, PreparedFits,
         OpenMuHeld, OpenersInStep, WritersSound, InstalledWriterFits, NoWriterLost
    <3> QED
      BY <3>1, <3>2, <3>3, <3>4, <3>5, <3>6
  <2>16. CASE GiveUpClosing
    <3>1. OneLocked'
      BY <2>16 DEF GiveUpClosing, GatewayType, WritersType, ReloadType, OpenerType,
         OthersType, OneLocked, LockedBy, OneOwner, Pending, PreparedFits,
         OpenMuHeld, OpenersInStep, WritersSound, InstalledWriterFits, NoWriterLost
    <3>2. OneOwner'
      BY <2>16 DEF GiveUpClosing, GatewayType, WritersType, ReloadType, OpenerType,
         OthersType, OneLocked, LockedBy, OneOwner, Pending, PreparedFits,
         OpenMuHeld, OpenersInStep, WritersSound, InstalledWriterFits, NoWriterLost
    <3>3. PreparedFits'
      BY <2>16 DEF GiveUpClosing, GatewayType, WritersType, ReloadType, OpenerType,
         OthersType, OneLocked, LockedBy, OneOwner, Pending, PreparedFits,
         OpenMuHeld, OpenersInStep, WritersSound, InstalledWriterFits, NoWriterLost
    <3>4. OpenMuHeld'
      BY <2>16 DEF GiveUpClosing, GatewayType, WritersType, ReloadType, OpenerType,
         OthersType, OneLocked, LockedBy, OneOwner, Pending, PreparedFits,
         OpenMuHeld, OpenersInStep, WritersSound, InstalledWriterFits, NoWriterLost
    <3>5. OpenersInStep'
      BY <2>16 DEF GiveUpClosing, GatewayType, WritersType, ReloadType, OpenerType,
         OthersType, OneLocked, LockedBy, OneOwner, Pending, PreparedFits,
         OpenMuHeld, OpenersInStep, WritersSound, InstalledWriterFits, NoWriterLost
    <3>6. WritersSound'
      BY <2>16 DEF GiveUpClosing, GatewayType, WritersType, ReloadType, OpenerType,
         OthersType, OneLocked, LockedBy, OneOwner, Pending, PreparedFits,
         OpenMuHeld, OpenersInStep, WritersSound, InstalledWriterFits, NoWriterLost
    <3> QED
      BY <3>1, <3>2, <3>3, <3>4, <3>5, <3>6
  <2>17. ASSUME NEW a \in Openers, ReadConfig(a) PROVE WInv'
    BY <2>17 DEF ReadConfig, OneLocked, LockedBy, OneOwner, Pending, PreparedFits,
       OpenMuHeld, OpenersInStep, WritersSound, InstalledWriterFits, NoWriterLost
  <2>18. ASSUME NEW a \in Openers, OpenCreate(a) PROVE WInv'
    <3>1. OneLocked'
      BY <2>18 DEF OpenCreate, GatewayType, WritersType, ReloadType, OpenerType,
         OthersType, OneLocked, LockedBy, OneOwner, Pending, PreparedFits,
         OpenMuHeld, OpenersInStep, WritersSound, InstalledWriterFits, NoWriterLost
    <3>2. OneOwner'
      BY <2>18 DEF OpenCreate, GatewayType, WritersType, ReloadType, OpenerType,
         OthersType, OneLocked, LockedBy, OneOwner, Pending, PreparedFits,
         OpenMuHeld, OpenersInStep, WritersSound, InstalledWriterFits, NoWriterLost
    <3>3. PreparedFits'
      BY <2>18 DEF OpenCreate, GatewayType, WritersType, ReloadType, OpenerType,
         OthersType, OneLocked, LockedBy, OneOwner, Pending, PreparedFits,
         OpenMuHeld, OpenersInStep, WritersSound, InstalledWriterFits, NoWriterLost
    <3>4. OpenMuHeld'
      <4>1. \A b \in Openers : opening[b] \notin {"install", "discard"}
        BY <2>18 DEF OpenCreate, OpenMuHeld
      <4>2. CASE openMu' = openMu
        <5>1. opening'[a] = "no" /\ \A b \in Openers \ {a} : opening'[b] = opening[b]
          BY <2>18, <4>2 DEF OpenCreate, OpenerType
        <5> QED
          BY <2>18, <4>1, <4>2, <5>1 DEF OpenCreate, OpenMuHeld
      <4>3. CASE openMu' = {a}
        <5>1. opening'[a] = "install" /\ \A b \in Openers \ {a} : opening'[b] = opening[b]
          BY <2>18, <4>3 DEF OpenCreate, OpenerType
        <5>2. made'[a] # None
          BY <2>18, <4>3 DEF OpenCreate, OpenerType
        <5> QED
          BY <4>1, <4>3, <5>1, <5>2 DEF OpenMuHeld
      <4> QED
        BY <2>18, <4>2, <4>3 DEF OpenCreate
    <3>5. OpenersInStep'
      <4>1. \A u \in Writers : opening[u] # "no" => writer'[u] = writer[u]
        BY <2>18 DEF OpenCreate, WritersType, OpenerType, OpenersInStep, OneOwner
      <4>2. finishing' = finishing
        BY <2>18 DEF OpenCreate
      <4>3. \A u \in Writers : opening[u] = "no" => opening'[u] = "no"
        BY <2>18 DEF OpenCreate, OpenerType
      <4>4. \A u \in Writers : writer[u] \in {"aborting", "done"} => writer'[u] = writer[u]
        BY <2>18 DEF OpenCreate, WritersType, OpenerType, OpenersInStep, OneOwner
      <4>5. opening'[Reload] \in {"read", "create", "install", "discard"} => rl' = "open"
        BY <2>18 DEF OpenCreate, OpenerType, OpenersInStep
      <4> QED
        BY <4>1, <4>2, <4>3, <4>4, <4>5 DEF OpenersInStep
    <3>6. WritersSound'
      BY <2>18 DEF OpenCreate, GatewayType, WritersType, ReloadType, OpenerType,
         OthersType, OneLocked, LockedBy, OneOwner, Pending, PreparedFits,
         OpenMuHeld, OpenersInStep, WritersSound, InstalledWriterFits, NoWriterLost
    <3> QED
      BY <3>1, <3>2, <3>3, <3>4, <3>5, <3>6
  <2>19. ASSUME NEW a \in Openers, OpenInstall(a) PROVE WInv'
    <3>1. OneLocked'
      BY <2>19 DEF OpenInstall, GatewayType, WritersType, ReloadType, OpenerType,
         OthersType, OneLocked, LockedBy, OneOwner, Pending, PreparedFits,
         OpenMuHeld, OpenersInStep, WritersSound, InstalledWriterFits, NoWriterLost
    <3>2. OneOwner'
      <4>1. openMu = {a} /\ made[a] # None /\ made[a] \in Writers
        BY <2>19 DEF OpenInstall, OpenMuHeld, OpenerType
      <4>2. \A b \in Openers : opening'[b] # "install"
        <5>1. \A b \in Openers \ {a} : opening'[b] = opening[b]
          BY <2>19 DEF OpenInstall, OpenerType
        <5>2. \A b \in Openers \ {a} : opening[b] # "install"
          BY <4>1 DEF OpenMuHeld
        <5>3. opening'[a] # "install"
          BY <2>19 DEF OpenInstall, OpenerType
        <5> QED
          BY <5>1, <5>2, <5>3
      <4>3. ~Pending /\ (a = Reload => rl = "open")
        BY <2>19 DEF OpenInstall, OneOwner, OpenersInStep
      <4>4. ~Pending' /\ other' = other
        BY <2>19, <4>3 DEF OpenInstall, Pending
      <4>5. rl' = rl \/ (rl = "open" /\ rl' = "idle")
        BY <2>19, <4>3 DEF OpenInstall
      <4> QED
        BY <4>2, <4>4, <4>5 DEF OneOwner
    <3>3. PreparedFits'
      BY <2>19 DEF OpenInstall, GatewayType, WritersType, ReloadType, OpenerType,
         OthersType, OneLocked, LockedBy, OneOwner, Pending, PreparedFits,
         OpenMuHeld, OpenersInStep, WritersSound, InstalledWriterFits, NoWriterLost
    <3>4. OpenMuHeld'
      <4>1. openMu = {a}
        BY <2>19 DEF OpenInstall, OpenMuHeld
      <4>2. \A b \in Openers \ {a} :
              opening'[b] = opening[b] /\ opening[b] \notin {"install", "discard"}
        BY <2>19, <4>1 DEF OpenInstall, OpenerType, OpenMuHeld
      <4>3. \/ openMu' = {} /\ opening'[a] = "no"
            \/ openMu' = {a} /\ opening'[a] = "discard" /\ made'[a] = made[a]
        BY <2>19, <4>1 DEF OpenInstall, OpenerType
      <4>4. made[a] # None
        BY <2>19 DEF OpenInstall, OpenMuHeld
      <4> QED
        BY <4>2, <4>3, <4>4 DEF OpenMuHeld
    <3>5. OpenersInStep'
      <4>1. \A u \in Writers : opening[u] # "no" => writer'[u] = writer[u]
        BY <2>19 DEF OpenInstall, WritersType, OpenerType, OpenersInStep, OneOwner
      <4>2. finishing' = finishing
        BY <2>19 DEF OpenInstall
      <4>3. \A u \in Writers : opening[u] = "no" => opening'[u] = "no"
        BY <2>19 DEF OpenInstall, OpenerType
      <4>4. \A u \in Writers : writer[u] \in {"aborting", "done"} => writer'[u] = writer[u]
        BY <2>19 DEF OpenInstall, WritersType, OpenerType, OpenersInStep, OneOwner
      <4>5. opening'[Reload] \in {"read", "create", "install", "discard"} => rl' = "open"
        BY <2>19 DEF OpenInstall, OpenerType, OpenersInStep
      <4> QED
        BY <4>1, <4>2, <4>3, <4>4, <4>5 DEF OpenersInStep
    <3>6. WritersSound'
      BY <2>19 DEF OpenInstall, GatewayType, WritersType, ReloadType, OpenerType,
         OthersType, OneLocked, LockedBy, OneOwner, Pending, PreparedFits,
         OpenMuHeld, OpenersInStep, WritersSound, InstalledWriterFits, NoWriterLost
    <3> QED
      BY <3>1, <3>2, <3>3, <3>4, <3>5, <3>6
  <2>20. ASSUME NEW a \in Openers, OpenDiscard(a) PROVE WInv'
    <3>1. OneLocked'
      BY <2>20 DEF OpenDiscard, GatewayType, WritersType, ReloadType, OpenerType,
         OthersType, OneLocked, LockedBy, OneOwner, Pending, PreparedFits,
         OpenMuHeld, OpenersInStep, WritersSound, InstalledWriterFits, NoWriterLost
    <3>2. OneOwner'
      BY <2>20 DEF OpenDiscard, GatewayType, WritersType, ReloadType, OpenerType,
         OthersType, OneLocked, LockedBy, OneOwner, Pending, PreparedFits,
         OpenMuHeld, OpenersInStep, WritersSound, InstalledWriterFits, NoWriterLost
    <3>3. PreparedFits'
      BY <2>20 DEF OpenDiscard, GatewayType, WritersType, ReloadType, OpenerType,
         OthersType, OneLocked, LockedBy, OneOwner, Pending, PreparedFits,
         OpenMuHeld, OpenersInStep, WritersSound, InstalledWriterFits, NoWriterLost
    <3>4. OpenMuHeld'
      <4>1. openMu = {a}
        BY <2>20 DEF OpenDiscard, OpenMuHeld
      <4>2. \A b \in Openers \ {a} :
              opening'[b] = opening[b] /\ opening[b] \notin {"install", "discard"}
        BY <2>20, <4>1 DEF OpenDiscard, OpenerType, OpenMuHeld
      <4>3. openMu' = {} /\ opening'[a] = "no"
        BY <2>20 DEF OpenDiscard, OpenerType
      <4> QED
        BY <4>2, <4>3 DEF OpenMuHeld
    <3>5. OpenersInStep'
      BY <2>20 DEF OpenDiscard, GatewayType, WritersType, ReloadType, OpenerType,
         OthersType, OneLocked, LockedBy, OneOwner, Pending, PreparedFits,
         OpenMuHeld, OpenersInStep, WritersSound, InstalledWriterFits, NoWriterLost
    <3>6. WritersSound'
      BY <2>20 DEF OpenDiscard, GatewayType, WritersType, ReloadType, OpenerType,
         OthersType, OneLocked, LockedBy, OneOwner, Pending, PreparedFits,
         OpenMuHeld, OpenersInStep, WritersSound, InstalledWriterFits, NoWriterLost
    <3> QED
      BY <3>1, <3>2, <3>3, <3>4, <3>5, <3>6
  <2>21. ASSUME NEW w \in Writers, Take(w) PROVE WInv'
    BY <2>21 DEF Take, OneLocked, LockedBy, OneOwner, Pending, PreparedFits,
       OpenMuHeld, OpenersInStep, WritersSound, InstalledWriterFits, NoWriterLost
  <2>22. ASSUME NEW w \in Writers, Release(w) PROVE WInv'
    BY <2>22 DEF Release, OneLocked, LockedBy, OneOwner, Pending, PreparedFits,
       OpenMuHeld, OpenersInStep, WritersSound, InstalledWriterFits, NoWriterLost
  <2>23. ASSUME NEW w \in Writers, DropQueued(w) PROVE WInv'
    BY <2>23 DEF DropQueued, OneLocked, LockedBy, OneOwner, Pending, PreparedFits,
       OpenMuHeld, OpenersInStep, WritersSound, InstalledWriterFits, NoWriterLost
  <2>24. ASSUME NEW w \in Writers, LoopEnds(w) PROVE WInv'
    <3>1. OneLocked'
      BY <2>24 DEF LoopEnds, GatewayType, WritersType, ReloadType, OpenerType,
         OthersType, OneLocked, LockedBy, OneOwner, Pending, PreparedFits,
         OpenMuHeld, OpenersInStep, WritersSound, InstalledWriterFits, NoWriterLost
    <3>2. OneOwner'
      BY <2>24 DEF LoopEnds, GatewayType, WritersType, ReloadType, OpenerType,
         OthersType, OneLocked, LockedBy, OneOwner, Pending, PreparedFits,
         OpenMuHeld, OpenersInStep, WritersSound, InstalledWriterFits, NoWriterLost
    <3>3. PreparedFits'
      BY <2>24 DEF LoopEnds, GatewayType, WritersType, ReloadType, OpenerType,
         OthersType, OneLocked, LockedBy, OneOwner, Pending, PreparedFits,
         OpenMuHeld, OpenersInStep, WritersSound, InstalledWriterFits, NoWriterLost
    <3>4. OpenMuHeld'
      BY <2>24 DEF LoopEnds, GatewayType, WritersType, ReloadType, OpenerType,
         OthersType, OneLocked, LockedBy, OneOwner, Pending, PreparedFits,
         OpenMuHeld, OpenersInStep, WritersSound, InstalledWriterFits, NoWriterLost
    <3>5. OpenersInStep'
      BY <2>24 DEF LoopEnds, GatewayType, WritersType, ReloadType, OpenerType,
         OthersType, OneLocked, LockedBy, OneOwner, Pending, PreparedFits,
         OpenMuHeld, OpenersInStep, WritersSound, InstalledWriterFits, NoWriterLost
    <3>6. WritersSound'
      BY <2>24 DEF LoopEnds, GatewayType, WritersType, ReloadType, OpenerType,
         OthersType, OneLocked, LockedBy, OneOwner, Pending, PreparedFits,
         OpenMuHeld, OpenersInStep, WritersSound, InstalledWriterFits, NoWriterLost
    <3> QED
      BY <3>1, <3>2, <3>3, <3>4, <3>5, <3>6
  <2>25. ASSUME NEW w \in Writers, Expire(w) PROVE WInv'
    <3>1. OneLocked'
      BY <2>25 DEF Expire, GatewayType, WritersType, ReloadType, OpenerType,
         OthersType, OneLocked, LockedBy, OneOwner, Pending, PreparedFits,
         OpenMuHeld, OpenersInStep, WritersSound, InstalledWriterFits, NoWriterLost
    <3>2. OneOwner'
      BY <2>25 DEF Expire, GatewayType, WritersType, ReloadType, OpenerType,
         OthersType, OneLocked, LockedBy, OneOwner, Pending, PreparedFits,
         OpenMuHeld, OpenersInStep, WritersSound, InstalledWriterFits, NoWriterLost
    <3>3. PreparedFits'
      BY <2>25 DEF Expire, GatewayType, WritersType, ReloadType, OpenerType,
         OthersType, OneLocked, LockedBy, OneOwner, Pending, PreparedFits,
         OpenMuHeld, OpenersInStep, WritersSound, InstalledWriterFits, NoWriterLost
    <3>4. OpenMuHeld'
      BY <2>25 DEF Expire, GatewayType, WritersType, ReloadType, OpenerType,
         OthersType, OneLocked, LockedBy, OneOwner, Pending, PreparedFits,
         OpenMuHeld, OpenersInStep, WritersSound, InstalledWriterFits, NoWriterLost
    <3>5. OpenersInStep'
      BY <2>25 DEF Expire, GatewayType, WritersType, ReloadType, OpenerType,
         OthersType, OneLocked, LockedBy, OneOwner, Pending, PreparedFits,
         OpenMuHeld, OpenersInStep, WritersSound, InstalledWriterFits, NoWriterLost
    <3>6. WritersSound'
      BY <2>25 DEF Expire, GatewayType, WritersType, ReloadType, OpenerType,
         OthersType, OneLocked, LockedBy, OneOwner, Pending, PreparedFits,
         OpenMuHeld, OpenersInStep, WritersSound, InstalledWriterFits, NoWriterLost
    <3> QED
      BY <3>1, <3>2, <3>3, <3>4, <3>5, <3>6
  <2>26. ASSUME NEW w \in Writers, Finish(w) PROVE WInv'
    <3>1. OneLocked'
      BY <2>26 DEF Finish, GatewayType, WritersType, ReloadType, OpenerType,
         OthersType, OneLocked, LockedBy, OneOwner, Pending, PreparedFits,
         OpenMuHeld, OpenersInStep, WritersSound, InstalledWriterFits, NoWriterLost
    <3>2. OneOwner'
      BY <2>26 DEF Finish, GatewayType, WritersType, ReloadType, OpenerType,
         OthersType, OneLocked, LockedBy, OneOwner, Pending, PreparedFits,
         OpenMuHeld, OpenersInStep, WritersSound, InstalledWriterFits, NoWriterLost
    <3>3. PreparedFits'
      BY <2>26 DEF Finish, GatewayType, WritersType, ReloadType, OpenerType,
         OthersType, OneLocked, LockedBy, OneOwner, Pending, PreparedFits,
         OpenMuHeld, OpenersInStep, WritersSound, InstalledWriterFits, NoWriterLost
    <3>4. OpenMuHeld'
      BY <2>26 DEF Finish, GatewayType, WritersType, ReloadType, OpenerType,
         OthersType, OneLocked, LockedBy, OneOwner, Pending, PreparedFits,
         OpenMuHeld, OpenersInStep, WritersSound, InstalledWriterFits, NoWriterLost
    <3>5. OpenersInStep'
      <4>1. \A u \in Writers \ {w} : opening'[u] = opening[u] /\ finishing'[u] = finishing[u]
        BY <2>26 DEF Finish, OpenerType, OthersType
      <4>2. writer' = writer /\ writer[w] = "done" /\ finishing'[w] = "no"
        BY <2>26 DEF Finish, OthersType
      <4>3. opening'[Reload] = opening[Reload] /\ rl' = rl
        BY <2>26 DEF Finish, OpenerType
      <4> QED
        BY <4>1, <4>2, <4>3 DEF OpenersInStep
    <3>6. WritersSound'
      BY <2>26 DEF Finish, GatewayType, WritersType, ReloadType, OpenerType,
         OthersType, OneLocked, LockedBy, OneOwner, Pending, PreparedFits,
         OpenMuHeld, OpenersInStep, WritersSound, InstalledWriterFits, NoWriterLost
    <3> QED
      BY <3>1, <3>2, <3>3, <3>4, <3>5, <3>6
  <2>27. CASE CloseCapture
    <3>1. OneLocked'
      BY <2>27 DEF CloseCapture, GatewayType, WritersType, ReloadType, OpenerType,
         OthersType, OneLocked, LockedBy, OneOwner, Pending, PreparedFits,
         OpenMuHeld, OpenersInStep, WritersSound, InstalledWriterFits, NoWriterLost
    <3>2. OneOwner'
      BY <2>27 DEF CloseCapture, GatewayType, WritersType, ReloadType, OpenerType,
         OthersType, OneLocked, LockedBy, OneOwner, Pending, PreparedFits,
         OpenMuHeld, OpenersInStep, WritersSound, InstalledWriterFits, NoWriterLost
    <3>3. PreparedFits'
      BY <2>27 DEF CloseCapture, GatewayType, WritersType, ReloadType, OpenerType,
         OthersType, OneLocked, LockedBy, OneOwner, Pending, PreparedFits,
         OpenMuHeld, OpenersInStep, WritersSound, InstalledWriterFits, NoWriterLost
    <3>4. OpenMuHeld'
      BY <2>27 DEF CloseCapture, GatewayType, WritersType, ReloadType, OpenerType,
         OthersType, OneLocked, LockedBy, OneOwner, Pending, PreparedFits,
         OpenMuHeld, OpenersInStep, WritersSound, InstalledWriterFits, NoWriterLost
    <3>5. OpenersInStep'
      BY <2>27 DEF CloseCapture, GatewayType, WritersType, ReloadType, OpenerType,
         OthersType, OneLocked, LockedBy, OneOwner, Pending, PreparedFits,
         OpenMuHeld, OpenersInStep, WritersSound, InstalledWriterFits, NoWriterLost
    <3>6. WritersSound'
      BY <2>27 DEF CloseCapture, GatewayType, WritersType, ReloadType, OpenerType,
         OthersType, OneLocked, LockedBy, OneOwner, Pending, PreparedFits,
         OpenMuHeld, OpenersInStep, WritersSound, InstalledWriterFits, NoWriterLost
    <3> QED
      BY <3>1, <3>2, <3>3, <3>4, <3>5, <3>6
  <2>28. CASE CaptureClosed
    BY <2>28 DEF CaptureClosed, OneLocked, LockedBy, OneOwner, Pending,
       PreparedFits, OpenMuHeld, OpenersInStep, WritersSound, InstalledWriterFits,
       NoWriterLost
  <2>29. CASE Sweep
    BY <2>29 DEF Sweep, OneLocked, LockedBy, OneOwner, Pending, PreparedFits,
       OpenMuHeld, OpenersInStep, WritersSound, InstalledWriterFits, NoWriterLost
  <2>30. CASE SweepStore
    BY <2>30 DEF SweepStore, OneLocked, LockedBy, OneOwner, Pending, PreparedFits,
       OpenMuHeld, OpenersInStep, WritersSound, InstalledWriterFits, NoWriterLost
  <2>31. CASE UNCHANGED vars
    BY <2>31 DEF vars, OneLocked, LockedBy, OneOwner, Pending, PreparedFits,
       OpenMuHeld, OpenersInStep, WritersSound, InstalledWriterFits, NoWriterLost
  <2> QED
    BY <2>1, <2>2, <2>3, <2>4, <2>5, <2>6, <2>7, <2>8, <2>9, <2>10, <2>11, <2>12,
       <2>13, <2>14, <2>15, <2>16, <2>17, <2>18, <2>19, <2>20, <2>21, <2>22, <2>23,
       <2>24, <2>25, <2>26, <2>27, <2>28, <2>29, <2>30, <2>31 DEF Next, Handle,
       Reloading, Open, Run
<1> QED
  BY <1>1, <1>2, TypeCorrect, PTL DEF Spec

\* The installed writer fits the policy, and no writer is lost with its lock.
THEOREM WritersSoundThm == Spec => []WritersSound
BY WritersInv, PTL DEF WInv

---------------------------------------------------------------------------
(* Consent.                                                                 *)

\* A request admitted under the current generation has had consent throughout.
AdmittedConsents ==
    \A r \in Requests :
        /\ admission[r] <= generation
        /\ pc[r] = "idle" => admission[r] = 0 /\ r \notin revoked
        /\ admission[r] = generation => Allowed(policy, r) /\ r \notin revoked

\* It holds initially and every step preserves it.
THEOREM ConsentInv == Spec => []AdmittedConsents
<1> USE TraceAssumption DEF TraceAssumption, Policy
<1>1. Init => AdmittedConsents
  BY DEF Init, AdmittedConsents
<1>2. TypeOK /\ AdmittedConsents /\ [Next]_vars => AdmittedConsents'
  <2> SUFFICES ASSUME TypeOK, AdmittedConsents, [Next]_vars PROVE AdmittedConsents'
    OBVIOUS
  <2> USE DEF TypeOK, GatewayType, RequestType, HistoryType, AdmittedConsents, Allowed,
      gateway, memory, writers, request, reload, opener, others, history,
      Consent, Active, ConsentChanged
  <2>1. ASSUME NEW r \in Requests, Arrive(r) PROVE AdmittedConsents'
    BY <2>1 DEF Arrive
  <2>2. ASSUME NEW r \in Requests, Begin(r) PROVE AdmittedConsents'
    BY <2>2 DEF Begin
  <2>3. ASSUME NEW r \in Requests, PassBy(r) PROVE AdmittedConsents'
    BY <2>3 DEF PassBy
  <2>4. ASSUME NEW r \in Requests, Finalize(r) PROVE AdmittedConsents'
    BY <2>4 DEF Finalize
  <2>5. ASSUME NEW r \in Requests, Submit(r) PROVE AdmittedConsents'
    BY <2>5 DEF Submit
  <2>6. CASE InstallPrepared
    BY <2>6 DEF InstallPrepared
  <2>7. CASE Reconcile
    BY <2>7 DEF Reconcile
  <2>8. CASE CloseCapture
    BY <2>8 DEF CloseCapture
  <2>9. ASSUME UNCHANGED <<policy, generation, pc, admission, revoked>> PROVE AdmittedConsents'
    BY <2>9
  <2>10. CASE (\E r \in Requests : Observe(r)) \/ PrepareEnable \/ Prepare \/
     Publish \/ Invalidate \/ GiveBackInvalidated \/ Proceed
    BY <2>10, <2>9 DEF Observe, PrepareEnable, Prepare, Publish, Invalidate,
       GiveBackInvalidated, Proceed, Create, CreateFails, BeginClose, Drained,
       GaveUp, OpenEnds
  <2>11. CASE Closed \/ GiveUpClosing \/ (\E a \in Openers : ReadConfig(a)) \/ (\E
     a \in Openers : OpenCreate(a)) \/ (\E a \in Openers : OpenInstall(a)) \/ (\E a
     \in Openers : OpenDiscard(a)) \/ (\E w \in Writers : Take(w))
    BY <2>11, <2>9 DEF Closed, GiveUpClosing, ReadConfig, OpenCreate, OpenInstall,
       OpenDiscard, Take, Create, CreateFails, BeginClose, Drained, GaveUp,
       OpenEnds
  <2>12. CASE (\E w \in Writers : Release(w)) \/ (\E w \in Writers : DropQueued(w))
     \/ (\E w \in Writers : LoopEnds(w)) \/ (\E w \in Writers : Expire(w)) \/ (\E w
     \in Writers : Finish(w)) \/ CaptureClosed \/ Sweep
    BY <2>12, <2>9 DEF Release, DropQueued, LoopEnds, Expire, Finish,
       CaptureClosed, Sweep, Create, CreateFails, BeginClose, Drained, GaveUp,
       OpenEnds
  <2>13. CASE SweepStore
    BY <2>13, <2>9 DEF SweepStore, Create, CreateFails, BeginClose, Drained,
       GaveUp, OpenEnds
  <2>14. CASE UNCHANGED vars
    BY <2>14, <2>9 DEF vars
  <2> QED
    BY <2>1, <2>2, <2>3, <2>4, <2>5, <2>6, <2>7, <2>8, <2>9, <2>10, <2>11, <2>12,
       <2>13, <2>14 DEF Next, Handle, Reloading, Open, Run, Openers
<1> QED
  BY <1>1, <1>2, TypeCorrect, PTL DEF Spec

\* What a writer is handed was consented to without a gap.
THEOREM ConsentThroughoutThm == Spec => ConsentThroughout
<1> DEFINE New == \A w \in Writers : (queue'[w] \ queue[w]) \cap revoked' = {}
<1>1. ASSUME TypeOK, AdmittedConsents, [Next]_vars PROVE New
  <2> USE <1>1 DEF TypeOK, WritersType, gateway, memory, writers, request, reload, opener,
      others, history
  <2>1. ASSUME NEW r \in Requests, Submit(r) PROVE New
    <3>1. \A w \in Writers : queue'[w] \subseteq queue[w] \cup {r}
      BY <2>1 DEF Submit
    <3>2. CASE ~Eligible(r)
      BY <2>1, <3>2 DEF Submit
    <3>3. CASE Eligible(r)
      <4>1. r \notin revoked
        BY <3>3 DEF Eligible, AdmittedConsents
      <4> QED
        BY <2>1, <3>1, <4>1 DEF Submit
    <3> QED
      BY <3>2, <3>3
  <2>2. ASSUME NEW w \in Writers, Take(w) \/ Release(w) \/ DropQueued(w) \/ LoopEnds(w) PROVE New
    <3>1. \A v \in Writers : queue'[v] \subseteq queue[v]
      BY <2>2 DEF Take, Release, DropQueued, LoopEnds
    <3> QED
      BY <3>1
  <2>3. ASSUME UNCHANGED queue PROVE New
    BY <2>3
  <2>4. CASE (\E r \in Requests : Arrive(r)) \/ (\E r \in Requests : Begin(r)) \/
     (\E r \in Requests : PassBy(r)) \/ (\E r \in Requests : Observe(r)) \/ (\E r
     \in Requests : Finalize(r)) \/ PrepareEnable \/ Prepare
    BY <2>4, <2>3 DEF Arrive, Begin, PassBy, Observe, Finalize, PrepareEnable,
       Prepare, Create, CreateFails, BeginClose, Drained, GaveUp, OpenEnds
  <2>5. CASE Publish \/ InstallPrepared \/ Reconcile \/ Invalidate \/
     GiveBackInvalidated \/ Proceed \/ Closed
    BY <2>5, <2>3 DEF Publish, InstallPrepared, Reconcile, Invalidate,
       GiveBackInvalidated, Proceed, Closed, Create, CreateFails, BeginClose,
       Drained, GaveUp, OpenEnds
  <2>6. CASE GiveUpClosing \/ (\E a \in Openers : ReadConfig(a)) \/ (\E a \in
     Openers : OpenCreate(a)) \/ (\E a \in Openers : OpenInstall(a)) \/ (\E a \in
     Openers : OpenDiscard(a)) \/ (\E w \in Writers : Expire(w)) \/ (\E w \in
     Writers : Finish(w))
    BY <2>6, <2>3 DEF GiveUpClosing, ReadConfig, OpenCreate, OpenInstall,
       OpenDiscard, Expire, Finish, Create, CreateFails, BeginClose, Drained,
       GaveUp, OpenEnds
  <2>7. CASE CloseCapture \/ CaptureClosed \/ Sweep \/ SweepStore
    BY <2>7, <2>3 DEF CloseCapture, CaptureClosed, Sweep, SweepStore, Create,
       CreateFails, BeginClose, Drained, GaveUp, OpenEnds
  <2>8. CASE UNCHANGED vars
    BY <2>8, <2>3 DEF vars
  <2> QED
    BY <2>1, <2>2, <2>3, <2>4, <2>5, <2>6, <2>7, <2>8 DEF Next, Handle, Reloading,
       Open, Run, Openers
<1>2. TypeOK /\ AdmittedConsents /\ [Next]_vars => [New]_vars
  BY <1>1
<1> QED
  BY <1>2, TypeCorrect, ConsentInv, PTL DEF Spec, ConsentThroughout

---------------------------------------------------------------------------
(* The byte budget.                                                         *)

\* A request holds units only while it is captured, and its trace owes them
\* only from its end on; a writer writes one record at a time.
UnitsInTime ==
    /\ \A r \in Requests :
        /\ pc[r] # "capturing" => held[r] = Nothing
        /\ pc[r] \notin {"finalizing", "done"} => owed[r] = 0
    /\ due > 0 => rl = "invalidate"
    /\ \A w \in Writers : \A r, s \in hand[w] : r = s

\* The counts MemoryAccounted adds up.
LEMMA UnitsOfType == TypeOK => UnitsOf \in Counts
<1> USE TraceAssumption DEF TraceAssumption
<1> SUFFICES ASSUME TypeOK, NEW r \in Requests PROVE UnitsOf[r] \in 0..(2 * (MaxBody + 1))
  BY DEF UnitsOf, Counts
<1>1. held[r] \in [request : 0..1, response : 0..MaxBody] /\ owed[r] \in 0..(MaxBody + 1)
  BY DEF TypeOK, RequestType
<1>2. held[r].request \in 0..1 /\ held[r].response \in 0..MaxBody
  BY <1>1
<1>3. UnitsOf[r] = held[r].request + held[r].response
                   + (IF r \in Finalized \cup Taken THEN owed[r] ELSE 0)
  BY DEF UnitsOf
<1> QED
  BY <1>1, <1>2, <1>3

\* Where units are held and owed.
THEOREM UnitsInTimeInv == Spec => []UnitsInTime
<1> USE TraceAssumption DEF TraceAssumption
<1>1. Init => UnitsInTime
  BY DEF Init, UnitsInTime, Nothing
<1>2. TypeOK /\ WInv /\ UnitsInTime /\ [Next]_vars => UnitsInTime'
  <2> SUFFICES ASSUME TypeOK, WInv, UnitsInTime, [Next]_vars PROVE UnitsInTime'
    OBVIOUS
  <2> USE DEF TypeOK, RequestType, WritersType, ReloadType, UnitsInTime, Nothing, GiveBack,
      gateway, memory, writers, request, reload, opener, others, history
  <2>1. ASSUME UNCHANGED <<pc, held, owed, due, hand>>, due > 0 => rl' = "invalidate"
        PROVE  UnitsInTime'
    BY <2>1
  <2>2. ASSUME NEW r \in Requests, Arrive(r) PROVE UnitsInTime'
    BY <2>2 DEF Arrive
  <2>3. ASSUME NEW r \in Requests, Begin(r) PROVE UnitsInTime'
    BY <2>3 DEF Begin
  <2>4. ASSUME NEW r \in Requests, PassBy(r) PROVE UnitsInTime'
    BY <2>4 DEF PassBy
  <2>5. ASSUME NEW r \in Requests, Observe(r) PROVE UnitsInTime'
    BY <2>5 DEF Observe
  <2>6. ASSUME NEW r \in Requests, Finalize(r) PROVE UnitsInTime'
    BY <2>6 DEF Finalize
  <2>7. ASSUME NEW r \in Requests, Submit(r) PROVE UnitsInTime'
    BY <2>7 DEF Submit
  <2>8. ASSUME NEW w \in Writers, Take(w) PROVE UnitsInTime'
    BY <2>8 DEF Take
  <2>9. ASSUME NEW w \in Writers, Release(w) PROVE UnitsInTime'
    BY <2>9 DEF Release
  <2>10. ASSUME NEW w \in Writers, DropQueued(w) PROVE UnitsInTime'
    BY <2>10 DEF DropQueued
  <2>11. CASE Invalidate
    BY <2>11 DEF Invalidate
  <2>12. CASE GiveBackInvalidated
    BY <2>12 DEF GiveBackInvalidated
  <2>13. ASSUME NEW a \in Openers, OpenCreate(a) \/ OpenDiscard(a) \/ OpenInstall(a)
         PROVE  UnitsInTime'
    <3>1. due > 0 => rl' = "invalidate"
      BY <2>13 DEF OpenCreate, OpenDiscard, OpenInstall, OpenEnds, WInv, OpenersInStep
    <3> QED
      BY <2>1, <2>13, <3>1 DEF OpenCreate, OpenDiscard, OpenInstall, Create, CreateFails,
         BeginClose, Drained, GaveUp, OpenEnds
  <2>14. CASE PrepareEnable \/ Prepare \/ Publish \/ InstallPrepared \/ Reconcile
     \/ Proceed \/ Closed
    BY <2>14, <2>1 DEF PrepareEnable, Prepare, Publish, InstallPrepared, Reconcile,
       Proceed, Closed, Create, CreateFails, BeginClose, Drained, GaveUp, OpenEnds
  <2>15. CASE GiveUpClosing \/ (\E a \in Openers : ReadConfig(a)) \/ (\E w \in
     Writers : LoopEnds(w)) \/ (\E w \in Writers : Expire(w)) \/ (\E w \in Writers
     : Finish(w)) \/ CloseCapture \/ CaptureClosed
    BY <2>15, <2>1 DEF GiveUpClosing, ReadConfig, LoopEnds, Expire, Finish,
       CloseCapture, CaptureClosed, Create, CreateFails, BeginClose, Drained,
       GaveUp, OpenEnds
  <2>16. CASE Sweep \/ SweepStore
    BY <2>16, <2>1 DEF Sweep, SweepStore, Create, CreateFails, BeginClose, Drained,
       GaveUp, OpenEnds
  <2>17. CASE UNCHANGED vars
    BY <2>17, <2>1 DEF vars
  <2> QED
    BY <2>2, <2>3, <2>4, <2>5, <2>6, <2>7, <2>8, <2>9, <2>10, <2>11, <2>12, <2>13,
       <2>14, <2>15, <2>16, <2>17 DEF Next, Handle, Reloading, Open, Run, Openers
<1> QED
  BY <1>1, <1>2, TypeCorrect, WritersInv, PTL DEF Spec

\* The budget is what is held, about to be given back, or owed.
THEOREM MemoryAccountedThm == Spec => []MemoryAccounted
<1> USE TraceAssumption DEF TraceAssumption
<1>1. Init => MemoryAccounted
  <2> SUFFICES ASSUME Init PROVE reserved = due + Cardinality(Units(UnitsOf))
    BY DEF MemoryAccounted
  <2>1. \A r \in Requests : UnitsOf[r] = 0
    BY DEF Init, UnitsOf, Nothing
  <2>2. Units(UnitsOf) = {}
    BY <2>1 DEF Units
  <2> QED
    BY <2>2, FS_EmptySet DEF Init
<1>0. TypeOK' => UnitsOf' \in Counts
  <2>1. (TypeOK => UnitsOf \in Counts)'
    BY UnitsOfType, PTL
  <2> QED
    BY <2>1 DEF Counts
<1>2. /\ TypeOK /\ TypeOK' /\ UnitsInTime /\ MemoryAccounted /\ [Next]_vars
      => MemoryAccounted'
  <2> SUFFICES ASSUME TypeOK, TypeOK', UnitsInTime, MemoryAccounted, [Next]_vars
               PROVE  MemoryAccounted'
    OBVIOUS
  <2> DEFINE sum  == Cardinality(Units(UnitsOf))
             sum1 == Cardinality(Units(UnitsOf'))
  <2>a. MemoryAccounted' <=> reserved' = due' + sum1
    BY DEF MemoryAccounted, Units
  <2>b. UnitsOf \in Counts /\ UnitsOf' \in Counts
    BY <1>0, UnitsOfType
  <2>c. sum \in Nat /\ due \in Nat /\ reserved = due + sum /\ reserved \in Nat
    BY <2>b, UnitsFinite DEF MemoryAccounted, TypeOK, ReloadType, MemoryType
  \* A step that changes nothing but the count of one request.
  <2>d. ASSUME NEW r \in Requests,
               \A s \in Requests \ {r} : UnitsOf'[s] = UnitsOf[s]
        PROVE  /\ sum1 = sum - UnitsOf[r] + UnitsOf'[r] /\ UnitsOf[r] <= sum
               /\ UnitsOf[r] \in Nat /\ UnitsOf'[r] \in Nat
    <3>1. UnitsOf[r] \in Nat /\ UnitsOf'[r] \in Nat
      BY <2>b DEF Counts
    <3> QED
      BY <2>b, <2>d, <3>1, UnitsOfOne
  <2> HIDE DEF sum, sum1
  <2>e. \A r \in Requests :
          /\ held[r].request \in Nat /\ held[r].response \in Nat /\ owed[r] \in Nat
          /\ UnitsOf[r] = held[r].request + held[r].response
                          + (IF r \in Finalized \cup Taken THEN owed[r] ELSE 0)
          /\ UnitsOf'[r] = held'[r].request + held'[r].response
                          + (IF r \in Finalized' \cup Taken' THEN owed'[r] ELSE 0)
    BY DEF TypeOK, RequestType, UnitsOf
  <2>1. ASSUME UNCHANGED <<pc, held, owed, queue, hand, due, reserved>> PROVE MemoryAccounted'
    <3>1. UnitsOf' = UnitsOf
      BY <2>1 DEF UnitsOf, Finalized, Taken
    <3> QED
      BY <2>1, <2>a, <2>c, <3>1 DEF sum, sum1
  <2>2. ASSUME UnitsOf' = UnitsOf, UNCHANGED <<due, reserved>> PROVE MemoryAccounted'
    BY <2>2, <2>a, <2>c DEF sum, sum1
  <2> USE DEF gateway, memory, writers, request, reload, opener, others, history
  <2>3. ASSUME NEW r \in Requests, Arrive(r) \/ PassBy(r) PROVE MemoryAccounted'
    <3>1. Finalized' = Finalized /\ Taken' = Taken
      BY <2>3 DEF Arrive, PassBy, Finalized, Taken, TypeOK, RequestType
    <3>2. UnitsOf' = UnitsOf
      BY <2>3, <3>1 DEF Arrive, PassBy, UnitsOf
    <3> QED
      BY <2>2, <2>3, <3>2 DEF Arrive, PassBy
  <2>4. ASSUME NEW r \in Requests, Begin(r) PROVE MemoryAccounted'
    <3>1. Finalized' = Finalized /\ Taken' = Taken
      BY <2>4 DEF Begin, Finalized, Taken, TypeOK, RequestType
    <3>2. \A s \in Requests \ {r} : held'[s] = held[s] /\ owed'[s] = owed[s]
      BY <2>4 DEF Begin, TypeOK, RequestType
    <3>3. \A s \in Requests \ {r} : UnitsOf'[s] = UnitsOf[s]
      BY <2>e, <3>1, <3>2
    <3>4. held[r] = Nothing /\ owed[r] = 0 /\ owed'[r] = 0
      BY <2>4 DEF Begin, UnitsInTime
    <3>5. PICK n \in {0, 1} : held' = [held EXCEPT ![r].request = n] /\ reserved' = reserved + n
      BY <2>4 DEF Begin
    <3>6. held'[r].request = n /\ held'[r].response = 0
      BY <3>4, <3>5 DEF TypeOK, RequestType, Nothing
    <3>7. UnitsOf[r] = 0 /\ UnitsOf'[r] = n
      BY <2>e, <3>4, <3>6 DEF Nothing
    <3>8. due' = due
      BY <2>4 DEF Begin
    <3> QED
      BY <2>a, <2>c, <2>d, <3>3, <3>5, <3>7, <3>8
  <2>5. ASSUME NEW r \in Requests, Observe(r) PROVE MemoryAccounted'
    <3>1. Finalized' = Finalized /\ Taken' = Taken
      BY <2>5 DEF Observe, Finalized, Taken
    <3>2. \A s \in Requests \ {r} : held'[s] = held[s] /\ owed'[s] = owed[s]
      BY <2>5 DEF Observe, TypeOK, RequestType
    <3>3. \A s \in Requests \ {r} : UnitsOf'[s] = UnitsOf[s]
      BY <2>e, <3>1, <3>2
    <3>4. owed[r] = 0 /\ owed'[r] = 0 /\ due' = due
      BY <2>5 DEF Observe, UnitsInTime
    <3>5. held'[r].request = held[r].request
      BY <2>5 DEF Observe, TypeOK, RequestType
    <3>6. \/ held'[r].response = held[r].response + 1 /\ reserved' = reserved + 1
          \/ held'[r].response = 0 /\ GiveBack(held[r].response)
      BY <2>5 DEF Observe, TypeOK, RequestType
    <3>7. UnitsOf[r] = held[r].request + held[r].response
          /\ UnitsOf'[r] = held'[r].request + held'[r].response
      <4>1. held'[r].request \in Nat /\ held'[r].response \in Nat
        BY DEF TypeOK, RequestType
      <4> QED
        BY <2>e, <3>4, <4>1
    <3> QED
      BY <2>a, <2>c, <2>d, <2>e, <3>3, <3>4, <3>5, <3>6, <3>7 DEF GiveBack
  <2>6. ASSUME NEW r \in Requests, Finalize(r) PROVE MemoryAccounted'
    <3>1. Taken' = Taken /\ Finalized' = Finalized \cup {r}
      BY <2>6 DEF Finalize, Taken, Finalized, TypeOK, RequestType
    <3>2. \A s \in Requests \ {r} : held'[s] = held[s] /\ owed'[s] = owed[s]
      BY <2>6 DEF Finalize, TypeOK, RequestType
    <3>3. owed[r] = 0
      BY <2>6 DEF Finalize, UnitsInTime
    <3>4. owed'[r] = held[r].request + held[r].response /\ held'[r] = Nothing
      BY <2>6 DEF Finalize, TypeOK, RequestType
    <3>5. UnitsOf'[r] = UnitsOf[r]
      BY <2>e, <3>1, <3>3, <3>4 DEF Nothing
    <3>6. \A s \in Requests \ {r} : UnitsOf'[s] = UnitsOf[s]
      BY <2>e, <3>1, <3>2
    <3>7. due' = due /\ reserved' = reserved
      BY <2>6 DEF Finalize
    <3> QED
      BY <2>a, <2>c, <2>d, <3>5, <3>6, <3>7
  <2>7. ASSUME NEW r \in Requests, Submit(r) PROVE MemoryAccounted'
    <3>0. Finalized' = Finalized \ {r} /\ r \in Finalized /\ held' = held /\ due' = due
      BY <2>7 DEF Submit, Finalized, TypeOK, RequestType
    <3>1. CASE Eligible(r) /\ Accepts(traceWriter)
      <4>1. traceWriter \in Writers
        BY <3>1 DEF Eligible, TypeOK, GatewayType
      <4>2. owed' = owed /\ reserved' = reserved
        BY <2>7, <3>1 DEF Submit
      <4>3. Taken' = Taken \cup {r}
        BY <2>7, <3>1, <4>1 DEF Submit, Taken, TypeOK, WritersType
      <4>4. UnitsOf' = UnitsOf
        BY <3>0, <4>2, <4>3 DEF UnitsOf
      <4> QED
        BY <2>2, <3>0, <4>2, <4>4
    <3>2. CASE ~(Eligible(r) /\ Accepts(traceWriter))
      <4>1. GiveBack(owed[r]) /\ owed' = [owed EXCEPT ![r] = 0] /\ queue' = queue /\ hand' = hand
        BY <2>7, <3>2 DEF Submit
      <4>2. owed'[r] = 0 /\ \A s \in Requests \ {r} : owed'[s] = owed[s]
        BY <4>1 DEF TypeOK, RequestType
      <4>3. Taken' = Taken
        BY <4>1 DEF Taken
      <4>4. \A s \in Requests \ {r} : UnitsOf'[s] = UnitsOf[s]
        BY <2>e, <3>0, <4>2, <4>3
      <4>5. UnitsOf[r] = UnitsOf'[r] + owed[r]
        BY <2>e, <3>0, <4>2
      <4> QED
        BY <2>a, <2>c, <2>d, <2>e, <3>0, <4>1, <4>4, <4>5 DEF GiveBack
    <3> QED
      BY <3>1, <3>2
  <2>8. ASSUME NEW w \in Writers, Take(w) PROVE MemoryAccounted'
    <3>1. Taken' = Taken
      <4>1. PICK r \in queue[w] : /\ hand' = [hand EXCEPT ![w] = {r}]
                                  /\ queue' = [queue EXCEPT ![w] = @ \ {r}]
        BY <2>8 DEF Take
      <4>2. hand[w] = {}
        BY <2>8 DEF Take
      <4>3. queue'[w] \cup hand'[w] = queue[w] \cup hand[w]
        BY <4>1, <4>2 DEF TypeOK, WritersType
      <4>4. \A v \in Writers \ {w} : queue'[v] = queue[v] /\ hand'[v] = hand[v]
        BY <4>1 DEF TypeOK, WritersType
      <4> QED
        BY <4>3, <4>4 DEF Taken
    <3>2. UnitsOf' = UnitsOf
      BY <2>8, <3>1 DEF Take, UnitsOf, Finalized
    <3> QED
      BY <2>2, <2>8, <3>2 DEF Take
  \* A writer releases the units of a trace it had taken.
  <2>9. ASSUME NEW r \in Taken, r \in Requests, GiveBack(owed[r]), owed' = [owed EXCEPT ![r] = 0],
               Taken' \subseteq Taken, Taken \ Taken' \subseteq {r},
               UNCHANGED <<pc, held, due>>
        PROVE  MemoryAccounted'
    <3>1. owed'[r] = 0 /\ \A s \in Requests \ {r} : owed'[s] = owed[s]
      BY <2>9 DEF TypeOK, RequestType
    <3>2. Finalized' = Finalized
      BY <2>9 DEF Finalized
    <3>3. \A s \in Requests \ {r} : UnitsOf'[s] = UnitsOf[s]
      BY <2>e, <2>9, <3>1, <3>2
    <3>4. UnitsOf[r] = UnitsOf'[r] + owed[r]
      BY <2>e, <2>9, <3>1
    <3> QED
      BY <2>a, <2>c, <2>d, <2>e, <2>9, <3>3, <3>4 DEF GiveBack
  <2>10. ASSUME NEW w \in Writers, Release(w) \/ DropQueued(w) PROVE MemoryAccounted'
    <3>1. PICK r \in queue[w] \cup hand[w] :
            /\ GiveBack(owed[r]) /\ owed' = [owed EXCEPT ![r] = 0]
            /\ \/ r \in hand[w] /\ hand' = [hand EXCEPT ![w] = {}] /\ queue' = queue
               \/ hand' = hand /\ queue' = [queue EXCEPT ![w] = @ \ {r}]
      BY <2>10 DEF Release, DropQueued
    <3>2. r \in Requests /\ r \in Taken
      BY DEF TypeOK, WritersType, Taken
    <3>3. /\ queue'[w] \cup hand'[w] \subseteq queue[w] \cup hand[w]
          /\ (queue[w] \cup hand[w]) \ (queue'[w] \cup hand'[w]) \subseteq {r}
      BY <3>1 DEF TypeOK, WritersType, UnitsInTime
    <3>4. \A v \in Writers \ {w} : queue'[v] = queue[v] /\ hand'[v] = hand[v]
      BY <3>1 DEF TypeOK, WritersType
    <3>5. Taken' \subseteq Taken /\ Taken \ Taken' \subseteq {r}
      BY <3>3, <3>4 DEF Taken
    <3>6. UNCHANGED <<pc, held, due>>
      BY <2>10 DEF Release, DropQueued
    <3> QED
      BY <2>9, <3>1, <3>2, <3>5, <3>6
  <2>11. CASE Invalidate \/ GiveBackInvalidated
    <3>1. ASSUME NEW r \in Requests, pc[r] = "capturing", due = 0,
                 due' = held[r].request + held[r].response, held' = [held EXCEPT ![r] = Nothing],
                 UNCHANGED <<pc, owed, queue, hand, reserved>>
          PROVE  MemoryAccounted'
      <4>1. Finalized' = Finalized /\ Taken' = Taken
        BY <3>1 DEF Finalized, Taken
      <4>2. held'[r] = Nothing /\ \A s \in Requests \ {r} : held'[s] = held[s]
        BY <3>1 DEF TypeOK, RequestType
      <4>3. owed[r] = 0
        BY <3>1 DEF UnitsInTime
      <4>4. \A s \in Requests \ {r} : UnitsOf'[s] = UnitsOf[s]
        BY <2>e, <3>1, <4>1, <4>2
      <4>5. UnitsOf[r] = due' /\ UnitsOf'[r] = 0
        BY <2>e, <3>1, <4>2, <4>3 DEF Nothing
      <4> QED
        BY <2>a, <2>c, <2>d, <3>1, <4>4, <4>5
    <3>2. CASE Invalidate
      <4>1. PICK r \in invalid : IF pc[r] = "capturing"
              THEN /\ due' = held[r].request + held[r].response
                   /\ held' = [held EXCEPT ![r] = Nothing]
              ELSE UNCHANGED <<due, held>>
        BY <3>2 DEF Invalidate
      <4>2. r \in Requests /\ due = 0 /\ UNCHANGED <<pc, owed, queue, hand, reserved>>
        BY <3>2 DEF Invalidate, TypeOK, ReloadType
      <4> QED
        BY <2>1, <3>1, <4>1, <4>2
    <3>3. CASE GiveBackInvalidated
      <4>1. UNCHANGED <<pc, held, owed, queue, hand>> /\ GiveBack(due) /\ due' = 0
        BY <3>3 DEF GiveBackInvalidated
      <4>2. UnitsOf' = UnitsOf
        BY <4>1 DEF UnitsOf, Finalized, Taken
      <4>3. sum1 = sum
        BY <4>2 DEF sum, sum1
      <4> QED
        BY <2>a, <2>c, <4>1, <4>3 DEF GiveBack
    <3> QED
      BY <2>11, <3>2, <3>3
  <2>12. CASE PrepareEnable \/ Prepare \/ Publish \/ InstallPrepared \/ Reconcile
     \/ Proceed \/ Closed
    BY <2>12, <2>1 DEF PrepareEnable, Prepare, Publish, InstallPrepared, Reconcile,
       Proceed, Closed, Create, CreateFails, BeginClose, Drained, GaveUp, OpenEnds
  <2>13. CASE GiveUpClosing \/ (\E a \in Openers : ReadConfig(a)) \/ (\E a \in
     Openers : OpenCreate(a)) \/ (\E a \in Openers : OpenInstall(a)) \/ (\E a \in
     Openers : OpenDiscard(a)) \/ (\E w \in Writers : LoopEnds(w)) \/ (\E w \in
     Writers : Expire(w))
    BY <2>13, <2>1 DEF GiveUpClosing, ReadConfig, OpenCreate, OpenInstall,
       OpenDiscard, LoopEnds, Expire, Create, CreateFails, BeginClose, Drained,
       GaveUp, OpenEnds
  <2>14. CASE (\E w \in Writers : Finish(w)) \/ CloseCapture \/ CaptureClosed \/
     Sweep \/ SweepStore
    BY <2>14, <2>1 DEF Finish, CloseCapture, CaptureClosed, Sweep, SweepStore,
       Create, CreateFails, BeginClose, Drained, GaveUp, OpenEnds
  <2>15. CASE UNCHANGED vars
    BY <2>15, <2>1 DEF vars
  <2> QED
    BY <2>3, <2>4, <2>5, <2>6, <2>7, <2>8, <2>10, <2>11, <2>12, <2>13, <2>14, <2>15
       DEF Next, Handle, Reloading, Open, Run, Openers
<1> QED
  BY <1>1, <1>2, TypeCorrect, UnitsInTimeInv, PTL DEF Spec
=============================================================================
