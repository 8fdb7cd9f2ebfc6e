------------------------ MODULE EndpointRegistryProofs ------------------------
(***************************************************************************)
(* Proofs about EndpointRegistry for any number of endpoints of any kind   *)
(* whatever tags they have, and any prune limit: types, the agreement of   *)
(* the fields of the health, what a scan removes and what it adds.         *)
(*                                                                         *)
(* OwnIds is what makes the last two true: the ids a scan visits are of    *)
(* its own kind, the ids it holds between the collection and the last      *)
(* removal have its tags, and whatever the other tasks do meanwhile        *)
(* changes neither the kind nor the tags of an id.                         *)
(***************************************************************************)
EXTENDS EndpointRegistry, TLAPS

\* What a scan in this state may hold.
Own(k, s) == s.todo \subseteq IF s.phase = "remove" THEN Claimed(k) ELSE ByKind(k)

OwnIds == \A k \in Scanners : Own(k, scan[k])

RegistryInv == TypeOK /\ HealthAgrees /\ OwnIds

LEMMA Constants ==
    /\ OfflineAfter = 3
    /\ MaxOffline \in Nat
    /\ NotOffline = MaxOffline + 2
    /\ \A k \in Scanners : /\ ByKind(k) \subseteq Endpoints
                          /\ Claimed(k) \subseteq Endpoints
                          /\ k \in Kinds
    /\ NewHealth \in [status : {"Healthy", "Degraded", "Offline"},
                      failures : 0..OfflineAfter, offline : 0..NotOffline]
    /\ IdleScan \in [phase : {"idle", "visit", "remove"},
                     todo : SUBSET Endpoints, found : SUBSET Endpoints]
  BY RegistryAssumption
     DEF OfflineAfter, NotOffline, ByKind, Claimed, Kinds, NewHealth, IdleScan

\* The health of one endpoint and its consistency.
Health == [status : {"Healthy", "Degraded", "Offline"},
           failures : 0..OfflineAfter, offline : 0..NotOffline]

Agrees(h) ==
    /\ (h.status = "Offline") <=> (h.failures = OfflineAfter)
    /\ (h.status = "Offline") <=> (h.offline # NotOffline)
    /\ (h.status = "Healthy") <=> (h.failures = 0)

LEMMA NewHealthAgrees == NewHealth \in Health /\ Agrees(NewHealth)
  BY Constants DEF Health, Agrees, NewHealth

\* One probe result.
LEMMA AfterProbeAgrees ==
    ASSUME NEW h \in Health, Agrees(h), NEW ok \in BOOLEAN
    PROVE  AfterProbe(h, ok) \in Health /\ Agrees(AfterProbe(h, ok))
  <1> DEFINE f == IF h.failures < OfflineAfter THEN h.failures + 1 ELSE h.failures
  <1>1. /\ h.failures \in 0..3 /\ h.offline \in 0..NotOffline
        /\ h.status \in {"Healthy", "Degraded", "Offline"}
        /\ NotOffline \in Nat /\ NotOffline > 1
    BY Constants DEF Health
  <1>2. f \in 1..3 /\ (f < 3 => h.status # "Offline" /\ h.offline = NotOffline)
    BY <1>1, Constants DEF Agrees
  <1>3. CASE ok
    BY <1>3, NewHealthAgrees DEF AfterProbe
  <1>4. CASE ~ok /\ f < OfflineAfter
    <2> DEFINE g == [status |-> "Degraded", failures |-> f, offline |-> h.offline]
    <2>1. AfterProbe(h, ok) = g
      BY <1>4 DEF AfterProbe, AfterFailedProbe
    <2>2. f \in 1..2 /\ OfflineAfter = 3 /\ h.offline = NotOffline
      BY <1>2, <1>4, Constants
    <2> HIDE DEF f
    <2>3. g \in Health /\ Agrees(g)
      BY <2>2, <1>1 DEF Health, Agrees
    <2> HIDE DEF g
    <2>4. QED
      BY <2>1, <2>3
  <1>5. CASE ~ok /\ ~(f < OfflineAfter)
    <2> DEFINE o == IF h.status = "Offline" THEN h.offline ELSE 0
    <2>1. AfterProbe(h, ok) = [status |-> "Offline", failures |-> f, offline |-> o]
      BY <1>5 DEF AfterProbe, AfterFailedProbe
    <2>2. o \in 0..NotOffline /\ o # NotOffline
      BY <1>1 DEF Agrees
    <2>3. f = OfflineAfter
      BY <1>2, <1>5, Constants
    <2> HIDE DEF f, o
    <2>4. QED
      BY <2>1, <2>2, <2>3, <1>1, Constants DEF Health, Agrees
  <1>6. QED
    BY <1>3, <1>4, <1>5

\* The health of all of them.
LEMMA HealthOnly ==
    RegistryInv => health \in [Endpoints -> Health] /\ \A e \in Endpoints : Agrees(health[e])
  BY DEF RegistryInv, TypeOK, HealthAgrees, Health, Agrees

LEMMA RegistryInit == Init => RegistryInv
  <1> SUFFICES ASSUME Init PROVE RegistryInv
    OBVIOUS
  <1>1. TypeOK
    BY Constants, RegistryAssumption DEF Init, TypeOK, IdleProbe, ByKind
  <1>2. HealthAgrees
    BY NewHealthAgrees DEF Init, HealthAgrees, Agrees
  <1>3. OwnIds
    BY DEF Init, OwnIds, Own, IdleScan
  <1>4. QED
    BY <1>1, <1>2, <1>3 DEF RegistryInv

\* Whoever removes an id, and at whatever moment.
LEMMA RemoveKeeps ==
    ASSUME RegistryInv, NEW e \in Endpoints, Remove(e)
    PROVE  /\ listed' \in SUBSET Endpoints
           /\ health' \in [Endpoints -> Health]
           /\ \A d \in Endpoints : Agrees(health'[d])
  <1>1. health' = [health EXCEPT ![e] = NewHealth] /\ listed' = listed \ {e}
    BY DEF Remove
  <1>2. QED
    BY <1>1, HealthOnly, NewHealthAgrees DEF RegistryInv, TypeOK

\* What the other steps have to show, once the health is settled.
LEMMA Assemble ==
    ASSUME listed' \in SUBSET Endpoints,
           tags' = tags, tags \in [Endpoints -> SUBSET Tags],
           health' \in [Endpoints -> Health],
           \A e \in Endpoints : Agrees(health'[e]),
           service' \in [Endpoints -> {"up", "down", "gone"}],
           probe' \in [todo : SUBSET Endpoints, target : Endpoints \cup {NoEndpoint},
                       ok : BOOLEAN],
           expired' \in SUBSET Endpoints,
           scan' \in [Scanners -> [phase : {"idle", "visit", "remove"},
                                   todo : SUBSET Endpoints, found : SUBSET Endpoints]],
           \A k \in Scanners : Own(k, scan'[k])
    PROVE  RegistryInv'
  <1>1. OwnIds'
    BY DEF OwnIds, Own, Claimed, ByKind
  <1>2. TypeOK' /\ HealthAgrees'
    BY DEF TypeOK, HealthAgrees, Health, Agrees, OfflineAfter, NotOffline
  <1>3. QED
    BY <1>1, <1>2 DEF RegistryInv

LEMMA ProbeKeeps ==
    ASSUME RegistryInv, ProbeStep
    PROVE  RegistryInv'
  <1>1. CASE ProbeStart
    BY <1>1, HealthOnly, Assemble DEF ProbeStart, RegistryInv, TypeOK, OwnIds
  <1>2. ASSUME NEW e \in Endpoints, ProbeAsk(e) PROVE RegistryInv'
    BY <1>2, HealthOnly, Assemble DEF ProbeAsk, RegistryInv, TypeOK, OwnIds
  <1>3. CASE ProbeResult
    <2> DEFINE e == probe.target
    <2>1. e \in Endpoints /\ probe.ok \in BOOLEAN
      BY <1>3 DEF ProbeResult, RegistryInv, TypeOK
    <2>2. \/ health' = health
          \/ health' = [health EXCEPT ![e] = AfterProbe(health[e], probe.ok)]
      BY <1>3, <2>1 DEF ProbeResult
    <2>3. AfterProbe(health[e], probe.ok) \in Health
          /\ Agrees(AfterProbe(health[e], probe.ok))
      BY <2>1, HealthOnly, AfterProbeAgrees
    <2>4. health' \in [Endpoints -> Health] /\ \A d \in Endpoints : Agrees(health'[d])
      BY <2>1, <2>2, <2>3, HealthOnly
    <2>5. probe' \in [todo : SUBSET Endpoints, target : Endpoints \cup {NoEndpoint},
                      ok : BOOLEAN]
      BY <1>3 DEF ProbeResult, RegistryInv, TypeOK
    <2>6. QED
      BY <1>3, <2>4, <2>5, Assemble DEF ProbeResult, RegistryInv, TypeOK, OwnIds
  <1>4. QED
    BY <1>1, <1>2, <1>3 DEF ProbeStep

LEMMA PruneKeeps ==
    ASSUME RegistryInv, PruneStep
    PROVE  RegistryInv'
  <1>1. CASE PruneCollect
    <2>1. expired' \in SUBSET Endpoints
      BY <1>1 DEF PruneCollect, LongOffline, RegistryInv, TypeOK
    <2>2. QED
      BY <1>1, <2>1, HealthOnly, Assemble DEF PruneCollect, RegistryInv, TypeOK, OwnIds
  <1>2. ASSUME NEW e \in Endpoints, PruneRemove(e) PROVE RegistryInv'
    <2>1. /\ listed' \in SUBSET Endpoints
          /\ health' \in [Endpoints -> Health]
          /\ \A d \in Endpoints : Agrees(health'[d])
      BY <1>2, RemoveKeeps DEF PruneRemove
    <2>2. QED
      BY <1>2, <2>1, Assemble DEF PruneRemove, RegistryInv, TypeOK, OwnIds
  <1>3. QED
    BY <1>1, <1>2 DEF PruneStep

\* A scan that goes to phase p with the ids todo and found.
LEMMA ScanKeeps ==
    ASSUME RegistryInv, NEW k \in Scanners, ScanStep(k)
    PROVE  RegistryInv'
  <1> DEFINE ScanState == [phase : {"idle", "visit", "remove"},
                           todo : SUBSET Endpoints, found : SUBSET Endpoints]
  <1>1. /\ scan \in [Scanners -> ScanState] /\ scan[k] \in ScanState
        /\ Own(k, scan[k]) /\ ByKind(k) \subseteq Endpoints
        /\ Claimed(k) \subseteq Endpoints
        /\ IdleScan \in ScanState /\ Own(k, IdleScan)
    BY Constants DEF RegistryInv, TypeOK, OwnIds, Own, IdleScan
  <1>2. ASSUME NEW s \in ScanState, Own(k, s),
               scan' = [scan EXCEPT ![k] = s],
               listed' \in SUBSET Endpoints, health' \in [Endpoints -> Health],
               \A e \in Endpoints : Agrees(health'[e]),
               UNCHANGED <<tags, service, probe, expired>>
        PROVE  RegistryInv'
    <2>1. scan' \in [Scanners -> ScanState]
          /\ \A l \in Scanners : Own(l, scan'[l])
      BY <1>1, <1>2 DEF RegistryInv, OwnIds
    <2>2. QED
      BY <1>2, <2>1, Assemble DEF RegistryInv, TypeOK
  <1>3. CASE ScanStart(k)
    <2> DEFINE s == [phase |-> "visit", found |-> {},
                     todo |-> IF k = "port" THEN ByKind(k)
                              ELSE {e \in ByKind(k) : service[e] # "gone"}]
    <2>1. s \in ScanState /\ Own(k, s)
      BY <1>1 DEF Own
    <2>2. scan' = [scan EXCEPT ![k] = s] /\ UNCHANGED <<listed, tags, health, service, probe, expired>>
      BY <1>3 DEF ScanStart
    <2> HIDE DEF s
    <2>3. QED
      BY <1>2, <2>1, <2>2, HealthOnly DEF RegistryInv, TypeOK
  <1>4. CASE ScanCollect(k)
    <2> DEFINE stale == (listed \cap Claimed(k)) \ scan[k].found
               s == IF stale = {} THEN IdleScan
                    ELSE [phase |-> "remove", todo |-> stale, found |-> {}]
    <2>1. s \in ScanState /\ Own(k, s)
      BY <1>1 DEF Own
    <2>2. scan' = [scan EXCEPT ![k] = s] /\ UNCHANGED <<listed, tags, health, service, probe, expired>>
      BY <1>4 DEF ScanCollect
    <2> HIDE DEF s
    <2>3. QED
      BY <1>2, <2>1, <2>2, HealthOnly DEF RegistryInv, TypeOK
  <1>5. ASSUME NEW e \in Endpoints, ScanVisit(k, e) PROVE RegistryInv'
    <2> DEFINE ok == k = "docker" \/ service[e] = "up"
               f == IF ok THEN scan[k].found \cup {e} ELSE scan[k].found
               s == [scan[k] EXCEPT !.todo = scan[k].todo \ {e}, !.found = f]
    <2>1. f \in SUBSET Endpoints
      BY <1>1
    <2>2. scan' = [scan EXCEPT ![k] = s]
      BY <1>1, <1>5 DEF ScanVisit
    <2>3. UNCHANGED <<tags, health, service, probe, expired>> /\ listed' \in SUBSET Endpoints
      BY <1>5 DEF ScanVisit, RegistryInv, TypeOK
    <2> HIDE DEF f
    <2>4. s \in ScanState /\ Own(k, s)
      BY <2>1, <1>1, <1>5 DEF Own, ScanVisit
    <2> HIDE DEF s
    <2>5. QED
      BY <1>2, <2>2, <2>3, <2>4, HealthOnly
  <1>6. ASSUME NEW e \in Endpoints, ScanRemove(k, e) PROVE RegistryInv'
    <2> DEFINE s == IF scan[k].todo = {e} THEN IdleScan
                    ELSE [scan[k] EXCEPT !.todo = scan[k].todo \ {e}]
    <2>1. s \in ScanState /\ Own(k, s)
      BY <1>1 DEF Own
    <2>2. scan' = [scan EXCEPT ![k] = s]
      BY <1>6 DEF ScanRemove
    <2>3. /\ listed' \in SUBSET Endpoints
          /\ health' \in [Endpoints -> Health]
          /\ \A d \in Endpoints : Agrees(health'[d])
      BY <1>6, RemoveKeeps DEF ScanRemove
    <2> HIDE DEF s
    <2>4. QED
      BY <1>2, <1>6, <2>1, <2>2, <2>3 DEF ScanRemove
  <1>7. QED
    BY <1>3, <1>4, <1>5, <1>6 DEF ScanStep

LEMMA TickKeeps ==
    ASSUME RegistryInv, Tick
    PROVE  RegistryInv'
  <1> DEFINE Older(h) == [h EXCEPT !.offline = IF h.offline <= MaxOffline
                                               THEN h.offline + 1 ELSE h.offline]
  <1>1. ASSUME NEW h \in Health, Agrees(h) PROVE Older(h) \in Health /\ Agrees(Older(h))
    BY <1>1, Constants DEF Health, Agrees
  <1>2. health' = [e \in Endpoints |-> Older(health[e])]
    BY DEF Tick
  <1> HIDE DEF Older
  <1>3. health' \in [Endpoints -> Health] /\ \A e \in Endpoints : Agrees(health'[e])
    BY <1>1, <1>2, HealthOnly
  <1>4. QED
    BY <1>3, Assemble DEF Tick, RegistryInv, TypeOK, OwnIds

LEMMA RegistryStep == RegistryInv /\ [Next]_vars => RegistryInv'
  <1> SUFFICES ASSUME RegistryInv, [Next]_vars PROVE RegistryInv'
    OBVIOUS
  <1>1. ASSUME NEW e \in Endpoints, ServiceChanges(e) PROVE RegistryInv'
    <2>1. service' \in [Endpoints -> {"up", "down", "gone"}]
      BY <1>1 DEF ServiceChanges, RegistryInv, TypeOK
    <2>2. QED
      BY <1>1, <2>1, HealthOnly, Assemble DEF ServiceChanges, RegistryInv, TypeOK, OwnIds
  <1>2. CASE UNCHANGED vars
    BY <1>2, HealthOnly, Assemble DEF vars, RegistryInv, TypeOK, OwnIds
  <1>3. QED
    BY <1>1, <1>2, ProbeKeeps, PruneKeeps, ScanKeeps, TickKeeps DEF Next

LEMMA RegistryAlways == Spec => []RegistryInv
  BY RegistryInit, RegistryStep, PTL DEF Spec

\* Whatever probes, scans, removals and rediscoveries do together: status,
\* consecutive_failures and offline_since of an entry agree, and the
\* variables keep their types.
THEOREM HealthIsConsistent == Spec => [](TypeOK /\ HealthAgrees)
  <1>1. RegistryInv => TypeOK /\ HealthAgrees
    BY DEF RegistryInv
  <1>2. QED
    BY <1>1, RegistryAlways, PTL

\* For any number of endpoints and any tags in the configuration: between the
\* collection and the removals nobody can make a scan remove an entry that does
\* not have its tags, whoever inserts and removes meanwhile.
THEOREM ScansRemoveTheirOwn == Spec => ScansKeepOthers
  <1> DEFINE Kept == \A e \in listed \ listed' :
                        \/ e \in expired
                        \/ \E k \in Scanners : e \in Claimed(k) /\ scan[k].phase = "remove"
  <1>1. ASSUME RegistryInv, [Next]_vars PROVE [Kept]_vars
    <2> SUFFICES ASSUME Next, NEW e \in listed, e \notin listed'
                 PROVE  \/ e \in expired
                        \/ \E k \in Scanners : e \in Claimed(k) /\ scan[k].phase = "remove"
      BY <1>1
    <2>1. CASE \E d \in Endpoints : PruneRemove(d)
      BY <2>1 DEF PruneRemove, Remove
    <2>2. ASSUME NEW k \in Scanners, NEW d \in Endpoints, ScanRemove(k, d)
          PROVE  e \in Claimed(k) /\ scan[k].phase = "remove"
      <3>1. e = d /\ d \in scan[k].todo /\ scan[k].phase = "remove"
        BY <2>2 DEF ScanRemove, Remove
      <3>2. QED
        BY <1>1, <3>1 DEF RegistryInv, OwnIds, Own
    <2>3. CASE ProbeStep \/ PruneCollect \/ Tick \/ \E d \in Endpoints : ServiceChanges(d)
      BY <2>3 DEF ProbeStep, ProbeStart, ProbeAsk, ProbeResult, PruneCollect, Tick,
                  ServiceChanges
    <2>4. ASSUME NEW k \in Scanners, ScanStart(k) \/ ScanCollect(k) PROVE FALSE
      BY <2>4 DEF ScanStart, ScanCollect
    <2>5. ASSUME NEW k \in Scanners, NEW d \in Endpoints, ScanVisit(k, d) PROVE FALSE
      BY <2>5 DEF ScanVisit
    <2>6. QED
      BY <2>1, <2>2, <2>3, <2>4, <2>5 DEF Next, PruneStep, ScanStep
  <1>2. QED
    BY <1>1, RegistryAlways, PTL DEF Spec, ScansKeepOthers

\* For any number of endpoints: no probe, however late its answer, and no prune
\* pass puts an endpoint into the map, and a scan only one that it is visiting.
THEOREM ScansAddTheirOwn == Spec => OnlyScansAdd
  <1> DEFINE Added == \A e \in listed' \ listed :
                         /\ KindOf[e] \in Scanners
                         /\ scan[KindOf[e]].phase = "visit"
                         /\ e \in scan[KindOf[e]].todo
  <1>1. ASSUME RegistryInv, [Next]_vars PROVE [Added]_vars
    <2> SUFFICES ASSUME Next, NEW e \in listed', e \notin listed
                 PROVE  /\ KindOf[e] \in Scanners
                        /\ scan[KindOf[e]].phase = "visit"
                        /\ e \in scan[KindOf[e]].todo
      BY <1>1
    <2>1. PICK k \in Scanners, d \in Endpoints : ScanVisit(k, d)
      <3>1. ~(ProbeStep \/ PruneStep \/ Tick \/ \E d \in Endpoints : ServiceChanges(d))
        BY DEF ProbeStep, ProbeStart, ProbeAsk, ProbeResult, PruneStep, PruneCollect,
               PruneRemove, Remove, Tick, ServiceChanges
      <3>2. ASSUME NEW k \in Scanners, NEW d \in Endpoints,
                   ScanStart(k) \/ ScanCollect(k) \/ ScanRemove(k, d)
            PROVE  FALSE
        BY <3>2 DEF ScanStart, ScanCollect, ScanRemove, Remove
      <3>3. PICK k \in Scanners : ScanStep(k)
        BY <3>1 DEF Next
      <3>4. ~(ScanStart(k) \/ ScanCollect(k))
        BY DEF ScanStart, ScanCollect
      <3>5. QED
        BY <3>2, <3>3, <3>4 DEF ScanStep
    <2>2. e = d /\ d \in scan[k].todo /\ scan[k].phase = "visit"
      BY <2>1 DEF ScanVisit
    <2>3. KindOf[e] = k
      BY <1>1, <2>2 DEF RegistryInv, OwnIds, Own, ByKind
    <2>4. QED
      BY <2>2, <2>3
  <1>2. QED
    BY <1>1, RegistryAlways, PTL DEF Spec, OnlyScansAdd
=============================================================================
