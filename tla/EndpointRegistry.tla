-------------------------- MODULE EndpointRegistry --------------------------
(***************************************************************************)
(* The map of AI endpoints and the four background tasks that work on it:  *)
(* the health probes and the pruning of offline endpoints of               *)
(* src/ai/probe.rs, the port scan of src/ai/discovery.rs and the container *)
(* scan of src/docker.rs, as src/daemon.rs starts them.                    *)
(*                                                                         *)
(* The map is a DashMap: a task works on one entry at a time, and between  *)
(* the collection of ids and their removal, or between a request and the   *)
(* use of its answer, the other tasks go on. A pass that only reads the    *)
(* map is one action.                                                      *)
(***************************************************************************)
EXTENDS Naturals, FiniteSets

CONSTANTS
    Endpoints,      \* endpoint ids
    KindOf,         \* KindOf[e]: where e comes from
    ConfiguredTags, \* what an endpoint of the configuration may have as its tags
    MaxOffline,     \* max_offline_secs of the prune task, in ticks
    NoEndpoint

Scanners == {"port", "docker"}
Kinds == {"config"} \cup Scanners

\* The tags that a scanner looks for. A configured endpoint has the tags that
\* its configuration gives it, these among them if it likes.
Tags == {"auto-discovered", "docker"}

ASSUME RegistryAssumption ==
    /\ KindOf \in [Endpoints -> Kinds]
    /\ ConfiguredTags \in SUBSET SUBSET Tags
    /\ MaxOffline \in Nat
    /\ NoEndpoint \notin Endpoints

VARIABLES
    listed,     \* the keys of the endpoint map
    tags,       \* tags[e]: the tags of the entry e whenever there is one
    health,     \* health[e]: the EndpointHealth of e
    service,    \* service[e]: "up", "down" (present, not healthy) or "gone"
    probe,      \* probe_all: the targets left, the one awaited, its answer
    expired,    \* prune_offline: the ids collected and not yet removed
    scan        \* scan[k]: where the scan is, its ids left, the ids found

vars == <<listed, tags, health, service, probe, expired, scan>>

\* consecutive_failures is compared with 3 only, and stops there. The time
\* since offline_since stops when it counts as too long; NotOffline is None.
OfflineAfter == 3
NotOffline == MaxOffline + 2

NewHealth == [status |-> "Healthy", failures |-> 0, offline |-> NotOffline]

ByKind(k) == {e \in Endpoints : KindOf[e] = k}

\* What a scanner gives to the endpoints it discovers.
TagsOfFound(k) == IF k = "port" THEN {"auto-discovered"} ELSE {"docker", "auto-discovered"}

\* What a scanner takes for its own discoveries, wherever they come from.
Claimed(k) ==
    IF k = "port" THEN {e \in Endpoints : "auto-discovered" \in tags[e] /\ "docker" \notin tags[e]}
    ELSE {e \in Endpoints : "docker" \in tags[e]}

IdleProbe == [todo |-> {}, target |-> NoEndpoint, ok |-> FALSE]
IdleScan == [phase |-> "idle", todo |-> {}, found |-> {}]

\* The endpoints of the configuration are there from the start.
Init ==
    /\ listed = ByKind("config")
    /\ tags \in [Endpoints -> SUBSET Tags]
    /\ \A e \in Endpoints : IF KindOf[e] = "config" THEN tags[e] \in ConfiguredTags
                            ELSE tags[e] = TagsOfFound(KindOf[e])
    /\ health = [e \in Endpoints |-> NewHealth]
    /\ service \in [Endpoints -> {"up", "down", "gone"}]
    /\ probe = IdleProbe
    /\ expired = {}
    /\ scan = [k \in Scanners |-> IdleScan]

\* endpoints.remove(id); whoever inserts the id again starts afresh.
Remove(e) ==
    /\ listed' = listed \ {e}
    /\ health' = [health EXCEPT ![e] = NewHealth]

-----------------------------------------------------------------------------
(* The health probes                                                       *)

\* The probe task is started only if the map is not empty at startup.
ProbesRun == ByKind("config") # {}

ProbeStart ==
    /\ ProbesRun
    /\ probe = IdleProbe
    /\ listed # {}
    /\ probe' = [probe EXCEPT !.todo = listed]
    /\ UNCHANGED <<listed, tags, health, service, expired, scan>>

\* GET {url}/health, one target at a time; the answer is awaited.
ProbeAsk(e) ==
    /\ probe.target = NoEndpoint
    /\ e \in probe.todo
    /\ probe' = [todo |-> probe.todo \ {e}, target |-> e, ok |-> service[e] = "up"]
    /\ UNCHANGED <<listed, tags, health, service, expired, scan>>

AfterFailedProbeUncounted(h) ==   \* faulty variant: every failure is as good as a first one
    [status |-> "Degraded", failures |-> 1, offline |-> h.offline]

\* The third failure in a row and all that follow make the endpoint Offline,
\* since the first of them.
AfterFailedProbe(h) ==
    LET failures == IF h.failures < OfflineAfter THEN h.failures + 1 ELSE h.failures IN
    IF failures < OfflineAfter
    THEN [status |-> "Degraded", failures |-> failures, offline |-> h.offline]
    ELSE [status |-> "Offline", failures |-> failures,
          offline |-> IF h.status = "Offline" THEN h.offline ELSE 0]

AfterProbeKeepsCount(h, ok) ==   \* faulty variant: a success leaves consecutive_failures
    IF ok THEN [NewHealth EXCEPT !.failures = h.failures] ELSE AfterFailedProbe(h)

\* A success resets the health.
AfterProbe(h, ok) == IF ok THEN NewHealth ELSE AfterFailedProbe(h)

ProbeResultUpserts ==   \* faulty variant: writes the endpoint that was asked back into the map
    LET e == probe.target IN
    /\ e # NoEndpoint
    /\ listed' = listed \cup {e}
    /\ health' = [health EXCEPT ![e] = AfterProbe(@, probe.ok)]
    /\ probe' = [probe EXCEPT !.target = NoEndpoint, !.ok = FALSE]
    /\ UNCHANGED <<tags, service, expired, scan>>

\* The answer is applied to the entry that has the id now, if there is one.
ProbeResult ==
    LET e == probe.target IN
    /\ e # NoEndpoint
    /\ health' = IF e \in listed
                 THEN [health EXCEPT ![e] = AfterProbe(@, probe.ok)] ELSE health
    /\ probe' = [probe EXCEPT !.target = NoEndpoint, !.ok = FALSE]
    /\ UNCHANGED <<listed, tags, service, expired, scan>>

ProbeStep == ProbeStart \/ ProbeResult \/ \E e \in Endpoints : ProbeAsk(e)

-----------------------------------------------------------------------------
(* The pruning of offline endpoints                                        *)

LongOfflineUnjudged ==   \* faulty variant: takes an unknown offline_since for a long time
    {e \in listed : health[e].offline > MaxOffline}

LongOffline == {e \in listed : health[e].status = "Offline" /\ health[e].offline > MaxOffline}

PruneCollect ==
    /\ expired = {}
    /\ LongOffline # {}
    /\ expired' = LongOffline
    /\ UNCHANGED <<listed, tags, health, service, probe, scan>>

\* Removed by id, whatever the entry has become.
PruneRemove(e) ==
    /\ e \in expired
    /\ expired' = expired \ {e}
    /\ Remove(e)
    /\ UNCHANGED <<tags, service, probe, scan>>

PruneStep == PruneCollect \/ \E e \in Endpoints : PruneRemove(e)

-----------------------------------------------------------------------------
(* The scans: scan() and prune_stale()                                     *)

\* The configured ports, or the containers that are running now.
ScanStart(k) ==
    /\ scan[k].phase = "idle"
    /\ scan' = [scan EXCEPT ![k] =
                   [phase |-> "visit", found |-> {},
                    todo |-> IF k = "port" THEN ByKind(k)
                             ELSE {e \in ByKind(k) : service[e] # "gone"}]]
    /\ UNCHANGED <<listed, tags, health, service, probe, expired>>

\* A port is asked, a container is taken as it is. What is found and has no
\* entry gets one; an entry that is there keeps its health.
ScanVisit(k, e) ==
    LET found == k = "docker" \/ service[e] = "up" IN
    /\ scan[k].phase = "visit"
    /\ e \in scan[k].todo
    /\ scan' = [scan EXCEPT ![k].todo = @ \ {e},
                            ![k].found = IF found THEN @ \cup {e} ELSE @]
    /\ listed' = IF found THEN listed \cup {e} ELSE listed
    /\ UNCHANGED <<tags, health, service, probe, expired>>

ScanCollectAllKinds(k) ==   \* faulty variant: the tags are not looked at
    LET stale == listed \ scan[k].found IN
    /\ scan[k].phase = "visit"
    /\ scan[k].todo = {}
    /\ scan' = [scan EXCEPT ![k] =
                   IF stale = {} THEN IdleScan
                   ELSE [phase |-> "remove", todo |-> stale, found |-> {}]]
    /\ UNCHANGED <<listed, tags, health, service, probe, expired>>

\* The entries with the tags of this scanner that were not found: a configured
\* endpoint that has them never is.
ScanCollect(k) ==
    LET stale == (listed \cap Claimed(k)) \ scan[k].found IN
    /\ scan[k].phase = "visit"
    /\ scan[k].todo = {}
    /\ scan' = [scan EXCEPT ![k] =
                   IF stale = {} THEN IdleScan
                   ELSE [phase |-> "remove", todo |-> stale, found |-> {}]]
    /\ UNCHANGED <<listed, tags, health, service, probe, expired>>

ScanRemove(k, e) ==
    /\ scan[k].phase = "remove"
    /\ e \in scan[k].todo
    /\ Remove(e)
    /\ scan' = [scan EXCEPT ![k] =
                   IF scan[k].todo = {e} THEN IdleScan
                   ELSE [scan[k] EXCEPT !.todo = scan[k].todo \ {e}]]
    /\ UNCHANGED <<tags, service, probe, expired>>

ScanStep(k) ==
    \/ ScanStart(k)
    \/ ScanCollect(k)
    \/ \E e \in Endpoints : ScanVisit(k, e) \/ ScanRemove(k, e)

-----------------------------------------------------------------------------

\* The services come and go.
ServiceChanges(e) ==
    /\ \E s \in {"up", "down", "gone"} : service' = [service EXCEPT ![e] = s]
    /\ UNCHANGED <<listed, tags, health, probe, expired, scan>>

Tick ==
    /\ health' = [e \in Endpoints |->
                    [health[e] EXCEPT !.offline = IF @ <= MaxOffline THEN @ + 1 ELSE @]]
    /\ UNCHANGED <<listed, tags, service, probe, expired, scan>>

Next ==
    \/ ProbeStep
    \/ PruneStep
    \/ \E k \in Scanners : ScanStep(k)
    \/ \E e \in Endpoints : ServiceChanges(e)
    \/ Tick

Spec == Init /\ [][Next]_vars

\* The tickers fire, the requests of probes and scans are answered or time
\* out, and time passes.
Fairness ==
    /\ WF_vars(ProbeStep)
    /\ WF_vars(PruneStep)
    /\ \A k \in Scanners : WF_vars(ScanStep(k))
    /\ WF_vars(Tick)

FairSpec == Spec /\ Fairness

-----------------------------------------------------------------------------
(* Properties *)

\* Types of the map and of the tasks (the typing part of the inductive invariant).
TypeOK ==
    /\ listed \in SUBSET Endpoints
    /\ tags \in [Endpoints -> SUBSET Tags]
    /\ health \in [Endpoints -> [status : {"Healthy", "Degraded", "Offline"},
                                 failures : 0..OfflineAfter, offline : 0..NotOffline]]
    /\ service \in [Endpoints -> {"up", "down", "gone"}]
    /\ probe \in [todo : SUBSET Endpoints, target : Endpoints \cup {NoEndpoint}, ok : BOOLEAN]
    /\ expired \in SUBSET Endpoints
    /\ scan \in [Scanners -> [phase : {"idle", "visit", "remove"},
                              todo : SUBSET Endpoints, found : SUBSET Endpoints]]

\* status, consecutive_failures and offline_since agree: an endpoint is
\* Offline exactly after three failures in a row, and then (only then) the
\* time is known from which its removal is counted.
HealthAgrees ==
    \A e \in Endpoints :
        /\ (health[e].status = "Offline") <=> (health[e].failures = OfflineAfter)
        /\ (health[e].status = "Offline") <=> (health[e].offline # NotOffline)
        /\ (health[e].status = "Healthy") <=> (health[e].failures = 0)

\* Nothing leaves the map but what the prune task has collected as long
\* offline, or what a scan is removing and has the tags of that scanner: an
\* endpoint of the configuration without these tags is safe from the scans,
\* and so is what the other scanner has discovered.
ScansKeepOthers ==
    [][\A e \in listed \ listed' :
          \/ e \in expired
          \/ \E k \in Scanners : e \in Claimed(k) /\ scan[k].phase = "remove"]_vars

\* An endpoint comes into the map only by a scan of its own kind that is
\* visiting it: the late answer to a probe of an endpoint that has been removed
\* meanwhile does not bring it back, and one of the configuration never returns.
OnlyScansAdd ==
    [][\A e \in listed' \ listed :
          /\ KindOf[e] \in Scanners
          /\ scan[KindOf[e]].phase = "visit"
          /\ e \in scan[KindOf[e]].todo]_vars

Routable(e) == e \in listed /\ health[e].status # "Offline"

\* A service that does not answer is not there for its probes and scans. But
\* a container that runs is discovered whatever it answers: after each removal
\* it comes back as Healthy, so only one that has stopped is dead for good.
Dead(e) == service[e] = "gone" \/ (service[e] = "down" /\ KindOf[e] # "docker")

\* Requests are not routed for ever to a dead service: probes or its scanner
\* take it out, whatever answers, removals and discoveries arrive late.
DownIsAvoided ==
    \A e \in Endpoints : <>[]Dead(e) => <>[]~Routable(e)

\* A service that stays up is used in the end: no probe, scan or removal
\* that raced with its return keeps it out. An endpoint of the configuration
\* that has been removed does not come back.
UpIsUsed ==
    \A e \in Endpoints :
        <>[](service[e] = "up") =>
            <>[](Routable(e) \/ (KindOf[e] = "config" /\ e \notin listed))
=============================================================================
