---------------------------- MODULE ProxyCircuit ----------------------------
(***************************************************************************)
(* The AI proxy of src/proxy.rs on top of the circuit breaker: concurrent  *)
(* requests that filter the endpoints through CircuitBreaker::allow, pick  *)
(* one, forward to it and record the outcome.                              *)
(*                                                                         *)
(* allow is not a test: for an endpoint that is not closed it spends one   *)
(* of the calls of the half-open period. The filter calls it for every     *)
(* endpoint, and so does CircuitAwareStage of src/router.rs, which never   *)
(* records an outcome.                                                     *)
(*                                                                         *)
(* The map of endpoints and their health belong to the probes and the      *)
(* discovery tasks and change freely here. Which candidate is selected is  *)
(* decided by the quantum router, or by the order of the map, and chosen   *)
(* freely. The body of the response does not matter to the breaker.        *)
(***************************************************************************)
EXTENDS CircuitBreaker, FiniteSets

CONSTANTS
    Requests,           \* identities of concurrent proxy requests
    PipelineEndpoints,  \* the endpoints that are destinations of plumber rules
    Unsteady,           \* the endpoints that change their health or leave the map
    Cancels,            \* whether clients go away before the response
    NoTarget

ASSUME ProxyAssumption ==
    /\ PipelineEndpoints \subseteq Endpoints
    /\ Unsteady \subseteq Endpoints
    /\ Cancels \in BOOLEAN
    /\ NoTarget \notin Endpoints

VARIABLES
    listed,     \* the keys of the endpoint map
    offline,    \* the endpoints whose health is Offline
    request,    \* request[r]: where the handler of r is
    probing     \* history: probing[e] are the requests in progress that were
                \* admitted in the current half-open period of e

vars == <<circuits, listed, offline, request, probing>>

RequestPhases == {"idle", "filter", "lookup", "sent"}

IdleRequest == [pc |-> "idle", todo |-> {}, candidates |-> {}, target |-> NoTarget]

Init ==
    /\ BreakerInit
    /\ listed = Endpoints
    /\ offline = {}
    /\ request = [r \in Requests |-> IdleRequest]
    /\ probing = [e \in Endpoints |-> {}]

-----------------------------------------------------------------------------
(* chat_completions_handler                                                *)

\* The handler starts to iterate over the endpoints.
Arrive(r) ==
    /\ request[r].pc = "idle"
    /\ request' = [request EXCEPT ![r].pc = "filter", ![r].todo = listed]
    /\ UNCHANGED <<circuits, listed, offline, probing>>

\* What a call of allow for e leaves in the history of its half-open period.
Probing(e, r) ==
    CASE circuits[e].state = "Open"     -> [probing EXCEPT ![e] = {r}]
      [] circuits[e].state = "HalfOpen" -> [probing EXCEPT ![e] = @ \cup {r}]
      [] OTHER                          -> probing

FilterForgetsHealth(r, e) ==   \* faulty variant: `||` for `&&`, breaker not asked
    LET q == request[r] IN
    /\ q.pc = "filter"
    /\ e \in q.todo
    /\ request' = [request EXCEPT ![r].todo = @ \ {e}, ![r].candidates = @ \cup {e}]
    /\ UNCHANGED <<circuits, listed, offline, probing>>

\* One endpoint of the iteration: skipped when it has left the map or is
\* Offline, else the breaker is asked, whether or not e will be selected.
Filter(r, e) ==
    LET q == request[r]
        asked == e \in listed \ offline
        admitted == asked /\ Admits(circuits[e])
    IN
    /\ q.pc = "filter"
    /\ e \in q.todo
    /\ IF asked THEN Allow(e) ELSE UNCHANGED circuits
    /\ probing' = IF admitted THEN Probing(e, r) ELSE probing
    /\ request' = [request EXCEPT
                      ![r].todo = @ \ {e},
                      ![r].candidates = IF admitted THEN @ \cup {e} ELSE @]
    /\ UNCHANGED <<listed, offline>>

\* The handler returns; r stands for another request from now on.
Finish(r) ==
    /\ request' = [request EXCEPT ![r] = IdleRequest]
    /\ probing' = [e \in Endpoints |-> probing[e] \ {r}]

RouteFailsOpen(r) ==   \* faulty variant: without a candidate takes any endpoint of the map
    /\ request[r].pc = "filter"
    /\ request[r].todo = {}
    /\ LET choice == IF request[r].candidates = {} THEN listed ELSE request[r].candidates IN
       IF choice = {}
       THEN Finish(r)
       ELSE /\ \E e \in choice :
                  request' = [request EXCEPT ![r].pc = "lookup", ![r].target = e]
            /\ UNCHANGED probing
    /\ UNCHANGED <<circuits, listed, offline>>

\* q.route or candidates.first(); 503 without a candidate.
Route(r) ==
    /\ request[r].pc = "filter"
    /\ request[r].todo = {}
    /\ IF request[r].candidates = {}
       THEN Finish(r)
       ELSE /\ \E e \in request[r].candidates :
                  request' = [request EXCEPT ![r].pc = "lookup", ![r].target = e]
            /\ UNCHANGED probing
    /\ UNCHANGED <<circuits, listed, offline>>

\* endpoints.get: an endpoint that has left the map meanwhile gives 503,
\* and no outcome is recorded.
LookupEndpoint(r) ==
    /\ request[r].pc = "lookup"
    /\ IF request[r].target \in listed
       THEN request' = [request EXCEPT ![r].pc = "sent"] /\ UNCHANGED probing
       ELSE Finish(r)
    /\ UNCHANGED <<circuits, listed, offline>>

\* send().await returned: an error (the timeout of the client included) or
\* a status that is not a success is a failure.
Respond(r, success) ==
    /\ request[r].pc = "sent"
    /\ IF success THEN RecordSuccess(request[r].target)
                  ELSE RecordFailure(request[r].target)
    /\ Finish(r)
    /\ UNCHANGED <<listed, offline>>

\* The client goes away while the handler awaits the endpoint: the handler
\* is dropped and nothing is recorded.
Cancel(r) ==
    /\ Cancels
    /\ request[r].pc = "sent"
    /\ Finish(r)
    /\ UNCHANGED <<circuits, listed, offline>>

-----------------------------------------------------------------------------
(* The rest of the hub                                                     *)

\* CircuitAwareStage on a candidate of a plumber rule: allow comes first,
\* the health second, and no outcome follows.
PipelineAsks(e) ==
    /\ e \in PipelineEndpoints
    /\ Allow(e)
    /\ probing' = IF Admits(circuits[e]) /\ circuits[e].state = "Open"
                  THEN [probing EXCEPT ![e] = {}] ELSE probing
    /\ UNCHANGED <<listed, offline, request>>

\* The probes change the health, discovery and pruning the map.
HealthChanges(e) ==
    /\ e \in Unsteady
    /\ offline' \in {offline \cup {e}, offline \ {e}}
    /\ UNCHANGED <<circuits, listed, request, probing>>

ListingChanges(e) ==
    /\ e \in Unsteady
    /\ listed' \in {listed \cup {e}, listed \ {e}}
    /\ UNCHANGED <<circuits, offline, request, probing>>

Tick == BreakerTick /\ UNCHANGED <<listed, offline, request, probing>>

HandlerStep(r) ==
    \/ \E e \in Endpoints : Filter(r, e)
    \/ Route(r)
    \/ LookupEndpoint(r)
Response(r) == \E success \in BOOLEAN : Respond(r, success)

Next ==
    \/ \E r \in Requests : Arrive(r) \/ HandlerStep(r) \/ Response(r) \/ Cancel(r)
    \/ \E e \in Endpoints : PipelineAsks(e) \/ HealthChanges(e) \/ ListingChanges(e)
    \/ Tick

Spec == Init /\ [][Next]_vars

\* Clients keep sending requests, handlers run, every forwarded request ends
\* (the HTTP client times out after 60 s) and time passes. The probes, the
\* discovery and the pipeline may do nothing.
Fairness ==
    /\ \A r \in Requests : /\ WF_vars(Arrive(r))
                           /\ WF_vars(HandlerStep(r))
                           /\ WF_vars(Response(r) \/ Cancel(r))
    /\ WF_vars(Tick)

FairSpec == Spec /\ Fairness

-----------------------------------------------------------------------------
(* Properties *)

\* A request has a target exactly when it has selected one, and that is one of
\* the endpoints that passed the filter: neither q.route nor the lookup, nor
\* what happens to the map meanwhile, sends it anywhere else.
Targeted(q) ==
    IF q.pc \in {"lookup", "sent"} THEN q.target \in q.candidates ELSE q.target = NoTarget

\* Types, and the targets of the requests.
TypeOK ==
    /\ BreakerTypeOK
    /\ listed \in SUBSET Endpoints
    /\ offline \in SUBSET Endpoints
    /\ request \in [Requests -> [pc : RequestPhases, todo : SUBSET Endpoints,
                                 candidates : SUBSET Endpoints,
                                 target : Endpoints \cup {NoTarget}]]
    /\ \A r \in Requests : Targeted(request[r])
    /\ probing \in [Endpoints -> SUBSET Requests]

Forwarded(e) == {r \in Requests : request[r].pc = "sent" /\ request[r].target = e}

\* While an endpoint is probed, the requests admitted for that are no more
\* than half_open_max_calls, however they interleave.
ProbeTrafficBounded ==
    \A e \in Endpoints : circuits[e].state = "HalfOpen" =>
        Cardinality(probing[e]) <= AtLeastOne(HalfOpenMaxCalls)

\* integrations/README.md:131 "Circuit breaker prevents routing to failing
\* endpoints": while a circuit stays open, the traffic to its endpoint only
\* drains: no request becomes a candidate for it that was not one before.
OpenTrafficDrains ==
    [][\A e \in Endpoints : circuits[e].state = "Open" /\ circuits'[e].state = "Open" =>
          \A r \in Requests : e \in request'[r].candidates => e \in request[r].candidates]_vars

\* An open circuit does not stay open for want of a deadline: late failures
\* may postpone it, but in the end the endpoint may be probed.
OpenBecomesDue ==
    \A e \in Endpoints : circuits[e].state = "Open" ~> Admits(circuits[e])

\* README.md:29 "Per-endpoint failure detection with automatic recovery": an
\* endpoint on probation is judged in the end, one way or the other.
HalfOpenIsJudged ==
    \A e \in Endpoints : circuits[e].state = "HalfOpen" ~> circuits[e].state # "HalfOpen"
=============================================================================
