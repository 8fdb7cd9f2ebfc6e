--------------------------- MODULE CircuitProofs ---------------------------
(***************************************************************************)
(* Proofs about CircuitBreaker for all endpoints and configurations, and   *)
(* about ProxyCircuit for any number of requests as well.                  *)
(*                                                                         *)
(* The breaker. An operation changes one entry, so the argument is about   *)
(* one EndpointCircuit: CircuitInv says of an entry what BreakerInv says   *)
(* of all of them, and each operator on entries preserves it.              *)
(*                                                                         *)
(* The proxy. It calls the breaker's operations and nothing else changes   *)
(* an entry, so that BreakerInv carries over. The probing requests are no  *)
(* more than half_open_calls of the entry (ProbesCounted): the breaker     *)
(* counts every admission, and the end of a request is not counted back.   *)
(***************************************************************************)
EXTENDS ProxyCircuit, FiniteSetTheorems, TLAPS

\* BreakerInv of one entry.
CircuitInv(c) ==
    /\ c \in EndpointCircuit
    /\ c.state = "Closed" => c.failures < AtLeastOne(FailureThreshold)
    /\ c.state # "Closed" => c.last_failure # NoFailure
    /\ c.state = "HalfOpen" => c.half_open_calls \in 1..AtLeastOne(HalfOpenMaxCalls)

\* The values the operations write.
LEMMA Values ==
    /\ 0 \in Counter /\ 1 \in Counter
    /\ 0 \in Elapsed /\ NoFailure \in Elapsed
    /\ 0 # NoFailure
    /\ 0 < AtLeastOne(FailureThreshold)
    /\ 1 \in 1..AtLeastOne(HalfOpenMaxCalls)
  BY BreakerAssumption DEF Counter, Elapsed, NoFailure, AtLeastOne

\* A fresh entry satisfies it.
LEMMA DefaultCircuitInv == CircuitInv(DefaultCircuit)
  BY Values DEF CircuitInv, DefaultCircuit, EndpointCircuit

\* allow: a probe is counted before the budget is exceeded.
LEMMA AllowKeepsInv ==
    ASSUME NEW c, CircuitInv(c) PROVE CircuitInv(AfterAllow(c))
  <1>1. CASE Admits(c) /\ c.state = "Open"
    <2>1. AfterAllow(c) = [c EXCEPT !.state = "HalfOpen", !.half_open_calls = 1]
      BY <1>1 DEF AfterAllow
    <2>2. QED
      BY <1>1, <2>1, Values DEF CircuitInv, EndpointCircuit
  <1>2. CASE Admits(c) /\ c.state = "HalfOpen"
    <2>1. AfterAllow(c) = [c EXCEPT !.half_open_calls = c.half_open_calls + 1]
      BY <1>2 DEF AfterAllow
    <2>2. c.half_open_calls < HalfOpenMaxCalls
      BY <1>2 DEF Admits
    <2>3. /\ c.half_open_calls + 1 \in Counter
          /\ c.half_open_calls + 1 \in 1..AtLeastOne(HalfOpenMaxCalls)
      BY <2>2, BreakerAssumption DEF CircuitInv, EndpointCircuit, Counter, AtLeastOne
    <2>4. QED
      BY <1>2, <2>1, <2>3 DEF CircuitInv, EndpointCircuit
  <1>3. CASE ~Admits(c) \/ c.state \notin {"Open", "HalfOpen"}
    BY <1>3 DEF AfterAllow
  <1>4. QED
    BY <1>1, <1>2, <1>3

\* record_success: the counter restarts with the trust.
LEMMA SuccessKeepsInv ==
    ASSUME NEW c, CircuitInv(c) PROVE CircuitInv(AfterSuccess(c))
  <1>1. CASE c.state = "HalfOpen"
    <2>1. AfterSuccess(c) =
            [c EXCEPT !.state = "Closed", !.failures = 0, !.last_failure = NoFailure]
      BY <1>1 DEF AfterSuccess
    <2>2. QED
      BY <2>1, Values DEF CircuitInv, EndpointCircuit
  <1>2. CASE c.state = "Closed"
    <2>1. AfterSuccess(c) = [c EXCEPT !.failures = 0]
      BY <1>2 DEF AfterSuccess
    <2>2. QED
      BY <1>2, <2>1, Values DEF CircuitInv, EndpointCircuit
  <1>3. CASE c.state \notin {"HalfOpen", "Closed"}
    BY <1>3 DEF AfterSuccess
  <1>4. QED
    BY <1>1, <1>2, <1>3

\* record_failure: in a circuit that stays closed the counter is below the
\* threshold, and it cannot have wrapped to get there.
LEMMA FailureKeepsInv ==
    ASSUME NEW c, CircuitInv(c) PROVE CircuitInv(AfterFailure(c))
  <1> DEFINE failures == (c.failures + 1) % CounterSize
             opens == c.state = "HalfOpen" \/ failures >= FailureThreshold
  <1>1. failures \in Counter
    BY BreakerAssumption DEF CircuitInv, EndpointCircuit, Counter
  <1>2. AfterFailure(c) =
          [c EXCEPT !.failures = failures, !.last_failure = 0,
                    !.state = IF opens THEN "Open" ELSE c.state]
    BY DEF AfterFailure
  <1>3. ~opens => failures < AtLeastOne(FailureThreshold)
    BY <1>1, BreakerAssumption DEF AtLeastOne, Counter
  <1> HIDE DEF failures
  <1>4. CASE opens
    <2>1. AfterFailure(c) =
            [c EXCEPT !.failures = failures, !.last_failure = 0, !.state = "Open"]
      BY <1>2, <1>4
    <2>2. QED
      BY <1>1, <2>1, Values DEF CircuitInv, EndpointCircuit
  <1>5. CASE ~opens
    <2>1. AfterFailure(c) = [c EXCEPT !.failures = failures, !.last_failure = 0]
      BY <1>2, <1>5 DEF CircuitInv, EndpointCircuit
    <2>2. QED
      BY <1>1, <1>3, <1>5, <2>1, Values DEF CircuitInv, EndpointCircuit
  <1>6. QED
    BY <1>4, <1>5

\* Time only moves last_failure, up to RecoveryTimeout.
LEMMA OlderKeepsInv ==
    ASSUME NEW c, CircuitInv(c) PROVE CircuitInv(Older(c))
  <1> DEFINE elapsed == IF c.last_failure < RecoveryTimeout
                        THEN c.last_failure + 1 ELSE c.last_failure
  <1>1. /\ elapsed \in Elapsed
        /\ c.last_failure # NoFailure => elapsed # NoFailure
    BY BreakerAssumption DEF CircuitInv, EndpointCircuit, Elapsed, NoFailure
  <1>2. Older(c) = [c EXCEPT !.last_failure = elapsed]
    BY DEF Older
  <1> HIDE DEF elapsed
  <1>3. QED
    BY <1>1, <1>2 DEF CircuitInv, EndpointCircuit

\* Every step preserves the invariant.
LEMMA BreakerInvStep == BreakerInv /\ [BreakerNext]_circuits => BreakerInv'
  <1> SUFFICES ASSUME BreakerInv, [BreakerNext]_circuits PROVE BreakerInv'
    OBVIOUS
  <1>1. \A e \in Endpoints : CircuitInv(circuits[e])
    BY DEF BreakerInv, BreakerTypeOK, ClosedBelowThreshold, OpenHasDeadline, ProbesBounded,
           CircuitInv
  <1>2. circuits \in [Endpoints -> EndpointCircuit]
    BY DEF BreakerInv, BreakerTypeOK
  <1>3. /\ circuits' = [e \in Endpoints |-> circuits'[e]]
        /\ \A e \in Endpoints : CircuitInv(circuits'[e])
    <2>1. ASSUME NEW e \in Endpoints, Allow(e) PROVE <1>3
      BY <1>1, <1>2, <2>1, AllowKeepsInv DEF Allow
    <2>2. ASSUME NEW e \in Endpoints, RecordSuccess(e) PROVE <1>3
      BY <1>1, <1>2, <2>2, SuccessKeepsInv DEF RecordSuccess
    <2>3. ASSUME NEW e \in Endpoints, RecordFailure(e) PROVE <1>3
      BY <1>1, <1>2, <2>3, FailureKeepsInv DEF RecordFailure
    <2>4. CASE BreakerTick
      BY <1>1, <2>4, OlderKeepsInv DEF BreakerTick
    <2>5. CASE UNCHANGED circuits
      BY <1>1, <1>2, <2>5
    <2>6. QED
      BY <2>1, <2>2, <2>3, <2>4, <2>5 DEF BreakerNext
  <1>4. QED
    BY <1>3 DEF BreakerInv, BreakerTypeOK, ClosedBelowThreshold, OpenHasDeadline,
                ProbesBounded, CircuitInv

\* The conjunction holds at the start and is inductive.
LEMMA BreakerInitInv == BreakerInit => BreakerInv
  BY DefaultCircuitInv
     DEF BreakerInit, BreakerInv, BreakerTypeOK, ClosedBelowThreshold, OpenHasDeadline,
         ProbesBounded, CircuitInv

LEMMA BreakerAlways == BreakerSpec => []BreakerInv
  BY BreakerInitInv, BreakerInvStep, PTL DEF BreakerSpec

\* The breaker's types and safety for every configuration: the threshold
\* holds though the counter wraps, an open circuit has a deadline, probes are
\* bounded.
THEOREM BreakerSafety ==
    BreakerSpec => [](BreakerTypeOK /\ ClosedBelowThreshold /\ OpenHasDeadline /\ ProbesBounded)
  <1>1. BreakerInv => BreakerTypeOK /\ ClosedBelowThreshold /\ OpenHasDeadline /\ ProbesBounded
    BY DEF BreakerInv
  <1>2. QED
    BY <1>1, BreakerAlways, PTL

-----------------------------------------------------------------------------
(* Refinement of Breaker *)

\* The moves of the abstract breaker, for one endpoint.
MayMove(from, to) ==
    \/ from = "Closed" /\ to = "Open"
    \/ from = "Open" /\ to = "HalfOpen"
    \/ from = "HalfOpen" /\ to \in {"Open", "Closed"}

\* No operation moves the state of an entry in any other way.
LEMMA OperationsMove ==
    ASSUME NEW c, c \in EndpointCircuit,
           NEW d \in {AfterAllow(c), AfterSuccess(c), AfterFailure(c)}
    PROVE  d.state = c.state \/ MayMove(c.state, d.state)
  <1>1. AfterAllow(c).state = c.state \/ MayMove(c.state, AfterAllow(c).state)
    <2>1. CASE Admits(c) /\ c.state = "Open"
      BY <2>1 DEF AfterAllow, MayMove, EndpointCircuit
    <2>2. CASE Admits(c) /\ c.state = "HalfOpen"
      BY <2>2 DEF AfterAllow, EndpointCircuit
    <2>3. CASE ~Admits(c) \/ c.state \notin {"Open", "HalfOpen"}
      BY <2>3 DEF AfterAllow
    <2>4. QED
      BY <2>1, <2>2, <2>3
  <1>2. AfterSuccess(c).state = c.state \/ MayMove(c.state, AfterSuccess(c).state)
    <2>1. CASE c.state = "HalfOpen"
      BY <2>1 DEF AfterSuccess, MayMove, EndpointCircuit
    <2>2. CASE c.state = "Closed"
      BY <2>2 DEF AfterSuccess, EndpointCircuit
    <2>3. CASE c.state \notin {"HalfOpen", "Closed"}
      BY <2>3 DEF AfterSuccess
    <2>4. QED
      BY <2>1, <2>2, <2>3
  <1>3. AfterFailure(c).state = c.state \/ MayMove(c.state, AfterFailure(c).state)
    <2>1. AfterFailure(c).state \in {c.state, "Open"}
      BY DEF AfterFailure, EndpointCircuit
    <2>2. QED
      BY <2>1 DEF MayMove, EndpointCircuit
  <1>4. QED
    BY <1>1, <1>2, <1>3

\* A step of the code is a step of the abstract breaker, or none.
LEMMA BreakerStepRefines ==
    BreakerTypeOK /\ [BreakerNext]_circuits => [Abstract!BreakerNext]_Phase
  <1> SUFFICES ASSUME BreakerTypeOK, [BreakerNext]_circuits
               PROVE  Abstract!BreakerNext \/ Phase' = Phase
    OBVIOUS
  <1>1. ASSUME NEW e \in Endpoints, Allow(e) \/ RecordSuccess(e) \/ RecordFailure(e)
        PROVE  Abstract!BreakerNext \/ Phase' = Phase
    <2> DEFINE c == circuits[e]
    <2>1. PICK d \in {AfterAllow(c), AfterSuccess(c), AfterFailure(c)} :
             circuits' = [circuits EXCEPT ![e] = d]
      BY <1>1 DEF Allow, RecordSuccess, RecordFailure
    <2>2. Phase' = [Phase EXCEPT ![e] = d.state]
      BY <2>1 DEF Phase, BreakerTypeOK
    <2>3. d.state = Phase[e] \/ MayMove(Phase[e], d.state)
      BY OperationsMove DEF Phase, BreakerTypeOK
    <2>4. Phase \in [Endpoints -> {"Closed", "Open", "HalfOpen"}]
      BY DEF Phase, BreakerTypeOK, EndpointCircuit
    <2>5. CASE d.state = Phase[e]
      BY <2>2, <2>4, <2>5
    <2>6. CASE MayMove(Phase[e], d.state)
      BY <2>2, <2>6
         DEF MayMove, Abstract!BreakerNext, Abstract!Trip, Abstract!Probe, Abstract!Reopen,
             Abstract!Recover, Abstract!Move
    <2>7. QED
      BY <2>3, <2>5, <2>6
  <1>2. CASE BreakerTick
    BY <1>2 DEF BreakerTick, Older, Phase, BreakerTypeOK, EndpointCircuit
  <1>3. CASE UNCHANGED circuits
    BY <1>3 DEF Phase
  <1>4. QED
    BY <1>1, <1>2, <1>3 DEF BreakerNext

\* The circuit breaker implements the three-state breaker of module Breaker:
\* a late success never closes an open circuit, a circuit recovers only
\* through probes.
THEOREM BreakerRefinement == BreakerSpec => ImplementsBreaker
  <1>1. BreakerInit => Abstract!BreakerInit
    BY DEF BreakerInit, DefaultCircuit, Phase, Abstract!BreakerInit
  <1>2. BreakerInv => BreakerTypeOK
    BY DEF BreakerInv
  <1>3. QED
    BY <1>1, <1>2, BreakerAlways, BreakerStepRefines, PTL
       DEF BreakerSpec, ImplementsBreaker, Abstract!BreakerSpec

-----------------------------------------------------------------------------
(* The proxy *)

RequestType == [pc : RequestPhases, todo : SUBSET Endpoints,
                candidates : SUBSET Endpoints, target : Endpoints \cup {NoTarget}]

\* The types of what is not the breaker's.
ProxyTypes ==
    /\ listed \in SUBSET Endpoints
    /\ offline \in SUBSET Endpoints
    /\ request \in [Requests -> RequestType]
    /\ probing \in [Endpoints -> SUBSET Requests]

\* A request that looks its target up or has been sent has one.
Selected == \A r \in Requests : Targeted(request[r])

\* No request probes an endpoint that its entry has not counted.
CountedAt(e) ==
    /\ IsFiniteSet(probing[e])
    /\ circuits[e].state = "HalfOpen" =>
          Cardinality(probing[e]) <= circuits[e].half_open_calls

ProbesCounted == \A e \in Endpoints : CountedAt(e)

\* The inductive invariant of the proxy.
ProxyInv == BreakerInv /\ ProxyTypes /\ Selected /\ ProbesCounted

LEMMA RequestFields ==
    \A q \in RequestType : /\ q.pc \in RequestPhases
                           /\ q.todo \in SUBSET Endpoints
                           /\ q.candidates \in SUBSET Endpoints
                           /\ q.target \in Endpoints \cup {NoTarget}
  BY DEF RequestType

LEMMA ProxyTypeParts == TypeOK <=> BreakerTypeOK /\ ProxyTypes /\ Selected
  BY DEF TypeOK, ProxyTypes, RequestType, Selected

LEMMA IdleRequestType ==
    /\ IdleRequest \in RequestType
    /\ IdleRequest.pc = "idle" /\ IdleRequest.candidates = {}
    /\ Targeted(IdleRequest)
  BY DEF IdleRequest, RequestType, RequestPhases, Targeted

\* Whatever the proxy and the pipeline do, the breaker sees its operations.
LEMMA ProxyUsesBreaker ==
    ASSUME ProxyTypes, Selected, [Next]_vars
    PROVE  [BreakerNext]_circuits
  <1>1. ASSUME NEW r \in Requests, Response(r)
        PROVE  BreakerNext
    <2>1. request[r].target \in Endpoints
      BY <1>1, RequestFields DEF Response, Respond, ProxyTypes, Selected, Targeted
    <2>2. QED
      BY <1>1, <2>1 DEF Response, Respond, BreakerNext
  <1>2. ASSUME NEW r \in Requests, HandlerStep(r)
        PROVE  [BreakerNext]_circuits
    BY <1>2 DEF HandlerStep, Filter, Route, LookupEndpoint, BreakerNext
  <1>3. ASSUME NEW e \in Endpoints, PipelineAsks(e)
        PROVE  BreakerNext
    BY <1>3 DEF PipelineAsks, BreakerNext
  <1>4. QED
    BY <1>1, <1>2, <1>3
       DEF Next, vars, Arrive, Cancel, HealthChanges, ListingChanges, Tick, BreakerNext

\* The record of one request becomes s.
RequestBecomes(r, s) ==
    /\ request' = [request EXCEPT ![r] = s]
    /\ Targeted(s)

LEMMA RequestKeepsTypes ==
    ASSUME ProxyTypes, Selected, NEW r \in Requests, NEW s \in RequestType,
           RequestBecomes(r, s)
    PROVE  request' \in [Requests -> RequestType] /\ Selected'
  BY DEF ProxyTypes, Selected, RequestBecomes

\* allow has been asked for e and has admitted.
Admitted(e) == Admits(circuits[e]) /\ circuits'[e] = AfterAllow(circuits[e])

\* What a step of the handler of r does to its record: only an endpoint the
\* breaker admits becomes a candidate.
LEMMA HandlerEffect ==
    ASSUME ProxyInv, NEW r \in Requests,
           Arrive(r) \/ HandlerStep(r) \/ Response(r) \/ Cancel(r)
    PROVE  \E s \in RequestType :
              /\ RequestBecomes(r, s)
              /\ \A e \in s.candidates : e \in request[r].candidates \/ Admitted(e)
  <1> DEFINE q == request[r]
  <1>1. q \in RequestType /\ ProxyTypes /\ Targeted(q)
    BY DEF ProxyInv, ProxyTypes, Selected
  <1>2. {"idle", "filter", "lookup", "sent"} \subseteq RequestPhases
    BY DEF RequestPhases
  <1>3. ASSUME Finish(r)
        PROVE  \E s \in RequestType :
                  /\ RequestBecomes(r, s)
                  /\ \A e \in s.candidates : e \in request[r].candidates \/ Admitted(e)
    <2>1. request' = [request EXCEPT ![r] = IdleRequest]
      BY <1>3 DEF Finish
    <2>2. RequestBecomes(r, IdleRequest)
      BY <2>1, IdleRequestType DEF RequestBecomes
    <2>3. QED
      BY <2>2, IdleRequestType
  <1>4. CASE Arrive(r)
    <2> DEFINE s == [q EXCEPT !.pc = "filter", !.todo = listed]
    <2>1. request' = [request EXCEPT ![r] = s]
      BY <1>1, <1>4 DEF Arrive, ProxyTypes
    <2>2. s \in RequestType /\ s.candidates = q.candidates
      BY <1>1, <1>2 DEF ProxyTypes, RequestType
    <2>3. Targeted(s)
      BY <1>1, <1>4 DEF Arrive, RequestType, Targeted
    <2> HIDE DEF s
    <2>4. QED
      BY <2>1, <2>2, <2>3 DEF RequestBecomes
  <1>5. ASSUME NEW e \in Endpoints, Filter(r, e)
        PROVE  \E s \in RequestType :
                  /\ RequestBecomes(r, s)
                  /\ \A d \in s.candidates : d \in request[r].candidates \/ Admitted(d)
    <2> DEFINE admitted == e \in listed \ offline /\ Admits(circuits[e])
               cands == IF admitted THEN q.candidates \cup {e} ELSE q.candidates
               s == [q EXCEPT !.todo = q.todo \ {e}, !.candidates = cands]
    <2>1. q.pc = "filter" /\ request' = [request EXCEPT ![r] = s]
      BY <1>1, <1>5 DEF Filter, ProxyTypes
    <2>2. cands \in SUBSET Endpoints
      BY <1>1, RequestFields
    <2>3. admitted => Admitted(e)
      BY <1>5 DEF Filter, Allow, Admitted, ProxyInv, BreakerInv, BreakerTypeOK
    <2>4. \A d \in cands : d \in q.candidates \/ Admitted(d)
      BY <2>3
    <2> HIDE DEF cands, admitted
    <2>5. s \in RequestType /\ s.candidates = cands
      BY <1>1, <2>1, <2>2 DEF RequestType
    <2>6. Targeted(s)
      BY <1>1, <2>1 DEF RequestType, Targeted
    <2> HIDE DEF s
    <2>7. QED
      BY <2>1, <2>4, <2>5, <2>6 DEF RequestBecomes
  <1>6. CASE Route(r) /\ ~Finish(r)
    <2>1. PICK e \in q.candidates : 
             request' = [request EXCEPT ![r].pc = "lookup", ![r].target = e]
      BY <1>6 DEF Route
    <2> DEFINE s == [q EXCEPT !.pc = "lookup", !.target = e]
    <2>2. request' = [request EXCEPT ![r] = s]
      BY <1>1, <2>1 DEF ProxyTypes
    <2>3. e \in Endpoints
      BY <1>1, <2>1, RequestFields
    <2>4. s \in RequestType /\ s.pc = "lookup" /\ s.target = e /\ s.candidates = q.candidates
      BY <1>1, <1>2, <2>3 DEF RequestType
    <2> HIDE DEF s
    <2>5. QED
      BY <2>1, <2>2, <2>4 DEF RequestBecomes, Targeted
  <1>7. CASE LookupEndpoint(r) /\ ~Finish(r)
    <2> DEFINE s == [q EXCEPT !.pc = "sent"]
    <2>1. request' = [request EXCEPT ![r] = s] /\ q.pc = "lookup"
      BY <1>1, <1>7 DEF LookupEndpoint, ProxyTypes
    <2>2. /\ s \in RequestType /\ s.pc = "sent" /\ s.target = q.target
          /\ s.candidates = q.candidates
      BY <1>1, <1>2 DEF RequestType
    <2>3. Targeted(s)
      BY <1>1, <2>1, <2>2 DEF Targeted
    <2> HIDE DEF s
    <2>4. QED
      BY <2>1, <2>2, <2>3 DEF RequestBecomes
  <1>8. CASE Response(r) \/ Cancel(r)
    BY <1>3, <1>8 DEF Response, Respond, Cancel
  <1>9. QED
    BY <1>3, <1>4, <1>5, <1>6, <1>7, <1>8 DEF HandlerStep

\* Every step of the hub keeps the types and the targets.
LEMMA ProxyTypesStep ==
    ASSUME ProxyInv, [Next]_vars
    PROVE  ProxyTypes' /\ Selected'
  <1>1. ProxyTypes /\ Selected
    BY DEF ProxyInv
  <1>2. ASSUME NEW r \in Requests, Arrive(r) \/ HandlerStep(r) \/ Response(r) \/ Cancel(r)
        PROVE  ProxyTypes' /\ Selected'
    <2>1. PICK s \in RequestType : RequestBecomes(r, s)
      BY <1>2, HandlerEffect
    <2>2. request' \in [Requests -> RequestType] /\ Selected'
      BY <1>1, <2>1, RequestKeepsTypes
    <2>3. UNCHANGED <<listed, offline>>
      BY <1>2 DEF Arrive, HandlerStep, Filter, Route, LookupEndpoint, Response, Respond, Cancel
    <2>4. probing' \in [Endpoints -> SUBSET Requests]
      <3>1. CASE Finish(r)
        BY <1>1, <3>1 DEF Finish, ProxyTypes
      <3>2. ASSUME NEW e \in Endpoints, Filter(r, e)
            PROVE  probing' \in [Endpoints -> SUBSET Requests]
        <4>1. probing' \in {probing, Probing(e, r)}
          BY <3>2 DEF Filter
        <4>2. Probing(e, r) \in [Endpoints -> SUBSET Requests]
          BY <1>1 DEF Probing, ProxyTypes
        <4>3. QED
          BY <1>1, <4>1, <4>2 DEF ProxyTypes
      <3>3. CASE UNCHANGED probing
        BY <1>1, <3>3 DEF ProxyTypes
      <3>4. QED
        BY <1>2, <3>1, <3>2, <3>3
           DEF Arrive, HandlerStep, Route, LookupEndpoint, Response, Respond, Cancel
    <2>5. QED
      BY <1>1, <2>2, <2>3, <2>4 DEF ProxyTypes
  <1>3. ASSUME NEW e \in Endpoints, PipelineAsks(e)
        PROVE  ProxyTypes' /\ Selected'
    BY <1>1, <1>3 DEF PipelineAsks, ProxyTypes, Selected
  <1>4. ASSUME NEW e \in Endpoints, HealthChanges(e) \/ ListingChanges(e)
        PROVE  ProxyTypes' /\ Selected'
    BY <1>1, <1>4 DEF HealthChanges, ListingChanges, ProxyTypes, Selected
  <1>5. CASE Tick \/ UNCHANGED vars
    BY <1>1, <1>5 DEF Tick, vars, ProxyTypes, Selected
  <1>6. QED
    BY <1>2, <1>3, <1>4, <1>5 DEF Next

\* What a call of allow for e does to the counter of its probes.
LEMMA AllowCounts ==
    ASSUME NEW c \in EndpointCircuit
    PROVE  /\ ~Admits(c) => AfterAllow(c) = c
           /\ c.state = "Closed" => AfterAllow(c) = c
           /\ Admits(c) /\ c.state = "Open" =>
                 AfterAllow(c).state = "HalfOpen" /\ AfterAllow(c).half_open_calls = 1
           /\ Admits(c) /\ c.state = "HalfOpen" =>
                 /\ AfterAllow(c).state = "HalfOpen"
                 /\ AfterAllow(c).half_open_calls = c.half_open_calls + 1
           /\ AfterAllow(c).state = "HalfOpen" => Admits(c) \/ AfterAllow(c) = c
  BY DEF AfterAllow, EndpointCircuit

\* No other operation begins a half-open period or takes back a probe.
LEMMA OthersKeepCount ==
    ASSUME NEW c \in EndpointCircuit, NEW d \in {c, AfterSuccess(c), AfterFailure(c), Older(c)}
    PROVE  d.state = "HalfOpen" => c.state = "HalfOpen" /\ d.half_open_calls = c.half_open_calls
  <1>1. AfterSuccess(c).state = "HalfOpen" => AfterSuccess(c) = c
    BY DEF AfterSuccess, EndpointCircuit
  <1>2. AfterFailure(c).state # "HalfOpen"
    BY DEF AfterFailure, EndpointCircuit
  <1>3. Older(c).state = c.state /\ Older(c).half_open_calls = c.half_open_calls
    BY DEF Older, EndpointCircuit
  <1>4. QED
    BY <1>1, <1>2, <1>3

\* An entry stays counted if its half-open period goes on with no more probes
\* than before, ...
LEMMA CountedFewer ==
    ASSUME NEW e \in Endpoints, CountedAt(e), circuits[e].half_open_calls \in Nat,
           probing'[e] \subseteq probing[e],
           circuits'[e].state = "HalfOpen" =>
              /\ circuits[e].state = "HalfOpen"
              /\ circuits'[e].half_open_calls \in Nat
              /\ circuits[e].half_open_calls <= circuits'[e].half_open_calls
    PROVE  CountedAt(e)'
  <1>1. /\ IsFiniteSet(probing[e])
        /\ IsFiniteSet(probing'[e])
        /\ Cardinality(probing'[e]) <= Cardinality(probing[e])
    BY FS_Subset DEF CountedAt
  <1>2. Cardinality(probing[e]) \in Nat /\ Cardinality(probing'[e]) \in Nat
    BY <1>1, FS_CardinalityType
  <1>3. QED
    BY <1>1, <1>2 DEF CountedAt

\* ... or with one more that is counted, ...
LEMMA CountedOneMore ==
    ASSUME NEW e \in Endpoints, NEW r, CountedAt(e), circuits[e].half_open_calls \in Nat,
           circuits[e].state = "HalfOpen",
           probing'[e] = probing[e] \cup {r},
           circuits'[e].half_open_calls = circuits[e].half_open_calls + 1
    PROVE  CountedAt(e)'
  <1>1. /\ IsFiniteSet(probing[e])
        /\ IsFiniteSet(probing'[e])
        /\ Cardinality(probing'[e]) \in {Cardinality(probing[e]), Cardinality(probing[e]) + 1}
    <2> DEFINE P == probing[e]
    <2>1. IsFiniteSet(P)
      BY DEF CountedAt
    <2> HIDE DEF P
    <2>2. /\ IsFiniteSet(P \cup {r})
          /\ Cardinality(P \cup {r}) \in {Cardinality(P), Cardinality(P) + 1}
      BY <2>1, FS_AddElement
    <2>3. QED
      BY <2>1, <2>2 DEF P
  <1>2. Cardinality(probing[e]) \in Nat
    BY <1>1, FS_CardinalityType
  <1>3. QED
    BY <1>1, <1>2 DEF CountedAt

\* ... or if it begins with one probe at most.
LEMMA CountedFirst ==
    ASSUME NEW e \in Endpoints, NEW r,
           probing'[e] \in {{}, {r}}, circuits'[e].half_open_calls = 1
    PROVE  CountedAt(e)'
  <1>1. IsFiniteSet({}) /\ Cardinality({}) = 0 /\ IsFiniteSet({r}) /\ Cardinality({r}) = 1
    BY FS_EmptySet, FS_Singleton
  <1>2. \A P \in {{}, {r}} : IsFiniteSet(P) /\ Cardinality(P) <= 1
    BY <1>1
  <1>3. QED
    BY <1>2 DEF CountedAt

\* A call of allow for e, by a request or by the pipeline.
LEMMA CountedAllow ==
    ASSUME ProxyInv, NEW e \in Endpoints, NEW d \in Endpoints, Allow(e), NEW r,
           \/ ~Admits(circuits[e]) /\ probing' = probing
           \/ Admits(circuits[e]) /\ probing' = Probing(e, r)
           \/ Admits(circuits[e]) /\ circuits[e].state # "Open" /\ probing' = probing
           \/ /\ Admits(circuits[e]) /\ circuits[e].state = "Open"
              /\ probing' = [probing EXCEPT ![e] = {}]
    PROVE  CountedAt(d)'
  <1> DEFINE c == circuits[e]
  <1>1. /\ circuits \in [Endpoints -> EndpointCircuit]
        /\ probing \in [Endpoints -> SUBSET Requests]
        /\ CountedAt(e) /\ CountedAt(d)
    BY DEF ProxyInv, BreakerInv, BreakerTypeOK, ProxyTypes, ProbesCounted
  <1>2. c \in EndpointCircuit /\ circuits'[e] = AfterAllow(c) /\ c.half_open_calls \in Nat
    BY <1>1 DEF Allow, EndpointCircuit, Counter
  <1>3. CASE d # e
    <2>1. circuits'[d] = circuits[d] /\ probing'[d] = probing[d]
      BY <1>1, <1>3 DEF Allow, Probing
    <2>2. QED
      BY <1>1, <2>1 DEF CountedAt
  <1>4. CASE d = e /\ (~Admits(c) \/ c.state = "Closed")
    <2>1. circuits'[e] = c /\ probing'[e] = probing[e]
      BY <1>2, <1>4, AllowCounts DEF Probing
    <2>2. QED
      BY <1>1, <1>4, <2>1 DEF CountedAt
  <1>5. CASE d = e /\ Admits(c) /\ c.state = "Open"
    <2>1. circuits'[e].half_open_calls = 1 /\ probing'[e] \in {{}, {r}}
      BY <1>1, <1>2, <1>5, AllowCounts DEF Probing
    <2>2. QED
      BY <1>5, <2>1, CountedFirst
  <1>6. CASE d = e /\ Admits(c) /\ c.state = "HalfOpen"
    <2>1. /\ circuits'[e].half_open_calls = c.half_open_calls + 1
          /\ probing'[e] = probing[e] \/ probing'[e] = probing[e] \cup {r}
      BY <1>1, <1>2, <1>6, AllowCounts DEF Probing
    <2>2. CASE probing'[e] = probing[e]
      BY <1>1, <1>2, <1>6, <2>1, <2>2, CountedFewer
    <2>3. CASE probing'[e] = probing[e] \cup {r}
      BY <1>1, <1>2, <1>6, <2>1, <2>3, CountedOneMore
    <2>4. QED
      BY <2>1, <2>2, <2>3
  <1>7. QED
    BY <1>2, <1>3, <1>4, <1>5, <1>6 DEF EndpointCircuit

\* Every step keeps the probes counted.
LEMMA ProbesStep ==
    ASSUME ProxyInv, [Next]_vars
    PROVE  ProbesCounted'
  <1> SUFFICES ASSUME NEW e \in Endpoints PROVE CountedAt(e)'
    BY DEF ProbesCounted
  <1>1. /\ circuits \in [Endpoints -> EndpointCircuit]
        /\ probing \in [Endpoints -> SUBSET Requests]
        /\ CountedAt(e)
    BY DEF ProxyInv, BreakerInv, BreakerTypeOK, ProxyTypes, ProbesCounted
  <1>2. circuits[e] \in EndpointCircuit /\ circuits[e].half_open_calls \in Nat
    BY <1>1 DEF EndpointCircuit, Counter
  <1>3. ASSUME probing'[e] \subseteq probing[e],
               circuits'[e] \in {circuits[e], AfterSuccess(circuits[e]),
                                AfterFailure(circuits[e]), Older(circuits[e])}
        PROVE  CountedAt(e)'
    <2>1. circuits'[e].state = "HalfOpen" =>
             /\ circuits[e].state = "HalfOpen"
             /\ circuits'[e].half_open_calls = circuits[e].half_open_calls
      BY <1>2, <1>3, OthersKeepCount
    <2>2. QED
      BY <1>1, <1>2, <1>3, <2>1, CountedFewer
  <1>4. ASSUME NEW r \in Requests, HandlerStep(r) PROVE CountedAt(e)'
    <2>1. ASSUME NEW d \in Endpoints, Filter(r, d) PROVE CountedAt(e)'
      <3>1. CASE d \in listed \ offline
        <4>1. /\ Allow(d)
              /\ \/ ~Admits(circuits[d]) /\ probing' = probing
                 \/ Admits(circuits[d]) /\ probing' = Probing(d, r)
          BY <2>1, <3>1 DEF Filter
        <4>2. QED
          BY <4>1, CountedAllow
      <3>2. CASE d \notin listed \ offline
        BY <1>1, <2>1, <3>2 DEF Filter, CountedAt
      <3>3. QED
        BY <3>1, <3>2
    <2>2. CASE Route(r) \/ LookupEndpoint(r)
      <3>1. circuits' = circuits /\ probing'[e] \subseteq probing[e]
        BY <1>1, <2>2 DEF Route, LookupEndpoint, Finish
      <3>2. QED
        BY <1>3, <3>1
    <2>3. QED
      BY <1>4, <2>1, <2>2 DEF HandlerStep
  <1>5. ASSUME NEW r \in Requests, Response(r) \/ Cancel(r) PROVE CountedAt(e)'
    <2>1. probing'[e] \subseteq probing[e]
      BY <1>1, <1>5 DEF Response, Respond, Cancel, Finish
    <2>2. circuits'[e] \in {circuits[e], AfterSuccess(circuits[e]), AfterFailure(circuits[e])}
      BY <1>1, <1>5 DEF Response, Respond, Cancel, RecordSuccess, RecordFailure
    <2>3. QED
      BY <1>3, <2>1, <2>2
  <1>6. ASSUME NEW d \in Endpoints, PipelineAsks(d) PROVE CountedAt(e)'
    <2>1. /\ Allow(d)
          /\ \/ ~Admits(circuits[d]) /\ probing' = probing
             \/ Admits(circuits[d]) /\ circuits[d].state # "Open" /\ probing' = probing
             \/ /\ Admits(circuits[d]) /\ circuits[d].state = "Open"
                /\ probing' = [probing EXCEPT ![d] = {}]
      BY <1>6 DEF PipelineAsks
    <2>2. QED
      BY <2>1, CountedAllow
  <1>7. ASSUME NEW r \in Requests, Arrive(r) PROVE CountedAt(e)'
    BY <1>1, <1>7 DEF Arrive, CountedAt
  <1>8. ASSUME NEW d \in Endpoints, HealthChanges(d) \/ ListingChanges(d) PROVE CountedAt(e)'
    BY <1>1, <1>8 DEF HealthChanges, ListingChanges, CountedAt
  <1>9. CASE Tick
    BY <1>3, <1>9 DEF Tick, BreakerTick
  <1>10. CASE UNCHANGED vars
    BY <1>1, <1>10 DEF vars, CountedAt
  <1>11. QED
    BY <1>4, <1>5, <1>6, <1>7, <1>8, <1>9, <1>10 DEF Next

\* The invariant holds at the start and is kept.
LEMMA ProxyInit == Init => ProxyInv
  <1> SUFFICES ASSUME Init PROVE ProxyInv
    OBVIOUS
  <1>1. BreakerInv
    BY BreakerInitInv DEF Init
  <1>2. ProxyTypes
    BY IdleRequestType DEF Init, ProxyTypes
  <1>3. Selected
    BY IdleRequestType DEF Init, Selected
  <1>4. ProbesCounted
    BY FS_EmptySet DEF Init, ProbesCounted, CountedAt, BreakerInit, DefaultCircuit
  <1>5. QED
    BY <1>1, <1>2, <1>3, <1>4 DEF ProxyInv

LEMMA ProxyStep == ProxyInv /\ [Next]_vars => ProxyInv'
  <1> SUFFICES ASSUME ProxyInv, [Next]_vars PROVE ProxyInv'
    OBVIOUS
  <1>1. BreakerInv'
    BY ProxyUsesBreaker, BreakerInvStep DEF ProxyInv
  <1>2. QED
    BY <1>1, ProxyTypesStep, ProbesStep DEF ProxyInv

\* Types of the proxy and targets of its requests, for any endpoints, requests
\* and configuration.
THEOREM ProxyTyping == Spec => []TypeOK
  <1>1. ProxyInv => TypeOK
    BY ProxyTypeParts DEF ProxyInv, BreakerInv
  <1>2. QED
    BY <1>1, ProxyInit, ProxyStep, PTL DEF Spec

\* Whatever requests and pipeline interleave, cancellations and late outcomes
\* included: the requests that probe an endpoint are no more than
\* half_open_max_calls.
THEOREM ProbesAreFew == Spec => []ProbeTrafficBounded
  <1>1. ProxyInv => ProbeTrafficBounded
    <2> SUFFICES ASSUME ProxyInv, NEW e \in Endpoints, circuits[e].state = "HalfOpen"
                 PROVE  Cardinality(probing[e]) <= AtLeastOne(HalfOpenMaxCalls)
      BY DEF ProbeTrafficBounded
    <2>1. /\ circuits[e].half_open_calls \in 1..AtLeastOne(HalfOpenMaxCalls)
          /\ IsFiniteSet(probing[e])
          /\ Cardinality(probing[e]) <= circuits[e].half_open_calls
      BY DEF ProxyInv, BreakerInv, ProbesBounded, ProbesCounted, CountedAt
    <2>2. Cardinality(probing[e]) \in Nat /\ AtLeastOne(HalfOpenMaxCalls) \in Nat
      BY <2>1, FS_CardinalityType, BreakerAssumption DEF AtLeastOne
    <2>3. QED
      BY <2>1, <2>2
  <1>2. QED
    BY <1>1, ProxyInit, ProxyStep, PTL DEF Spec

\* The breaker the proxy shares with the pipeline keeps its promise there:
\* no order of requests makes a circuit move otherwise.
THEOREM ProxyKeepsBreaker == Spec => ImplementsBreaker
  <1>1. Init => Abstract!BreakerInit
    BY DEF Init, BreakerInit, DefaultCircuit, Phase, Abstract!BreakerInit
  <1>2. ProxyInv /\ [Next]_vars => [Abstract!BreakerNext]_Phase
    BY ProxyUsesBreaker, BreakerStepRefines DEF ProxyInv, BreakerInv
  <1>3. QED
    BY <1>1, <1>2, ProxyInit, ProxyStep, PTL DEF Spec, ImplementsBreaker, Abstract!BreakerSpec

\* An admission ends the open period of a circuit, so while it lasts nobody
\* becomes a candidate.
LEMMA StaysOpenAdmitsNone ==
    ASSUME ProxyInv, [Next]_vars, NEW e \in Endpoints, NEW r \in Requests,
           circuits[e].state = "Open", circuits'[e].state = "Open",
           e \in request'[r].candidates
    PROVE  e \in request[r].candidates
  <1>1. circuits[e] \in EndpointCircuit
    BY DEF ProxyInv, BreakerInv, BreakerTypeOK
  <1>2. ~Admitted(e)
    BY <1>1, AllowCounts DEF Admitted
  <1>3. CASE UNCHANGED request
    BY <1>3
  <1>4. ASSUME NEW x \in Requests, Arrive(x) \/ HandlerStep(x) \/ Response(x) \/ Cancel(x)
        PROVE  e \in request[r].candidates
    <2>1. PICK s \in RequestType :
             /\ RequestBecomes(x, s)
             /\ \A d \in s.candidates : d \in request[x].candidates \/ Admitted(d)
      BY <1>4, HandlerEffect
    <2>2. request' = [request EXCEPT ![x] = s] /\ request \in [Requests -> RequestType]
      BY <2>1 DEF RequestBecomes, ProxyInv, ProxyTypes
    <2>3. CASE r = x
      BY <1>2, <2>1, <2>2, <2>3
    <2>4. CASE r # x
      BY <2>2, <2>4
    <2>5. QED
      BY <2>3, <2>4
  <1>5. QED
    BY <1>3, <1>4 DEF Next, vars, PipelineAsks, HealthChanges, ListingChanges, Tick

\* For any requests, endpoints and configuration, whatever the probes, the
\* discovery and the pipeline do meanwhile: while a circuit stays open, the
\* requests that may go to its endpoint only get fewer.
THEOREM OpenCutsOff == Spec => OpenTrafficDrains
  <1>1. ProxyInv /\ [Next]_vars =>
          [\A e \in Endpoints : circuits[e].state = "Open" /\ circuits'[e].state = "Open" =>
             \A r \in Requests : e \in request'[r].candidates => e \in request[r].candidates]_vars
    BY StaysOpenAdmitsNone
  <1>2. QED
    BY <1>1, ProxyInit, ProxyStep, PTL DEF Spec, OpenTrafficDrains
=============================================================================
