--------------------------- MODULE CircuitBreaker ---------------------------
(***************************************************************************)
(* The circuit breaker of src/circuit.rs: one EndpointCircuit per          *)
(* endpoint. Every operation holds the DashMap entry of its endpoint from  *)
(* beginning to end, so each is one action. An endpoint that has no entry  *)
(* behaves as one with the default entry (a success finds nothing to       *)
(* reset), so all endpoints have one here.                                 *)
(***************************************************************************)
EXTENDS Naturals

CONSTANTS
    Endpoints,
    FailureThreshold,   \* failure_threshold
    RecoveryTimeout,    \* recovery_timeout, in ticks
    HalfOpenMaxCalls,   \* half_open_max_calls
    CounterSize         \* failures is a u32 that wraps (2^32 in the code)

\* The configuration accepts every value, zero included.
ASSUME BreakerAssumption ==
    /\ FailureThreshold \in Nat
    /\ RecoveryTimeout \in Nat
    /\ HalfOpenMaxCalls \in Nat
    /\ CounterSize \in Nat
    /\ FailureThreshold < CounterSize
    /\ HalfOpenMaxCalls < CounterSize
    /\ 1 < CounterSize

VARIABLE circuits   \* circuits[e]: the EndpointCircuit of e

\* last_failure is kept as the time elapsed since, which stops at
\* RecoveryTimeout; NoFailure stands for None.
NoFailure == RecoveryTimeout + 1

DefaultCircuit ==
    [state |-> "Closed", failures |-> 0, last_failure |-> NoFailure, half_open_calls |-> 0]

Counter == 0..(CounterSize - 1)
Elapsed == 0..NoFailure

EndpointCircuit ==
    [state : {"Closed", "Open", "HalfOpen"}, failures : Counter,
     last_failure : Elapsed, half_open_calls : Counter]

BreakerInit == circuits = [e \in Endpoints |-> DefaultCircuit]

-----------------------------------------------------------------------------
(* allow, record_success and record_failure                                *)

AdmitsOneMore(c) ==   \* faulty variant: `<=` for `<`
    \/ c.state = "Closed"
    \/ c.state = "Open" /\ c.last_failure = RecoveryTimeout
    \/ c.state = "HalfOpen" /\ c.half_open_calls <= HalfOpenMaxCalls

\* The verdict of allow ...
Admits(c) ==
    \/ c.state = "Closed"
    \/ c.state = "Open" /\ c.last_failure = RecoveryTimeout
    \/ c.state = "HalfOpen" /\ c.half_open_calls < HalfOpenMaxCalls

\* ... and its effect on the entry: the first probe is counted as 1.
AfterAllow(c) ==
    CASE Admits(c) /\ c.state = "Open" ->
            [c EXCEPT !.state = "HalfOpen", !.half_open_calls = 1]
      [] Admits(c) /\ c.state = "HalfOpen" ->
            [c EXCEPT !.half_open_calls = @ + 1]
      [] OTHER -> c

AfterSuccessAlways(c) ==   \* faulty variant: a late success closes an open circuit
    [c EXCEPT !.state = "Closed", !.failures = 0, !.last_failure = NoFailure]

AfterSuccessKeepsCount(c) ==   \* faulty variant: failures survives the recovery
    CASE c.state = "HalfOpen" -> [c EXCEPT !.state = "Closed", !.last_failure = NoFailure]
      [] c.state = "Closed" -> [c EXCEPT !.failures = 0]
      [] OTHER -> c

AfterSuccessForgets(c) ==   \* faulty variant: clears last_failure whatever the state
    CASE c.state = "HalfOpen" ->
            [c EXCEPT !.state = "Closed", !.failures = 0, !.last_failure = NoFailure]
      [] c.state = "Closed" -> [c EXCEPT !.failures = 0]
      [] OTHER -> [c EXCEPT !.last_failure = NoFailure]

\* A success while the circuit is open changes nothing.
AfterSuccess(c) ==
    CASE c.state = "HalfOpen" ->
            [c EXCEPT !.state = "Closed", !.failures = 0, !.last_failure = NoFailure]
      [] c.state = "Closed" -> [c EXCEPT !.failures = 0]
      [] OTHER -> c

AfterFailureUnwrapped(c) ==   \* faulty variant: takes the counter for unbounded
    [c EXCEPT !.failures = @ + 1,
              !.last_failure = 0,
              !.state = IF @ = "HalfOpen" \/ c.failures + 1 >= FailureThreshold
                        THEN "Open" ELSE @]

\* A failure always restarts the recovery timeout.
AfterFailure(c) ==
    LET failures == (c.failures + 1) % CounterSize IN
    [c EXCEPT !.failures = failures,
              !.last_failure = 0,
              !.state = IF @ = "HalfOpen" \/ failures >= FailureThreshold THEN "Open" ELSE @]

Allow(e)         == circuits' = [circuits EXCEPT ![e] = AfterAllow(@)]
RecordSuccess(e) == circuits' = [circuits EXCEPT ![e] = AfterSuccess(@)]
RecordFailure(e) == circuits' = [circuits EXCEPT ![e] = AfterFailure(@)]

\* Time passes.
Older(c) == [c EXCEPT !.last_failure = IF @ < RecoveryTimeout THEN @ + 1 ELSE @]
BreakerTick == circuits' = [e \in Endpoints |-> Older(circuits[e])]

-----------------------------------------------------------------------------
(* The breaker by itself: any caller may do anything at any time, so that  *)
(* results may come late, twice or never.                                  *)

BreakerNext ==
    \/ \E e \in Endpoints : Allow(e) \/ RecordSuccess(e) \/ RecordFailure(e)
    \/ BreakerTick

BreakerSpec == BreakerInit /\ [][BreakerNext]_circuits

-----------------------------------------------------------------------------
(* Properties *)

\* Types of EndpointCircuit.
BreakerTypeOK == circuits \in [Endpoints -> EndpointCircuit]

AtLeastOne(n) == IF n = 0 THEN 1 ELSE n

\* An endpoint is trusted only below the threshold, even when the counter of
\* failures wraps: the failure that reaches it opens the circuit at once.
ClosedBelowThreshold ==
    \A e \in Endpoints : circuits[e].state = "Closed" =>
        circuits[e].failures < AtLeastOne(FailureThreshold)

\* An open circuit knows when it may be probed: allow answers false for ever
\* when the state is Open and last_failure is None.
OpenHasDeadline ==
    \A e \in Endpoints : circuits[e].state # "Closed" =>
        circuits[e].last_failure # NoFailure

\* A half-open period admits no more probes than configured (the first one
\* is admitted even if the configuration says 0).
ProbesBounded ==
    \A e \in Endpoints : circuits[e].state = "HalfOpen" =>
        circuits[e].half_open_calls \in 1..AtLeastOne(HalfOpenMaxCalls)

\* The inductive invariant of the breaker.
BreakerInv ==
    BreakerTypeOK /\ ClosedBelowThreshold /\ OpenHasDeadline /\ ProbesBounded

Phase == [e \in Endpoints |-> circuits[e].state]

Abstract == INSTANCE Breaker WITH phase <- Phase

\* The code implements the three-state breaker of module Breaker: no late
\* success closes an open circuit, nothing opens half-way a closed one.
ImplementsBreaker == Abstract!BreakerSpec
=============================================================================
