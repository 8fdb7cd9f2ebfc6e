------------------------------ MODULE Breaker ------------------------------
(***************************************************************************)
(* What a circuit breaker promises, for src/circuit.rs: an endpoint is     *)
(* cut off (Open) by failures, after a while a limited number of calls may *)
(* probe it (HalfOpen), and it is trusted again (Closed) only from there.  *)
(***************************************************************************)
CONSTANT Endpoints

VARIABLE phase      \* phase[e] : "Closed", "Open" or "HalfOpen"

BreakerInit == phase = [e \in Endpoints |-> "Closed"]

Move(e, from, to) ==
    /\ phase[e] = from
    /\ phase' = [phase EXCEPT ![e] = to]

Trip(e)    == Move(e, "Closed", "Open")
Probe(e)   == Move(e, "Open", "HalfOpen")
Reopen(e)  == Move(e, "HalfOpen", "Open")
Recover(e) == Move(e, "HalfOpen", "Closed")

BreakerNext == \E e \in Endpoints : Trip(e) \/ Probe(e) \/ Reopen(e) \/ Recover(e)

BreakerSpec == BreakerInit /\ [][BreakerNext]_phase
=============================================================================
