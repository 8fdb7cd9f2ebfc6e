\* Two endpoints; failures wraps at 4, soon after the threshold of 2.
CONSTANTS
    e1 = e1
    e2 = e2
    Endpoints <- TwoEndpoints
    FailureThreshold = 2
    RecoveryTimeout = 2
    HalfOpenMaxCalls = 2
    CounterSize = 4
SPECIFICATION BreakerSpec
INVARIANTS BreakerTypeOK ClosedBelowThreshold ProbesBounded
PROPERTIES ImplementsBreaker
