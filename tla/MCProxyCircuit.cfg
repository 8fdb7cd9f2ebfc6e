\* Two endpoints, one of them also reached by plumber rules, the other one
\* unsteady; two requests.
CONSTANTS
    e1 = e1
    e2 = e2
    r1 = r1
    r2 = r2
    Unsteady <- TheOther
    Cancels = TRUE
    NoTarget = NoTarget
    Endpoints <- TwoEndpoints
    PipelineEndpoints <- OneEndpoint
    Requests <- TwoRequests
    FailureThreshold = 1
    RecoveryTimeout = 1
    HalfOpenMaxCalls = 1
    CounterSize = 2
SPECIFICATION FairSpec
INVARIANTS TypeOK ProbeTrafficBounded
PROPERTIES OpenTrafficDrains OpenBecomesDue
