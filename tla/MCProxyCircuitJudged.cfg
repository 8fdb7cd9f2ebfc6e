\* Two endpoints, no plumber rules, one request at a time.
CONSTANTS
    e1 = e1
    e2 = e2
    r1 = r1
    r2 = r2
    Unsteady <- NoEndpoints
    Cancels = FALSE
    NoTarget = NoTarget
    Endpoints <- TwoEndpoints
    PipelineEndpoints <- NoEndpoints
    Requests <- OneRequest
    FailureThreshold = 1
    RecoveryTimeout = 1
    HalfOpenMaxCalls = 1
    CounterSize = 2
SPECIFICATION FairSpec
PROPERTIES HalfOpenIsJudged
