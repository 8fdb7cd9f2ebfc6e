\* Ten configurations, one message, one proxy request, three background tasks.
CONSTANTS
    e1 = e1
    e2 = e2
    t1 = t1
    t2 = t2
    m1 = m1
    c1 = c1
    p1 = p1
    p2 = p2
    p3 = p3
    p4 = p4
    bad = bad
    net = net
    Log = Log
    None = None
    Rules <- FiveRules
    Priority <- Priorities
    Destination <- DestinationsOf
    BadRules <- OneBad
    Endpoints <- TwoEndpoints
    Tools <- TwoTools
    Offers <- OfferedTools
    Messages <- OneMessage
    Matches <- MatchedRules
    ToolOf <- CalledTools
    Settings <- SomeSettings
    Calls <- OneCall
    Background <- ThreeTasks
SPECIFICATION FairSpec
INVARIANTS TypeOK RulesDecide IndexComplete ExitIsOrderly
PROPERTIES ShutdownCompletes
CHECK_DEADLOCK FALSE
