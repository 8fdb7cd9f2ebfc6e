\* Two agents, two connections that drain the one, none the other, two
\* messages.
CONSTANTS
    a1 = a1
    a2 = a2
    c1 = c1
    c2 = c2
    m1 = m1
    m2 = m2
    NoOne = NoOne
    Agents <- TwoAgents
    Channels <- TwoChannels
    AgentOf <- OneAgentOf
    Messages <- TwoMessages
    MaxAge = 2
SPECIFICATION QueueFairSpec
INVARIANT GuardInv
PROPERTIES KeepsOrder DrainAndRetainLoseNothing DrainReturns QueuedMessageLeaves
