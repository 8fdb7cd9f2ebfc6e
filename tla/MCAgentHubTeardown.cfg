\* One agent with two overlapping connections, one message.
CONSTANTS
    a1 = a1
    c1 = c1
    c2 = c2
    m1 = m1
    NoOne = NoOne
    Agents <- OneAgent
    Channels <- TwoChannels
    AgentOf <- OneAgentOf
    Messages <- OneMessage
    Sources <- TwoSources
    MaxAge = 1
    StaleAfter = 0
SPECIFICATION Spec
PROPERTY TeardownSparesSuccessor
