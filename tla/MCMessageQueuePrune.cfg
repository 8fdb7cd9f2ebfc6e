\* One agent with two connections, two messages.
CONSTANTS
    a1 = a1
    a2 = a2
    c1 = c1
    c2 = c2
    m1 = m1
    m2 = m2
    NoOne = NoOne
    Agents <- OneAgent
    Channels <- TwoChannels
    AgentOf <- OneAgentOf
    Messages <- TwoMessages
    MaxAge = 1
SPECIFICATION QueueSpec
PROPERTY OnlyDeliveredOrExpired
