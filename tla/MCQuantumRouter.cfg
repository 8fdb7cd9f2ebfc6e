\* One conversation, two observations of the same endpoint, one call of route
\* at a time with one or two candidates.
CONSTANTS
    k1 = k1
    e1 = e1
    b1 = b1
    b2 = b2
    r1 = r1
    o1 = o1
    o2 = o2
    o3 = o3
    o4 = o4
    None = None
    Conversations <- OneConversation
    Endpoints <- OneEndpoint
    Observations <- TwoObservations
    ConversationOf <- AllOfOne
    EndpointOf <- SameEndpoint
    Routers <- OneRouter
    Objects <- FourObjects
    MaxAge = 0
SPECIFICATION FairSpec
INVARIANT Learned
PROPERTIES SaveHasIt NothingLeaks
