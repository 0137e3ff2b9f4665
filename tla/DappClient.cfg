CONSTANTS
    c1 = c1
    c2 = c2
    i1 = i1
    s1 = s1
    d1 = d1
    Idle = Idle
    Nobody = Nobody
    Commands <- AllCommands
    Disconnecters <- OneDisconnecter
    Events <- AllEvents
    Ids <- OneId
    Kinds <- BothKinds
    Routines <- AllRoutines
    Subscribers <- OneSubscriber
    Chans <- OneSubscriber
    Cap = 1
SPECIFICATION FairSpec
INVARIANTS ClientInv NeverPanics EventsInOrder
PROPERTIES OutcomeFollows DisconnectEndsSubscriptions OperationsEnd
