CONSTANTS
    t1 = t1
    t2 = t2
    provider = provider
    other = other
    Callers <- TwoBinaries
    Users <- TwoUsers
    UserID = provider
    OtherUser = other
    PageSize = 2
    MaxFaults = 1
    MaxLaunches = 2
    MaxStops = 1
SPECIFICATION FairSpec
CHECK_DEADLOCK FALSE
INVARIANTS SetupInv SerializedSetupsDoNotContend AdminAnswersAreTrue
PROPERTIES SetupEnds
