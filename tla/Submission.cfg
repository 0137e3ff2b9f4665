CONSTANTS
    c1 = c1
    c2 = c2
    i1 = i1
    p1 = p1
    p2 = p2
    Empty = Empty
    Ids <- OneId
    Clients <- TwoClients
    Given <- OneId
    Parties <- TwoParties
    Patient <- OneClient
    MaxCalls = 1
SPECIFICATION FairSpec
CHECK_DEADLOCK FALSE
INVARIANTS SubmissionInv TimeoutMeansNotCompleted ReportsOwnCompletion
PROPERTIES CallsReturn
