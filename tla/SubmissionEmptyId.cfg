CONSTANTS
    c1 = c1
    c2 = c2
    i1 = i1
    p1 = p1
    p2 = p2
    Empty = Empty
    Ids <- OneId
    Clients <- OneClient
    Given <- IdOrEmpty
    Parties <- OneParty
    Patient <- OneClient
    MaxCalls = 1
SPECIFICATION Spec
CHECK_DEADLOCK FALSE
INVARIANTS TimeoutMeansNotCompleted
