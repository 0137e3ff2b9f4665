CONSTANTS
    w1 = w1
    p1 = p1
    p2 = p2
    Workers <- OneWorker
    Parties <- TwoParties
    Lookups = 3
    MaxFaults = 3
    MaxSets = 2
    MaxGrants = 3
SPECIFICATION PollingFairSpec
INVARIANTS PollingTypeOK GrantedOnce RightIsFound
PROPERTIES PollingEnds
