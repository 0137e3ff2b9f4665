CONSTANTS
    w1 = w1
    Amounts <- SmallAmounts
    Workers <- OneWorker
    Admin = "party"
    ListLimit = 2
    ChunkLimit = 2
    MaxContracts = 4
    MaxUpdates = 4
SPECIFICATION FairSpec
INVARIANTS HoldingsInv InputsCover
PROPERTIES InsufficientIsTrue ListingsEnd
