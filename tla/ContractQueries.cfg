CONSTANTS
    NumTemplates = 2
    Contracts <- ThreeContracts
    Readable <- OneContract
    Room = 1
    Pairs <- TwoPairs
    Environments <- HalfEnvironment
    MaxChanges = 1
    Nil = Nil
SPECIFICATION FairSpec
CHECK_DEADLOCK FALSE
INVARIANTS TypeOK CompleteUnlessFailed PickedContractFits
PROPERTIES QueriesReturn
