CONSTANTS
    NumTemplates = 1
    Contracts <- OneContract
    Readable <- OneContract
    Room = 1
    Pairs <- OneContract
    Environments <- EmptyEnvironment
    MaxChanges = 0
    Nil = Nil
SPECIFICATION Spec
CHECK_DEADLOCK FALSE
INVARIANTS MissingDelegationIsReported
