CONSTANTS
    c1 = c1
    c2 = c2
    ch1 = ch1
    ch2 = ch2
    NoToken = NoToken
    NoChan = NoChan
    Callers <- TwoCallers
    Deadlined <- OneDeadline
    Kinds <- BothKinds
    Configured <- BothKinds
    Serials <- One
    Chans <- TwoChans
SPECIFICATION FairSpec
CHECK_DEADLOCK FALSE
INVARIANTS TypeOK SingleFlight SendNeverBlocks TokensStayInTheirKind
PROPERTIES ImplementsTokenRequests RegistrationIsCleared DeadlinedCallsReturn
