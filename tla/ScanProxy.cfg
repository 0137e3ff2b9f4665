CONSTANTS
    g1 = g1
    g2 = g2
    Callers <- TwoGoroutines
    Life = 2
    MaxTime = 2
    TickDuration = 1
    RoundDuration = 2
    MaxRound = 1
    Payloads <- SomePayloads
SPECIFICATION FairSpec
CHECK_DEADLOCK FALSE
INVARIANTS ScanProxyInv
PROPERTIES RoundWindows RequestsEnd
