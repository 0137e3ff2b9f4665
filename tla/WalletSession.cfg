CONSTANTS
    a1 = a1
    a2 = a2
    p1 = p1
    p2 = p2
    s1 = s1
    Nil = Nil
    Apps <- TwoApps
    Parties <- TwoParties
    Syncs <- OneSync
SPECIFICATION Spec
CHECK_DEADLOCK FALSE
SYMMETRY Symmetry
INVARIANTS SessionInv SetPartyIDReachesHolders PreparedAsOneParty NeverPanics
