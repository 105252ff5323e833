SPECIFICATION MCSpec
CONSTANTS
    u1 = u1
    u2 = u2
    w1 = w1
    l1 = l1
    l2 = l2
    l3 = l3
    User <- MCUser
    Member = u1
    Who <- MCWho
    Level <- MCLevel
    NoLevel = NoLevel
    MaxRows = 2
    Ttl = 1
    MaxTime = 2
    MaxSeq = 3
    MaxReads = 1
SYMMETRY LevelSymmetry
INVARIANTS
    AliasTabs
    OneFetchForAll
    SummaryOfPayload
PROPERTIES
    SharedIsFresh
    ImplementsHistory
CHECK_DEADLOCK FALSE
