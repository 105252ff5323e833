SPECIFICATION MCSpec
CONSTANTS
    adm = adm
    m = m
    b1 = b1
    b2 = b2
    Account = {adm, m}
    ConfigAdmin = adm
    Browser = {b1, b2}
    Nobody = Nobody
    MaxId = 2
    MaxCallbacks = 1
    MaxSessions = 3
    s1 = s1
    s2 = s2
    r1 = r1
    r2 = r2
    Secret = {s1, s2}
    Request = {r1, r2}
    MaxEpoch = 2
    Player = {b1, b2}
    MaxPending = 2
    Ttl = 2
    MaxIssued = 3
    MaxNow = 3
    Author = {m}
    Spell = {s1}
    k1 = k1
    k2 = k2
    Key = {k1, k2}
    Limit = 2
    Window = 3
    Second = 2
    MaxTime = 6
    MaxHits = 4
SYMMETRY MCSymmetry
CHECK_DEADLOCK FALSE
INVARIANTS
    WindowBound
    RetryHonest
    ClosedOut
    OwnRows
    TokensHonest
    LatestPasses
PROPERTIES
    AuthorKeeps
    ImplementsWindow
