SPECIFICATION Spec
CONSTANTS
    alice = alice
    root = root
    r1 = r1
    r2 = r2
    User = {alice, root}
    Admin = {root}
    Req = {r1, r2}
    UserOf <- MCUserOf
    Cost = {2}
    Estimate = 2
    Batch = 1
    UserLimit = 20
    WclLimit = 20
    PointsFloor = 1
    MaxCharge = 10
    Hour = 2
    Truncation = 0
    StartCounter = {1}
    MaxTime = 3
    MaxServed = 3
    MaxLost = 0
    MaxRestarts = 0
INVARIANTS
    LateSameWindowFree
CHECK_DEADLOCK FALSE
