SPECIFICATION MCSpec
CONSTANTS
    alice = alice
    root = root
    r1 = r1
    r2 = r2
    User = {alice, root}
    Admin = {root}
    Req = {r1, r2}
    UserOf <- MCUserOf
    Cost = {2}
    Estimate = 2
    Batch = 1
    UserLimit = 3
    WclLimit = 5
    PointsFloor = 1
    MaxCharge = 4
    Hour = 2
    Truncation = 1
    StartCounter = {0}
    MaxTime = 3
    MaxServed = 4
    MaxLost = 1
    MaxRestarts = 1
    Diver = {m1, m2}
    Spell = {"wall", "bubble"}
    Potion = "potion"
    Fight <- MCFight
    Listing <- MCListing
    ToolCooldown = 4
    Reaction = 1
    MaxPages = 2
    MaxDives = 2
    MaxEdits = 1
INVARIANTS
    NoOvercharge
    QuotaOverrun
    FloorOverrun
    AnalysisHonest
CHECK_DEADLOCK FALSE
