SPECIFICATION MCSpec
CONSTANTS
    Page = {1, 2}
    Candidate = {10, 11}
    Cells = 2
    Limit = 6
    Reserve = 3
    QuietReserve = 1
    Headroom = 2
    Pause = 2
    Touch = 1
    Pace = 1
    Backoff = 1
    MaxBackoff = 2
    Hour = 4
    RunTime = 3
    Day = 6
    Window = 6
    Cycle = 8
    Quiet = {4, 5}
    Target = 1
    MaxNow = 9
    MaxMember = 2
    RunKind <- MCRunKind
    TargetLevel = 16
    MaxRuns = 3
    Weight <- MCWeight
    CurveOf <- MCCurveOf
    Reference <- MCReference
    Shrinkage <- MCShrinkage
    AxisWeight <- MCAxisWeight
    GlobalCurve <- MCGlobalCurve
    LevelScale <- MCLevelScale
    Consistency <- MCConsistency
    Prepared <- MCPrepared
    MinRuns = 2
    Maybe = 30
    Invite = 80
CHECK_DEADLOCK FALSE
INVARIANTS
    OneRunDecides
