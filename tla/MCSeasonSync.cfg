SPECIFICATION MCSpec
CONSTANTS
    f1 = f1
    f2 = f2
    Front = {f1, f2}
    MaxRuns = 3
    Batch = 2
    Retry = 1
    Private <- PrivateRun
    Cursed <- CursedRun
    MaxTime = 1
    MaxReloads = 1
INVARIANT PaidPerPage
PROPERTY ViewForward
PROPERTY LoopEnds
PROPERTY Reaches
