\* Two runs at once, three transactions, pages of one.
SPECIFICATION Spec
CONSTANTS
    Runners = {r1, r2}
    N = 3
    Free <- MCThird
    Direct <- MCThird
    Payouts <- MCSecond
    Differing <- MCNone
    PageSize = 1
    MaxPages = 2
    Overlap = 1
    MaxRun = 1
    MaxTime = 3
    MaxFailures = 1
SYMMETRY Symmetry
INVARIANTS
    TypeOK
    FeePostedOnce
    FeesNotOverstated
    NothingSkipped
    CleanMeansCharged
PROPERTIES
    OverflowIsFinal
