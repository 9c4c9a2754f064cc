\* One runner, windows that fit in its pages.
SPECIFICATION FairSpec
CONSTANTS
    Runners = {r1}
    N = 2
    Free <- MCSecond
    Direct <- MCSecond
    Payouts <- MCNone
    Differing <- MCNone
    PageSize = 1
    MaxPages = 2
    Overlap = 1
    MaxRun = 1
    MaxTime = 3
    MaxFailures = 1
PROPERTIES
    EverySettlementReconciled
