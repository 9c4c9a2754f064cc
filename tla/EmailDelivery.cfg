CONSTANTS
    j1 = j1  j2 = j2
    w1 = w1  w2 = w2
    a1 = a1
    n1 = n1
    Jobs = {j1, j2}
    Workers = {w1, w2}
    Addresses = {a1}
    Notices = {n1}
    Bounces = {n1}
    To <- MCTo
    About <- MCAbout
    None = None
    DAILY_EMAIL_CAP = 1
    RetryLimit = 1
    MaxDay = 2
SPECIFICATION Spec
SYMMETRY Alike
INVARIANTS
    TypeOK
    DeliveredOnce
    CapHolds
    BouncedIsNeverMailed
CHECK_DEADLOCK FALSE
