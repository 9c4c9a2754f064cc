\* Two requests at once, two payments of 2, two keys.
SPECIFICATION Spec
CONSTANTS
    RestOfIt = RestOfIt
    Payments = {p1, p2}
    Headers = {k1, k2}
    Requests = {r1, r2}
    Captured = 2
    Ceiling = 1
    Asks <- MCAsks
    Rest = RestOfIt
    NoRefund = NoRefund
    MaxLost = 1
SYMMETRY Symmetry
INVARIANTS
    TypeOK
    RowsMatchProvider
    RepliesAreTrue
    AnsweredIsRecorded
CHECK_DEADLOCK FALSE
