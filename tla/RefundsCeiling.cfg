\* Two partial refunds of one payment at once, under two keys.
SPECIFICATION Spec
CONSTANTS
    RestOfIt = RestOfIt
    Payments = {p1}
    Headers = {k1, k2}
    Requests = {r1, r2}
    Captured = 2
    Ceiling = 1
    Asks <- MCAsks
    Rest = RestOfIt
    NoRefund = NoRefund
    MaxLost = 0
INVARIANTS
    CeilingHolds
CHECK_DEADLOCK FALSE
