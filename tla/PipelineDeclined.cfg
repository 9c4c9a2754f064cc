\* A card is declined, and the next one on the same form is not.
SPECIFICATION Spec
CONSTANTS
    i1 = i1
    o1 = o1
    u1 = u1
    Intents = {i1}
    OutOfBand = {}
    Users = {u1}
    Owner <- MCOwner
    EventIds = {e1, e2}
    Handlers = {h1}
    NoEvent = NoEvent
    MaxTime = 2
    MaxAborts = 1
INVARIANTS
    SettledIsCharged
CHECK_DEADLOCK FALSE
