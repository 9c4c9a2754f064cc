\* Two webhook requests for one payment at once.
SPECIFICATION Spec
CONSTANTS
    i1 = i1
    o1 = o1
    u1 = u1
    Intents = {i1}
    OutOfBand = {}
    Users = {u1}
    Owner <- MCOwner
    EventIds = {e1, e2, e3}
    Handlers = {h1, h2}
    NoEvent = NoEvent
    MaxTime = 2
    MaxAborts = 1
SYMMETRY Symmetry
PROPERTIES
    TerminalNeverMoves
CHECK_DEADLOCK FALSE
