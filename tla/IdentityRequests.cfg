\* Logins, reset links, resets and the deletion of one account at once.
CONSTANTS
    h1 = h1
    h2 = h2
    s1 = s1
    s2 = s2
    t1 = t1
    t2 = t2
    t3 = t3
    None = None
    Handlers = {h1, h2}
    Sessions = {s1, s2}
    Tokens = {t1, t2, t3}
    MAX_FAILED_LOGINS = 2
    MaxResets = 2
    MaxDropped = 1

SPECIFICATION Spec
SYMMETRY Symmetry
INVARIANTS
    TypeOK
    ResetSpendsItsToken
    GuessesBounded
    NothingOutlivesAccount
    NewestLinkOnly
    ResetEndsSessions

CHECK_DEADLOCK FALSE
