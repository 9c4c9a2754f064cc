\* Two webhook requests at once over one payment and an intent that is not ours,
\* two events, and the retries of the provider.
SPECIFICATION FairSpec
CONSTANTS
    i1 = i1
    o1 = o1
    u1 = u1
    Intents = {i1, o1}
    OutOfBand = {o1}
    Users = {u1}
    Owner <- MCOwner
    EventIds = {e1, e2}
    Handlers = {h1, h2}
    NoEvent = NoEvent
    MaxTime = 2
    MaxAborts = 1
INVARIANTS
    TypeOK
    SettledHasCharge
    PostedOnce
    ClaimWithEffects
    SuccessAccountedFor
    BooksAreTrue
PROPERTIES
    FollowsLifecycle
    SettlementReachesJournal
CHECK_DEADLOCK FALSE
