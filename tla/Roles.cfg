\* Two requests that make or link accounts, and two to the admin routes.
CONSTANTS
    u1 = u1
    u2 = u2
    e1 = e1
    noreply = noreply
    i1 = i1
    h1 = h1
    h2 = h2
    a1 = a1
    a2 = a2
    t1 = t1
    None = None
    Users = {u1, u2}
    Emails = {e1}
    Identities = {i1}
    Address <- MCAddress
    Synthetic <- MCSynthetic
    Handlers = {h1, h2}
    Links = {t1}
    MaxFlows = 1
    RoleNames = {"admin"}
    AdminRequests = {a1, a2}
    ADMIN_EMAIL = e1

SPECIFICATION Spec
SYMMETRY Alike
INVARIANTS
    TypeOK
    WayIn
    IdentityOwnsAddress

CHECK_DEADLOCK FALSE
