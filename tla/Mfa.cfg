\* Two requests at a time, two setups and two batches of recovery codes.
CONSTANTS
    h1 = h1
    h2 = h2
    c1 = c1
    c2 = c2
    None = None
    Handlers = {h1, h2}
    Challenges = {c1, c2}
    MaxSecrets = 2
    MaxBatches = 2
    MaxNow = 2

SPECIFICATION Spec
SYMMETRY Alike
INVARIANTS
    TypeOK
    SingleUse
    OneBatch
    EnabledIsConfirmed
PROPERTIES
    MfaEndsByCode

CHECK_DEADLOCK FALSE
