CONSTANTS
    None = None
    Jobs = {j1, j2}
    Workers = {w1, w2}
    MaxAttempts = 3
    Lease = 2
    MaxBackoff = 3
    MaxDelay = 3
    MaxLag = 1
SPECIFICATION Spec
SYMMETRY Symmetry
INVARIANTS
    TypeOK
    OneHolder
PROPERTIES
    KeepsContract
    NoEarlyTakeover
CHECK_DEADLOCK FALSE
