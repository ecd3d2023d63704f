CONSTANTS
    None = None
    Purge = Purge
    Requests = {n1, n2, n3}
    Sessions = {s1, s2}
    Scopes = {confirm, publish, message, read}
    Locking = {confirm, publish, message}
    Guarded = {confirm, publish}
    Bodies = {b1, b2}
    MaxVersion = 2
SPECIFICATION Spec
SYMMETRY Symmetry
INVARIANTS
    TypeOK
    AppliedOnce
    ReplayIsFaithful
    NoLostUpdate
CHECK_DEADLOCK FALSE
