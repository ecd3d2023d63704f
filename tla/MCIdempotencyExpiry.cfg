CONSTANTS
    None = None
    Purge = Purge
    Requests = {n1, n2}
    Sessions = {s1}
    Scopes = {message}
    Locking = {message}
    Guarded = {}
    Bodies = {b1}
    MaxVersion = 0
SPECIFICATION Spec
INVARIANTS
    CreatedOnce
CHECK_DEADLOCK FALSE
