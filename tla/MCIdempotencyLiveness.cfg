CONSTANTS
    None = None
    Purge = Purge
    Requests = {n1, n2, n3}
    Sessions = {s1, s2}
    Scopes = {confirm, read}
    Locking = {confirm}
    Guarded = {confirm}
    Bodies = {b1}
    MaxVersion = 1
SPECIFICATION FairSpec
PROPERTIES
    EveryRequestEnds
CHECK_DEADLOCK FALSE
