CONSTANTS
    None = None
    Jobs = {j1, j2}
    Workers = {w1, w2}
    MaxAttempts = 2
    Lease = 2
    MaxBackoff = 1
    MaxDelay = 1
    MaxLag = 0
SPECIFICATION FairSpec
PROPERTIES
    EveryJobSettles
CHECK_DEADLOCK FALSE
