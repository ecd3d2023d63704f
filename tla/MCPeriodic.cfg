CONSTANTS
    None = None
    Workers = {w1, w2}
    MaxAttempts = 2
    Lease = 2
    MaxBackoff = 1
    MaxDelay = 2
    MaxLag = 0
    Period = 2
    LastSlot = 3
    Jobs <- Slots
SPECIFICATION PeriodicSpec
SYMMETRY Symmetry
INVARIANTS
    DoneHasSuccessor
    OneSweepAhead
CHECK_DEADLOCK FALSE
