SPECIFICATION Spec
CONSTANTS
    Garbage = Garbage
    ChainIds = {c1, c2}
    Addresses = {a1, a2}
    Values = {1, 2, 4}
    MaxU128 = 4
    MaxSingleTxValue = 3
    MaxValuePerWindow = 3
    Window = 1
    TimelockThreshold = 3
    TimelockDelay = 1
    UnguardedSigning = TRUE
    ClockStepsBack = FALSE
    Restarts = FALSE
    MaxClock = 2
    MaxApprovals = 3
SYMMETRY Symmetry
PROPERTIES
    QueuedIsReleased
CHECK_DEADLOCK FALSE
