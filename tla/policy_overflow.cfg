SPECIFICATION Spec
CONSTANTS
    Garbage = Garbage
    ChainIds = {c1, c2}
    Addresses = {a1}
    Values = {2, 3}
    MaxU128 = 4
    MaxSingleTxValue = 4
    MaxValuePerWindow = 4
    Window = 1
    TimelockThreshold = 4
    TimelockDelay = 1
    UnguardedSigning = TRUE
    ClockStepsBack = FALSE
    Restarts = FALSE
    MaxClock = 2
    MaxApprovals = 3
SYMMETRY Symmetry
INVARIANTS
    OverflowIsOver
CHECK_DEADLOCK FALSE
