SPECIFICATION Spec

CONSTANTS
    Replicas = {r1, r2}
    Free = Free
    r1 = r1
    r2 = r2
    NumTasks = 2
    ConnectLimit = 1
    DefaultLimit = 2
    DayLen = 4
    WStart = 1
    WEnd = 3
    Retries = 2
    MaxFaults = 0
    DeliveryCap = 3
    Overrun = FALSE
    Patch = FALSE

SYMMETRY Symmetry

INVARIANTS
    NoDoubleInvite
