SPECIFICATION LiveSpec

CONSTANTS
    Replicas = {r1}
    Free = Free
    r1 = r1
    NumTasks = 2
    ConnectLimit = 0
    DefaultLimit = 1
    DayLen = 3
    WStart = 1
    WEnd = 2
    Retries = 2
    MaxFaults = 1
    DeliveryCap = 2
    Overrun = FALSE
    Patch = TRUE

INVARIANTS
    NoDoubleInvite
PROPERTIES
    StatusForward
    ImplementsLedger
    EveryTaskIsHandled
