SPECIFICATION Spec

CONSTANTS
    Pollers = {p1, p2}
    p1 = p1
    p2 = p2
    Tasks = {t1, t2}
    t1 = t1
    t2 = t2
    Free = Free
    Null = Null
    Templates = 1
    ChatErrors = TRUE
    Overrun = FALSE
    MaxFaults = 1
    Operator = {"campaign"}

SYMMETRY Symmetry

INVARIANTS
    TypeOK
    MessagesRecorded
