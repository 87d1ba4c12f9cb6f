SPECIFICATION LiveSpec

CONSTANTS
    Pollers = {p1, p2}
    p1 = p1
    p2 = p2
    Tasks = {t1}
    t1 = t1
    Free = Free
    Null = Null
    Templates = 1
    ChatErrors = TRUE
    Overrun = FALSE
    MaxFaults = 1
    Operator = {"account"}

PROPERTIES
    RowsForward
    QuietOnceReplied
    AcceptedIsMessaged
    ReplyIsSeen
