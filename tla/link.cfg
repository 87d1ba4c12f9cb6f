SPECIFICATION LiveSpec

CONSTANTS
    MaxAttempts = 2
    MaxIntents = 3
    MaxFaults = 2

INVARIANTS
    TypeOK
    NoPasswordLeft
    PromptIsLive
PROPERTIES
    DoneIsFinal
    StaleTaskIsHarmless
    LinkEnds

CHECK_DEADLOCK FALSE
