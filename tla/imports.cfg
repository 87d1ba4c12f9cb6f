SPECIFICATION LiveSpec

CONSTANTS
    Imports = {i1, i2}
    i1 = i1
    i2 = i2
    Limit = 2
    NumPeople = 3
    Others = {1}
    Anonymous = {3}
    MaxFaults = 2

INVARIANTS
    TypeOK
    CapWhenAlone
    CountIsTrue
PROPERTIES
    NobodyIsLost
    ImportEnds

CHECK_DEADLOCK FALSE
