SPECIFICATION Spec
CONSTANTS
    a1 = a1
    a2 = a2
    person = person
    Accounts <- MCAccounts
    People <- MCPeople
    Tasks <- MCTasks
    Blank = Blank
    MaxOpen = 2
INVARIANTS TypeOK AcceptedIsKnown ForgottenOnce
PROPERTY ConnectionIsSeen
