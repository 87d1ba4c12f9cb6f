SPECIFICATION Spec
CONSTANTS
    Accounts = {a1, a2}
    People = {p1, p2}
    Blank = Blank
    NoAccount = NoAccount
    Nobody = Nobody
    Requests = {r1, r2}
    MaxBatch = 3
    MaxNew = 2
    Deletable = {a2}
    Pausable = {a1}
SYMMETRY Symmetry
INVARIANTS TypeOK OneAccount OwnerExists
PROPERTY BatchBalanced
