SPECIFICATION Spec

CONSTANTS
    Workers = {w1, w2}
    Free = Free
    w1 = w1
    w2 = w2
    TTL = 10
    Calls = 2
    Retries = 3
    AttemptTime = 2
    Owned = TRUE

SYMMETRY Symmetry

INVARIANTS
    MutualExclusion
