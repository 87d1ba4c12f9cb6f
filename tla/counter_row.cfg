SPECIFICATION Spec
CONSTANTS
    Actors = {executor, poll, import}
    Limited = {executor}
    Long = {poll}
    Remote = {executor, poll}
    Nobody = Nobody
    Limit = 2
    MaxSends = 4
    MaxFaults = 1
INVARIANTS TypeOK CountsCommitted LimitOrLoss OneConflictADay
