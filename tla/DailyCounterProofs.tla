------------------------- MODULE DailyCounterProofs -------------------------
(***************************************************************************)
(* Proofs about DailyCounter, for any sets of sessions and any limit.      *)
(***************************************************************************)
EXTENDS DailyCounter, TLAPS

\* Whose insert is uncommitted counts on a row that is not there yet; every
\* other session that counts has the committed value of its column.
RowIsOurs ==
    /\ holder # Nobody => ~exists /\ stage[holder] = "counted"
    /\ \A a \in Actors :
          stage[a] = "counted" => /\ known[a] = count[a]
                                  /\ exists \/ holder = a
    /\ ~exists => \A a \in Actors : count[a] = 0

\* A session has effects pending exactly from the first one on.
PendingInside == \A a \in Actors : added[a] = 0 <=> stage[a] \in {"idle", "open"}

\* The check of the limit still holds when the executor sends, since nobody
\* else writes its column.
WithinLimit ==
    \A a \in Limited : /\ count[a] + added[a] <= Limit
                       /\ stage[a] = "open" => count[a] < Limit

\* A session that met the unique key left a committed row behind, and none
\* that waits to insert has met it before.
ConflictOnce ==
    \A a \in Actors :
        /\ conflicts[a] <= 1
        /\ conflicts[a] = 1 => exists
        /\ stage[a] = "insert" => conflicts[a] = 0

IInv ==
    /\ TypeOK
    /\ RowIsOurs
    /\ PendingInside
    /\ CountsCommitted
    /\ WithinLimit
    /\ ConflictOnce

-----------------------------------------------------------------------------
LEMMA InitHolds == Init => IInv
<1> SUFFICES ASSUME Init PROVE IInv
    OBVIOUS
<1> USE CounterAssumption
<1>1. TypeOK
    <2>1. added \in [Actors -> Nat]
        BY DEF Init
    <2>2. ASSUME NEW a \in Actors \ Long
          PROVE  added[a] <= 1
        <3>1. added[a] = 0
            BY DEF Init
        <3> QED BY <3>1
    <2>3. faults \in 0 .. MaxFaults
        BY DEF Init
    <2> QED BY <2>1, <2>2, <2>3 DEF Init, TypeOK, Stages
<1>2. RowIsOurs /\ PendingInside
    BY DEF Init, RowIsOurs, PendingInside
<1>3. CountsCommitted /\ WithinLimit
    BY DEF Init, CountsCommitted, WithinLimit
<1>4. ConflictOnce
    <2> SUFFICES ASSUME NEW a \in Actors
                 PROVE  /\ conflicts[a] <= 1
                        /\ conflicts[a] = 1 => exists
                        /\ stage[a] = "insert" => conflicts[a] = 0
        BY DEF ConflictOnce
    <2>1. conflicts[a] = 0
        BY DEF Init
    <2> QED BY <2>1
<1> QED BY <1>1, <1>2, <1>3, <1>4 DEF IInv

LEMMA TypeKept == IInv /\ [Next]_vars => TypeOK'
<1> SUFFICES ASSUME IInv, [Next]_vars
             PROVE  TypeOK'
    OBVIOUS
<1> USE CounterAssumption
<1>1. CASE UNCHANGED vars
    BY <1>1 DEF IInv, TypeOK, vars, rowVars, ghostVars
<1>2. ASSUME NEW a \in Actors, Step(a)
      PROVE  TypeOK'
    <2> USE DEF IInv, TypeOK, Stages
    <2>1. CASE Begin(a)
        BY <2>1 DEF Begin, rowVars, ghostVars
    <2>2. CASE Send(a)
        <3>1. added' \in [Actors -> Nat] /\ sent' \in [Actors -> Nat]
            BY <2>2 DEF Send
        <3>2. \A b \in Actors \ Long : added'[b] <= 1
            BY <2>2 DEF Send, MaySend
        <3>3. stage' \in [Actors -> Stages] /\ known' \in [Actors -> Nat]
            BY <2>2 DEF Send
        <3> QED BY <2>2, <3>1, <3>2, <3>3 DEF Send, rowVars, ghostVars
    <2>8. CASE Unanswered(a)
        BY <2>8 DEF Unanswered, rowVars, ghostVars
    <2>3. CASE Insert(a)
        BY <2>3 DEF Insert, rowVars, ghostVars
    <2>4. CASE Conflict(a)
        BY <2>4 DEF Conflict, Rollback, rowVars
    <2>5. CASE TimeOut(a)
        BY <2>5 DEF TimeOut, Rollback, rowVars, ghostVars
    <2>6. CASE Commit(a)
        BY <2>6 DEF Commit, Written, ghostVars
    <2>7. CASE Fail(a)
        BY <2>7 DEF Fail, Rollback, rowVars
    <2> QED BY <1>2, <2>1, <2>2, <2>3, <2>4, <2>5, <2>6, <2>7, <2>8 DEF Step
<1> QED BY <1>1, <1>2 DEF Next

LEMMA RowKept == IInv /\ [Next]_vars => (RowIsOurs /\ PendingInside)'
<1> SUFFICES ASSUME IInv, [Next]_vars
             PROVE  (RowIsOurs /\ PendingInside)'
    OBVIOUS
<1> USE CounterAssumption DEF RowIsOurs, PendingInside
<1>1. CASE UNCHANGED vars
    BY <1>1 DEF IInv, TypeOK, vars, rowVars, ghostVars
<1>2. ASSUME NEW a \in Actors, Step(a)
      PROVE  (RowIsOurs /\ PendingInside)'
    <2> USE DEF IInv, TypeOK, Stages
    <2>1. CASE Begin(a)
        BY <2>1 DEF Begin, rowVars
    <2>2. CASE Send(a)
        BY <2>2 DEF Send, Found, rowVars
    <2>6. CASE Unanswered(a)
        BY <2>6 DEF Unanswered, rowVars
    <2>3. CASE Insert(a)
        BY <2>3 DEF Insert, rowVars
    <2>4. CASE Rollback(a)
        BY <2>4 DEF Rollback, rowVars
    <2>5. CASE Commit(a)
        BY <2>5 DEF Commit, Written
    <2> QED BY <1>2, <2>1, <2>2, <2>3, <2>4, <2>5, <2>6 DEF Step, Conflict, TimeOut, Fail
<1> QED BY <1>1, <1>2 DEF Next

LEMMA CountKept == IInv /\ [Next]_vars => CountsCommitted'
<1> SUFFICES ASSUME IInv, [Next]_vars, NEW b \in Actors
             PROVE  (sent[b] = count[b] + added[b] + lost[b] + unanswered[b])'
    BY DEF CountsCommitted
<1> USE CounterAssumption DEF IInv, TypeOK, CountsCommitted
<1>1. CASE UNCHANGED vars
    BY <1>1 DEF vars, rowVars
<1>2. ASSUME NEW a \in Actors, Step(a)
      PROVE  (sent[b] = count[b] + added[b] + lost[b] + unanswered[b])'
    <2>1. CASE Begin(a) \/ Insert(a)
        BY <2>1 DEF Begin, Insert, rowVars
    <2>2. CASE Send(a)
        BY <2>2 DEF Send, rowVars
    <2>5. CASE Unanswered(a)
        BY <2>5 DEF Unanswered, rowVars
    <2>3. CASE Rollback(a)
        BY <2>3 DEF Rollback, rowVars
    <2>4. CASE Commit(a)
        BY <2>4 DEF Commit, Written, RowIsOurs, PendingInside
    <2> QED BY <1>2, <2>1, <2>2, <2>3, <2>4, <2>5 DEF Step, Conflict, TimeOut, Fail
<1> QED BY <1>1, <1>2 DEF Next

LEMMA LimitKept == IInv /\ [Next]_vars => WithinLimit'
<1> SUFFICES ASSUME IInv, [Next]_vars, NEW b \in Limited
             PROVE  (/\ count[b] + added[b] <= Limit
                     /\ stage[b] = "open" => count[b] < Limit)'
    BY DEF WithinLimit
<1> USE CounterAssumption DEF IInv, TypeOK, WithinLimit
<1>1. b \in Actors /\ b \notin Long
    OBVIOUS
<1>2. CASE UNCHANGED vars
    BY <1>2 DEF vars, rowVars
<1>3. ASSUME NEW a \in Actors, Step(a)
      PROVE  (/\ count[b] + added[b] <= Limit
              /\ stage[b] = "open" => count[b] < Limit)'
    <2>1. CASE Begin(a)
        BY <1>1, <2>1 DEF Begin, BelowLimit, rowVars
    <2>2. CASE Send(a)
        BY <1>1, <2>2 DEF Send, MaySend, PendingInside, RowIsOurs, rowVars
    <2>6. CASE Unanswered(a)
        BY <1>1, <2>6 DEF Unanswered, rowVars
    <2>3. CASE Insert(a)
        BY <1>1, <2>3 DEF Insert, rowVars
    <2>4. CASE Rollback(a)
        BY <1>1, <2>4 DEF Rollback, rowVars
    <2>5. CASE Commit(a)
        BY <1>1, <2>5 DEF Commit, Written, RowIsOurs
    <2> QED BY <1>3, <2>1, <2>2, <2>3, <2>4, <2>5, <2>6 DEF Step, Conflict, TimeOut, Fail
<1> QED BY <1>2, <1>3 DEF Next

LEMMA ConflictKept == IInv /\ [Next]_vars => ConflictOnce'
<1> SUFFICES ASSUME IInv, [Next]_vars
             PROVE  ConflictOnce'
    OBVIOUS
<1> USE CounterAssumption DEF ConflictOnce
<1>1. CASE UNCHANGED vars
    BY <1>1 DEF IInv, vars, rowVars, ghostVars
<1>2. ASSUME NEW a \in Actors, Step(a)
      PROVE  ConflictOnce'
    <2> USE DEF IInv, TypeOK
    <2>1. CASE Begin(a)
        BY <2>1 DEF Begin, rowVars, ghostVars
    <2>2. CASE Send(a)
        BY <2>2 DEF Send, Found, rowVars, ghostVars
    <2>8. CASE Unanswered(a)
        BY <2>8 DEF Unanswered, rowVars, ghostVars
    <2>3. CASE Insert(a)
        BY <2>3 DEF Insert, rowVars, ghostVars
    <2>4. CASE Conflict(a)
        BY <2>4 DEF Conflict, Rollback, rowVars
    <2>5. CASE TimeOut(a)
        BY <2>5 DEF TimeOut, Rollback, rowVars, ghostVars
    <2>6. CASE Commit(a)
        BY <2>6 DEF Commit, ghostVars
    <2>7. CASE Fail(a)
        BY <2>7 DEF Fail, Rollback, rowVars
    <2> QED BY <1>2, <2>1, <2>2, <2>3, <2>4, <2>5, <2>6, <2>7, <2>8 DEF Step
<1> QED BY <1>1, <1>2 DEF Next

LEMMA Inductive == Spec => []IInv
<1>1. IInv /\ [Next]_vars => IInv'
    BY TypeKept, RowKept, CountKept, LimitKept, ConflictKept DEF IInv
<1> QED BY InitHolds, <1>1, PTL DEF Spec

-----------------------------------------------------------------------------
\* The row and the sessions keep their types, and an executor's section sends
\* at most one invitation (_send_one_invite).
THEOREM TypeCorrect == Spec => []TypeOK
<1>1. IInv => TypeOK
    BY DEF IInv
<1> QED BY <1>1, Inductive, PTL

\* Sessions that do not exclude each other lose no increment: each column is
\* written by one kind of session (counter_service.py), from a value that is
\* still the committed one.
THEOREM NoIncrementLost == Spec => []CountsCommitted
<1>1. IInv => CountsCommitted
    BY DEF IInv
<1> QED BY <1>1, Inductive, PTL

\* The executor's check of the limit, made in another step than its count,
\* bounds what Unipile delivers by the limit, what rollbacks made it forget and
\* what Unipile took without an answer (_send_one_invite, _request).
THEOREM LimitHolds == Spec => []LimitOrLoss
<1>1. IInv => LimitOrLoss
    <2> SUFFICES ASSUME IInv, NEW a \in Limited
                 PROVE  sent[a] <= Limit + lost[a] + unanswered[a]
        BY DEF LimitOrLoss
    <2>1. a \in Actors
        BY CounterAssumption
    <2> QED BY <2>1, CounterAssumption DEF IInv, TypeOK, CountsCommitted, WithinLimit
<1> QED BY <1>1, Inductive, PTL

\* get_counter meets the unique key of the row at most once a day in each kind
\* of session.
THEOREM ConflictsBounded == Spec => []OneConflictADay
<1>1. IInv => OneConflictADay
    BY DEF IInv, ConflictOnce, OneConflictADay
<1> QED BY <1>1, Inductive, PTL
=============================================================================
