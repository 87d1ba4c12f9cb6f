--------------------------- MODULE DispatchProofs ---------------------------
(***************************************************************************)
(* Proofs about the dispatcher of one account.                             *)
(***************************************************************************)
EXTENDS Dispatch, TLAPS

-----------------------------------------------------------------------------
(***************************************************************************)
(* Type correctness.                                                       *)
(***************************************************************************)

LEMMA ConstantTypes ==
    /\ Tasks \subseteq Nat /\ 1 \in Tasks
    /\ Limit \in Nat \ {0}
    /\ NoSlot \in Slots /\ Overdue \in Slots
    /\ NoSlot = DayLen /\ Overdue = -1 /\ DayLen \in Nat \ {0, 1}
    /\ 0 .. DayLen - 1 \subseteq Slots
    /\ WStart \in Nat /\ WEnd \in 0 .. DayLen - 1
BY DispatchAssumption DEF Tasks, Limit, Slots, NoSlot, Overdue

\* The slots a plan assigns are slots.
LEMMA PlanTypes ==
    ASSUME NEW p \in Plans
    PROVE  p \in [Tasks -> Slots]
<1>1. {h \in WStart .. WEnd - 1 : h >= hour} \cup {NoSlot} \subseteq Slots
  BY ConstantTypes, DispatchAssumption DEF Slots
<1> QED
  BY <1>1 DEF Plans

LEMMA DeliverTypes ==
    ASSUME TypeOK, NEW t \in Tasks, Deliver(t)
    PROVE  delivered' \in [Tasks -> 0 .. DeliveryCap] /\ sentToday' \in Nat
BY DispatchAssumption DEF TypeOK, Deliver

LEMMA TypeStep == TypeOK /\ [Next]_vars => TypeOK'
<1> SUFFICES ASSUME TypeOK, [Next]_vars PROVE TypeOK'
  OBVIOUS
<1> USE DispatchAssumption DEF TypeOK, taskVars, acctVars, clockVars,
        planVars, execVars, ghostVars, Statuses, Stages, Outcomes
<1>1. ASSUME NEW t \in Tasks, AddTarget(t) PROVE TypeOK'
  BY <1>1 DEF AddTarget
<1>3. ASSUME PatchAccount PROVE TypeOK'
  BY <1>3 DEF PatchAccount
<1>4. ASSUME NEW r \in Replicas, PlanRead(r) PROVE TypeOK'
  BY <1>4, PlanTypes DEF PlanRead
<1>5. ASSUME NEW r \in Replicas, PlanCommit(r) PROVE TypeOK'
  BY <1>5, ConstantTypes DEF PlanCommit
<1>6. ASSUME NEW r \in Replicas, Acquire(r) PROVE TypeOK'
  BY <1>6 DEF Acquire, Goto
<1>7. ASSUME NEW r \in Replicas, NEW t \in Tasks, PickTask(r, t) PROVE TypeOK'
  BY <1>7 DEF PickTask, Goto
<1>8. ASSUME NEW r \in Replicas, PickNothing(r) \/ FetchProfile(r) \/ SendRefused(r)
      PROVE  TypeOK'
  BY <1>8 DEF PickNothing, FetchProfile, SendRefused, Goto
<1>9. ASSUME NEW r \in Replicas, SendOk(r) PROVE TypeOK'
  BY <1>9, DeliverTypes DEF SendOk, Goto
<1>10. ASSUME NEW r \in Replicas, NextAttempt(r)
       PROVE  stage' \in [Replicas -> Stages] /\ eatt' \in [Replicas -> 1 .. Retries]
  <2>1. CASE AttemptsLeft(r)
    <3>1. eatt[r] + 1 \in 1 .. Retries
      BY <2>1 DEF AttemptsLeft
    <3> QED
      BY <1>10, <2>1, <3>1 DEF NextAttempt
  <2>2. CASE ~AttemptsLeft(r)
    BY <1>10, <2>2 DEF NextAttempt, Goto
  <2> QED
    BY <2>1, <2>2
<1>11. ASSUME NEW r \in Replicas, LostRequest(r) PROVE TypeOK'
  BY <1>10, <1>11 DEF LostRequest
<1>12. ASSUME NEW r \in Replicas, LostReply(r) PROVE TypeOK'
  BY <1>10, <1>12, DeliverTypes DEF LostReply, Fault
<1>13. ASSUME NEW r \in Replicas, Commit(r) PROVE TypeOK'
  <2>1. ASSUME NEW s \in Outcomes, NEW old \in Statuses PROVE StatusAfter(s, old) \in Statuses
    BY <2>1 DEF StatusAfter
  <2>2. ASSUME NEW s \in Outcomes, NEW old \in Slots PROVE SlotAfter(s, old) \in Slots
    BY <2>2, ConstantTypes DEF SlotAfter
  <2>3. status' \in [Tasks -> Statuses] /\ slot' \in [Tasks -> Slots]
    BY <1>13, <2>1, <2>2 DEF Commit
  <2>4. counter' \in Nat
    BY <1>13 DEF Commit, Counted
  <2> QED
    BY <1>13, <2>3, <2>4 DEF Commit, Goto
<1>14. ASSUME NEW r \in Replicas, CommitFails(r) PROVE TypeOK'
  BY <1>14 DEF CommitFails, Fault, Goto
<1>15. ASSUME NEW r \in Replicas, Release(r) PROVE TypeOK'
  BY <1>15 DEF Release, Goto
<1>16. ASSUME ExpireKey PROVE TypeOK'
  BY <1>16 DEF ExpireKey
<1>17. ASSUME NEW r \in Replicas, Crash(r) PROVE TypeOK'
  BY <1>17, ConstantTypes DEF Crash, Fault, Goto
<1>18. ASSUME AdvanceHour PROVE TypeOK'
  BY <1>18 DEF AdvanceHour
<1>19. ASSUME Midnight PROVE TypeOK'
  <2>1. ASSUME NEW s \in Slots PROVE Aged(s) \in Slots
    BY ConstantTypes DEF Aged
  <2>2. slot' \in [Tasks -> Slots] /\ pslot' \in [Replicas -> [Tasks -> Slots]]
    BY <1>19, <2>1 DEF Midnight
  <2>3. draft' \in [Replicas -> {"none", "today", "earlier"}]
    BY <1>19 DEF Midnight
  <2>4. hour' \in 0 .. DayLen - 1
    BY <1>19, ConstantTypes DEF Midnight
  <2> QED
    BY <1>19, <2>2, <2>3, <2>4 DEF Midnight
<1>20. ASSUME UNCHANGED vars PROVE TypeOK'
  BY <1>20 DEF vars
<1> QED
  BY <1>1, <1>3, <1>4, <1>5, <1>6, <1>7, <1>8, <1>9, <1>11, <1>12, <1>13,
     <1>14, <1>15, <1>16, <1>17, <1>18, <1>19, <1>20 DEF Next, Executor

\* Types: every variable stays in its domain; in particular no attempt is made
\* beyond the client's retries, and no slot lies outside the day.
THEOREM TypeCorrect == Spec => []TypeOK
<1>1. ASSUME Init PROVE TypeOK
  <2> USE <1>1, ConstantTypes, DispatchAssumption DEF Init
  <2>1. status \in [Tasks -> Statuses] /\ slot \in [Tasks -> Slots]
    BY DEF Statuses
  <2>2. hour \in 0 .. DayLen - 1 /\ counter \in Nat /\ sentToday \in Nat
    OBVIOUS
  <2>3. stage \in [Replicas -> Stages] /\ etask \in [Replicas -> Tasks]
    BY DEF Stages
  <2>4. eseen \in [Replicas -> Nat] /\ eatt \in [Replicas -> 1 .. Retries]
    OBVIOUS
  <2>5. delivered \in [Tasks -> 0 .. DeliveryCap] /\ faults \in 0 .. MaxFaults
    OBVIOUS
  <2>6. pslot \in [Replicas -> [Tasks -> Slots]]
    OBVIOUS
  <2> QED
    BY <2>1, <2>2, <2>3, <2>4, <2>5, <2>6 DEF TypeOK
<1> QED
  BY <1>1, TypeStep, PTL DEF Spec

-----------------------------------------------------------------------------
(***************************************************************************)
(* The daily limit, for any number of replicas.  While no section outlives *)
(* the lock, the invariant is: only the holder of the lock is in a         *)
(* section; past the check the counter is below the limit, and what a      *)
(* section is about to increment is the counter; and the counter accounts  *)
(* for every delivery of the day but the one about to be committed and     *)
(* those a fault hid.                                                      *)
(***************************************************************************)

Exclusive == \A r \in Replicas : stage[r] # "idle" => lock = r

InFlight(r) == stage[r] \in {"profile", "sending"} \cup Outcomes
CounterFresh ==
    \A r \in Replicas :
        /\ InFlight(r) => counter < Limit
        /\ stage[r] = "sent" => eseen[r] = counter

CapInv == Exclusive /\ CounterFresh /\ counter <= Limit /\ Accounting

\* In an exclusive state, the replica in a section decides what is uncommitted.
LEMMA HolderAlone ==
    ASSUME Exclusive, NEW r \in Replicas, stage[r] # "idle"
    PROVE  /\ lock = r
           /\ \A q \in Replicas : q # r => stage[q] = "idle"
           /\ Uncommitted = IF stage[r] = "sent" THEN 1 ELSE 0
BY DEF Exclusive, Uncommitted

\* A replica moving inside its section keeps the others out.
LEMMA MoveExclusive ==
    ASSUME TypeOK, Exclusive, UNCHANGED lock, NEW r \in Replicas, stage[r] # "idle",
           NEW s, Goto(r, s)
    PROVE  /\ Exclusive'
           /\ stage'[r] = s /\ \A q \in Replicas : q # r => stage'[q] = "idle"
           /\ Uncommitted' = IF s = "sent" THEN 1 ELSE 0
<1>1. lock = r /\ \A q \in Replicas : q # r => stage[q] = "idle"
  BY HolderAlone
<1>2. stage'[r] = s /\ \A q \in Replicas : q # r => stage'[q] = "idle"
  BY <1>1 DEF TypeOK, Goto
<1> QED
  BY <1>1, <1>2 DEF Exclusive, Uncommitted

LEMMA CapStep ==
    ASSUME Overrun = FALSE, TypeOK, TypeOK', CapInv, [Next]_vars
    PROVE  CapInv'
<1> USE DEF CapInv
<1>t. /\ counter \in Nat /\ counter' \in Nat /\ sentToday \in Nat /\ sentToday' \in Nat
      /\ faults \in Nat /\ faults' \in Nat /\ Limit \in Nat /\ Uncommitted \in {0, 1}
  BY ConstantTypes, DispatchAssumption DEF TypeOK, Uncommitted
<1>1. ASSUME UNCHANGED <<stage, lock, eseen, counter, sentToday, faults>> PROVE CapInv'
  BY <1>1 DEF Exclusive, CounterFresh, InFlight, Accounting, Uncommitted
\* Actions that do not touch the lock, the sections or the counter.
<1>2. CASE \/ \E t \in Tasks : AddTarget(t)
           \/ PatchAccount \/ \E r \in Replicas : PlanRead(r) \/ PlanCommit(r)
           \/ AdvanceHour \/ UNCHANGED vars
  BY <1>1, <1>2 DEF AddTarget, PatchAccount, PlanRead, PlanCommit, AdvanceHour, vars, acctVars, execVars, ghostVars
<1>3. ASSUME NEW r \in Replicas, Acquire(r) PROVE CapInv'
  <2>1. \A q \in Replicas : stage[q] = "idle"
    BY <1>3, DispatchAssumption DEF Acquire, LockIsFree, Exclusive
  <2>2. \A q \in Replicas : stage'[q] = IF q = r THEN "locked" ELSE "idle"
    BY <1>3, <2>1 DEF Acquire, Goto, TypeOK
  <2>3. Exclusive' /\ CounterFresh' /\ Uncommitted' = 0 /\ Uncommitted = 0
    BY <1>3, <2>1, <2>2 DEF Acquire, Exclusive, CounterFresh, InFlight, Outcomes, Uncommitted
  <2> QED
    BY <1>3, <2>3 DEF Acquire, Accounting, acctVars, ghostVars
<1>4. ASSUME NEW r \in Replicas, NEW t \in Tasks, PickTask(r, t) PROVE CapInv'
  <2>1. Exclusive' /\ Uncommitted' = 0 /\ Uncommitted = 0
        /\ stage'[r] = "profile" /\ \A q \in Replicas : q # r => stage'[q] = "idle"
    BY <1>4, HolderAlone, MoveExclusive DEF PickTask
  <2>2. counter < Limit /\ counter' = counter
    BY <1>4 DEF PickTask, MaySend, BelowLimit, TypeOK, acctVars
  <2>3. CounterFresh'
    BY <2>1, <2>2 DEF CounterFresh, InFlight, Outcomes
  <2> QED
    BY <1>4, <2>1, <2>2, <2>3 DEF PickTask, Accounting, ghostVars
\* Moves inside a section that deliver nothing and do not reach "sent".
<1>5. ASSUME NEW r \in Replicas, NEW s \in {"done", "failed", "accepted", "sending", "retry"},
             stage[r] \notin {"idle", "sent"}, Goto(r, s), s # "done" => InFlight(r),
             UNCHANGED <<lock, eseen, counter, sentToday, faults>>
      PROVE  CapInv'
  <2>1. Exclusive' /\ Uncommitted' = 0 /\ Uncommitted = 0
        /\ stage'[r] = s /\ \A q \in Replicas : q # r => stage'[q] = "idle"
    BY <1>5, HolderAlone, MoveExclusive
  <2>2. CounterFresh'
    BY <1>5, <2>1 DEF CounterFresh, InFlight, Outcomes
  <2> QED
    BY <1>5, <2>1, <2>2 DEF Accounting
<1>6. ASSUME NEW r \in Replicas, PickNothing(r) PROVE CapInv'
  BY <1>5, <1>6 DEF PickNothing, acctVars, ghostVars
<1>7. ASSUME NEW r \in Replicas, FetchProfile(r) \/ SendRefused(r) PROVE CapInv'
  BY <1>5, <1>7 DEF FetchProfile, SendRefused, InFlight, acctVars, ghostVars
<1>8. ASSUME NEW r \in Replicas, LostRequest(r) PROVE CapInv'
  <2>1. CASE UNCHANGED stage
    BY <1>1, <1>8, <2>1 DEF LostRequest, acctVars, ghostVars
  <2>2. CASE Goto(r, "retry")
    BY <1>5, <1>8, <2>2 DEF LostRequest, InFlight, acctVars, ghostVars
  <2> QED
    BY <1>8, <2>1, <2>2 DEF LostRequest, NextAttempt
<1>9. ASSUME NEW r \in Replicas, SendOk(r) PROVE CapInv'
  <2>1. Exclusive' /\ Uncommitted' = 1 /\ Uncommitted = 0
        /\ \A q \in Replicas : q # r => stage'[q] = "idle"
    BY <1>9, HolderAlone, MoveExclusive DEF SendOk
  <2>2. CounterFresh'
    BY <1>9, <2>1 DEF SendOk, CounterFresh, InFlight, Outcomes, acctVars, TypeOK
  <2> QED
    BY <1>9, <1>t, <2>1, <2>2 DEF SendOk, Deliver, Accounting, acctVars
<1>10. ASSUME NEW r \in Replicas, LostReply(r) PROVE CapInv'
  <2>1. Uncommitted = 0 /\ sentToday' = sentToday + 1 /\ faults' = faults + 1
        /\ UNCHANGED <<lock, eseen, counter>>
    BY <1>10, HolderAlone DEF LostReply, Deliver, Fault, acctVars
  <2>2. Exclusive' /\ CounterFresh' /\ Uncommitted' = 0
    <3>1. CASE UNCHANGED stage
      BY <2>1, <3>1 DEF Exclusive, CounterFresh, InFlight, Uncommitted
    <3>2. CASE Goto(r, "retry")
      <4>1. Exclusive' /\ Uncommitted' = 0
            /\ stage'[r] = "retry" /\ \A q \in Replicas : q # r => stage'[q] = "idle"
        BY <1>10, <2>1, <3>2, MoveExclusive DEF LostReply
      <4> QED
        BY <1>10, <2>1, <4>1 DEF LostReply, CounterFresh, InFlight, Outcomes
    <3> QED
      BY <1>10, <3>1, <3>2 DEF LostReply, NextAttempt
  <2> QED
    BY <1>t, <2>1, <2>2 DEF Accounting
<1>11. ASSUME NEW r \in Replicas, Commit(r) PROVE CapInv'
  <2>1. Exclusive' /\ Uncommitted' = 0 /\ stage'[r] = "done"
        /\ \A q \in Replicas : q # r => stage'[q] = "idle"
    BY <1>11, MoveExclusive DEF Commit, Outcomes
  <2>2. CounterFresh'
    BY <2>1 DEF CounterFresh, InFlight, Outcomes
  <2>3. counter < Limit
    BY <1>11 DEF Commit, CounterFresh, InFlight
  <2>4. CASE stage[r] = "sent"
    <3>1. counter' = counter + 1 /\ Uncommitted = 1
      BY <1>11, <2>4, HolderAlone DEF Commit, Counted, CounterFresh
    <3> QED
      BY <1>11, <1>t, <2>1, <2>2, <2>3, <3>1 DEF Commit, Accounting, ghostVars
  <2>5. CASE stage[r] # "sent"
    <3>1. counter' = counter /\ Uncommitted = 0
      BY <1>11, <2>5, HolderAlone DEF Commit, Outcomes
    <3> QED
      BY <1>11, <1>t, <2>1, <2>2, <3>1 DEF Commit, Accounting, ghostVars
  <2> QED
    BY <2>4, <2>5
<1>12. ASSUME NEW r \in Replicas, CommitFails(r) PROVE CapInv'
  <2>1. Exclusive' /\ Uncommitted' = 0 /\ stage'[r] = "done"
        /\ \A q \in Replicas : q # r => stage'[q] = "idle"
    BY <1>12, MoveExclusive DEF CommitFails, Outcomes
  <2>2. CounterFresh'
    BY <2>1 DEF CounterFresh, InFlight, Outcomes
  <2> QED
    BY <1>12, <1>t, <2>1, <2>2 DEF CommitFails, Fault, Accounting, acctVars
<1>13. ASSUME NEW r \in Replicas, Release(r) PROVE CapInv'
  <2>1. Uncommitted = 0 /\ \A q \in Replicas : stage'[q] = "idle"
    BY <1>13, HolderAlone DEF Release, Goto, TypeOK
  <2>2. Exclusive' /\ CounterFresh' /\ Uncommitted' = 0
    BY <2>1 DEF Exclusive, CounterFresh, InFlight, Outcomes, Uncommitted
  <2> QED
    BY <1>13, <2>1, <2>2 DEF Release, Accounting, acctVars, ghostVars
<1>14. ASSUME ExpireKey PROVE CapInv'
  <2>1. \A q \in Replicas : stage[q] = "idle"
    BY <1>14, DispatchAssumption DEF ExpireKey, Exclusive, TypeOK
  <2>2. \A q \in Replicas : stage'[q] = "idle"
    BY <1>14, <2>1 DEF ExpireKey, execVars
  <2>3. Exclusive' /\ CounterFresh' /\ Uncommitted = 0 /\ Uncommitted' = 0
    BY <2>1, <2>2 DEF Exclusive, CounterFresh, InFlight, Outcomes, Uncommitted
  <2> QED
    BY <1>14, <2>3 DEF ExpireKey, Accounting, acctVars, ghostVars
<1>15. ASSUME NEW r \in Replicas, Crash(r) PROVE CapInv'
  <2>1. CASE stage[r] = "idle"
    <3>1. stage' = stage
      BY <1>15, <2>1 DEF Crash, Goto, TypeOK
    <3> QED
      BY <1>15, <1>t, <3>1 DEF Crash, Fault, Exclusive, CounterFresh, InFlight, Accounting,
            Uncommitted, acctVars
  <2>2. CASE stage[r] # "idle"
    <3>1. Exclusive' /\ Uncommitted' = 0 /\ \A q \in Replicas : stage'[q] = "idle"
      BY <1>15, <2>2, MoveExclusive DEF Crash
    <3>2. CounterFresh'
      BY <3>1 DEF CounterFresh, InFlight, Outcomes
    <3> QED
      BY <1>15, <1>t, <3>1, <3>2 DEF Crash, Fault, Accounting, acctVars
  <2> QED
    BY <2>1, <2>2
<1>16. ASSUME Midnight PROVE CapInv'
  <2>1. UNCHANGED <<lock, stage, eseen, faults>> /\ counter' = 0 /\ sentToday' = 0
    BY <1>16 DEF Midnight, execVars
  <2>2. Exclusive' /\ (Uncommitted' = 0 \/ Uncommitted' = 1)
    BY <2>1 DEF Exclusive, Uncommitted
  <2>3. CounterFresh'
    BY <1>16, <2>1 DEF Midnight, NoneInFlight, CounterFresh, InFlight, Outcomes
  <2>4. Accounting' /\ counter' <= Limit
    BY <1>t, <2>1, <2>2 DEF Accounting
  <2> QED
    BY <2>2, <2>3, <2>4
<1> QED
  BY <1>2, <1>3, <1>4, <1>6, <1>7, <1>8, <1>9, <1>10, <1>11, <1>12, <1>13, <1>14,
     <1>15, <1>16 DEF Next, Executor

LEMMA CapInvariant ==
    ASSUME Overrun = FALSE
    PROVE  Spec => [](TypeOK /\ CapInv)
<1>1. Init => CapInv
  BY ConstantTypes DEF Init, CapInv, Exclusive, CounterFresh, InFlight, Outcomes,
        Accounting, Uncommitted
<1>2. TypeOK /\ TypeOK' /\ CapInv /\ [Next]_vars => CapInv'
  BY CapStep
<1> QED
  BY <1>1, <1>2, TypeCorrect, PTL DEF Spec

\* The counter the limit is checked against misses only the delivery about to
\* be committed and what a fault hid, however many replicas send.
THEOREM CounterAccounts ==
    ASSUME Overrun = FALSE
    PROVE  Spec => []Accounting
BY CapInvariant, PTL DEF CapInv

\* README.md:71, "never exceeding the daily limit": with any number of
\* replicas and tasks, any limit, window and interleaving, as long as no
\* section outlives the lock, faults aside.
THEOREM DailyCapHolds ==
    ASSUME Overrun = FALSE
    PROVE  Spec => []DailyCap
<1>1. TypeOK /\ CapInv => DailyCap
  <2> SUFFICES ASSUME TypeOK, CapInv PROVE DailyCap
    OBVIOUS
  <2>1. /\ counter \in Nat /\ sentToday \in Nat /\ faults \in Nat /\ Limit \in Nat
        /\ counter <= Limit /\ Accounting
    BY ConstantTypes, DispatchAssumption DEF TypeOK, CapInv
  <2>2. CASE \E r \in Replicas : stage[r] = "sent"
    <3>1. counter < Limit /\ Uncommitted = 1
      BY <2>2 DEF CapInv, CounterFresh, InFlight, Outcomes, Uncommitted
    <3> QED
      BY <2>1, <3>1 DEF Accounting, DailyCap
  <2>3. CASE ~\E r \in Replicas : stage[r] = "sent"
    BY <2>1, <2>3 DEF Accounting, DailyCap, Uncommitted
  <2> QED
    BY <2>2, <2>3
<1> QED
  BY <1>1, CapInvariant, PTL

-----------------------------------------------------------------------------
(***************************************************************************)
(* One replica.  The planner thread and the executor thread of a process   *)
(* work on disjoint tasks: a plan holds pending tasks only, and the        *)
(* section's task is scheduled until its commit.  So a delivery that no    *)
(* fault hid is either about to be committed or recorded as invite_sent.   *)
(* None of this needs the lock, and none of it survives a second replica   *)
(* (run planner_race).                                                     *)
(***************************************************************************)

PlanHoldsPending ==
    \A r \in Replicas, t \in Tasks : pslot[r][t] # NoSlot => status[t] = "pending"
SectionHoldsScheduled ==
    \A r \in Replicas : InFlight(r) => status[etask[r]] = "scheduled"

\* Whether a delivery to t is recorded, or about to be.
Recorded(t) ==
    \/ status[t] = "invite_sent"
    \/ \E r \in Replicas : stage[r] = "sent" /\ etask[r] = t
DeliveriesRecorded ==
    \A t \in Tasks : delivered[t] <= faults + IF Recorded(t) THEN 1 ELSE 0

OneInv == PlanHoldsPending /\ SectionHoldsScheduled /\ DeliveriesRecorded

\* A plan takes pending tasks.
LEMMA PlanTakesPending ==
    ASSUME NEW p \in Plans, NEW t \in Tasks, p[t] # NoSlot
    PROVE  status[t] = "pending"
BY DEF Plans, Batch, Plannable

LEMMA OneStep ==
    ASSUME NEW r \in Replicas, Replicas = {r}, TypeOK, TypeOK', OneInv, [Next]_vars
    PROVE  OneInv'
<1> USE DEF OneInv
<1>t. /\ faults \in Nat /\ faults' \in Nat
      /\ \A t \in Tasks : delivered[t] \in Nat /\ delivered'[t] \in Nat
      /\ etask[r] \in Tasks
  BY DispatchAssumption DEF TypeOK
<1>1. ASSUME UNCHANGED <<status, pslot, stage, etask, delivered, faults>> PROVE OneInv'
  BY <1>1 DEF PlanHoldsPending, SectionHoldsScheduled, DeliveriesRecorded, InFlight, Recorded
<1>2. CASE PatchAccount \/ ExpireKey \/ AdvanceHour \/ UNCHANGED vars
  BY <1>1, <1>2 DEF PatchAccount, ExpireKey, AdvanceHour, vars, taskVars, planVars, execVars, ghostVars
<1>3. ASSUME NEW t \in Tasks, AddTarget(t) PROVE OneInv'
  <2>1. UNCHANGED <<pslot, stage, etask, delivered, faults>>
    BY <1>3 DEF AddTarget, planVars, execVars, ghostVars
  <2>2. \A u \in Tasks : status'[u] = IF u = t THEN "pending" ELSE status[u]
    BY <1>3 DEF AddTarget, TypeOK
  <2>3. status[t] = "none"
    BY <1>3 DEF AddTarget
  <2>4. PlanHoldsPending'
    BY <2>1, <2>2 DEF PlanHoldsPending
  <2>5. SectionHoldsScheduled'
    BY <2>1, <2>2, <2>3, <1>t DEF SectionHoldsScheduled, InFlight
  <2>6. DeliveriesRecorded'
    BY <2>1, <2>2, <2>3 DEF DeliveriesRecorded, Recorded
  <2> QED
    BY <2>4, <2>5, <2>6
<1>4. ASSUME PlanRead(r) PROVE OneInv'
  <2>1. UNCHANGED <<status, stage, etask, delivered, faults>>
    BY <1>4 DEF PlanRead, taskVars, execVars, ghostVars
  <2>2. PICK p \in Plans : pslot' = [pslot EXCEPT ![r] = p]
    BY <1>4 DEF PlanRead
  <2>3. PlanHoldsPending'
    BY <2>1, <2>2, PlanTakesPending DEF PlanHoldsPending, TypeOK
  <2>4. SectionHoldsScheduled' /\ DeliveriesRecorded'
    BY <2>1 DEF SectionHoldsScheduled, DeliveriesRecorded, InFlight, Recorded
  <2> QED
    BY <2>3, <2>4
<1>5. ASSUME PlanCommit(r) PROVE OneInv'
  <2>1. UNCHANGED <<stage, etask, delivered, faults>>
    BY <1>5 DEF PlanCommit, execVars, ghostVars
  <2>2. \A t \in Tasks : status'[t] = IF status[t] = "pending" /\ pslot[r][t] # NoSlot
                                      THEN "scheduled" ELSE status[t]
    BY <1>5 DEF PlanCommit, PlanHoldsPending
  <2>3. PlanHoldsPending'
    BY <1>5 DEF PlanCommit, PlanHoldsPending, TypeOK
  <2>4. SectionHoldsScheduled'
    BY <2>1, <2>2, <1>t DEF SectionHoldsScheduled, InFlight
  <2>5. DeliveriesRecorded'
    BY <2>1, <2>2 DEF DeliveriesRecorded, Recorded
  <2> QED
    BY <2>3, <2>4, <2>5
\* Moves inside the section, none from or to "sent".
<1>6. ASSUME NEW s \in Stages, s # "sent", stage[r] # "sent", Goto(r, s),
             s \in {"sending"} \cup Outcomes => InFlight(r),
             s \notin {"profile"},
             UNCHANGED <<status, pslot, etask, delivered, faults>>
      PROVE  OneInv'
  <2>1. stage'[r] = s
    BY <1>6 DEF Goto, TypeOK
  <2> QED
    BY <1>6, <2>1 DEF PlanHoldsPending, SectionHoldsScheduled, DeliveriesRecorded,
          InFlight, Recorded
<1>7. ASSUME Acquire(r) \/ PickNothing(r) \/ FetchProfile(r) \/ SendRefused(r) \/ Release(r)
      PROVE  OneInv'
  <2>1. UNCHANGED <<status, pslot, etask, delivered, faults>>
    BY <1>7 DEF Acquire, PickNothing, FetchProfile, SendRefused, Release,
          taskVars, planVars, ghostVars
  <2> QED
    BY <1>6, <1>7, <2>1 DEF Acquire, PickNothing, FetchProfile, SendRefused, Release,
          Stages, Outcomes, InFlight
<1>8. ASSUME NEW t \in Tasks, PickTask(r, t) PROVE OneInv'
  <2>1. /\ UNCHANGED <<status, pslot, delivered, faults>>
        /\ stage[r] = "locked" /\ stage'[r] = "profile"
        /\ etask'[r] = t /\ status[t] = "scheduled"
    BY <1>8 DEF PickTask, Goto, Due, TypeOK, taskVars, planVars, ghostVars
  <2> QED
    BY <2>1 DEF PlanHoldsPending, SectionHoldsScheduled, DeliveriesRecorded, InFlight, Recorded
<1>9. ASSUME LostRequest(r) PROVE OneInv'
  <2>1. UNCHANGED <<status, pslot, etask, delivered, faults>> /\ stage[r] = "sending"
    BY <1>9 DEF LostRequest, taskVars, planVars, ghostVars
  <2>2. CASE UNCHANGED stage
    BY <1>1, <2>1, <2>2
  <2>3. CASE Goto(r, "retry")
    BY <1>6, <2>1, <2>3 DEF Stages, Outcomes, InFlight
  <2> QED
    BY <1>9, <2>2, <2>3 DEF LostRequest, NextAttempt
<1>10. ASSUME SendOk(r) PROVE OneInv'
  <2>1. /\ UNCHANGED <<status, pslot, etask, faults>>
        /\ stage[r] = "sending" /\ stage'[r] = "sent"
    BY <1>10 DEF SendOk, Goto, TypeOK, taskVars, planVars
  <2>2. \A t \in Tasks : delivered'[t] <= delivered[t] + IF t = etask[r] THEN 1 ELSE 0
    BY <1>10, <1>t, DispatchAssumption DEF SendOk, Deliver, TypeOK
  <2>3. status[etask[r]] = "scheduled"
    BY <2>1 DEF SectionHoldsScheduled, InFlight
  <2>4. PlanHoldsPending' /\ SectionHoldsScheduled'
    BY <2>1, <2>3 DEF PlanHoldsPending, SectionHoldsScheduled
  <2>5. DeliveriesRecorded'
    <3>1. ~Recorded(etask[r]) /\ Recorded(etask[r])'
      BY <2>1, <2>3 DEF Recorded
    <3>2. ASSUME NEW t \in Tasks, t # etask[r] PROVE Recorded(t)' <=> Recorded(t)
      BY <2>1, <3>2 DEF Recorded
    <3> QED
      BY <1>t, <2>1, <2>2, <3>1, <3>2 DEF DeliveriesRecorded
  <2> QED
    BY <2>4, <2>5
<1>11. ASSUME LostReply(r) PROVE OneInv'
  <2>1. /\ UNCHANGED <<status, pslot, etask>> /\ faults' = faults + 1
        /\ stage[r] = "sending" /\ stage'[r] \in {"sending", "retry"}
    BY <1>11 DEF LostReply, Fault, NextAttempt, Goto, TypeOK, taskVars, planVars
  <2>2. \A t \in Tasks : delivered'[t] <= delivered[t] + 1
    BY <1>11, <1>t, DispatchAssumption DEF LostReply, Deliver, TypeOK
  <2>3. PlanHoldsPending' /\ SectionHoldsScheduled'
    BY <2>1 DEF PlanHoldsPending, SectionHoldsScheduled, InFlight
  <2>4. \A t \in Tasks : Recorded(t)' <=> Recorded(t)
    BY <2>1 DEF Recorded
  <2>5. DeliveriesRecorded'
    BY <1>t, <2>1, <2>2, <2>4 DEF DeliveriesRecorded
  <2> QED
    BY <2>3, <2>5
<1>12. ASSUME Commit(r) PROVE OneInv'
  <2> DEFINE t == etask[r]
  <2>1. /\ UNCHANGED <<pslot, etask, delivered, faults>>
        /\ stage[r] \in Outcomes /\ stage'[r] = "done"
        /\ status[t] = "scheduled"
    BY <1>12 DEF Commit, Goto, TypeOK, planVars, ghostVars, SectionHoldsScheduled, InFlight
  <2>2. \A u \in Tasks : status'[u] = IF u = t THEN StatusAfter(stage[r], "scheduled")
                                                ELSE status[u]
    BY <1>12, <2>1 DEF Commit, TypeOK
  <2>3. PlanHoldsPending' /\ SectionHoldsScheduled'
    BY <2>1, <2>2 DEF PlanHoldsPending, SectionHoldsScheduled, InFlight, Outcomes
  <2>4. stage[r] = "sent" => status'[t] = "invite_sent"
    BY <1>t, <2>2 DEF StatusAfter
  <2>5. \A u \in Tasks : Recorded(u) => Recorded(u)'
    BY <2>1, <2>2, <2>4 DEF Recorded
  <2>6. DeliveriesRecorded'
    BY <1>t, <2>1, <2>5 DEF DeliveriesRecorded
  <2> QED
    BY <2>3, <2>6
<1>13. ASSUME CommitFails(r) \/ Crash(r) PROVE OneInv'
  <2>1. /\ UNCHANGED <<status, etask, delivered>> /\ faults' = faults + 1
        /\ stage'[r] \in {"idle", "done"}
        /\ \A t \in Tasks : pslot'[r][t] = pslot[r][t] \/ pslot'[r][t] = NoSlot
    BY <1>13 DEF CommitFails, Crash, Fault, Goto, TypeOK, taskVars, planVars
  <2>2. PlanHoldsPending' /\ SectionHoldsScheduled'
    BY <2>1 DEF PlanHoldsPending, SectionHoldsScheduled, InFlight, Outcomes
  <2>3. DeliveriesRecorded'
    BY <1>t, <2>1 DEF DeliveriesRecorded, Recorded
  <2> QED
    BY <2>2, <2>3
<1>14. ASSUME Midnight PROVE OneInv'
  <2>1. UNCHANGED <<status, stage, etask, delivered, faults>>
    BY <1>14 DEF Midnight, execVars
  <2>2. \A t \in Tasks : pslot'[r][t] # NoSlot => pslot[r][t] # NoSlot
    BY <1>14 DEF Midnight, Aged
  <2>3. PlanHoldsPending'
    BY <2>1, <2>2 DEF PlanHoldsPending
  <2>4. SectionHoldsScheduled' /\ DeliveriesRecorded'
    BY <2>1 DEF SectionHoldsScheduled, DeliveriesRecorded, InFlight, Recorded
  <2> QED
    BY <2>3, <2>4
<1> QED
  BY <1>2, <1>3, <1>4, <1>5, <1>7, <1>8, <1>9, <1>10, <1>11, <1>12, <1>13, <1>14
     DEF Next, Executor

LEMMA OneInvariant ==
    ASSUME NEW r \in Replicas, Replicas = {r}
    PROVE  Spec => [](TypeOK /\ OneInv)
<1>1. Init => OneInv
  BY DispatchAssumption DEF Init, OneInv, PlanHoldsPending, SectionHoldsScheduled,
        DeliveriesRecorded, InFlight, Outcomes, Recorded
<1>2. TypeOK /\ TypeOK' /\ OneInv /\ [Next]_vars => OneInv'
  BY OneStep
<1> QED
  BY <1>1, <1>2, TypeCorrect, PTL DEF Spec

\* With one replica nobody is invited twice, and a task shown as failed did not
\* reach its person, faults aside: for any number of tasks, any limit and
\* window, and even when the lock expires under its holder.
THEOREM OneReplicaInvitesOnce ==
    ASSUME NEW r \in Replicas, Replicas = {r}
    PROVE  Spec => [](NoDoubleInvite /\ FailedUndelivered)
<1>1. TypeOK /\ OneInv => NoDoubleInvite /\ FailedUndelivered
  <2> SUFFICES ASSUME TypeOK, OneInv, NEW t \in Tasks
               PROVE  /\ delivered[t] <= 1 + faults
                      /\ status[t] = "failed" => delivered[t] <= faults
    BY DEF NoDoubleInvite, FailedUndelivered
  <2>1. faults \in Nat /\ delivered[t] \in Nat
    BY DispatchAssumption DEF TypeOK
  <2>2. status[t] = "failed" => ~Recorded(t)
    BY DEF OneInv, SectionHoldsScheduled, InFlight, Outcomes, Recorded
  <2>3. delivered[t] <= faults + IF Recorded(t) THEN 1 ELSE 0
    BY DEF OneInv, DeliveriesRecorded
  <2> QED
    BY <2>1, <2>2, <2>3
<1> QED
  BY <1>1, OneInvariant, PTL

\* One step of one replica never takes a status back.
LEMMA ForwardStep ==
    ASSUME NEW r \in Replicas, Replicas = {r}, TypeOK, OneInv, [Next]_vars,
           NEW t \in Tasks, status[t] # status'[t]
    PROVE  Rank(status[t]) < Rank(status'[t])
<1>1. CASE \E u \in Tasks : AddTarget(u)
  BY <1>1 DEF AddTarget, TypeOK, Rank
<1>2. CASE PlanCommit(r)
  <2>1. status[t] = "pending" /\ status'[t] = "scheduled"
    BY <1>2 DEF PlanCommit, OneInv, PlanHoldsPending
  <2> QED
    BY <2>1 DEF Rank
<1>3. CASE Commit(r)
  <2>1. status[etask[r]] = "scheduled"
    BY <1>3 DEF Commit, OneInv, SectionHoldsScheduled, InFlight
  <2>2. t = etask[r] /\ status'[t] = StatusAfter(stage[r], status[t])
    BY <1>3 DEF Commit, TypeOK
  <2>3. status'[t] \in {"invite_sent", "accepted", "failed"}
    BY <1>3, <2>1, <2>2 DEF Commit, Outcomes, StatusAfter
  <2> QED
    BY <2>1, <2>2, <2>3 DEF Rank
<1>4. ASSUME UNCHANGED status PROVE FALSE
  BY <1>4
<1> QED
  BY <1>1, <1>2, <1>3, <1>4 DEF Next, Executor, PatchAccount, PlanRead, Acquire, PickTask, PickNothing, FetchProfile, SendOk,
     SendRefused, LostRequest, LostReply, CommitFails, Release, Crash, ExpireKey,
     AdvanceHour, Midnight, vars, taskVars

\* With one replica a task's status only moves forward.
THEOREM OneReplicaMovesForward ==
    ASSUME NEW r \in Replicas, Replicas = {r}
    PROVE  Spec => StatusForward
<1>1. TypeOK /\ OneInv /\ [Next]_vars =>
        [\A t \in Tasks : status[t] # status'[t] => Rank(status[t]) < Rank(status'[t])]_vars
  BY ForwardStep
<1> QED
  BY <1>1, OneInvariant, PTL DEF Spec, StatusForward

-----------------------------------------------------------------------------
(***************************************************************************)
(* One replica whose sections fit in the lock's expiry implements the      *)
(* ledger.  (The ghost counts deliveries up to DeliveryCap, which must be  *)
(* beyond what happens for the mapping to be exact.)                       *)
(***************************************************************************)

\* A delivery is an Invite of the ledger: the task's deliveries are all
\* explained by mishaps, and the day has room.
LEMMA DeliverInvites ==
    ASSUME MaxFaults < DeliveryCap, NEW r \in Replicas, Replicas = {r},
           TypeOK, TypeOK', CapInv, OneInv, stage[r] = "sending", Deliver(etask[r]),
           faults' = faults + 1 \/ faults' = faults
    PROVE  Ledger!Invite(etask[r])
<1>t. PICK t \in Tasks : t = etask[r]
  BY DEF TypeOK
<1>1. /\ faults \in Nat /\ faults <= MaxFaults /\ faults' \in Nat /\ MaxFaults \in Nat
      /\ delivered[t] \in Nat /\ DeliveryCap \in Nat
      /\ counter \in Nat /\ Limit \in Nat /\ sentToday \in Nat
  BY ConstantTypes, DispatchAssumption DEF TypeOK
<1>2. delivered[t] <= faults
  <2>1. ~Recorded(t)
    BY <1>t DEF OneInv, SectionHoldsScheduled, InFlight, Recorded
  <2> QED
    BY <1>1, <2>1 DEF OneInv, DeliveriesRecorded
<1>3. sentToday < Limit + faults
  <2>1. Uncommitted = 0 /\ counter < Limit
    BY DEF CapInv, CounterFresh, InFlight, Uncommitted
  <2> QED
    BY <1>1, <2>1 DEF CapInv, Accounting
<1>4. delivered' = [delivered EXCEPT ![t] = @ + 1] /\ sentToday' = sentToday + 1
  <2>1. delivered[t] < DeliveryCap
    BY <1>1, <1>2
  <2> QED
    BY <1>t, <2>1 DEF Deliver
<1>5. delivered[t] <= faults' /\ sentToday < Limit + faults'
  <2>1. CASE faults' = faults
    BY <1>2, <1>3, <2>1
  <2>2. CASE faults' = faults + 1
    <3>1. sentToday < Limit + (faults + 1) /\ delivered[t] <= faults + 1
      BY <1>1, <1>2, <1>3
    <3> QED
      BY <2>2, <3>1
  <2> QED
    BY <2>1, <2>2
<1> QED
  BY <1>t, <1>4, <1>5 DEF Ledger!Invite, Ledger!Mishap

\* Every step maps to a step of the ledger or to a stutter.
LEMMA LedgerStep ==
    ASSUME MaxFaults < DeliveryCap, NEW r \in Replicas, Replicas = {r},
           TypeOK, TypeOK', CapInv, OneInv, [Next]_vars
    PROVE  [Ledger!Next]_(Ledger!vars)
<1>1. CASE SendOk(r) \/ LostReply(r)
  <2>1. /\ stage[r] = "sending" /\ Deliver(etask[r])
        /\ faults' = faults + 1 \/ faults' = faults
    BY <1>1 DEF SendOk, LostReply, Fault
  <2>2. Ledger!Invite(etask[r])
    BY <2>1, DeliverInvites
  <2> QED
    BY <2>2 DEF Ledger!Next, TypeOK
<1>2. CASE CommitFails(r) \/ Crash(r)
  BY <1>2 DEF CommitFails, Crash, Fault, Ledger!Next, Ledger!Forget, Ledger!Mishap
<1>3. CASE Midnight
  BY <1>3 DEF Midnight, Ledger!Next, Ledger!NewDay
<1>4. ASSUME UNCHANGED ghostVars PROVE UNCHANGED Ledger!vars
  BY <1>4 DEF ghostVars, Ledger!vars
<1> QED
  BY <1>1, <1>2, <1>3, <1>4 DEF Next, Executor, AddTarget, PatchAccount, PlanRead, PlanCommit, Acquire, PickTask, PickNothing,
     FetchProfile, SendRefused, LostRequest, Commit, Release, ExpireKey, AdvanceHour, vars

\* The planner, the executor, the lock, the counter and their faults, in one
\* replica, implement the two promises of the ledger.
THEOREM OneReplicaImplementsLedger ==
    ASSUME Overrun = FALSE, MaxFaults < DeliveryCap, NEW r \in Replicas, Replicas = {r}
    PROVE  Spec => ImplementsLedger
<1>1. Init => Ledger!Init
  BY DEF Init, Ledger!Init
<1>2. TypeOK /\ TypeOK' /\ CapInv /\ OneInv /\ [Next]_vars => [Ledger!Next]_(Ledger!vars)
  BY LedgerStep
<1> QED
  BY <1>1, <1>2, CapInvariant, OneInvariant, PTL DEF Spec, ImplementsLedger, Ledger!Spec
=============================================================================
