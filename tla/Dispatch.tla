------------------------------ MODULE Dispatch ------------------------------
(***************************************************************************)
(* Sending the connection invites of one account: the planner              *)
(* (app/scheduler/planner.py), which once per local day gives pending      *)
(* tasks a slot in the working window, and the executor                    *)
(* (app/scheduler/executor.py), which sends a due task under the account   *)
(* lock.  Every worker replica runs both, in threads of their own, over    *)
(* one database and one Redis.  Accounts share nothing here, so one        *)
(* account stands for all.                                                 *)
(*                                                                         *)
(* A transaction is a read step followed by a commit step; between the two *)
(* other replicas, the operator and the clock move.  Time is an hour of    *)
(* the account's local day; slots are hours of today, or Overdue for any   *)
(* earlier day.                                                            *)
(***************************************************************************)
EXTENDS Integers, FiniteSets

CONSTANTS
    Replicas,      \* worker processes
    Free,          \* the account lock when nobody holds it
    NumTasks,      \* tasks of the account, numbered in id order
    ConnectLimit,  \* account.daily_connect_limit
    DefaultLimit,  \* settings.DEFAULT_DAILY_CONNECT_LIMIT
    DayLen,        \* hours of a day
    WStart, WEnd,  \* working_hours_start, working_hours_end
    Retries,       \* _TRANSIENT_RETRIES of the Unipile client
    MaxFaults,     \* bound: lost replies, failed commits and crashes in a run
    DeliveryCap,   \* bound: deliveries of one task are counted up to this
    Overrun,       \* whether a section may outlive the lock's expiry
    Patch          \* bound: whether the operator patches the account

ASSUME DispatchAssumption ==
    /\ Free \notin Replicas
    /\ NumTasks \in Nat \ {0}
    /\ ConnectLimit \in Nat
    /\ DefaultLimit \in Nat \ {0}
    /\ DayLen \in Nat /\ WStart \in Nat /\ WEnd \in Nat
    /\ WStart < WEnd /\ WEnd < DayLen
    /\ Retries \in Nat \ {0}
    /\ MaxFaults \in Nat
    /\ DeliveryCap \in Nat
    /\ Overrun \in BOOLEAN
    /\ Patch \in BOOLEAN

Tasks == 1 .. NumTasks

\* "account.daily_connect_limit or DEFAULT": a limit of 0 means the default.
Limit == IF ConnectLimit = 0 THEN DefaultLimit ELSE ConnectLimit

\* scheduled_at: an hour of today, an earlier day, or NULL.  NULL compares as
\* later than any hour, as it never satisfies scheduled_at <= now.
Overdue == -1
NoSlot == DayLen
Slots == Overdue .. NoSlot

Statuses == {"none", "pending", "scheduled", "invite_sent", "accepted", "failed"}
Outcomes == {"sent", "accepted", "failed", "retry"}
Stages == {"idle", "locked", "profile", "sending", "done"} \cup Outcomes

VARIABLES
    status,    \* [Tasks -> uo_tasks.status], "none" before the row exists
    slot,      \* [Tasks -> uo_tasks.scheduled_at]
    planned,   \* account.last_planned_date is today
    counter,   \* invites_sent in today's uo_daily_counters row, 0 without it
    acct,      \* account.status, as PATCH sets it
    hour,      \* local hour
    workday,   \* whether today is one of working_days
    lock,      \* the Redis key of account_lock
    draft,     \* [Replicas -> planner transaction: none, read today or before]
    pslot,     \* [Replicas -> slots that transaction will write]
    stage,     \* [Replicas -> where the executor's section is]
    etask,     \* [Replicas -> the task it works on]
    eseen,     \* [Replicas -> the counter it is about to increment]
    eatt,      \* [Replicas -> attempt of the invitation request]
    delivered, \* ghost: [Tasks -> invitations that reached the person]
    sentToday, \* ghost: invitations delivered today
    faults     \* ghost: faults so far

taskVars == <<status, slot>>
acctVars == <<planned, counter>>
clockVars == <<hour, workday>>
planVars == <<draft, pslot>>
execVars == <<stage, etask, eseen, eatt>>
ghostVars == <<delivered, sentToday, faults>>
vars == <<taskVars, acctVars, acct, clockVars, lock, planVars, execVars, ghostVars>>

TypeOK ==
    /\ status \in [Tasks -> Statuses]
    /\ slot \in [Tasks -> Slots]
    /\ planned \in BOOLEAN
    /\ counter \in Nat
    /\ acct \in {"connected", "paused"}
    /\ hour \in 0 .. DayLen - 1
    /\ workday \in BOOLEAN
    /\ lock \in Replicas \cup {Free}
    /\ draft \in [Replicas -> {"none", "today", "earlier"}]
    /\ pslot \in [Replicas -> [Tasks -> Slots]]
    /\ stage \in [Replicas -> Stages]
    /\ etask \in [Replicas -> Tasks]
    /\ eseen \in [Replicas -> Nat]
    /\ eatt \in [Replicas -> 1 .. Retries]
    /\ delivered \in [Tasks -> 0 .. DeliveryCap]
    /\ sentToday \in Nat
    /\ faults \in 0 .. MaxFaults

-----------------------------------------------------------------------------
Init ==
    /\ status = [t \in Tasks |-> "none"]
    /\ slot = [t \in Tasks |-> NoSlot]
    /\ planned = FALSE
    /\ counter = 0
    /\ acct = "connected"
    /\ hour = 0
    /\ workday \in BOOLEAN
    /\ lock = Free
    /\ draft = [r \in Replicas |-> "none"]
    /\ pslot = [r \in Replicas |-> [t \in Tasks |-> NoSlot]]
    /\ stage = [r \in Replicas |-> "idle"]
    /\ etask = [r \in Replicas |-> 1]
    /\ eseen = [r \in Replicas |-> 0]
    /\ eatt = [r \in Replicas |-> 1]
    /\ delivered = [t \in Tasks |-> 0]
    /\ sentToday = 0
    /\ faults = 0

-----------------------------------------------------------------------------
(***************************************************************************)
(* The operator, through the API.                                          *)
(***************************************************************************)

\* A target becomes a pending task of this account.  Targets come in id order.
\* The status of its campaign matters to neither the planner nor the executor,
\* draft and paused ones included.
AddTarget(t) ==
    /\ status[t] = "none"
    /\ \A u \in Tasks : u < t => status[u] # "none"
    /\ status' = [status EXCEPT ![t] = "pending"]
    /\ UNCHANGED <<slot, acctVars, acct, clockVars, lock, planVars, execVars, ghostVars>>

\* PATCH /api/accounts/{id} with a status.
PatchAccount ==
    /\ Patch
    /\ acct' = IF acct = "connected" THEN "paused" ELSE "connected"
    /\ UNCHANGED <<taskVars, acctVars, clockVars, lock, planVars, execVars, ghostVars>>

-----------------------------------------------------------------------------
(***************************************************************************)
(* The planner: _plan_account in one replica.                              *)
(***************************************************************************)

\* The planner's status filter.  Mutant: it also takes tasks already sent.
PlannableOrSent(t) == status[t] \in {"pending", "invite_sent"}
Plannable(t) == status[t] = "pending"

\* The first tasks by id, as many as the limit leaves; no task on a day off.
Batch ==
    {t \in Tasks :
        /\ workday
        /\ Plannable(t)
        /\ Cardinality({u \in Tasks : u < t /\ Plannable(u)}) < Limit - counter}

\* random_times_in_window: hours from now on inside the window, sorted, and
\* zipped with the batch.  The minimum gap may leave the last tasks without
\* one, but not the first unless the window is closed or about to close.
Plans ==
    {p \in [Tasks -> {h \in WStart .. WEnd - 1 : h >= hour} \cup {NoSlot}] :
        /\ \A t \in Tasks : p[t] # NoSlot => t \in Batch
        /\ \A t, u \in Batch : t < u /\ p[u] # NoSlot => p[t] <= p[u]
        /\ Batch # {} /\ hour < WEnd - 1 => \E t \in Batch : p[t] # NoSlot}

\* Read the account, the counter and the pending tasks, and choose the slots.
\* The date the transaction will store is the one it saw here.
PlanRead(r) ==
    /\ draft[r] = "none"
    /\ acct = "connected"
    /\ ~planned
    /\ draft' = [draft EXCEPT ![r] = "today"]
    /\ \E p \in Plans : pslot' = [pslot EXCEPT ![r] = p]
    /\ UNCHANGED <<taskVars, acctVars, acct, clockVars, lock, execVars, ghostVars>>

\* The commit: UPDATEs by primary key, with no check of what the rows hold by
\* now.
PlanCommit(r) ==
    /\ draft[r] # "none"
    /\ status' = [t \in Tasks |-> IF pslot[r][t] # NoSlot THEN "scheduled" ELSE status[t]]
    /\ slot' = [t \in Tasks |-> IF pslot[r][t] # NoSlot THEN pslot[r][t] ELSE slot[t]]
    /\ planned' = (draft[r] = "today")
    /\ draft' = [draft EXCEPT ![r] = "none"]
    /\ pslot' = [pslot EXCEPT ![r] = [t \in Tasks |-> NoSlot]]
    /\ UNCHANGED <<counter, acct, clockVars, lock, execVars, ghostVars>>

-----------------------------------------------------------------------------
(***************************************************************************)
(* The executor: _process_account_due_invite in one replica.               *)
(***************************************************************************)

\* scheduled_at <= now.  Mutant: only the current hour counts as due.
DueExactly(t) == status[t] = "scheduled" /\ slot[t] = hour
Due(t) == status[t] = "scheduled" /\ slot[t] <= hour

InWorkingHours == workday /\ WStart <= hour /\ hour < WEnd

\* Mutant: the comparison off by one.
BelowOrAtLimit == counter <= Limit
BelowLimit == counter < Limit

Goto(r, s) == stage' = [stage EXCEPT ![r] = s]

\* The tick finds a due task and takes the account lock.  Between its query
\* and the lock the task may go; a lock taken in vain changes nothing.
\* Mutant: the lock is not looked at.
LockIgnored == TRUE
LockIsFree == lock = Free

Acquire(r) ==
    /\ stage[r] = "idle"
    /\ \E t \in Tasks : Due(t)
    /\ LockIsFree
    /\ lock' = r
    /\ Goto(r, "locked")
    /\ UNCHANGED <<taskVars, acctVars, acct, clockVars, planVars, etask, eseen, eatt, ghostVars>>

MaySend == acct = "connected" /\ InWorkingHours /\ BelowLimit

\* The due task with the earliest slot.
PickTask(r, t) ==
    /\ stage[r] = "locked"
    /\ MaySend
    /\ Due(t)
    /\ \A u \in Tasks : Due(u) => slot[t] <= slot[u]
    /\ Goto(r, "profile")
    /\ etask' = [etask EXCEPT ![r] = t]
    /\ eatt' = [eatt EXCEPT ![r] = 1]
    /\ UNCHANGED <<taskVars, acctVars, acct, clockVars, lock, planVars, eseen, ghostVars>>

\* The early returns.
PickNothing(r) ==
    /\ stage[r] = "locked"
    /\ MaySend => \A t \in Tasks : ~Due(t)
    /\ Goto(r, "done")
    /\ UNCHANGED <<taskVars, acctVars, acct, clockVars, lock, planVars,
                   etask, eseen, eatt, ghostVars>>

\* ensure_task_profile: no provider id, already a first degree connection, or
\* someone to invite.
FetchProfile(r) ==
    /\ stage[r] = "profile"
    /\ \E s \in {"failed", "accepted", "sending"} : Goto(r, s)
    /\ UNCHANGED <<taskVars, acctVars, acct, clockVars, lock, planVars,
                   etask, eseen, eatt, ghostVars>>

\* The invitation reaches the person.
Deliver(t) ==
    /\ delivered' = [delivered EXCEPT
                        ![t] = IF @ < DeliveryCap THEN @ + 1 ELSE DeliveryCap]
    /\ sentToday' = sentToday + 1

\* The invitation was accepted by Unipile, and increment_invites reads the
\* counter, again: nothing kept the row that PickTask compared.
SendOk(r) ==
    /\ stage[r] = "sending"
    /\ Deliver(etask[r])
    /\ Goto(r, "sent")
    /\ eseen' = [eseen EXCEPT ![r] = counter]
    /\ UNCHANGED <<taskVars, acctVars, acct, clockVars, lock, planVars,
                   etask, eatt, faults>>

\* An error status: 400, 404 and 422 fail the task, any other leaves it
\* scheduled for the next tick.  The client does not retry these.
SendRefused(r) ==
    /\ stage[r] = "sending"
    /\ \E s \in {"failed", "retry"} : Goto(r, s)
    /\ UNCHANGED <<taskVars, acctVars, acct, clockVars, lock, planVars,
                   etask, eseen, eatt, ghostVars>>

\* A transport error: the client makes another attempt, and after the last one
\* raises UnipileError(0), which leaves the task scheduled.
\* Mutant: one attempt too many.
AttemptsLeftOrLast(r) == eatt[r] <= Retries
AttemptsLeft(r) == eatt[r] < Retries

NextAttempt(r) ==
    IF AttemptsLeft(r)
    THEN /\ eatt' = [eatt EXCEPT ![r] = @ + 1]
         /\ UNCHANGED stage
    ELSE /\ Goto(r, "retry")
         /\ UNCHANGED eatt

LostRequest(r) ==
    /\ stage[r] = "sending"
    /\ NextAttempt(r)
    /\ UNCHANGED <<taskVars, acctVars, acct, clockVars, lock, planVars,
                   etask, eseen, ghostVars>>

Fault ==
    /\ faults < MaxFaults
    /\ faults' = faults + 1

\* The invitation went out and the answer was lost, which the client cannot
\* tell from a request that never arrived.
LostReply(r) ==
    /\ stage[r] = "sending"
    /\ Fault
    /\ Deliver(etask[r])
    /\ NextAttempt(r)
    /\ UNCHANGED <<taskVars, acctVars, acct, clockVars, lock, planVars, etask, eseen>>

\* What the commit writes to the task.  Mutant: a retry makes it pending again.
StatusReset(s, old) ==
    CASE s = "sent" -> "invite_sent"
      [] s = "retry" -> "pending"
      [] OTHER -> s
StatusAfter(s, old) ==
    CASE s = "sent" -> "invite_sent"
      [] s = "retry" -> old
      [] OTHER -> s
SlotAfter(s, old) == IF s \in {"sent", "accepted"} THEN NoSlot ELSE old

\* The UPDATE stores one more than what SendOk read.  Mutant: the increment is
\* lost.
NotCounted(r) == eseen[r]
Counted(r) == eseen[r] + 1

Commit(r) ==
    /\ stage[r] \in Outcomes
    /\ LET t == etask[r] IN
        /\ status' = [status EXCEPT ![t] = StatusAfter(stage[r], @)]
        /\ slot' = [slot EXCEPT ![t] = SlotAfter(stage[r], @)]
    /\ counter' = IF stage[r] = "sent" THEN Counted(r) ELSE counter
    /\ Goto(r, "done")
    /\ UNCHANGED <<planned, acct, clockVars, lock, planVars, etask, eseen, eatt, ghostVars>>

\* The flush or the commit raises and session_scope rolls back.
CommitFails(r) ==
    /\ stage[r] \in Outcomes
    /\ Fault
    /\ Goto(r, "done")
    /\ UNCHANGED <<taskVars, acctVars, acct, clockVars, lock, planVars,
                   etask, eseen, eatt, delivered, sentToday>>

\* Leaving the with block: the key is deleted if it still has our token.
Release(r) ==
    /\ stage[r] = "done"
    /\ lock' = IF lock = r THEN Free ELSE lock
    /\ Goto(r, "idle")
    /\ UNCHANGED <<taskVars, acctVars, acct, clockVars, planVars,
                   etask, eseen, eatt, ghostVars>>

\* Redis drops the key: its holder died, or outlived the expiry (AccountLock
\* says when it can).
ExpireKey ==
    /\ lock # Free
    /\ Overrun \/ stage[lock] = "idle"
    /\ lock' = Free
    /\ UNCHANGED <<taskVars, acctVars, acct, clockVars, planVars, execVars, ghostVars>>

\* The process dies and is started again.
Crash(r) ==
    /\ stage[r] # "idle" \/ draft[r] # "none"
    /\ Fault
    /\ Goto(r, "idle")
    /\ draft' = [draft EXCEPT ![r] = "none"]
    /\ pslot' = [pslot EXCEPT ![r] = [t \in Tasks |-> NoSlot]]
    /\ UNCHANGED <<taskVars, acctVars, acct, clockVars, lock,
                   etask, eseen, eatt, delivered, sentToday>>

-----------------------------------------------------------------------------
(***************************************************************************)
(* The clock.                                                              *)
(***************************************************************************)
\* What calls only the database or Redis lasts seconds, and no hours go by in
\* it.  (At midnight the date may change under it, which matters more.)
AdvanceHour ==
    /\ hour < DayLen - 1
    /\ \A r \in Replicas : draft[r] = "none" /\ stage[r] \notin {"locked", "done"}
    /\ hour' = hour + 1
    /\ UNCHANGED <<taskVars, acctVars, acct, workday, lock, planVars, execVars, ghostVars>>

\* An hour at least separates the end of the window, after which no section
\* passes MaySend, from midnight, and a section lasts minutes.
NoneInFlight == \A r \in Replicas : stage[r] \in {"idle", "locked", "done"}

\* A new local date: another counter row, last_planned_date is not today, and
\* what was scheduled and not sent stays scheduled for a time gone by.
Aged(s) == IF s = NoSlot THEN NoSlot ELSE Overdue

Midnight ==
    /\ hour = DayLen - 1
    /\ NoneInFlight
    /\ hour' = 0
    /\ workday' \in BOOLEAN
    /\ planned' = FALSE
    /\ counter' = 0
    /\ sentToday' = 0
    /\ slot' = [t \in Tasks |-> Aged(slot[t])]
    /\ pslot' = [r \in Replicas |-> [t \in Tasks |-> Aged(pslot[r][t])]]
    /\ draft' = [r \in Replicas |-> IF draft[r] = "none" THEN "none" ELSE "earlier"]
    /\ UNCHANGED <<status, acct, lock, execVars, delivered, faults>>

-----------------------------------------------------------------------------
Executor(r) ==
    \/ Acquire(r) \/ PickNothing(r) \/ FetchProfile(r)
    \/ \E t \in Tasks : PickTask(r, t)
    \/ SendOk(r) \/ SendRefused(r) \/ LostRequest(r) \/ LostReply(r)
    \/ Commit(r) \/ CommitFails(r) \/ Release(r)

Next ==
    \/ \E t \in Tasks : AddTarget(t)
    \/ PatchAccount
    \/ \E r \in Replicas : PlanRead(r) \/ PlanCommit(r) \/ Executor(r) \/ Crash(r)
    \/ ExpireKey \/ AdvanceHour \/ Midnight

Spec == Init /\ [][Next]_vars

-----------------------------------------------------------------------------
(***************************************************************************)
(* Safety.                                                                 *)
(***************************************************************************)

\* README.md:71, "never exceeding the daily limit": no more invitations reach
\* people in a day than the limit, faults aside, however many replicas plan
\* and execute.  (A lost reply or a commit that fails after a send hides one
\* invitation from the counter.)
DailyCap == sentToday <= Limit + faults

\* Why the counter can be trusted: an invitation delivered today is in the
\* counter, or its transaction is about to commit it, or a fault hid it.
Uncommitted == IF \E r \in Replicas : stage[r] = "sent" THEN 1 ELSE 0
Accounting == sentToday <= counter + Uncommitted + faults

\* Nobody is invited twice, faults aside.  True of one replica; runner.py:4-5
\* claims it for several.
NoDoubleInvite == \A t \in Tasks : delivered[t] <= 1 + faults

\* A task the operator is shown as failed did not reach the person, faults
\* aside, so that retrying it by hand is safe.
FailedUndelivered ==
    \A t \in Tasks : status[t] = "failed" => delivered[t] <= faults

\* Statuses only move forward: pending, scheduled, then one of the final ones.
Rank(s) ==
    CASE s = "none" -> 0 [] s = "pending" -> 1 [] s = "scheduled" -> 2 [] OTHER -> 3
StatusForward ==
    [][\A t \in Tasks :
        status[t] # status'[t] => Rank(status[t]) < Rank(status'[t])]_vars

\* The abstract ledger this implements: faults aside, each task is invited
\* once, and at most Limit a day.
Ledger == INSTANCE InviteLedger
            WITH times <- delivered, used <- sentToday, mishaps <- faults
ImplementsLedger == Ledger!Spec

-----------------------------------------------------------------------------
(***************************************************************************)
(* Liveness.                                                               *)
(***************************************************************************)

\* The scheduler runs every job again and again in every replica (the planner
\* every 900 s, the executor every 30 s), so in each working day there is a
\* planner tick before the window closes and an executor tick inside it:
\* strong fairness of these steps.  A transaction or a section under way
\* goes on, the key expires, the clock runs, and the account has working days.
\* Unipile does not refuse every invitation of a replica forever.
Fairness ==
    /\ \A r \in Replicas :
        /\ SF_vars(PlanRead(r) /\ workday /\ hour < WEnd - 1)
        /\ WF_vars(PlanCommit(r))
        /\ SF_vars(Acquire(r) /\ InWorkingHours)
        /\ \A t \in Tasks : SF_vars(PickTask(r, t))
        /\ WF_vars(PickNothing(r))
        /\ WF_vars(FetchProfile(r))
        /\ WF_vars(SendRefused(r) \/ LostRequest(r))
        /\ SF_vars(SendOk(r))
        /\ WF_vars(Commit(r))
        /\ WF_vars(Release(r))
    /\ WF_vars(ExpireKey)
    /\ SF_vars(AdvanceHour)
    /\ SF_vars(Midnight /\ workday')

LiveSpec == Spec /\ Fairness

\* Every pending task is invited, found connected or failed in the end, as
\* long as the account ends up connected: no plan, lock, carried over slot or
\* failed attempt strands it.
EveryTaskIsHandled ==
    <>[](acct = "connected") =>
        \A t \in Tasks :
            status[t] = "pending" ~> status[t] \in {"invite_sent", "accepted", "failed"}
=============================================================================
