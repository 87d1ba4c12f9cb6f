# Formal model of unipile-li

TLA+ modules, TLC configurations and TLAPS proofs about the outreach service in
`src/`: a FastAPI process and any number of worker processes that link LinkedIn
accounts through the Unipile API, send a limited number of connection invites a
day, notice who accepted, and send messages until somebody answers.

Contents: [the system](#the-system), [what could go wrong](#what-could-go-wrong),
[the modules](#the-modules), [the runs](#the-runs), [the proofs](#the-proofs),
[what the models found](#what-the-models-found), [what is left out](#what-is-left-out),
[the plan](#the-plan).

## The system

Two kinds of process share one SQL database and one Redis.

| part | source | state it keeps | operations |
|---|---|---|---|
| API | `api/*.py` | none of its own | accounts (connect, checkpoint, patch, delete), campaigns (create, accounts, targets, start, pause), search imports, the `new_relation` webhook |
| account linking | `services/account_service.py` | `uo_accounts.status, password, link_attempt_id`; `uo_auth_intents` | queue a link, run it in a background task, submit a checkpoint code |
| campaign intake | `services/campaign_service.py` | `uo_campaigns`, `uo_tasks` (pending) | add targets, round robin over accounts, rebalance, start and pause |
| search imports | `services/search_import_service.py` | `uo_search_imports`; adds to `uo_profiles`, `uo_tasks`, `uo_daily_counters` | import a search under a daily cap, in a background task |
| planner | `scheduler/planner.py`, `working_hours.py` | `uo_tasks.status, scheduled_at`; `uo_accounts.last_planned_date, next_poll_times` | once per account and local day: slots for pending tasks, two poll times |
| executor | `scheduler/executor.py` | `uo_tasks`, `uo_daily_counters` | send one due invite per account and tick, under the account lock |
| poller | `scheduler/poller.py` | `uo_tasks`, `next_poll_times` | find accepted invites, send first messages, look for replies, send follow-ups, under the poll lock |
| locks | `services/redis_lock.py` | two Redis keys per account, with expiry | `account_lock` (token compared on release), `poll_lock` (deleted unconditionally) |
| Unipile client | `unipile/client.py` | none | one HTTP request, up to three attempts on transport errors |
| counters | `services/counter_service.py` | one row per account and date | read, increment |
| profile cache | `services/profile_service.py` | `uo_profiles` | fill a task from the cache or from Unipile |
| sessions | `db/database.py` | connection pool | `session_scope`: one transaction, no autoflush, rollback on any exception |

How they interact. The API creates tasks (`pending`). In every worker replica
`scheduler/runner.py` runs planner, executor and poller in threads, again and
again. Planner, executor and poller never call each other: they meet in rows of
`uo_tasks` and `uo_accounts`, each in transactions of its own, and a Unipile
request happens inside a transaction that stays open for its minutes. The
webhook handler in the API writes the rows the poller works on. Linking is a
conversation between a background task of the API process, the user (who submits
codes through other requests) and Unipile, over rows both sides poll.

A task's life: `pending` (planner) `scheduled` (executor) `invite_sent` (poller
or webhook) `accepted` (poller) `initial_sent`, then `replied` or `completed`;
`failed` when Unipile refuses the person.

## What could go wrong

`PROJECT.json` lists the hazards at their lines. In groups:

- *Replicas.* Planners take no lock. The executor and the poller take different
  ones, with expiries unrelated to the longest section they guard.
- *Side effects inside transactions.* An invite or a message leaves at once; its
  record is committed at the end of the transaction, or never.
- *Retries of requests that are not idempotent.*
- *Reads that are stale when used*: the counter, the list of due accounts, the
  poll times, the rows a poll keeps in memory, the attempt id of a link.
- *Lookups followed by inserts*, by concurrent imports and workers: of leads,
  of profiles, of the day's counter row. A unique key then ends the slower
  transaction, after its side effect.
- *Facts of one account used by another*: the distance in the profile cache.
- *Requests of several people on one campaign*, and an account deleted under
  them.
- *Liveness over days*: slots missed on one day, locks of dead workers, accounts
  paused and resumed.

Correct means, part by part: the lock excludes other workers and always comes
free (locks); never more invites in a day than the limit, nobody invited twice,
no task stranded (planner and executor); no message sent twice, silence after a
reply, no row taken back, every acceptance answered (poller); the outcome shown
is final and is that of the current attempt, the prompt shown has a task waiting
for it, the password goes (linking); no more imports in a day than the limit,
counts that are true, nobody lost unnoticed (search imports); no increment lost
and no excess but for what a rollback forgot or nobody answered (counters); one account per person,
fair shares, no task of an account that is gone (campaign intake); nobody taken
for a connection out of nothing, and every connection seen (profile cache).

## The modules

Each definition that stands for code is mapped to its lines in `PROJECT.json`.
A database transaction is one step for what it reads and one for its commit,
except where nothing it read matters to the commit; between the two everybody
else moves. A Unipile request inside a transaction is one step per attempt.
Ghost variables (`delivered`, `sentToday`, `messages`, `faults`) record what
happened in the world; no action of the code reads them.

**AccountLock** models `redis_lock.py` and how long a section can take. State:
the Redis key with the ticks left, and per worker the request, the attempt and
the ticks that attempt has used. A tick is half a minute: an attempt lasts up to
2 (60 s), the expiry is 10 (300 s), a section makes up to 2 requests of 3
attempts. `Acquire` is `SET NX EX`; `Release` the Lua script (or the plain
`DEL` of the poll lock when `Owned` is false); `Crash` leaves the key behind;
`Tick` expires it. The pauses between attempts are left out, which makes
sections shorter than they are.

**Dispatch** composes planner and executor for one account: accounts share no
state here. `PlanRead`/`PlanCommit` are `_plan_account`; `Plans` is what
`random_times_in_window` may return, in hours. `Acquire`, `PickTask` or
`PickNothing`, `FetchProfile`, one of `SendOk`, `SendRefused`, `LostRequest`,
`LostReply`, then `Commit` or `CommitFails`, and `Release` are
`_process_account_due_invite`. `increment_invites` reads the counter after the
send and writes it at the commit; the model does the same (`eseen`). Time is an hour
of the local day; `Midnight` moves to another date, under which the counter row
and `last_planned_date` are others, and slots not used become `Overdue`. The
lock is a variable of the module; `Overrun` says whether it may expire under a
live holder, which AccountLock shows it can when every request needs all its
attempts.

**InviteLedger** is what the dispatcher promises, without schedules, locks or
transactions: a person is invited once, a day has at most `Limit` invites, and
each mishap (an invite whose success was never recorded) excuses one more.
`Dispatch!ImplementsLedger` is the refinement: `times <- delivered`,
`used <- sentToday`, `mishaps <- faults`.

**Poller** models one account's poll and what commits around it: the webhook,
the planner, the operator and people who write back. A poll is one long
transaction. `mem` is what it has changed in its session and not yet written:
its lists (`Listed`) are SQL queries and do not see it, except for the flush
that `get_counter` causes when it inserts the first row of the day
(`ListActive`). `Commit` writes the rows it changed over whatever is there.
`Start` keeps the poll times it read, and `Commit` stores them over the planner's.

**AccountLink** models `queue_link_account`, `process_link_account` with its
loop over checkpoints, and `submit_checkpoint_code`. The n-th connect starts
task n; what a task reads and what it writes are separate steps. The API's
handlers run one at a time on the event loop, and each is one step; tasks run in
threads. A connect may come at any time. Where the attempt id does not protect
against it (before a task has read the id, or between the comparison of the id
and the commit) the task is `overtaken`, and the properties say what they still
promise then (finding 5). `Throw` is an exception wherever a task is, also after
connected was committed: the `except` of `process_link_account` finishes the
attempt as failed (`handler`), and an exception in there, or a restart (`Crash`),
ends the task without `_finish_account` (`dead`).

**SearchImport** models imports that run at once in one account and campaign:
the plan against the daily limit, pages in any partition of what the search
finds, the transaction of each person as its lookups and its commit, the final
status. The executor and the API insert into the same three tables
(`CacheProfile`, `AddTarget`, `CreateCounter`); a unique key that is taken by
the time of the commit ends the import. The persons of `Anonymous` come without
an identifier: no profile, no lead, and no trace in the record. `Throw` is any
other exception of the thread, `AbortFails` one in the transaction that was to
store the failure, which is swallowed. `made` records what each import created.

**DailyCounter** models `counter_service.py` over the row of one account and
date. An actor is a kind of session with its own column: `executor` (which checks
the limit), `poll` (which counts many messages in one transaction) and `import`.
`Send` is the effect outside the database followed by `get_counter`'s query;
`Insert` is the flush of a new row, which from then on is uncommitted and belongs
to `holder`; whoever inserts after that waits until `Commit` or a rollback of the
holder, `Conflict` (the row was committed meanwhile) or `TimeOut`. What a
rollback forgets is counted in `lost`. `Unanswered` is a request that Unipile
carried out and whose answer was lost: the client repeats it (`client.py:90-100`),
or the session goes on without counting it (`executor.py:138-144`); it is counted
in `unanswered`. `Commit` writes `known + added`, as the
ORM writes values and not increments.

**Intake** models one campaign's people and accounts: `assign_accounts`,
`add_targets` and `start_campaign` with `rebalance_unassigned` as a read step and
a commit step each, in handlers that overlap; imports adding people; PATCH and
the two steps of `delete_account`; and, in outline, planner and executor, to see
what a task given to another account does to an invitation under way. `gives` is
the list of tasks a handler has built and not committed.

**ProfileCache** models what `ensure_task_profile` makes executors and polls of
several accounts believe. A session's reads and requests are one step, which
leaves in `session` the rows and the profiles it is going to write; `Commit` and
`Collide` (the unique key of `uo_profiles`) are the other. `related` is LinkedIn's
truth, `recent` the part of it that fits in the five pages a poll reads, which a
connection leaves when it gets old (`Age`); `dist` and `cache` are what the
database says. `anonymous` people have scraped profiles without a public identifier.

Not composed with the others are the executor's and the poll's work for one
account, although they do not exclude each other: they meet in the counter row
(DailyCounter), in the cache (ProfileCache) and in tasks of different statuses.

**MCAccountLock**, **MCDispatch**, **MCPoller**, **MCIntake** add symmetry for TLC
(sound for the runs that use it: they check no liveness, and replicas are
interchangeable; so are tasks in Poller, but not in Dispatch, where the planner
orders them by id; so are people and requests in Intake, but not its accounts, as
only one is deleted and only one paused). **MCProfileCache** names the accounts
and the person. **AccountLockProofs**, **DispatchProofs**, **PollerProofs**,
**AccountLinkProofs**, **SearchImportProofs**, **DailyCounterProofs**,
**IntakeProofs** and **ProfileCacheProofs** hold the theorems.

## The runs

| run | question | result |
|---|---|---|
| `lock` | does the lock survive sections longer than its expiry? | no worker frees another's key; a crash never locks the account for good; `LeaseCovers`, the invariant behind exclusion, holds |
| `lock_executor_ttl` | is the account exclusive with the executor's numbers? | **no**: 2 x 3 x 60 s does not fit in 300 s |
| `dispatch_replicas` | two replicas, crashes, lost replies, failed commits: is the daily limit kept? | yes; the counter accounts for every delivery |
| `dispatch_single` | one replica: is anybody invited twice, or forgotten? | no; the ledger is implemented, statuses move forward, every pending task is handled |
| `planner_race` | is nobody invited twice with two replicas? | **no**, without any fault |
| `poller` | two polling replicas, webhook, operator: is each message sent once? | yes, faults aside |
| `poller_live` | are rows kept, replies respected, every acceptance answered and every reply seen? | yes: no row goes back, a stored reply silences the task, and the message goes out and a reply is recorded although polls fail and poll times are overwritten |
| `link` | two link attempts, chains of checkpoints, errors anywhere and restarts | a stale task is harmless unless the connect found it unguarded; an outcome is final but for an error after connected; the prompt is live, the password goes and every attempt ends, unless its task dies |
| `imports` | two imports, others writing the same tables, errors anywhere and restarts: are counts true, and is the limit kept? | counts are true and nobody with an identifier is lost unnoticed; the limit holds while imports do not overlap; every import ends unless its thread dies |
| `counter_row` | executor, poll and import share the day's row: is an increment lost, or the limit exceeded? | no increment is lost; the limit is exceeded by what rollbacks forgot and what was never answered, and the unique key causes at most one rollback per kind of session |
| `intake` | targets, start, assignment and deletion at once: is a person reached by two accounts? | no, unless two starts overlap; a request shares people out evenly; no task keeps a deleted account |
| `profiles` | two accounts share the distance of one person: is anybody taken for a connection, or missed? | an accepted task's person is connected with one of the accounts, a conflict of the cache repeats an invitation once at most, and a connection is seen unless it gets old while another distance is stored |

### Bounds, and why they are enough

- *Replicas, workers, pollers: 2.* Every conflict here is between two
  transactions on one row or two holders of one key.
- *Tasks: 2* in the dispatcher (one inside the limit and one beyond it, so that
  a carried over slot and a new plan compete), 2 in the poller (one in the list
  while another is being handled), 1 where liveness and the order of a row's
  states are checked in the poller, as there tasks of one account do not wait for
  or look at each other.
- *Limits 1, and 0 for the default.* With two tasks, a limit of 1 is the one
  that can be exceeded. `ConnectLimit = 0` exercises
  `daily_connect_limit or DEFAULT`.
- *`DayLen` 3 or 4, window 1 or 2 hours*: an hour before the window, the window,
  an hour after it, so that a slot can be ahead, due, missed and of another day.
- *`Retries` 2* in Dispatch (a first attempt and another), 3 in AccountLock,
  where the number matters.
- *`MaxFaults` 1*: a property that excuses one delivery per fault is already
  tested by one. `DeliveryCap` stops the count of deliveries of a task above
  what the property tells apart; the theorem about the ledger asks for
  `MaxFaults < DeliveryCap`, under which the cap never hides an excess.
- *`Templates` 1*: no follow-up, one due, all sent.
- *`MaxAttempts` 2, `MaxIntents` 3, `MaxFaults` 2* in AccountLink: a stale task
  and a current one; a chain of two checkpoints for one of them beside one for the
  other; an error and another one while it is handled.
- *`Patch`, `Operator`*: which API calls a run makes. The poller's two runs
  split them (campaigns in one, the account's status in the other).
- *Imports 2, persons 3, `Limit` 2*: the limit can be used up by one import, by
  the second, or by neither, with a person to spare. `Others = {1}`,
  `Anonymous = {3}`: one person whom others cache or add, one for whom only the
  imports compete, one without an identifier. `MaxFaults` 2: an error and
  another one while it is stored.
- *`MaxSends` 4, `Limit` 2 in DailyCounter*: two invitations inside the limit and
  two beyond it, which only rollbacks and lost answers leave room for; several
  messages of one poll, before and after its insert, and in a later poll.
- *`MaxBatch` 3, `MaxNew` 2* in Intake: two new people with a blank or known
  target before, between or after them, or one person twice. `Deletable` and
  `Pausable` are one account each, so that the other stays to take the tasks.
- *`MaxOpen` 2* in ProfileCache: a conflict of the unique key is between two.
  Two accounts after one person; the identifier's absence and the old connections
  are chosen at the start. A second person beside two accounts is out of TLC's reach
  (`Age` and `Befriend` multiply the worlds), so that the run does not meet the
  exclusion in `ConnectionIsSeen`, of accounts that also poll for people without
  identifier. It was met aside: with one account and two people all four
  properties hold, over 203186 states.

The runs of AccountLink and SearchImport do not check deadlock: after the last
connect or import and the last task the model stops, as the process would sit
idle.

### Fairness

- AccountLock: a worker inside its section goes on (each attempt has a timeout)
  and time passes. Nobody is obliged to acquire, nor to crash.
- Dispatch: APScheduler runs the planner every 15 minutes and the executor every
  30 s in every replica, so a planner tick falls before the end of a
  working window and an executor tick inside it: strong fairness of
  `PlanRead` and `Acquire` at such hours, as neither stays enabled all day.
  Transactions under way go on (weak). Unipile does not refuse one replica's
  invites for ever (strong fairness of `SendOk`): without this no task need
  ever be handled. Faults, the operator and targets have no fairness.
- Poller: the planner plans polls on working days; a poll time that was planned
  comes before the planner replaces it, again and again (strong fairness of
  `PollTimeComes`, `Find`, `Start`); Unipile does not refuse the first message
  for ever.
  A chat is not unreadable for ever (strong fairness of `SeeReply`).
- ProfileCache: polls are planned every day, and now and then one gets all the
  five pages it asks for, which hold the recent relations only, and a distance with
  each profile it asks for (strong fairness of `FullPoll`). No poll owes an old
  connection anything. A session commits unless it collides again and again.
- AccountLink, SearchImport: every task goes on, as each call has a timeout and
  each wait a deadline (weak). The user and Unipile owe nothing.

## The proofs

`AccountLockProofs` (for every number of workers, expiry, attempts, requests):

- `TypeCorrect`; `LeaseIsKept`: `Spec => []LeaseCovers`. Whoever is inside has
  the key, with at least `TTL - Elapsed` ticks left, or its attempts have
  already used up the expiry. It needs that release compares the token
  (`Owned`) or that sections fit in the expiry: a worker that outlived its
  lease and deletes unconditionally breaks the others' leases.
- `LockExcludes`: if `Calls * Retries * AttemptTime < TTL`, at most one worker
  is inside. This is the condition that the executor's numbers (360 s against
  300 s) miss, and the reason why `MutualExclusion` needs `LeaseCovers`, which
  is inductive while exclusion alone says nothing about the expiry.
- `OnlyItsHolderFrees` (`OnlyHolderFrees`), under the same condition as
  `LeaseIsKept`: without comparing the token, only a worker that still has its
  lease is sure to delete its own key.

`DispatchProofs` (for every number of tasks, every limit, window, number of
retries and of faults):

- `TypeCorrect`.
- `CounterAccounts` and `DailyCapHolds`, for any number of replicas, if no
  section outlives the lock (`Overrun = FALSE`). The inductive invariant is
  `CapInv`: only the lock's holder is in a section (`Exclusive`); past the check
  the counter is below the limit and what a section is about to increment is the
  counter (`CounterFresh`); and `Accounting`. The daily limit alone is not
  inductive: it says nothing of the counter it is compared with.
- `OneReplicaInvitesOnce` and `OneReplicaMovesForward`, for one replica, even
  when its lock expires. The invariant is `OneInv`: a plan under way holds
  pending tasks only, the section's task is scheduled until its commit, and each
  delivery without a fault is recorded or about to be. The first two parts are
  what a second replica breaks (`planner_race`).
- `OneReplicaImplementsLedger`: with both invariants, every step is a step of
  the ledger or a stutter.

`PollerProofs` (for every set of replicas and tasks, every number of templates and
of faults, every choice of `Operator`, while no poll outlives the lock):

- `TypeCorrect`, `MessagesAreRecorded` (`MessagesRecorded`), `RowsOnlyForward`
  (`RowsForward`) and `RepliedIsQuiet` (`QuietOnceReplied`).
- A poll that is under way has the lock (`Exclusive`) and whoever is not keeps
  nothing (`Clean`), so that one session at most has rows in memory. What it
  has there is ahead of the committed row, which the webhook may still move but
  not past it (`MemAhead`, `EarlyRows`): this is why a late commit takes no row
  back. A list is made from committed rows, and stays true of the rows the poll
  sees until it reaches them (`ToBeMessaged`, `ToBeSeen`, `ToBeFollowed`), although
  earlier steps of the same poll have changed memory only (`MemEarly`). `Accounted`
  then compares the messages that reached a person with the memory of the poll
  (exactly, faults aside) and with the row (which may lack one message of this
  poll): two in one poll would make a failure lose more than one fault accounts for.
- `Overrun = FALSE` is a hypothesis because `release_poll_lock` and the expiry of
  1800 s do let two polls overlap if one is that slow, and with `TRUE` TLC
  finds each of the four properties violated.

`AccountLinkProofs` (for every number of connects, intents, errors and restarts,
with connects at any time):

- `TypeCorrect`. It needs that a task past its first step knows an attempt that
  has begun, unless that step failed (`InOrder`, `KnowsAttempt`).
- `StaleTasksAreHarmless`, `DoneStays`, `PasswordCleaned` and `PromptServed`,
  without further hypotheses: what the code does not guard is in the properties.
  A task serves the connect that started it, and is the current one when it is
  about to write, unless it is `overtaken` (`OwnAttempt`); so that the
  comparison of attempt ids says what it means to. An account's outcome is its
  current task's, or that task is in the handler of an error and about to
  overwrite it (`OutcomeIsOwn`, `EndsWithOutcome`); and what a checkpoint asks for
  is what that task is busy with, through the moments in which the new intent
  exists and the old one is not settled (`CheckpointIsServed`).

`SearchImportProofs` (for every number of imports, people, errors and restarts,
every limit, any others, and any persons without an identifier):

- `TypeCorrect`, `CountHolds` (`CountIsTrue`), `CapHolds` (`CapWhenAlone`) and
  `NobodyLost` (`NobodyIsLost`), without further hypotheses. The record is never
  behind the thread (`RecordIsTrue`); a person in hand fits in the allowance
  (`RoomLeft`); a lead the transaction does not insert was there, and nothing
  in the model deletes one (`MadeAreLeads`); whoever the search returned is a
  lead, in hand, still on the page or without an identifier (`Looked`). `AloneCounts` is the arithmetic behind the limit: as
  long as no two imports have run at once, the counter is what this import
  was not left plus what it has imported.

`DailyCounterProofs` (for every set of kinds of sessions, every limit and bound):

- `TypeCorrect`, `NoIncrementLost` (`CountsCommitted`), `LimitHolds`
  (`LimitOrLoss`) and `ConflictsBounded` (`OneConflictADay`). The inductive
  invariant `IInv` adds what makes a read value safe to write back although no
  lock protects it: a session that counted knows the committed value of its own
  column, and the row is committed or its own (`RowIsOurs`); effects to count are
  pending exactly from a session's first one on (`PendingInside`); what the limit was
  compared with has not grown (`WithinLimit`); and who met the unique key finds
  the row from then on (`ConflictOnce`).

`IntakeProofs` (for all finite sets of accounts and people, any requests at once
and any length of a batch):

- `TypeCorrect`, `OwnersExist` (`OwnerExists`) and `InvitedOnce` (`OneAccount`).
  Foreign keys make the first inductive: whoever has people, is about to be given
  some or works on one is linked to the campaign, and a linked account is not
  deleted (`Linked`, `OwnerLinked`, `GivesLinked`, `TaskLinked`). For the second,
  while starts do not overlap, whoever a start read as unassigned still is
  (`StillUnowned`, `OneStart`), because only people without a task get an owner
  otherwise (`NoneUnowned`, `StartGives`); an executor's task is therefore its own
  (`OwnTask`) and every invitation is the owner's (`InvitedByOwner`).
- `BatchesAreBalanced` (`BatchBalanced`): positions with the same turn are as many
  for each account, but for one. The proof counts them by injections from the
  positions of one account into those of another, as induction over the batch is
  out of the prover's reach. For the same reason `Places` gives the new targets
  of a batch as the increasing enumeration of their positions and not by a
  recursive filter.

`ProfileCacheProofs` (for all accounts, people and tasks, and any number of
sessions open at once):

- `TypeCorrect`, `AcceptanceIsKnown` (`AcceptedIsKnown`) and
  `InvitationForgottenOnce` (`ForgottenOnce`). A distance travels from one
  account's scraping through a session and the cache into another account's task,
  so that the inductive invariant `IInv` says of all of them that a first degree
  is about somebody connected (`FirstIsKnown`, `PendingIsKnown`). For the second
  it adds that a profile is stored under the identifier the person has
  (`KeysFit`), that an executor works on one scheduled task of its account and a
  poll on none (`RowsApart`), so that neither commit touches the other's rows
  although they share no lock, and that who lost an invitation to the unique key
  finds the row from then on (`ForgottenIsCached`).

The assumptions on constants are those named in the modules (`LockAssumption`,
`DispatchAssumption`, `PollerAssumption`, `LinkAssumption`, `ImportAssumption`,
`CounterAssumption`, `IntakeAssumption`, `ProfileAssumption`): ranges, values that
stand for nothing (`Free`, `Null`, `Blank`) different from the others, at least one
replica that polls, and finite tables of accounts and people in Intake. TLC evaluates them in the
runs. Hypotheses that restrict behaviours (`Overrun = FALSE`, sections that fit in the expiry, one replica) are in the theorems' statements, and
each is one the code does not guarantee: the theorem says what holds as long as it
does.

Model-checked only:

- Every liveness property (`NeverLockedForGood`, `EveryTaskIsHandled`,
  `AcceptedIsMessaged`, `ReplyIsSeen`, `LinkEnds`, `ImportEnds`, `ConnectionIsSeen`),
  as the prover treats neither fairness nor `ENABLED`. Every other property of the
  passing runs is a theorem.
- The two counterexamples: that `MutualExclusion` fails with the executor's numbers
  and `NoDoubleInvite` with two replicas.

## What the models found

1. `executor.py:65`: the account lock can expire inside the section it guards
   (`redis_lock.py:3-5`: never "operated on by two workers at once").
2. `planner.py:56`: planners of two replicas race; a person is invited twice
   (`runner.py:4-5`: "Multiple worker replicas are safe").
3. `planner.py:83`: tasks of a draft or paused campaign are scheduled and sent
   (`FRONTEND_INTEGRATION.md:271`: pause "stops scheduling new tasks"). Neither
   the planner nor the executor reads the campaign's status, so that Dispatch has
   no variable for it, and no run is needed to see it.
4. `poller.py:306`: an error while reading a chat counts as silence, and the
   follow-up is sent to somebody who has answered (`poller.py:310-313`: "a hard
   stop").
5. `account_service.py:151`: the attempt id is read when the task starts, not
   when it was queued; after two connects in a row neither task is stale.
6. `account_service.py:195`: submitting an empty code does nothing for
   `IN_APP_VALIDATION`, which `README.md:64` asks for and
   `FRONTEND_INTEGRATION.md:157` forbids.
7. `search_import_service.py:262`: imports of one account that run at once each
   take the whole daily allowance, and lose increments of the counter.
8. `search_import_service.py:234` and `:304`: an import is `failed` although it
   created leads, or `completed` although it used up the daily limit
   (`docs/search_imports.md:99-101`).
9. `counter_service.py:19`: the first count of the day inserts the row inside a
   long transaction; an executor that has sent meanwhile is rolled back by
   `statement_timeout` or the unique key, and sends again (`redis_lock.py:3-6`:
   "daily send limits are enforced atomically even under concurrency").
10. `profile_service.py:158`: `FIRST_DEGREE` seen from one account makes another
    skip its invitation and write to a stranger.
11. `profile_service.py:84`: a profile without public identifier is inserted as an
    empty string each time; from the second on every commit fails, the invitation
    goes out again at every tick, and polls record nothing.
12. `poller.py:123`: the fallback for connections missing in the recent relations
    returns the distance stored before the invitation.
13. `models.py:201`: limits per campaign and per assignment are stored and never
    read.
14. `campaign_service.py:117`: each request starts the round robin with the same
    account; targets added one by one all go to it.
15. `campaigns.py:69`: a campaign without connected accounts starts, and its tasks
    keep no account.
16. `accounts.py:118`: an account is deleted at Unipile although its row cannot be:
    campaign links, intents and counters refuse (the tasks alone would only lose
    their account). It stays connected, and its tasks fail.
17. `account_service.py:159`: an error after connected was committed (213, 251, 254)
    makes the account failed (`FRONTEND_INTEGRATION.md:145`: "Stop polling when
    `done` is `true`").
18. `search_import_service.py:143`: a person without identifier is skipped and the
    import is `completed` (`docs/search_imports.md:99`: "all requested leads were
    imported").

Findings 1 and 2 are runs that TLC ends with a counterexample; the others show in
the modules as what a property has to exclude or allow, and were seen when it was
stated without.

## What is left out

- Several accounts at once in Dispatch and Poller: they share the Unipile key
  and the profile cache only.
- Two campaigns after the same person with the same account (Intake has one
  campaign, ProfileCache one task per account and person).
- Deletion of an account during its linking. The moments between
  the reads and the commit of a connect and of a submitted code: each is one step
  in AccountLink, so that a task's commit in between is not seen, which the ORM
  would leave in the columns whose value the handler did not change.
- People who disconnect again (ProfileCache): nothing in the code takes an
  acceptance back.
- Tasks that were sent a message and lack a `chat_id` (Poller): `_check_for_reply`
  returns for them as it does before the first message, and they have no reply.
- Time zones and daylight saving; the minutes inside an hour.
- Templates, logging, schemas, settings, start-up, the read-only endpoints: no
  state that any of the properties is about.
- In AccountLink, the synchronous wrappers that only tests call.

## The plan

Done: all modules, their runs, and the theorems for every safety and action
property the runs check.

To follow:

1. What a poll promises as a small specification of its own (per task: one initial
   message, follow-ups in order, silence after a reply, one repetition per fault),
   and Poller's refinement of it, step by step as for the ledger.
2. The same for AccountLink: an attempt with its outcome, without tasks and intents.
3. In Dispatch, what survives of `NoDoubleInvite` for several replicas when
   planners do not overlap, as a theorem with that hypothesis.
