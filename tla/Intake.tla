------------------------------- MODULE Intake -------------------------------
(***************************************************************************)
(* The people of one campaign and the accounts that reach them:            *)
(* app/services/campaign_service.py behind app/api/campaigns.py, the       *)
(* deletion of accounts (app/api/accounts.py) and, in outline, the planner *)
(* and the executor that work on the result.  A campaign has a task for    *)
(* each person, and a task an account, once one is connected.              *)
(*                                                                         *)
(* Request handlers run in threads of the API process; each reads, and     *)
(* writes when it commits.  The queries of one request are one step.  The  *)
(* planner's own races are in Dispatch.                                    *)
(***************************************************************************)
EXTENDS Integers, FiniteSets, SequencesExt

CONSTANTS
    Accounts,    \* accounts of the organisation
    People,      \* people with a LinkedIn identifier
    Blank,       \* a target without one
    NoAccount,   \* account_id is NULL
    Nobody,      \* an executor that works on no task
    Requests,    \* handlers of targets and start that run at once
    MaxBatch,    \* bound: targets of one request
    MaxNew,      \* bound: those among them that get a task
    Deletable,   \* bound: accounts somebody deletes
    Pausable     \* bound: accounts somebody pauses

ASSUME IntakeAssumption ==
    /\ IsFiniteSet(Accounts) /\ IsFiniteSet(People)
    /\ Blank \notin People /\ Nobody \notin People
    /\ NoAccount \notin Accounts
    /\ MaxBatch \in Nat /\ MaxNew \in Nat
    /\ Deletable \subseteq Accounts /\ Pausable \subseteq Accounts

States == {"none", "pending", "scheduled", "invite_sent", "failed"}

VARIABLES
    conn,      \* [Accounts -> uo_accounts.status, or "deleted" without a row]
    unlinked,  \* accounts that Unipile no longer has
    deleting,  \* accounts whose DELETE is between Unipile and the database
    linked,    \* accounts with a uo_campaign_accounts row
    state,     \* [People -> status of the person's task, "none" without one]
    owner,     \* [People -> account_id of the task]
    req,       \* [Requests -> the handler's kind, and the accounts it gives to people]
    task,      \* [Accounts -> the task the account's executor works on]
    result,    \* [Accounts -> how its request went]
    invitedBy, \* ghost: [People -> accounts whose invitation they got]
    overlap    \* ghost: whether two starts of the campaign have overlapped

acctVars == <<conn, unlinked, deleting>>
taskVars == <<state, owner>>
execVars == <<task, result>>
ghostVars == <<invitedBy, overlap>>
vars == <<acctVars, linked, taskVars, req, execVars, ghostVars>>

Idle == [kind |-> "idle", gives |-> <<>>]
Shares == [who : People, acct : Accounts \cup {NoAccount}]

\* A task that went to the planner has an account.
TypeOK ==
    /\ conn \in [Accounts -> {"connected", "paused", "deleted"}]
    /\ unlinked \subseteq Accounts
    /\ deleting \subseteq Accounts
    /\ linked \subseteq Accounts
    /\ state \in [People -> States]
    /\ owner \in [People -> Accounts \cup {NoAccount}]
    /\ \A p \in People : state[p] \notin {"none", "pending"} => owner[p] # NoAccount
    /\ req \in [Requests -> [kind : {"idle", "targets", "start"}, gives : Seq(Shares)]]
    /\ task \in [Accounts -> People \cup {Nobody}]
    /\ result \in [Accounts -> {"none", "sent", "failed"}]
    /\ invitedBy \in [People -> SUBSET Accounts]
    /\ overlap \in BOOLEAN

Init ==
    /\ conn = [a \in Accounts |-> "connected"]
    /\ unlinked = {} /\ deleting = {}
    /\ linked = {}
    /\ state = [p \in People |-> "none"]
    /\ owner = [p \in People |-> NoAccount]
    /\ req = [r \in Requests |-> Idle]
    /\ task = [a \in Accounts |-> Nobody]
    /\ result = [a \in Accounts |-> "none"]
    /\ invitedBy = [p \in People |-> {}]
    /\ overlap = FALSE

-----------------------------------------------------------------------------
(***************************************************************************)
(* Accounts.                                                               *)
(***************************************************************************)

\* POST /accounts of the campaign, or a search import queued for it; a link is
\* never taken back.
Assign(a) ==
    /\ conn[a] # "deleted"
    /\ linked' = linked \cup {a}
    /\ UNCHANGED <<acctVars, taskVars, req, execVars, ghostVars>>

\* PATCH of the account's status.
Toggle(a) ==
    /\ a \in Pausable /\ conn[a] # "deleted"
    /\ conn' = [conn EXCEPT ![a] = IF @ = "connected" THEN "paused" ELSE "connected"]
    /\ UNCHANGED <<unlinked, deleting, linked, taskVars, req, execVars, ghostVars>>

\* delete_account first unlinks the account at Unipile; an error there is only
\* logged.
Unlink(a) ==
    /\ a \in Deletable
    /\ conn[a] # "deleted" /\ a \notin deleting
    /\ deleting' = deleting \cup {a}
    /\ unlinked' \in {unlinked, unlinked \cup {a}}
    /\ UNCHANGED <<conn, linked, taskVars, req, execVars, ghostVars>>

\* Then it deletes the row.  Its tasks are made nobody's by the relationship of
\* the models, but the foreign keys of campaign links, and of other children,
\* refuse all of it: the account stays as it was, without its Unipile
\* counterpart.
ForeignKeysIgnored(a) == TRUE
ForeignKeysAllow(a) == a \notin linked
DeleteRow(a) ==
    /\ a \in deleting
    /\ deleting' = deleting \ {a}
    /\ \/ UNCHANGED <<conn, owner>>
       \/ /\ ForeignKeysAllow(a)
          /\ conn' = [conn EXCEPT ![a] = "deleted"]
          /\ owner' = [p \in People |-> IF owner[p] = a THEN NoAccount ELSE owner[p]]
    /\ UNCHANGED <<unlinked, linked, state, req, execVars, ghostVars>>

-----------------------------------------------------------------------------
(***************************************************************************)
(* Targets and start.                                                      *)
(***************************************************************************)

\* Connected accounts of the campaign, in the order the query returns them.
Active == {a \in linked : conn[a] = "connected"}
Orders == SetToSeqs(Active)

\* The account whose turn it is.
Turn(order, i) == IF order = <<>> THEN NoAccount ELSE order[((i - 1) % Len(order)) + 1]

\* The targets of a batch that get a task: not blank, not in the database.
\* Their positions, in order: the one increasing enumeration of them.
IsNew(p) == p \in People /\ state[p] = "none"
Places(batch) ==
    LET N == {i \in DOMAIN batch : IsNew(batch[i])}
    IN  {at \in [1 .. Cardinality(N) -> N] : \A i, j \in DOMAIN at : i < j => at[i] < at[j]}

\* Round robin over the new tasks, not over the positions in the request.
ByPosition(batch, at, order) ==
    [i \in DOMAIN at |-> [who |-> batch[at[i]], acct |-> Turn(order, at[i])]]
RoundRobin(batch, at, order) ==
    [i \in DOMAIN at |-> [who |-> batch[at[i]], acct |-> Turn(order, i)]]

\* add_targets reads the accounts and which targets exist.  A target that
\* appears twice is new both times, as nothing is flushed in between.
TargetsRead(r) ==
    /\ req[r] = Idle
    /\ \E batch \in SeqOf(People \cup {Blank}, MaxBatch), order \in Orders :
        \E at \in Places(batch) :
          /\ Len(at) \in 1 .. MaxNew
          /\ req' = [req EXCEPT ![r] =
                        [kind |-> "targets", gives |-> RoundRobin(batch, at, order)]]
    /\ UNCHANGED <<acctVars, linked, taskVars, execVars, ghostVars>>

Gives(r) == ToSet(req[r].gives)
AcctFor(r, p) == (CHOOSE s \in Gives(r) : s.who = p).acct

\* The unique key of campaign and person accepts the whole batch or nothing.
KeyAllows(r) ==
    /\ \A s \in Gives(r) : state[s.who] = "none"
    /\ \A i, j \in DOMAIN req[r].gives : req[r].gives[i].who = req[r].gives[j].who => i = j
TargetsCommit(r) ==
    LET added == {s.who : s \in Gives(r)}
    IN  /\ req[r].kind = "targets"
        /\ req' = [req EXCEPT ![r] = Idle]
        /\ IF KeyAllows(r)
           THEN /\ state' = [p \in People |-> IF p \in added THEN "pending" ELSE state[p]]
                /\ owner' = [p \in People |-> IF p \in added THEN AcctFor(r, p) ELSE owner[p]]
           ELSE UNCHANGED taskVars
        /\ UNCHANGED <<acctVars, linked, execVars, ghostVars>>

\* rebalance_unassigned takes the tasks without an account, and nobody else's.
AnyPending(p) == state[p] = "pending"
Unassigned(p) == state[p] # "none" /\ owner[p] = NoAccount

\* start_campaign reads them.  Without a connected account it assigns nothing
\* and starts the campaign all the same.
StartRead(r) ==
    /\ req[r] = Idle
    /\ \E tasks \in SetToSeqs({p \in People : Unassigned(p)}), order \in Orders :
          req' = [req EXCEPT ![r] =
                    [kind |-> "start",
                     gives |-> IF order = <<>> THEN <<>>
                               ELSE [i \in DOMAIN tasks |->
                                       [who |-> tasks[i], acct |-> Turn(order, i)]]]]
    /\ overlap' = (overlap \/ \E q \in Requests : req[q].kind = "start")
    /\ UNCHANGED <<acctVars, linked, taskVars, execVars, invitedBy>>

\* Its update goes by the task's id, whoever has the task by now.
StartCommit(r) ==
    LET given == {s.who : s \in Gives(r)}
    IN  /\ req[r].kind = "start"
        /\ req' = [req EXCEPT ![r] = Idle]
        /\ owner' = [p \in People |-> IF p \in given THEN AcctFor(r, p) ELSE owner[p]]
        /\ UNCHANGED <<acctVars, linked, state, execVars, ghostVars>>

\* A search import adds a person with its own account.
ImportLead(a, p) ==
    /\ a \in linked /\ state[p] = "none"
    /\ state' = [state EXCEPT ![p] = "pending"]
    /\ owner' = [owner EXCEPT ![p] = a]
    /\ UNCHANGED <<acctVars, linked, req, execVars, ghostVars>>

-----------------------------------------------------------------------------
(***************************************************************************)
(* The worker.                                                             *)
(***************************************************************************)

\* The planner and the executor take an account's own tasks.
OwnOrNobodys(a, p) == owner[p] \in {a, NoAccount}
Own(a, p) == owner[p] = a

Plan(a, p) ==
    /\ conn[a] = "connected"
    /\ state[p] = "pending" /\ Own(a, p)
    /\ state' = [state EXCEPT ![p] = "scheduled"]
    /\ UNCHANGED <<acctVars, linked, owner, req, execVars, ghostVars>>

\* The account's executor picks a task under the account lock.
Pick(a, p) ==
    /\ conn[a] = "connected" /\ task[a] = Nobody
    /\ state[p] = "scheduled" /\ Own(a, p)
    /\ task' = [task EXCEPT ![a] = p]
    /\ UNCHANGED <<acctVars, linked, taskVars, req, result, ghostVars>>

\* Unipile takes the invitation.
Invite(a) ==
    /\ task[a] # Nobody /\ result[a] = "none" /\ a \notin unlinked
    /\ result' = [result EXCEPT ![a] = "sent"]
    /\ invitedBy' = [invitedBy EXCEPT ![task[a]] = @ \cup {a}]
    /\ UNCHANGED <<acctVars, linked, taskVars, req, task, overlap>>

\* It refuses for good: always so when it no longer has the account.
Refuse(a) ==
    /\ task[a] # Nobody /\ result[a] = "none"
    /\ result' = [result EXCEPT ![a] = "failed"]
    /\ UNCHANGED <<acctVars, linked, taskVars, req, task, ghostVars>>

\* The section ends.  Its update goes by the task's id; without a result the
\* task stays scheduled.
Finish(a) ==
    /\ task[a] # Nobody
    /\ task' = [task EXCEPT ![a] = Nobody]
    /\ result' = [result EXCEPT ![a] = "none"]
    /\ state' = IF result[a] = "none" THEN state
                ELSE [state EXCEPT ![task[a]] =
                        IF result[a] = "sent" THEN "invite_sent" ELSE "failed"]
    /\ UNCHANGED <<acctVars, linked, owner, req, ghostVars>>

Account(a) ==
    \/ Assign(a) \/ Toggle(a) \/ Unlink(a) \/ DeleteRow(a)
    \/ Invite(a) \/ Refuse(a) \/ Finish(a)
    \/ \E p \in People : ImportLead(a, p) \/ Plan(a, p) \/ Pick(a, p)

Handler(r) == TargetsRead(r) \/ TargetsCommit(r) \/ StartRead(r) \/ StartCommit(r)

Next == (\E a \in Accounts : Account(a)) \/ (\E r \in Requests : Handler(r))

Spec == Init /\ [][Next]_vars

-----------------------------------------------------------------------------
\* A target is "executed by one account" (UoTask): while starts do not overlap,
\* no person is invited by two, whatever the batches, imports and restarts of
\* the campaign give to whom.
OneAccount == ~overlap => \A p \in People : Cardinality(invitedBy[p]) <= 1

\* "targets are round-robin distributed across the campaign's connected
\* accounts" (README.md): within one request none of these accounts gets two
\* more new people than another, known and blank targets left out of the count.
Load(r, a) == Cardinality({i \in DOMAIN req[r].gives : req[r].gives[i].acct = a})
BatchBalanced ==
    [][\A r \in Requests : req[r] # req'[r] =>
         \A a, b \in Active : Load(r, a)' <= Load(r, b)' + 1]_vars

\* Deleting an account (delete_account) leaves no task with an account that is
\* not there, nor a handler or an executor about to make one.
OwnerExists ==
    /\ \A p \in People : owner[p] # NoAccount => conn[owner[p]] # "deleted"
    /\ \A r \in Requests : \A s \in Gives(r) : s.acct # NoAccount => conn[s.acct] # "deleted"
    /\ \A a \in Accounts : task[a] # Nobody => conn[a] # "deleted"
=============================================================================
