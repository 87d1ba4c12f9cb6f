---------------------------- MODULE DailyCounter ----------------------------
(***************************************************************************)
(* The uo_daily_counters row of one account and one date                   *)
(* (app/services/counter_service.py), written by sessions that share no    *)
(* lock: the executor's, the poll's and those of search imports.  Each     *)
(* counts in a column of its own, but the first of the day must insert the *)
(* row, and it does so in the middle of its transaction.                   *)
(*                                                                         *)
(* Within a kind of session the account lock, the poll lock or, for        *)
(* imports, the assumption of one import at a time leaves one session; the *)
(* other modules study what happens when two overlap.  The database reads  *)
(* committed rows; an insert waits for an uncommitted one with the same    *)
(* key, for as long as statement_timeout lets it.                          *)
(***************************************************************************)
EXTENDS Integers

CONSTANTS
    Actors,     \* the kinds of session; each has its column
    Limited,    \* those that check the column before they act: the executor
    Long,       \* those that act several times in a transaction: the poll
    Remote,     \* those whose effects are requests to Unipile: executor and poll
    Nobody,     \* holder of the row when no insert of it is uncommitted
    Limit,      \* the account's daily limit
    MaxSends,   \* bound: effects of one kind of session in a run
    MaxFaults   \* bound: crashes and failed commits in a run

ASSUME CounterAssumption ==
    /\ Limited \subseteq Actors /\ Long \subseteq Actors /\ Remote \subseteq Actors
    /\ Limited \cap Long = {}
    /\ Nobody \notin Actors
    /\ Limit \in Nat
    /\ MaxSends \in Nat
    /\ MaxFaults \in Nat

Stages == {"idle", "open", "insert", "counted"}

VARIABLES
    exists,    \* whether the row is committed
    count,     \* [Actors -> committed value of the column], 0 without the row
    holder,    \* the session whose insert of the row is uncommitted
    stage,     \* [Actors -> where the session is]
    known,     \* [Actors -> the column's value when the session read it]
    added,     \* [Actors -> effects of the open session: invitations, messages, leads]
    sent,      \* ghost: [Actors -> effects so far]
    lost,      \* ghost: [Actors -> effects whose session was rolled back]
    unanswered, \* ghost: [Actors -> requests delivered whose answer was lost]
    conflicts, \* ghost: [Actors -> inserts refused by the unique key]
    faults     \* ghost: faults so far

rowVars == <<exists, count>>
ghostVars == <<conflicts, faults>>
vars == <<rowVars, holder, stage, known, added, sent, lost, unanswered, ghostVars>>

\* An executor's section sends at most one invitation.
TypeOK ==
    /\ exists \in BOOLEAN
    /\ count \in [Actors -> Nat]
    /\ holder \in Actors \cup {Nobody}
    /\ stage \in [Actors -> Stages]
    /\ known \in [Actors -> Nat]
    /\ added \in [Actors -> Nat]
    /\ \A a \in Actors \ Long : added[a] <= 1
    /\ sent \in [Actors -> Nat]
    /\ lost \in [Actors -> Nat]
    /\ unanswered \in [Actors -> Nat]
    /\ conflicts \in [Actors -> Nat]
    /\ faults \in 0 .. MaxFaults

Init ==
    /\ exists = FALSE
    /\ count = [a \in Actors |-> 0]
    /\ holder = Nobody
    /\ stage = [a \in Actors |-> "idle"]
    /\ known = [a \in Actors |-> 0]
    /\ added = [a \in Actors |-> 0]
    /\ sent = [a \in Actors |-> 0]
    /\ lost = [a \in Actors |-> 0]
    /\ unanswered = [a \in Actors |-> 0]
    /\ conflicts = [a \in Actors |-> 0]
    /\ faults = 0

-----------------------------------------------------------------------------
\* invites_sent_today: the limit is compared with the committed column.
BelowOrAtLimit(a) == count[a] <= Limit
BelowLimit(a) == count[a] < Limit

\* A session opens; the executor goes on below the daily limit only.
Begin(a) ==
    /\ stage[a] = "idle"
    /\ a \in Limited => BelowLimit(a)
    /\ stage' = [stage EXCEPT ![a] = "open"]
    /\ UNCHANGED <<rowVars, holder, known, added, sent, lost, unanswered, ghostVars>>

\* The executor sends one task, the poll every one that is due.
AnyNumber(a) == TRUE
MaySend(a) == a \in Long \/ added[a] = 0

\* get_counter's query: the row is found once it is committed.
NeverFound == FALSE
Found == exists

\* Unipile takes an invitation or a message, or a lead is added; then
\* get_counter looks for the row.  The object a session has already counted on
\* stays in its identity map, with its own increments.
Send(a) ==
    /\ stage[a] \in {"open", "counted"}
    /\ MaySend(a)
    /\ sent[a] < MaxSends
    /\ sent' = [sent EXCEPT ![a] = @ + 1]
    /\ added' = [added EXCEPT ![a] = @ + 1]
    /\ \/ stage[a] = "counted" /\ UNCHANGED <<stage, known>>
       \/ /\ stage[a] = "open" /\ Found
          /\ stage' = [stage EXCEPT ![a] = "counted"]
          /\ known' = [known EXCEPT ![a] = count[a]]
       \/ /\ stage[a] = "open" /\ ~Found
          /\ stage' = [stage EXCEPT ![a] = "insert"]
          /\ UNCHANGED known
    /\ UNCHANGED <<rowVars, holder, lost, unanswered, ghostVars>>

\* Unipile takes an invitation or a message and the answer is lost: the client
\* repeats the request, or gives up with UnipileError and the session goes on,
\* or commits, without counting it.
Unanswered(a) ==
    /\ a \in Remote
    /\ stage[a] \in {"open", "counted"}
    /\ MaySend(a)
    /\ sent[a] < MaxSends
    /\ sent' = [sent EXCEPT ![a] = @ + 1]
    /\ unanswered' = [unanswered EXCEPT ![a] = @ + 1]
    /\ UNCHANGED <<rowVars, holder, stage, known, added, lost, ghostVars>>

\* The flush inserts the row, with zeros, if nobody has or is about to.
Insert(a) ==
    /\ stage[a] = "insert"
    /\ ~exists /\ holder = Nobody
    /\ holder' = a
    /\ stage' = [stage EXCEPT ![a] = "counted"]
    /\ known' = [known EXCEPT ![a] = 0]
    /\ UNCHANGED <<rowVars, added, sent, lost, unanswered, ghostVars>>

\* session_scope rolls back: what the session did outside the database stays
\* done and its record is gone.  The same task is taken up again later.
Rollback(a) ==
    /\ stage' = [stage EXCEPT ![a] = "idle"]
    /\ added' = [added EXCEPT ![a] = 0]
    /\ lost' = [lost EXCEPT ![a] = @ + added[a]]
    /\ holder' = IF holder = a THEN Nobody ELSE holder
    /\ UNCHANGED <<rowVars, known, sent, unanswered>>

\* The row was committed after the query: IntegrityError.
Conflict(a) ==
    /\ stage[a] = "insert" /\ exists
    /\ conflicts' = [conflicts EXCEPT ![a] = @ + 1]
    /\ Rollback(a)
    /\ UNCHANGED faults

\* The insert waits for another's uncommitted row longer than
\* statement_timeout.
TimeOut(a) ==
    /\ stage[a] = "insert" /\ holder \notin {Nobody, a}
    /\ Rollback(a)
    /\ UNCHANGED ghostVars

\* The update of a counter writes the value the session has, not an increment.
OwnOnly(a) == added[a]
Written(a) == known[a] + added[a]

\* The transaction commits: the session's own column is written.
Commit(a) ==
    /\ stage[a] \in {"open", "counted"}
    /\ stage' = [stage EXCEPT ![a] = "idle"]
    /\ added' = [added EXCEPT ![a] = 0]
    /\ holder' = IF holder = a THEN Nobody ELSE holder
    /\ exists' = (exists \/ stage[a] = "counted")
    /\ count' = IF stage[a] = "counted" THEN [count EXCEPT ![a] = Written(a)] ELSE count
    /\ UNCHANGED <<known, sent, lost, unanswered, ghostVars>>

\* A crash, or an exception of anything else in the session.
Fail(a) ==
    /\ stage[a] # "idle" /\ faults < MaxFaults
    /\ faults' = faults + 1
    /\ Rollback(a)
    /\ UNCHANGED conflicts

Step(a) ==
    \/ Begin(a) \/ Send(a) \/ Unanswered(a) \/ Insert(a) \/ Conflict(a)
    \/ TimeOut(a) \/ Commit(a) \/ Fail(a)

Next == \E a \in Actors : Step(a)

Spec == Init /\ [][Next]_vars

-----------------------------------------------------------------------------
\* The row loses no increment although sessions that do not exclude each other
\* write it: every effect is in the committed column, in an open session, in one
\* that was rolled back, or never got an answer (increment_invites,
\* increment_messages, increment_search_imports write a value read before).
CountsCommitted ==
    \A a \in Actors : sent[a] = count[a] + added[a] + lost[a] + unanswered[a]

\* "Daily send limits are enforced" only up to what was never recorded: what
\* Unipile delivers exceeds the daily limit by no more than the invitations
\* whose record was rolled back, be it to a poll that held the row, and those
\* whose answer was lost.
LimitOrLoss == \A a \in Limited : sent[a] <= Limit + lost[a] + unanswered[a]

\* The unique key refuses a session of each kind at most once a day: once the
\* row is there get_counter finds it.  Timeouts have no such bound.
OneConflictADay == \A a \in Actors : conflicts[a] <= 1
=============================================================================
