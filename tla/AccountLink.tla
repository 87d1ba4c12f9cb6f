---------------------------- MODULE AccountLink ----------------------------
(***************************************************************************)
(* Linking one LinkedIn account (app/services/account_service.py, called   *)
(* from app/api/accounts.py).  POST /connect stores the password and a     *)
(* fresh link_attempt_id and leaves the rest to a background task, which   *)
(* asks Unipile, waits for checkpoint codes the user submits, and writes   *)
(* the outcome.  A user who connects again leaves the task of the earlier  *)
(* attempt running: it is to notice that it is stale.                      *)
(*                                                                         *)
(* The API process has one event loop, whose handlers run one at a time,   *)
(* and threads for the background tasks.  Each session_scope is a          *)
(* transaction; where a task reads before it writes, the two are separate  *)
(* steps, and an error can come between any two steps.                     *)
(***************************************************************************)
EXTENDS Integers, Sequences

CONSTANTS
    MaxAttempts,  \* bound: connects made in a run
    MaxIntents,   \* bound: checkpoints Unipile asks for in a run
    MaxFaults     \* bound: restarts of the API process and errors in a task

ASSUME LinkAssumption ==
    /\ MaxAttempts \in Nat \ {0}
    /\ MaxIntents \in Nat
    /\ MaxFaults \in Nat

\* The background task of the n-th connect is task n; attempt ids are numbers.
Attempts == 1 .. MaxAttempts
IntentIds == 1 .. MaxIntents

Final == {"connected", "failed"}
Intents == [kind : {"code", "in_app"},
            status : {"pending", "submitted", "solved", "failed", "stale"}]
Answers == {"none", "account", "code", "in_app", "other"}
Stages == {"none", "queued", "start", "connect", "check", "store", "settle", "wait",
           "solve", "give_up", "finish", "closing", "exit"}

VARIABLES
    status,    \* account.status
    attempt,   \* account.link_attempt_id, 0 before the first connect
    password,  \* attempt whose password is stored, 0 for NULL
    intents,   \* the account's uo_auth_intents rows in id order
    pc,        \* [Attempts -> where the background task is]
    tid,       \* [Attempts -> the attempt id it read, 0 before]
    intent,    \* [Attempts -> the intent it works on, 0 for none]
    next,      \* [Attempts -> the intent its last answer created, 0 for none]
    answer,    \* [Attempts -> Unipile's last answer]
    result,    \* [Attempts -> what that answer comes to]
    faults,    \* restarts and errors so far
    handler,   \* tasks in the except clause of process_link_account
    dead,      \* tasks that ended without _finish_account: an error of the
               \* handler's own, or a restart
    overtaken  \* tasks a connect came upon where link_attempt_id does not
               \* tell them that they are stale

accountVars == <<status, attempt, password>>
taskVars == <<pc, tid, intent, next, answer, result>>
faultVars == <<faults, handler, dead, overtaken>>
vars == <<accountVars, intents, taskVars, faultVars>>

TypeOK ==
    /\ status \in {"new", "pending", "checkpoint"} \cup Final
    /\ attempt \in 0 .. MaxAttempts
    /\ password \in 0 .. MaxAttempts
    /\ intents \in Seq(Intents) /\ Len(intents) <= MaxIntents
    /\ pc \in [Attempts -> Stages]
    /\ tid \in [Attempts -> 0 .. MaxAttempts]
    /\ intent \in [Attempts -> 0 .. Len(intents)]
    /\ next \in [Attempts -> 0 .. Len(intents)]
    /\ answer \in [Attempts -> Answers]
    /\ result \in [Attempts -> Final \cup {"checkpoint"}]
    /\ faults \in 0 .. MaxFaults
    /\ handler \subseteq Attempts /\ dead \subseteq Attempts /\ overtaken \subseteq Attempts
    \* a task past its first step knows which attempt it serves, unless that
    \* step was what failed
    /\ \A k \in Attempts :
        \/ pc[k] = "exit"
        \/ tid[k] \in 1 .. attempt
        \/ /\ tid[k] = 0
           /\ \/ pc[k] \in {"none", "queued"}
              \/ k \in handler /\ pc[k] \in {"finish", "closing"}

Init ==
    /\ status = "new"
    /\ attempt = 0
    /\ password = 0
    /\ intents = <<>>
    /\ pc = [k \in Attempts |-> "none"]
    /\ tid = [k \in Attempts |-> 0]
    /\ intent = [k \in Attempts |-> 0]
    /\ next = [k \in Attempts |-> 0]
    /\ answer = [k \in Attempts |-> "none"]
    /\ result = [k \in Attempts |-> "failed"]
    /\ faults = 0
    /\ handler = {} /\ dead = {} /\ overtaken = {}

-----------------------------------------------------------------------------
(***************************************************************************)
(* The handlers.                                                           *)
(***************************************************************************)
Running(k) == pc[k] \notin {"none", "exit"}

\* A task that has not read its attempt id, or is between the comparison of
\* that id and the commit.
Exposed(k) == Running(k) /\ (tid[k] = 0 \/ pc[k] \in {"store", "closing"})

\* queue_link_account, and the background task it adds.
Connect ==
    /\ attempt < MaxAttempts
    /\ attempt' = attempt + 1
    /\ password' = attempt + 1
    /\ status' = "pending"
    /\ intents' = [i \in DOMAIN intents |->
                    IF intents[i].status = "pending"
                    THEN [intents[i] EXCEPT !.status = "stale"] ELSE intents[i]]
    /\ pc' = [pc EXCEPT ![attempt + 1] = "queued"]
    /\ overtaken' = {k \in Attempts : Running(k) /\ (k \in overtaken \/ Exposed(k))}
    /\ UNCHANGED <<tid, intent, next, answer, result, faults, handler, dead>>

SetIntent(i, s) == intents' = [intents EXCEPT ![i].status = s]

\* submit_checkpoint_code: the newest intent, if the account waits and nothing
\* was submitted.  It does not look at what kind of checkpoint it is.
Submit ==
    /\ status \notin Final
    /\ intents # <<>>
    /\ intents[Len(intents)].status = "pending"
    /\ SetIntent(Len(intents), "submitted")
    /\ UNCHANGED <<accountVars, taskVars, faultVars>>

-----------------------------------------------------------------------------
(***************************************************************************)
(* The background task k.                                                  *)
(***************************************************************************)
At(k, s) == pc[k] = s
Goto(k, s) == pc' = [pc EXCEPT ![k] = s]
Ends(k, r) == result' = [result EXCEPT ![k] = r]

\* The task reads its attempt id from the row.  Mutant: it keeps None.
NoAttempt == 0
CurrentAttempt == attempt

ReadAttempt(k) ==
    /\ At(k, "queued")
    /\ tid' = [tid EXCEPT ![k] = CurrentAttempt]
    /\ Ends(k, "failed")
    /\ Goto(k, IF password = 0 THEN "finish" ELSE "start")
    /\ UNCHANGED <<accountVars, intents, intent, next, answer, faultVars>>

\* _run_link_loop reads the password again, in a transaction of its own.
ReadPassword(k) ==
    /\ At(k, "start")
    /\ Goto(k, IF password = 0 THEN "finish" ELSE "connect")
    /\ UNCHANGED <<accountVars, intents, tid, intent, next, answer, result, faultVars>>

\* connect_linkedin or solve_checkpoint answers: an account, a checkpoint, or
\* something else.
Answer(k) ==
    /\ At(k, "connect") \/ At(k, "solve")
    /\ \E a \in Answers \ {"none"} :
        /\ a \in {"code", "in_app"} => Len(intents) < MaxIntents
        /\ answer' = [answer EXCEPT ![k] = a]
    /\ Goto(k, "check")
    /\ UNCHANGED <<accountVars, intents, tid, intent, next, result, faultVars>>

\* UnipileError.
Refused(k) ==
    /\ At(k, "connect") \/ At(k, "solve")
    /\ Ends(k, "failed")
    /\ Goto(k, IF At(k, "solve") THEN "give_up" ELSE "finish")
    /\ UNCHANGED <<accountVars, intents, tid, intent, next, answer, faultVars>>

\* The comparison of link_attempt_id with what the task read, in
\* _handle_auth_response and in _finish_account; None is not compared.  Mutants:
\* without them.
TrustAnswer(k) == TRUE
AnswerIsCurrent(k) == tid[k] \in {0, attempt}
TrustFinish(k) == TRUE
FinishIsCurrent(k) == tid[k] \in {0, attempt}

\* After _handle_auth_response the intent the answer belongs to is settled;
\* the answer to connect has none.
AfterAnswer(k) == IF intent[k] = 0 THEN "finish" ELSE "settle"

Check(k) ==
    /\ At(k, "check")
    /\ next' = [next EXCEPT ![k] = 0]
    /\ IF AnswerIsCurrent(k)
       THEN Goto(k, "store") /\ UNCHANGED result
       ELSE Goto(k, AfterAnswer(k)) /\ Ends(k, "failed")
    /\ UNCHANGED <<accountVars, intents, tid, intent, answer, faultVars>>

\* The commit of _handle_auth_response.
StoreOutcome(k) ==
    /\ At(k, "store")
    /\ answer[k] \in {"account", "other"}
    /\ LET s == IF answer[k] = "account" THEN "connected" ELSE "failed"
       IN status' = s /\ Ends(k, s)
    /\ Goto(k, AfterAnswer(k))
    /\ UNCHANGED <<attempt, password, intents, tid, intent, next, answer, faultVars>>

\* The bound on intents holds here too: two tasks may be about to add one.
StoreCheckpoint(k) ==
    /\ At(k, "store")
    /\ answer[k] \in {"code", "in_app"}
    /\ Len(intents) < MaxIntents
    /\ status' = "checkpoint"
    /\ intents' = Append(intents, [kind |-> answer[k], status |-> "pending"])
    /\ next' = [next EXCEPT ![k] = Len(intents) + 1]
    /\ Ends(k, "checkpoint")
    /\ Goto(k, "settle")
    /\ UNCHANGED <<attempt, password, tid, intent, answer, faultVars>>

\* The intent the loop goes on with.  Mutant: the one it had.
SameIntent(k) == IF intent[k] = 0 THEN next[k] ELSE intent[k]
NextIntent(k) == next[k]

Settle(k) ==
    /\ At(k, "settle")
    /\ IF intent[k] = 0 THEN UNCHANGED intents ELSE SetIntent(intent[k], "solved")
    /\ IF result[k] = "checkpoint"
       THEN intent' = [intent EXCEPT ![k] = NextIntent(k)] /\ Goto(k, "wait")
       ELSE Goto(k, "finish") /\ UNCHANGED intent
    /\ UNCHANGED <<accountVars, tid, next, answer, result, faultVars>>

\* A code came in: solve_checkpoint is called with it.
TakeCode(k) ==
    /\ At(k, "wait")
    /\ intents[intent[k]].kind = "code"
    /\ intents[intent[k]].status = "submitted"
    /\ Goto(k, "solve")
    /\ UNCHANGED <<accountVars, intents, tid, intent, next, answer, result, faultVars>>

\* The user approved the login: Unipile reports the account connected.
Approved(k) ==
    /\ At(k, "wait")
    /\ intents[intent[k]].kind = "in_app"
    /\ answer' = [answer EXCEPT ![k] = "account"]
    /\ Goto(k, "check")
    /\ UNCHANGED <<accountVars, intents, tid, intent, next, result, faultVars>>

\* The deadline of either wait, or no Unipile account id to go on with.
\* Mutant: the wait has no deadline.
NoDeadline == FALSE
DeadlineComes == TRUE

TimeOut(k) ==
    /\ At(k, "wait")
    /\ DeadlineComes
    /\ Ends(k, "failed")
    /\ Goto(k, "give_up")
    /\ UNCHANGED <<accountVars, intents, tid, intent, next, answer, faultVars>>

\* _set_intent_status(..., "failed"), whatever the intent's status is by now.
GiveUp(k) ==
    /\ At(k, "give_up")
    /\ SetIntent(intent[k], "failed")
    /\ Goto(k, "finish")
    /\ UNCHANGED <<accountVars, tid, intent, next, answer, result, faultVars>>

Finish(k) ==
    /\ At(k, "finish")
    /\ Goto(k, IF FinishIsCurrent(k) THEN "closing" ELSE "exit")
    /\ UNCHANGED <<accountVars, intents, tid, intent, next, answer, result, faultVars>>

\* The commit of _finish_account.  Mutant: the password stays.
PasswordKept == password
PasswordCleared == 0

Close(k) ==
    /\ At(k, "closing")
    /\ status' = result[k]
    /\ password' = PasswordCleared
    /\ Goto(k, "exit")
    /\ UNCHANGED <<attempt, intents, tid, intent, next, answer, result, faultVars>>

\* An exception leaves the task where it is: a session that fails, a commit
\* that is refused (the identity belongs to another row of the organisation), an
\* answer of an unexpected shape.  The except clause of process_link_account
\* finishes the attempt as failed; an exception of its own ends the task.
Throw(k) ==
    /\ faults < MaxFaults
    /\ Running(k)
    /\ faults' = faults + 1
    /\ IF k \in handler
       THEN /\ dead' = dead \cup {k}
            /\ Goto(k, "exit")
            /\ UNCHANGED <<handler, result>>
       ELSE /\ handler' = handler \cup {k}
            /\ Ends(k, "failed")
            /\ Goto(k, "finish")
            /\ UNCHANGED dead
    /\ UNCHANGED <<accountVars, intents, tid, intent, next, answer, overtaken>>

\* The API process restarts.  Nothing takes up the tasks it had.
Crash ==
    /\ faults < MaxFaults
    /\ \E k \in Attempts : Running(k)
    /\ faults' = faults + 1
    /\ dead' = dead \cup {k \in Attempts : Running(k)}
    /\ pc' = [k \in Attempts |-> IF Running(k) THEN "exit" ELSE pc[k]]
    /\ UNCHANGED <<accountVars, intents, tid, intent, next, answer, result, handler, overtaken>>

-----------------------------------------------------------------------------
Task(k) ==
    \/ ReadAttempt(k) \/ ReadPassword(k) \/ Answer(k) \/ Refused(k)
    \/ Check(k) \/ StoreOutcome(k) \/ StoreCheckpoint(k) \/ Settle(k)
    \/ TakeCode(k) \/ Approved(k) \/ TimeOut(k) \/ GiveUp(k) \/ Finish(k) \/ Close(k)

Next == Connect \/ Submit \/ Crash \/ \E k \in Attempts : Task(k) \/ Throw(k)

Spec == Init /\ [][Next]_vars

\* Every call of a task has a timeout and every wait a deadline.  Neither the
\* user nor Unipile owes anything.
LiveSpec == Spec /\ \A k \in Attempts : WF_vars(Task(k))

-----------------------------------------------------------------------------
(***************************************************************************)
(* Properties.                                                             *)
(***************************************************************************)

\* FRONTEND_INTEGRATION.md:145, "Stop polling when done is true": what a client
\* that stopped polling saw does not change until somebody connects again, with
\* one exception: after an error the except clause of account_service.py:159-161
\* overwrites a connected that was committed.
DoneIsFinal ==
    [][attempt' = attempt /\ status \in Final /\ overtaken = {} =>
        \/ status' = status
        \/ status = "connected" /\ status' = "failed" /\ attempt \in handler]_vars

\* account_service.py:73-75, 456-458: a task of an earlier attempt changes
\* neither the status nor the password of the current one, unless the connect
\* came upon it before it read its attempt id or between check and commit; and
\* what it does then is that one commit.
StaleTaskIsHarmless ==
    [][\A k \in Attempts : pc'[k] # pc[k] /\ k < attempt =>
        /\ k \notin overtaken => UNCHANGED <<status, password>>
        /\ tid[k] \notin {0, attempt} => pc'[k] \notin {"store", "closing"}]_vars

\* The task that serves the current attempt ended without _finish_account.
Abandoned == \E k \in dead : attempt \in {k, tid[k]}

\* account_service.py:70-71, "cleared once linked or failed": an account that
\* is linked or failed has no password, or a task is about to clear it.  A
\* task that ended without _finish_account leaves it there.
NoPasswordLeft ==
    status \in Final /\ password # 0 /\ ~Abandoned /\ overtaken = {} =>
        \E k \in Attempts :
            tid[k] = attempt /\ pc[k] \in {"settle", "finish", "closing"}

\* A checkpoint the frontend shows has a task that waits for that very code,
\* is about to, or is giving up.
PromptIsLive ==
    /\ status = "checkpoint" /\ intents[Len(intents)].status = "pending"
    /\ ~Abandoned /\ overtaken = {}
    => \E k \in Attempts :
            /\ tid[k] = attempt
            /\ \/ pc[k] \in {"wait", "give_up"} /\ intent[k] = Len(intents)
               \/ pc[k] \in {"check", "store"} /\ intent[k] = Len(intents)
               \/ pc[k] = "settle" /\ Len(intents) \in {intent[k], next[k]}
               \/ pc[k] \in {"finish", "closing"}

\* Every link attempt comes to an end the frontend sees, unless its task ended
\* without _finish_account, or a connect came upon a task that stores a checkpoint
\* of the earlier attempt.
LinkEnds ==
    status \in {"pending", "checkpoint"} ~>
        \/ status \in Final
        \/ Abandoned
        \/ \E k \in overtaken : tid[k] < attempt /\ {intent[k], next[k]} # {0}
=============================================================================
