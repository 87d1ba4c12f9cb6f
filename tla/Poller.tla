------------------------------- MODULE Poller -------------------------------
(***************************************************************************)
(* The poll of one account (app/scheduler/poller.py): find accepted        *)
(* invitations, send the initial message, look for replies, send the next  *)
(* follow-up.  Every worker replica may poll, under the Redis poll lock,   *)
(* when a poll time the planner chose has come.                            *)
(*                                                                         *)
(* A poll is one transaction: it reads its lists as it goes, keeps what it *)
(* changes in memory (the session does not autoflush), and writes all of   *)
(* it at the end, while messages leave at once.  The new_relation webhook  *)
(* (app/api/webhooks.py), the planner and the operator commit meanwhile.   *)
(***************************************************************************)
EXTENDS Integers, FiniteSets

CONSTANTS
    Pollers,     \* worker replicas
    Free,        \* the poll lock when nobody holds it
    Tasks,       \* tasks of the account
    Null,        \* no task, or no change to a row
    Templates,   \* number of follow-up templates of a campaign
    ChatErrors,  \* whether reading a chat may fail
    Overrun,     \* whether a poll may outlive the lock's expiry (1800 s)
    MaxFaults,   \* bound: lost replies, failed polls and crashes in a run
    Operator     \* bound: the API calls made: "campaign", "account"

\* A task: its status, its follow-up count, and whether next_followup_at is
\* NULL, ahead or reached.
Statuses == {"invite_sent", "accepted", "initial_sent", "replied", "completed"}
Rows == [status : Statuses, followups : 0 .. Templates, next : {"null", "ahead", "reached"}]

ASSUME PollerAssumption ==
    /\ Pollers # {} /\ Free \notin Pollers
    /\ Null \notin Tasks \cup Rows
    /\ Templates \in Nat
    /\ ChatErrors \in BOOLEAN
    /\ Overrun \in BOOLEAN
    /\ MaxFaults \in Nat

\* next_poll_times, as the set of what it holds: times reached, times ahead.
PollTimes == SUBSET {"due", "later"}

Stages == {"idle", "found", "relations", "accepted", "initial", "active",
           "replies", "followup", "done"}

VARIABLES
    row,        \* [Tasks -> the committed row]
    running,    \* the tasks whose campaign is running, as committed
    script,     \* [Tasks -> what its campaign sends: all, no follow-ups, nothing]
    connected,  \* account.status is "connected"
    times,      \* account.next_poll_times
    lock,       \* the Redis key of poll_lock
    stage,      \* [Pollers -> where the poll is]
    keep,       \* [Pollers -> the poll times it will store, or {"same"}]
    todo,       \* [Pollers -> tasks its current list still holds]
    current,    \* [Pollers -> the task it is about to follow up, or Null]
    mem,        \* [Pollers -> [Tasks -> the row it changed in memory, or Null]]
    replied,    \* the persons who wrote back
    messages,   \* ghost: [Tasks -> messages that reached the person]
    faults      \* ghost: faults so far

accountVars == <<connected, times>>
campaignVars == <<running, script>>
pollVars == <<stage, keep, todo, current, mem>>
ghostVars == <<messages, faults>>
vars == <<row, campaignVars, accountVars, lock, pollVars, replied, ghostVars>>

NoRows == [t \in Tasks |-> Null]

Polling(p) == stage[p] \notin {"idle", "found"}

TypeOK ==
    /\ row \in [Tasks -> Rows]
    /\ running \subseteq Tasks
    /\ script \in [Tasks -> {"all", "no_followups", "nothing"}]
    /\ connected \in BOOLEAN
    /\ times \in PollTimes
    /\ lock \in Pollers \cup {Free}
    /\ stage \in [Pollers -> Stages]
    /\ keep \in [Pollers -> PollTimes \cup {{"same"}}]
    /\ todo \in [Pollers -> SUBSET Tasks]
    /\ current \in [Pollers -> Tasks \cup {Null}]
    /\ mem \in [Pollers -> [Tasks -> Rows \cup {Null}]]
    /\ replied \subseteq Tasks
    /\ messages \in [Tasks -> Nat]
    /\ faults \in 0 .. MaxFaults
    \* a session and its objects end with the poll
    /\ \A p \in Pollers :
        /\ ~Polling(p) => mem[p] = NoRows /\ todo[p] = {}
        /\ current[p] # Null <=> stage[p] = "followup"

-----------------------------------------------------------------------------
Init ==
    /\ row = [t \in Tasks |-> [status |-> "invite_sent", followups |-> 0, next |-> "null"]]
    /\ running = Tasks
    /\ script \in [Tasks -> {"all", "no_followups", "nothing"}]
    /\ connected = TRUE
    /\ times = {}
    /\ lock = Free
    /\ stage = [p \in Pollers |-> "idle"]
    /\ keep = [p \in Pollers |-> {"same"}]
    /\ todo = [p \in Pollers |-> {}]
    /\ current = [p \in Pollers |-> Null]
    /\ mem = [p \in Pollers |-> NoRows]
    /\ replied = {}
    /\ messages = [t \in Tasks |-> 0]
    /\ faults = 0

-----------------------------------------------------------------------------
(***************************************************************************)
(* What happens around a poll.                                             *)
(***************************************************************************)
Reply(t) ==
    /\ messages[t] > 0
    /\ t \notin replied
    /\ replied' = replied \cup {t}
    /\ UNCHANGED <<row, campaignVars, accountVars, lock, pollVars, ghostVars>>

\* _mark_accepted, whether the campaign is running or not.
Webhook(t) ==
    /\ row[t].status = "invite_sent"
    /\ row' = [row EXCEPT ![t].status = "accepted"]
    /\ UNCHANGED <<campaignVars, accountVars, lock, pollVars, replied, ghostVars>>

\* POST pause and start of the campaign of t.
ToggleCampaign(t) ==
    /\ "campaign" \in Operator
    /\ running' = IF t \in running THEN running \ {t} ELSE running \cup {t}
    /\ UNCHANGED <<row, script, accountVars, lock, pollVars, replied, ghostVars>>

\* PATCH of the account's status.
ToggleAccount ==
    /\ "account" \in Operator
    /\ connected' = ~connected
    /\ UNCHANGED <<row, campaignVars, times, lock, pollVars, replied, ghostVars>>

\* The planner stores a new day's poll times, none on a day off.
PlanPolls ==
    /\ connected
    /\ times' \in {{}, {"later"}}
    /\ UNCHANGED <<row, campaignVars, connected, lock, pollVars, replied, ghostVars>>

\* Time reaches the first of the poll times ahead, or the last of them; those
\* a poll will store are the same.
Reached(s, ahead) == IF "later" \in s THEN {"due"} \cup ahead ELSE s

PollTimeComes ==
    /\ "later" \in times
    /\ \E ahead \in {{}, {"later"}} :
        /\ "due" \in times => ahead = {}
        /\ times' = Reached(times, ahead)
        /\ keep' = [p \in Pollers |-> Reached(keep[p], ahead)]
    /\ UNCHANGED <<row, campaignVars, connected, lock, stage, todo, current, mem,
                   replied, ghostVars>>

\* A poll compares with the time of its start, so that a follow-up time that
\* comes during a poll is as good as one that comes after it.
FollowupTimeComes(t) ==
    /\ \A p \in Pollers : ~Polling(p)
    /\ row[t].next = "ahead"
    /\ row' = [row EXCEPT ![t].next = "reached"]
    /\ UNCHANGED <<campaignVars, accountVars, lock, pollVars, replied, ghostVars>>

-----------------------------------------------------------------------------
(***************************************************************************)
(* The poll.                                                               *)
(***************************************************************************)
Goto(p, s) == stage' = [stage EXCEPT ![p] = s]

\* A row as the session of p has it.
View(p, t) == IF mem[p][t] = Null THEN row[t] ELSE mem[p][t]

\* p changes a row in memory.
Change(p, t, r) == mem' = [mem EXCEPT ![p][t] = r]
SetStatus(p, t, s) == Change(p, t, [View(p, t) EXCEPT !.status = s])

\* The lists are SQL queries: they see what is committed, not what is only in
\* memory.
Listed(s) == {t \in running : row[t].status = s}

\* run_poller_tick finds a poll time due.
Find(p) ==
    /\ stage[p] = "idle"
    /\ connected
    /\ "due" \in times
    /\ Goto(p, "found")
    /\ UNCHANGED <<row, campaignVars, accountVars, lock, keep, todo, current, mem,
                   replied, ghostVars>>

\* The poll lock.  Mutant: it is not looked at.
LockIgnored == TRUE
LockIsFree == lock = Free

\* Between the tick's query and the lock another replica may have run this
\* poll: _poll_account does not look for a due time again.  It drops the times
\* reached; with none, next_poll_times is not written.
Start(p) ==
    /\ stage[p] = "found"
    /\ LockIsFree
    /\ lock' = p
    /\ Goto(p, IF connected THEN "relations" ELSE "done")
    /\ keep' = [keep EXCEPT ![p] = IF "due" \in times THEN times \ {"due"} ELSE {"same"}]
    /\ UNCHANGED <<row, campaignVars, accountVars, todo, current, mem, replied, ghostVars>>

\* Another replica has the lock.
Skip(p) ==
    /\ stage[p] = "found"
    /\ ~LockIsFree
    /\ Goto(p, "idle")
    /\ UNCHANGED <<row, campaignVars, accountVars, lock, keep, todo, current, mem,
                   replied, ghostVars>>

\* Step 1: some of the invited turn out connected, by the relations list or by
\* the distance in their profile.
FindAccepted(p) ==
    /\ stage[p] = "relations"
    /\ \E A \in SUBSET Listed("invite_sent") :
        mem' = [mem EXCEPT ![p] = [t \in Tasks |->
                    IF t \in A THEN [row[t] EXCEPT !.status = "accepted"] ELSE Null]]
    /\ Goto(p, "accepted")
    /\ UNCHANGED <<row, campaignVars, accountVars, lock, keep, todo, current,
                   replied, ghostVars>>

\* Step 2: those whose row says so by now are to get the initial message, not
\* those step 1 found, which are in memory only.  Mutant: those of step 1.
FoundJustNow(p) == {t \in running : mem[p][t] # Null}
ToMessage(p) == Listed("accepted")

ListAccepted(p) ==
    /\ stage[p] = "accepted"
    /\ todo' = [todo EXCEPT ![p] = ToMessage(p)]
    /\ Goto(p, "initial")
    /\ UNCHANGED <<row, campaignVars, accountVars, lock, keep, current, mem,
                   replied, ghostVars>>

Done(p, t) == todo' = [todo EXCEPT ![p] = @ \ {t}]

Deliver(t) == messages' = [messages EXCEPT ![t] = @ + 1]

\* The campaign stopped meanwhile, no provider id, nothing to say, or an error.
DeferInitial(p, t) ==
    /\ stage[p] = "initial" /\ t \in todo[p]
    /\ Done(p, t)
    /\ UNCHANGED <<row, campaignVars, accountVars, lock, stage, keep, current, mem,
                   replied, ghostVars>>

CompleteSilently(p, t) ==
    /\ stage[p] = "initial" /\ t \in todo[p]
    /\ t \in running /\ script[t] = "nothing"
    /\ SetStatus(p, t, "completed")
    /\ Done(p, t)
    /\ UNCHANGED <<row, campaignVars, accountVars, lock, stage, keep, current,
                   replied, ghostVars>>

\* _schedule_next_followup after n follow-ups.
NextTime(t, n) == IF script[t] = "all" /\ n < Templates THEN "ahead" ELSE "null"

\* The row once the initial message is sent.
InitialSent(t, r) == [r EXCEPT !.status = "initial_sent", !.next = NextTime(t, 0)]

SendInitial(p, t) ==
    /\ stage[p] = "initial" /\ t \in todo[p]
    /\ t \in running /\ script[t] # "nothing"
    /\ Deliver(t)
    /\ Change(p, t, InitialSent(t, View(p, t)))
    /\ Done(p, t)
    /\ UNCHANGED <<row, campaignVars, accountVars, lock, stage, keep, current,
                   replied, faults>>

\* Step 3: those who have it, with a follow-up due or not.  Mutant: due ones.
DueOnly == {t \in Listed("initial_sent") : row[t].next = "reached"}
Active == Listed("initial_sent")

\* And perhaps the first this poll sent it to: when the day's counter row does
\* not exist yet, get_counter flushes the session.
ListActive(p) ==
    /\ stage[p] = "initial" /\ todo[p] = {}
    /\ \E F \in SUBSET {t \in running \ Listed("initial_sent") :
                            View(p, t).status = "initial_sent"} :
        /\ Cardinality(F) <= 1
        /\ todo' = [todo EXCEPT ![p] = Active \cup F]
    /\ Goto(p, "replies")
    /\ UNCHANGED <<row, campaignVars, accountVars, lock, keep, current, mem,
                   replied, ghostVars>>

\* The campaign stopped meanwhile.
SkipActive(p, t) ==
    /\ stage[p] = "replies" /\ t \in todo[p]
    /\ t \notin running
    /\ Done(p, t)
    /\ UNCHANGED <<row, campaignVars, accountVars, lock, stage, keep, current, mem,
                   replied, ghostVars>>

TemplatesUsed(n) == n >= Templates

\* The chat has a message of theirs.
SeeReply(p, t) ==
    /\ stage[p] = "replies" /\ t \in todo[p]
    /\ t \in running /\ t \in replied
    /\ SetStatus(p, t, "replied")
    /\ Done(p, t)
    /\ UNCHANGED <<row, campaignVars, accountVars, lock, stage, keep, current,
                   replied, ghostVars>>

\* _check_for_reply returns False: nothing there, or the chat could not be
\* read.  Then: no follow-ups, all sent, not due yet, or one to send.
SeeNoReply(p, t) ==
    /\ stage[p] = "replies" /\ t \in todo[p]
    /\ t \in running
    /\ t \notin replied \/ ChatErrors
    /\ IF script[t] = "all" /\ TemplatesUsed(View(p, t).followups)
       THEN SetStatus(p, t, "completed")
       ELSE UNCHANGED mem
    /\ IF script[t] = "all" /\ ~TemplatesUsed(View(p, t).followups)
                          /\ View(p, t).next = "reached"
       THEN Goto(p, "followup") /\ current' = [current EXCEPT ![p] = t]
       ELSE UNCHANGED <<stage, current>>
    /\ Done(p, t)
    /\ UNCHANGED <<row, campaignVars, accountVars, lock, keep, replied, ghostVars>>

FollowupSent(t, r) ==
    LET n == r.followups + 1
    IN [r EXCEPT !.followups = n, !.next = NextTime(t, n),
                 !.status = IF TemplatesUsed(n) THEN "completed" ELSE @]

\* Step 4.
SendFollowup(p) ==
    /\ stage[p] = "followup"
    /\ LET t == current[p]
       IN Deliver(t) /\ Change(p, t, FollowupSent(t, View(p, t)))
    /\ current' = [current EXCEPT ![p] = Null]
    /\ Goto(p, "replies")
    /\ UNCHANGED <<row, campaignVars, accountVars, lock, keep, todo, replied, faults>>

\* An error: the next poll will try again.
FollowupRefused(p) ==
    /\ stage[p] = "followup"
    /\ current' = [current EXCEPT ![p] = Null]
    /\ Goto(p, "replies")
    /\ UNCHANGED <<row, campaignVars, accountVars, lock, keep, todo, mem, replied, ghostVars>>

Fault ==
    /\ faults < MaxFaults
    /\ faults' = faults + 1

\* A message arrives but its answer does not: the client sends it again, or
\* gives up, as for one that did not arrive.
LostReply(p) ==
    /\ Fault
    /\ \/ stage[p] = "followup" /\ Deliver(current[p])
       \/ /\ stage[p] = "initial"
          /\ \E t \in todo[p] : t \in running /\ script[t] # "nothing" /\ Deliver(t)
    /\ UNCHANGED <<row, campaignVars, accountVars, lock, pollVars, replied>>

\* The session is closed.  Mutant: its objects stay.
SessionKept(p) ==
    /\ keep' = [keep EXCEPT ![p] = {"same"}]
    /\ todo' = [todo EXCEPT ![p] = {}]
    /\ current' = [current EXCEPT ![p] = Null]
    /\ UNCHANGED mem
Forget(p) ==
    /\ mem' = [mem EXCEPT ![p] = NoRows]
    /\ keep' = [keep EXCEPT ![p] = {"same"}]
    /\ todo' = [todo EXCEPT ![p] = {}]
    /\ current' = [current EXCEPT ![p] = Null]

\* The transaction commits: UPDATEs of the rows it changed.  Mutant: it does
\* not.
NotStored(p, t) == row[t]
Stored(p, t) == View(p, t)

Commit(p) ==
    /\ stage[p] = "replies" /\ todo[p] = {}
    /\ row' = [t \in Tasks |-> Stored(p, t)]
    /\ times' = IF keep[p] = {"same"} THEN times ELSE keep[p]
    /\ Forget(p)
    /\ Goto(p, "done")
    /\ UNCHANGED <<campaignVars, connected, lock, replied, ghostVars>>

\* Something raises, a request, a flush or the commit, and all is rolled back.
Fail(p) ==
    /\ stage[p] \notin {"idle", "found", "done"}
    /\ Fault
    /\ Forget(p)
    /\ Goto(p, "done")
    /\ UNCHANGED <<row, campaignVars, accountVars, lock, replied, messages>>

\* release_poll_lock deletes the key, whoever set it.
Release(p) ==
    /\ stage[p] = "done"
    /\ lock' = Free
    /\ keep' = [keep EXCEPT ![p] = {"same"}]
    /\ Goto(p, "idle")
    /\ UNCHANGED <<row, campaignVars, accountVars, todo, current, mem, replied, ghostVars>>

\* The process dies and is started again.
Crash(p) ==
    /\ Polling(p)
    /\ Fault
    /\ Forget(p)
    /\ Goto(p, "idle")
    /\ UNCHANGED <<row, campaignVars, accountVars, lock, replied, messages>>

\* Redis drops the key of a poll that died, or took longer than the expiry.
ExpireKey ==
    /\ lock # Free
    /\ Overrun \/ ~Polling(lock)
    /\ lock' = Free
    /\ UNCHANGED <<row, campaignVars, accountVars, pollVars, replied, ghostVars>>

-----------------------------------------------------------------------------
Environment ==
    \/ \E t \in Tasks :
        Reply(t) \/ Webhook(t) \/ ToggleCampaign(t) \/ FollowupTimeComes(t)
    \/ ToggleAccount \/ PlanPolls \/ PollTimeComes \/ ExpireKey

TaskStep(p, t) ==
    \/ DeferInitial(p, t) \/ CompleteSilently(p, t) \/ SendInitial(p, t)
    \/ SkipActive(p, t) \/ SeeReply(p, t) \/ SeeNoReply(p, t)

Poll(p) ==
    \/ Find(p) \/ Start(p) \/ Skip(p)
    \/ FindAccepted(p) \/ ListAccepted(p) \/ ListActive(p)
    \/ \E t \in Tasks : TaskStep(p, t)
    \/ SendFollowup(p) \/ FollowupRefused(p) \/ LostReply(p)
    \/ Commit(p) \/ Fail(p) \/ Release(p) \/ Crash(p)

Next == Environment \/ \E p \in Pollers : Poll(p)

Spec == Init /\ [][Next]_vars

-----------------------------------------------------------------------------
(***************************************************************************)
(* Safety.                                                                 *)
(***************************************************************************)

\* The messages a row says were sent.
Recorded(t, r) ==
    (IF r.status \in {"initial_sent", "replied", "completed"} /\ script[t] # "nothing"
     THEN 1 ELSE 0) + r.followups

\* Nobody gets a message twice: faults aside, every message that reached a
\* person is in the row, or in the memory of the poll that will store it.
MessagesRecorded ==
    \A t \in Tasks : \E p \in Pollers :
        messages[t] <= Recorded(t, View(p, t)) + faults

\* A committed row never goes back, whatever poll or webhook writes it last:
\* a task that went back to accepted would get its initial message again.
Rank(s) ==
    CASE s = "invite_sent" -> 0 [] s = "accepted" -> 1 [] s = "initial_sent" -> 2
      [] OTHER -> 3
RowsForward ==
    [][\A t \in Tasks :
        /\ Rank(row[t].status) <= Rank(row'[t].status)
        /\ row[t].followups <= row'[t].followups]_vars

\* "reply => stop automation" (poller.py:5): no message goes to a person whose
\* reply is stored, not even from a poll that listed the task before.
QuietOnceReplied ==
    [][\A t \in Tasks : row[t].status = "replied" => messages'[t] = messages[t]]_vars

-----------------------------------------------------------------------------
(***************************************************************************)
(* Liveness.                                                               *)
(***************************************************************************)

\* The planner plans polls on every working day and the poller ticks every few
\* minutes in every replica, so that a poll time is found before the planner
\* replaces it, again and again, and the lock does not always belong to the
\* other replica.  A poll under way goes on, the key of a dead poll expires,
\* and Unipile does not refuse every message, or to show a chat, forever.
GoOn(p) ==
    \/ FindAccepted(p) \/ ListAccepted(p) \/ ListActive(p)
    \/ \E t \in Tasks : TaskStep(p, t)
    \/ SendFollowup(p) \/ FollowupRefused(p) \/ Commit(p) \/ Release(p)

Fairness ==
    /\ WF_vars(PlanPolls /\ times' = {"later"})
    /\ SF_vars(PollTimeComes)
    /\ SF_vars(\E p \in Pollers : Find(p))
    /\ WF_vars(ExpireKey)
    /\ \A p \in Pollers : SF_vars(Start(p)) /\ WF_vars(GoOn(p))
    /\ \A t \in Tasks :
        /\ SF_vars(\E p \in Pollers : SendInitial(p, t) \/ CompleteSilently(p, t))
        /\ SF_vars(\E p \in Pollers : SeeReply(p, t))

LiveSpec == Spec /\ Fairness

\* An accepted invitation gets its initial message stored in the end, as long
\* as its campaign ends up running and the account connected: no lock, lost
\* poll time or failed poll strands it.
AcceptedIsMessaged ==
    \A t \in Tasks :
        <>[](connected /\ t \in running) =>
            (row[t].status = "accepted" ~> Rank(row[t].status) > 1)

\* "reply => stop automation": a person's reply to the initial message is seen
\* in the end, if the follow-ups have not ended before.  A chat that cannot be
\* read counts as one without a reply, so that a follow-up may still go out.
ReplyIsSeen ==
    \A t \in Tasks :
        <>[](connected /\ t \in running) =>
            (row[t].status = "initial_sent" /\ t \in replied
                ~> row[t].status \in {"replied", "completed"})
=============================================================================
