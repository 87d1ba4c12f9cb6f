---------------------------- MODULE PollerProofs ----------------------------
(***************************************************************************)
(* The safety of Poller, for any number of pollers, tasks and templates,   *)
(* as long as no poll outlives the expiry of the poll lock: two polls at   *)
(* once send what they list twice.                                         *)
(***************************************************************************)
EXTENDS Poller, TLAPS

\* A poll under way holds the lock.
Exclusive == \A p \in Pollers : Polling(p) => lock = p

\* A poll that has not begun, or that has ended, keeps nothing.
Clean ==
    \A p \in Pollers :
        stage[p] \in {"idle", "found", "relations", "done"}
            => mem[p] = NoRows /\ todo[p] = {}

\* Nothing is due to a person who does not have the initial message.
Early == {"invite_sent", "accepted"}
EarlyRows == \A t \in Tasks : row[t].status \in Early => row[t].next = "null"

\* What a poll changed in memory is ahead of the committed row, which a
\* webhook may still move to accepted.
Ahead(r, m) ==
    /\ m.status # "invite_sent"
    /\ Rank(r.status) <= Rank(m.status)
    /\ r.followups <= m.followups
    /\ m.status = "accepted" => m.followups = r.followups /\ m.next = "null"
MemAhead == \A p \in Pollers, t \in Tasks : mem[p][t] # Null => Ahead(row[t], mem[p][t])

\* Until a poll lists the tasks it follows up, it has changed only tasks whose
\* row has no initial message, and has made no follow-up due.
MemEarly ==
    \A p \in Pollers, t \in Tasks :
        stage[p] \in {"accepted", "initial"} /\ mem[p][t] # Null =>
            /\ row[t].status \in Early
            /\ mem[p][t].next # "reached"
            /\ stage[p] = "accepted" => mem[p][t].status = "accepted"

\* Who still is to get the initial message is accepted.
ToBeMessaged ==
    \A p \in Pollers, t \in Tasks :
        stage[p] = "initial" /\ t \in todo[p] =>
            row[t].status = "accepted" /\ View(p, t).status = "accepted"

\* Who still is to be looked at has the initial message, and nothing due if it
\* is from this poll; who is to get a follow-up has not had a message from it.
Following(p) == stage[p] \in {"replies", "followup"}
ToBeSeen ==
    \A p \in Pollers, t \in Tasks :
        Following(p) /\ t \in todo[p] =>
            /\ View(p, t).status = "initial_sent"
            /\ mem[p][t] # Null => mem[p][t].next # "reached"
ToBeFollowed ==
    \A p \in Pollers : stage[p] = "followup" =>
        /\ current[p] \notin todo[p]
        /\ mem[p][current[p]] = Null
        /\ row[current[p]].status = "initial_sent"
        /\ row[current[p]].followups < Templates

\* The messages that reached a person, against what the poll under way will
\* store, and against the row, which may lack one message of this poll.
Counted(t, r, extra) == messages[t] <= Recorded(t, r) + faults + extra
Accounted ==
    \A t \in Tasks :
        /\ \A p \in Pollers : Polling(p) => Counted(t, View(p, t), 0) /\ Counted(t, row[t], 1)
        /\ (\A p \in Pollers : ~Polling(p)) => Counted(t, row[t], 0)

IInv ==
    /\ TypeOK
    /\ Exclusive
    /\ Clean
    /\ EarlyRows
    /\ MemAhead
    /\ MemEarly
    /\ ToBeMessaged
    /\ ToBeSeen
    /\ ToBeFollowed
    /\ Accounted

\* TypeOK in two parts: what each variable holds, and what a poll that is not
\* under way, or not sending a follow-up, does not hold.
Shapes ==
    /\ row \in [Tasks -> Rows]
    /\ running \subseteq Tasks
    /\ script \in [Tasks -> {"all", "no_followups", "nothing"}]
    /\ connected \in BOOLEAN
    /\ times \in PollTimes
    /\ lock \in Pollers \cup {Free}
    /\ stage \in [Pollers -> Stages]
    /\ keep \in [Pollers -> PollTimes \cup {{"same"}}]
    /\ todo \in [Pollers -> SUBSET Tasks]
    /\ current \in [Pollers -> Tasks \cup {Null}]
    /\ mem \in [Pollers -> [Tasks -> Rows \cup {Null}]]
    /\ replied \subseteq Tasks
    /\ messages \in [Tasks -> Nat]
    /\ faults \in 0 .. MaxFaults
Ended(p) == ~Polling(p) => mem[p] = NoRows /\ todo[p] = {}
Followed(p) == current[p] # Null <=> stage[p] = "followup"

\* TypeOK is these two parts.
LEMMA TypeParts == TypeOK <=> Shapes /\ \A p \in Pollers : Ended(p) /\ Followed(p)
BY DEF TypeOK, Shapes, Ended, Followed


-----------------------------------------------------------------------------
(***************************************************************************)
(* Rows.                                                                   *)
(***************************************************************************)

\* The order of statuses.
LEMMA Ranks ==
    /\ Rank("invite_sent") = 0
    /\ Rank("accepted") = 1
    /\ Rank("initial_sent") = 2
    /\ Rank("replied") = 3
    /\ Rank("completed") = 3
BY DEF Rank

\* A change of status leaves the rest of a row alone.
LEMMA StatusChange ==
    ASSUME NEW v \in Rows, NEW s \in Statuses
    PROVE  \E r \in Rows :
              /\ r = [v EXCEPT !.status = s]
              /\ r.status = s /\ r.followups = v.followups /\ r.next = v.next
<1>1. [v EXCEPT !.status = s] \in Rows
  BY DEF Rows
<1> QED BY <1>1 DEF Rows

\* The row after the initial message, and the row after a follow-up.
LEMMA InitialRow ==
    ASSUME NEW t \in Tasks, NEW v \in Rows
    PROVE  \E r \in Rows :
              /\ r = InitialSent(t, v)
              /\ r.status = "initial_sent" /\ r.followups = v.followups
              /\ r.next \in {"ahead", "null"}
<1>1. NextTime(t, 0) \in {"ahead", "null"}
  BY DEF NextTime
<1>2. PICK x \in {"ahead", "null"} : x = NextTime(t, 0)
  BY <1>1
<1>3. [v EXCEPT !.status = "initial_sent", !.next = x] \in Rows
  BY DEF Rows, Statuses
<1> QED BY <1>2, <1>3 DEF InitialSent, Rows

LEMMA FollowupRow ==
    ASSUME NEW t \in Tasks, NEW v \in Rows, v.followups < Templates, v.status = "initial_sent"
    PROVE  \E r \in Rows :
              /\ r = FollowupSent(t, v)
              /\ r.status \in {"initial_sent", "completed"}
              /\ r.followups = v.followups + 1
<1>1. PICK n \in 0 .. Templates : n = v.followups + 1
  BY PollerAssumption DEF Rows
<1>2. PICK x \in {"ahead", "null"} : x = NextTime(t, n)
  BY DEF NextTime
<1>3. PICK s \in {"initial_sent", "completed"} :
          s = IF TemplatesUsed(n) THEN "completed" ELSE v.status
  OBVIOUS
<1>4. [v EXCEPT !.followups = n, !.next = x, !.status = s] \in Rows
  BY DEF Rows, Statuses
<1>5. FollowupSent(t, v) = [v EXCEPT !.followups = n, !.next = x, !.status = s]
  BY <1>1, <1>2, <1>3 DEF FollowupSent
<1> QED BY <1>1, <1>4, <1>5 DEF Rows

\* What a session sees of a task is a row.
LEMMA ViewIsRow ==
    ASSUME TypeOK, NEW p \in Pollers, NEW t \in Tasks
    PROVE  \E v \in Rows : v = View(p, t)
BY DEF TypeOK, View

\* The messages a row counts, by a script that never changes.
LEMMA RecordedIsNat ==
    ASSUME NEW t \in Tasks, NEW r \in Rows
    PROVE  /\ Recorded(t, r) \in Nat
           /\ script' = script => Recorded(t, r)' = Recorded(t, r)
BY PollerAssumption DEF Recorded, Rows

\* A webhook's change, and the time of a follow-up, are in no one's count.
LEMMA SameRecord ==
    ASSUME NEW t \in Tasks, NEW r \in Rows, NEW s \in Rows, r.followups = s.followups,
           r.status = s.status \/ {r.status, s.status} \subseteq Early
    PROVE  Recorded(t, r) = Recorded(t, s)
BY DEF Recorded, Early

-----------------------------------------------------------------------------
(***************************************************************************)
(* The steps around a poll.                                                *)
(***************************************************************************)

\* Replies, the operator and the planner touch no row, poll or message.
LEMMA AsideStep ==
    ASSUME IInv, TypeOK',
           UNCHANGED <<row, script, lock, stage, todo, current, mem, messages, faults>>
    PROVE  IInv'
BY DEF IInv, Exclusive, Polling, Clean, NoRows, EarlyRows, MemAhead, MemEarly, ToBeMessaged,
       ToBeSeen, Following, ToBeFollowed, View, Accounted, Counted, Recorded

\* And keep to the types.
LEMMA EnvironmentTypes ==
    ASSUME TypeOK,
           \/ \E t \in Tasks : Reply(t) \/ ToggleCampaign(t)
           \/ ToggleAccount \/ PlanPolls \/ PollTimeComes
    PROVE  /\ TypeOK'
           /\ UNCHANGED <<row, script, lock, stage, todo, current, mem, messages, faults>>
<1> USE DEF campaignVars, accountVars, pollVars, ghostVars
<1>1. ASSUME NEW t \in Tasks, Reply(t) \/ ToggleCampaign(t) PROVE TypeOK'
  BY <1>1 DEF Reply, ToggleCampaign, TypeOK, Polling, NoRows
<1>2. ASSUME ToggleAccount \/ PlanPolls PROVE TypeOK'
  BY <1>2 DEF ToggleAccount, PlanPolls, TypeOK, Polling, NoRows, PollTimes
<1>3. ASSUME PollTimeComes PROVE TypeOK'
  <2>1. PICK ahead \in {{}, {"later"}} :
            /\ times' = Reached(times, ahead)
            /\ keep' = [p \in Pollers |-> Reached(keep[p], ahead)]
    BY <1>3 DEF PollTimeComes
  <2>2. \A s \in PollTimes \cup {{"same"}} :
            /\ s \in PollTimes => Reached(s, ahead) \in PollTimes
            /\ Reached(s, ahead) \in PollTimes \cup {{"same"}}
    BY DEF Reached, PollTimes
  <2>3. times' \in PollTimes /\ keep' \in [Pollers -> PollTimes \cup {{"same"}}]
    BY <2>1, <2>2 DEF TypeOK
  <2> QED BY <1>3, <2>3 DEF PollTimeComes, TypeOK, Polling, NoRows
<1> QED BY <1>1, <1>2, <1>3 DEF Reply, ToggleCampaign, ToggleAccount, PlanPolls, PollTimeComes

-----------------------------------------------------------------------------
(***************************************************************************)
(* The steps of a poll that change one row in memory.                      *)
(***************************************************************************)

\* The memory after one row of it was changed.
LEMMA Changed ==
    ASSUME Shapes, NEW p \in Pollers, NEW t \in Tasks, NEW r \in Rows, Change(p, t, r)
    PROVE  /\ mem' \in [Pollers -> [Tasks -> Rows \cup {Null}]]
           /\ mem'[p][t] = r /\ r # Null
           /\ \A u \in Tasks \ {t} : mem'[p][u] = mem[p][u]
           /\ \A q \in Pollers \ {p} : mem'[q] = mem[q]
BY PollerAssumption DEF Shapes, Change

\* The change of a row p is at work on, when the row is ahead of the committed
\* one and what was sent is counted.
LEMMA ChangeStep ==
    ASSUME IInv, NEW p \in Pollers, NEW t \in Tasks, NEW r \in Rows,
           Change(p, t, r),
           stage[p] \in {"initial", "replies", "followup"},
           r.status \in {"initial_sent", "replied", "completed"},
           Ahead(row[t], r),
           stage[p] = "initial" => row[t].status \in Early /\ r.next # "reached",
           stage' = stage \/ (Goto(p, "replies") /\ stage[p] # "initial"),
           todo' \in [Pollers -> SUBSET Tasks],
           todo'[p] = todo[p] \ {t}, \A q \in Pollers \ {p} : todo'[q] = todo[q],
           current' \in [Pollers -> Tasks \cup {Null}],
           current'[p] = Null, \A q \in Pollers \ {p} : current'[q] = current[q],
           stage'[p] # "followup",
           messages' \in [Tasks -> Nat], \A u \in Tasks \ {t} : messages'[u] = messages[u],
           messages'[t] <= Recorded(t, r) + faults,
           messages'[t] <= Recorded(t, row[t]) + faults + 1,
           UNCHANGED <<row, campaignVars, accountVars, lock, keep, replied, faults>>
    PROVE  IInv'
<1> USE PollerAssumption DEF campaignVars, accountVars
<1>1. Shapes /\ (\A q \in Pollers : Ended(q) /\ Followed(q))
  BY TypeParts DEF IInv
<1>2. /\ mem' \in [Pollers -> [Tasks -> Rows \cup {Null}]]
      /\ mem'[p][t] = r /\ r # Null
      /\ \A u \in Tasks \ {t} : mem'[p][u] = mem[p][u]
      /\ \A q \in Pollers \ {p} : mem'[q] = mem[q]
  BY <1>1, Changed
<1>3. /\ stage' \in [Pollers -> Stages]
      /\ stage'[p] \in {"initial", "replies"}
      /\ stage[p] = "initial" <=> stage'[p] = "initial"
      /\ \A q \in Pollers \ {p} : stage'[q] = stage[q]
  <2>1. CASE stage' = stage
    BY <2>1, <1>1 DEF Shapes
  <2>2. CASE Goto(p, "replies") /\ stage[p] # "initial"
    BY <2>2, <1>1 DEF Shapes, Stages, Goto
  <2> QED BY <2>1, <2>2
<1>4. \A q \in Pollers : Polling(q)' <=> Polling(q)
  BY <1>3 DEF Polling
<1>5. \A u \in Tasks \ {t} : View(p, u)' = View(p, u)
  BY <1>2 DEF View
<1>6. View(p, t)' = r
  BY <1>2 DEF View
<1>7. TypeOK'
  <2>1. Shapes'
    BY <1>1, <1>2, <1>3 DEF Shapes
  <2>2. ASSUME NEW q \in Pollers PROVE Ended(q)' /\ Followed(q)'
    <3>1. CASE q = p
      BY <3>1, <1>1, <1>3 DEF Ended, Followed, Polling, Shapes
    <3>2. CASE q # p
      BY <3>2, <1>1, <1>2, <1>3, <1>4 DEF Ended, Followed, Shapes, NoRows
    <3> QED BY <3>1, <3>2
  <2> QED BY <2>1, <2>2 DEF TypeOK, Shapes, Ended, Followed
<1>8. Exclusive' /\ Clean' /\ EarlyRows'
  BY <1>1, <1>2, <1>3, <1>4 DEF IInv, Exclusive, Clean, NoRows, EarlyRows
<1>9. MemAhead' /\ MemEarly'
  <2>1. row' = row
    OBVIOUS
  <2>2. ASSUME NEW q \in Pollers, NEW u \in Tasks, mem'[q][u] # Null, ~(q = p /\ u = t)
        PROVE  mem'[q][u] = mem[q][u]
    BY <2>2, <1>2
  <2>3. MemAhead'
    BY <1>2, <2>1, <2>2 DEF IInv, MemAhead
  <2>4. MemEarly'
    BY <1>2, <1>3, <2>1, <2>2 DEF IInv, MemEarly
  <2> QED BY <2>3, <2>4
<1>10. ToBeMessaged' /\ ToBeSeen' /\ ToBeFollowed'
  <2>1. ASSUME NEW q \in Pollers, q # p, NEW u \in Tasks PROVE View(q, u)' = View(q, u)
    BY <2>1, <1>2 DEF View
  <2>2. ToBeMessaged'
    BY <1>3, <1>5, <2>1 DEF IInv, ToBeMessaged
  <2>3. ToBeSeen'
    <3>1. ASSUME NEW u \in Tasks, u \in todo'[p]
          PROVE  u # t /\ u \in todo[p] /\ View(p, u)' = View(p, u) /\ mem'[p][u] = mem[p][u]
      BY <3>1, <1>2, <1>5
    <3>2. \A q \in Pollers \ {p}, u \in Tasks : mem'[q][u] = mem[q][u]
      BY <1>2
    <3> QED BY <1>3, <2>1, <3>1, <3>2 DEF IInv, ToBeSeen, Following
  <2>4. ToBeFollowed'
    BY <1>1, <1>2, <1>3 DEF IInv, ToBeFollowed, Shapes
  <2> QED BY <2>2, <2>3, <2>4
<1>11. Accounted'
  <2>1. ASSUME NEW u \in Tasks, NEW q \in Pollers, Polling(q)'
        PROVE  Counted(u, View(q, u), 0)' /\ Counted(u, row[u], 1)'
    <3>1. q = p
      BY <2>1, <1>3, <1>4 DEF IInv, Exclusive, Polling
    <3>2. PICK w \in Rows : w = row[u]
      BY <1>1 DEF Shapes
    <3>3. PICK v \in Rows : v = View(p, u)
      BY ViewIsRow DEF IInv
    <3>4. /\ Recorded(u, w)' = Recorded(u, w)
          /\ Recorded(u, v)' = Recorded(u, v)
          /\ Recorded(u, r)' = Recorded(u, r)
      BY RecordedIsNat
    <3>5. Counted(u, v, 0) /\ Counted(u, w, 1)
      BY <2>1, <1>4, <3>1, <3>2, <3>3 DEF IInv, Accounted
    <3>6. CASE u = t
      <4>1. /\ messages'[t] <= Recorded(t, r)' + faults'
            /\ messages'[t] <= Recorded(t, w)' + faults' + 1
        BY <3>2, <3>4, <3>6
      <4>2. row'[u] = w /\ View(q, u)' = r
        BY <3>1, <3>2, <3>6, <1>6
      <4>3. /\ messages'[t] \in Nat /\ faults' \in Nat
            /\ Recorded(t, r)' \in Nat /\ Recorded(t, w)' \in Nat
        BY <3>4, RecordedIsNat, <1>1 DEF Shapes
      <4> QED BY <3>6, <4>1, <4>2, <4>3 DEF Counted
    <3>7. CASE u # t
      BY <3>1, <3>2, <3>3, <3>4, <3>5, <3>7, <1>5 DEF Counted, Recorded
    <3> QED BY <3>6, <3>7
  <2>2. Polling(p)'
    BY <1>3 DEF Polling
  <2> QED BY <2>1, <2>2 DEF Accounted
<1> QED BY <1>7, <1>8, <1>9, <1>10, <1>11 DEF IInv

\* What is counted, of a person a poll is at work on.
LEMMA CountedByPoll ==
    ASSUME IInv, NEW p \in Pollers, Polling(p), NEW t \in Tasks,
           NEW v \in Rows, v = View(p, t), NEW w \in Rows, w = row[t]
    PROVE  messages[t] <= Recorded(t, v) + faults /\ messages[t] <= Recorded(t, w) + faults + 1
<1>1. Counted(t, v, 0) /\ Counted(t, w, 1)
  BY DEF IInv, Accounted
<1>2. Recorded(t, v) \in Nat /\ faults \in Nat
  BY RecordedIsNat, PollerAssumption DEF IInv, TypeOK
<1> QED BY <1>1, <1>2 DEF Counted

\* The change of the row of a task p has on its list, and now takes off it.
LEMMA ListedChangeStep ==
    ASSUME IInv, NEW p \in Pollers, NEW t \in Tasks, NEW r \in Rows,
           Change(p, t, r), Done(p, t),
           stage[p] \in {"initial", "replies"},
           r.status \in {"initial_sent", "replied", "completed"},
           Ahead(row[t], r),
           stage[p] = "initial" => row[t].status \in Early /\ r.next # "reached",
           messages' \in [Tasks -> Nat], \A u \in Tasks \ {t} : messages'[u] = messages[u],
           messages'[t] <= Recorded(t, r) + faults,
           messages'[t] <= Recorded(t, row[t]) + faults + 1,
           UNCHANGED <<row, campaignVars, accountVars, lock, stage, keep, current, replied,
                       faults>>
    PROVE  IInv'
<1>1. Shapes /\ Followed(p)
  BY TypeParts DEF IInv
<1>2. /\ todo' \in [Pollers -> SUBSET Tasks]
      /\ todo'[p] = todo[p] \ {t} /\ \A q \in Pollers \ {p} : todo'[q] = todo[q]
  BY <1>1 DEF Done, Shapes
<1>3. current' \in [Pollers -> Tasks \cup {Null}] /\ current'[p] = Null
  BY <1>1 DEF Shapes, Followed
<1> QED BY <1>2, <1>3, ChangeStep

\* Nothing to send: the row skips to completed, and no message is missing.
LEMMA CompleteSilentlyStep ==
    ASSUME IInv, NEW p \in Pollers, NEW t \in Tasks, CompleteSilently(p, t)
    PROVE  IInv'
<1> USE DEF CompleteSilently, SetStatus
<1>1. Shapes
  BY TypeParts DEF IInv
<1>2. PICK v \in Rows : v = View(p, t)
  BY ViewIsRow DEF IInv
<1>3. PICK r \in Rows :
          /\ r = [v EXCEPT !.status = "completed"]
          /\ r.status = "completed" /\ r.followups = v.followups /\ r.next = v.next
  BY StatusChange DEF Statuses
<1>4. PICK w \in Rows : w = row[t]
  BY <1>1 DEF Shapes
<1>5. w.status = "accepted" /\ v.status = "accepted"
  BY <1>2, <1>4 DEF IInv, ToBeMessaged
<1>6. v.followups = w.followups /\ v.next = "null"
  BY <1>2, <1>4, <1>5 DEF IInv, View, MemAhead, Ahead, EarlyRows, Early
<1>7. Ahead(row[t], r)
  BY <1>3, <1>4, <1>5, <1>6, Ranks DEF Ahead, Rows
<1>8. /\ Recorded(t, r) = v.followups
      /\ Recorded(t, v) = v.followups
      /\ Recorded(t, w) = v.followups
  BY <1>3, <1>5, <1>6 DEF Recorded, Rows
<1>9. messages[t] <= Recorded(t, v) + faults /\ messages[t] <= Recorded(t, w) + faults + 1
  BY <1>2, <1>4, CountedByPoll DEF Polling
<1> QED
  BY <1>1, <1>2, <1>3, <1>4, <1>5, <1>6, <1>7, <1>8, <1>9, ListedChangeStep
  DEF Shapes, Early, ghostVars

\* The initial message, and the row that counts it.
LEMMA SendInitialStep ==
    ASSUME IInv, NEW p \in Pollers, NEW t \in Tasks, SendInitial(p, t)
    PROVE  IInv'
<1> USE DEF SendInitial
<1>1. Shapes
  BY TypeParts DEF IInv
<1>2. PICK v \in Rows : v = View(p, t)
  BY ViewIsRow DEF IInv
<1>3. PICK r \in Rows :
          /\ r = InitialSent(t, v)
          /\ r.status = "initial_sent" /\ r.followups = v.followups
          /\ r.next \in {"ahead", "null"}
  BY InitialRow
<1>4. PICK w \in Rows : w = row[t]
  BY <1>1 DEF Shapes
<1>5. w.status = "accepted" /\ v.status = "accepted"
  BY <1>2, <1>4 DEF IInv, ToBeMessaged
<1>6. v.followups = w.followups
  BY <1>2, <1>4, <1>5 DEF IInv, View, MemAhead, Ahead
<1>7. Ahead(row[t], r)
  BY <1>3, <1>4, <1>5, <1>6, Ranks DEF Ahead, Rows
<1>8. /\ Recorded(t, r) = 1 + v.followups
      /\ Recorded(t, v) = v.followups
      /\ Recorded(t, w) = v.followups
  BY <1>3, <1>5, <1>6 DEF Recorded, Rows
<1>9. messages[t] <= Recorded(t, v) + faults
  BY <1>2, <1>4, CountedByPoll DEF Polling
<1>10. /\ messages' \in [Tasks -> Nat] /\ messages'[t] = messages[t] + 1
       /\ \A u \in Tasks \ {t} : messages'[u] = messages[u]
  BY <1>1 DEF Shapes, Deliver
<1>11. /\ messages'[t] <= Recorded(t, r) + faults
       /\ messages'[t] <= Recorded(t, w) + faults + 1
  BY <1>1, <1>8, <1>9, <1>10 DEF Shapes, Rows
<1> QED
  BY <1>1, <1>2, <1>3, <1>4, <1>5, <1>7, <1>10, <1>11, ListedChangeStep
  DEF Shapes, Early, ghostVars

\* Whoever is looked at has the initial message, in the row or from this poll.
LEMMA SeenIsAhead ==
    ASSUME IInv, NEW p \in Pollers, stage[p] = "replies", NEW t \in Tasks, t \in todo[p],
           NEW r \in Rows, NEW s \in {"replied", "completed"},
           r = [View(p, t) EXCEPT !.status = s]
    PROVE  /\ r.status = s
           /\ Ahead(row[t], r)
           /\ messages[t] <= Recorded(t, r) + faults
           /\ messages[t] <= Recorded(t, row[t]) + faults + 1
<1>1. Shapes
  BY TypeParts DEF IInv
<1>2. PICK v \in Rows : v = View(p, t)
  BY ViewIsRow DEF IInv
<1>3. PICK w \in Rows : w = row[t]
  BY <1>1 DEF Shapes
<1>4. r.status = s /\ r.followups = v.followups /\ r.next = v.next
  BY <1>2, StatusChange DEF Statuses
<1>5. v.status = "initial_sent"
  BY <1>2 DEF IInv, ToBeSeen, Following
<1>6. Rank(w.status) <= 3 /\ w.followups <= v.followups
  BY <1>2, <1>3, <1>5, Ranks DEF IInv, View, MemAhead, Ahead, Rows, Statuses
<1>7. Ahead(w, r)
  BY <1>4, <1>6, Ranks DEF Ahead
<1>8. Recorded(t, r) = Recorded(t, v)
  BY <1>4, <1>5 DEF Recorded
<1>9. messages[t] <= Recorded(t, v) + faults /\ messages[t] <= Recorded(t, w) + faults + 1
  BY <1>2, <1>3, CountedByPoll DEF Polling
<1> QED BY <1>3, <1>4, <1>7, <1>8, <1>9

\* A reply changes the status and no count.
LEMMA SeeReplyStep ==
    ASSUME IInv, NEW p \in Pollers, NEW t \in Tasks, SeeReply(p, t)
    PROVE  IInv'
<1> USE DEF SeeReply, SetStatus
<1>1. Shapes
  BY TypeParts DEF IInv
<1>2. PICK r \in Rows : r = [View(p, t) EXCEPT !.status = "replied"]
  <2>1. PICK v \in Rows : v = View(p, t)
    BY ViewIsRow DEF IInv
  <2>2. \E r \in Rows : r = [v EXCEPT !.status = "replied"]
    BY StatusChange DEF Statuses
  <2> QED BY <2>1, <2>2
<1>3. /\ r.status = "replied"
      /\ Ahead(row[t], r)
      /\ messages[t] <= Recorded(t, r) + faults
      /\ messages[t] <= Recorded(t, row[t]) + faults + 1
  BY <1>2, SeenIsAhead
<1> QED
  BY <1>1, <1>2, <1>3, ListedChangeStep
  DEF Shapes, Early, ghostVars

\* Follow-ups end, or one is due: then the row is untouched in memory.
LEMMA SeeNoReplyStep ==
    ASSUME IInv, NEW p \in Pollers, NEW t \in Tasks, SeeNoReply(p, t)
    PROVE  IInv'
<1> USE DEF SeeNoReply
<1>1. Shapes /\ \A q \in Pollers : Ended(q) /\ Followed(q)
  BY TypeParts DEF IInv
<1>2. PICK v \in Rows : v = View(p, t)
  BY ViewIsRow DEF IInv
<1>3. CASE script[t] = "all" /\ TemplatesUsed(v.followups)
  <2>1. PICK r \in Rows : r = [v EXCEPT !.status = "completed"]
    BY StatusChange DEF Statuses
  <2>2. /\ r.status = "completed"
        /\ Ahead(row[t], r)
        /\ messages[t] <= Recorded(t, r) + faults
        /\ messages[t] <= Recorded(t, row[t]) + faults + 1
    BY <1>2, <2>1, SeenIsAhead
  <2>3. Change(p, t, r) /\ UNCHANGED <<stage, current>>
    BY <1>2, <1>3, <2>1 DEF SetStatus
  <2> QED BY <1>1, <2>2, <2>3, ListedChangeStep DEF Shapes, ghostVars
<1>4. CASE ~(script[t] = "all" /\ TemplatesUsed(v.followups))
  <2>1. /\ todo' \in [Pollers -> SUBSET Tasks]
        /\ todo'[p] = todo[p] \ {t} /\ \A q \in Pollers \ {p} : todo'[q] = todo[q]
    BY <1>1 DEF Shapes, Done
  <2>2. UNCHANGED <<row, running, script, connected, times, lock, keep, mem, replied,
                    messages, faults>>
    BY <1>2, <1>4 DEF campaignVars, accountVars, ghostVars
  <2>3. /\ stage' \in [Pollers -> Stages] /\ stage'[p] \in {"replies", "followup"}
        /\ \A q \in Pollers \ {p} : stage'[q] = stage[q]
        /\ current' \in [Pollers -> Tasks \cup {Null}]
        /\ \A q \in Pollers \ {p} : current'[q] = current[q]
        /\ stage'[p] = "replies" => current'[p] = Null
        /\ stage'[p] = "followup" =>
              current'[p] = t /\ ~TemplatesUsed(v.followups) /\ v.next = "reached"
    <3>1. CASE UNCHANGED <<stage, current>>
      BY <3>1, <1>1 DEF Shapes, Followed
    <3>2. CASE /\ Goto(p, "followup") /\ current' = [current EXCEPT ![p] = t]
               /\ ~TemplatesUsed(v.followups) /\ v.next = "reached"
      BY <3>2, <1>1 DEF Shapes, Stages, Goto
    <3> QED BY <1>2, <3>1, <3>2
  <2>4. \A q \in Pollers : Polling(q)' <=> Polling(q)
    BY <2>3 DEF Polling
  <2>5. TypeOK'
    <3>1. Shapes'
      BY <1>1, <2>1, <2>2, <2>3 DEF Shapes
    <3>2. \A q \in Pollers : Ended(q)'
      BY <1>1, <2>1, <2>2, <2>3, <2>4 DEF Ended, Polling, NoRows
    <3>3. \A q \in Pollers : Followed(q)'
      BY <1>1, <2>3, PollerAssumption DEF Followed
    <3> QED BY <3>1, <3>2, <3>3 DEF TypeOK, Shapes, Ended, Followed
  <2>6. Exclusive' /\ Clean' /\ EarlyRows' /\ MemAhead' /\ MemEarly'
    BY <2>1, <2>2, <2>3, <2>4
    DEF IInv, Exclusive, Clean, NoRows, EarlyRows, MemAhead, MemEarly
  <2>7. ToBeMessaged' /\ ToBeSeen'
    BY <2>1, <2>2, <2>3 DEF IInv, ToBeMessaged, ToBeSeen, Following, View
  <2>8. ToBeFollowed'
    <3>1. ASSUME stage'[p] = "followup"
          PROVE  /\ mem[p][t] = Null /\ row[t].status = "initial_sent"
                 /\ row[t].followups < Templates
      <4>1. v.status = "initial_sent" /\ v.next = "reached"
        BY <3>1, <1>2, <2>3 DEF IInv, ToBeSeen, Following
      <4>2. mem[p][t] = Null
        BY <4>1, <1>2 DEF IInv, ToBeSeen, Following, View
      <4> QED BY <3>1, <4>1, <4>2, <1>2, <2>3, PollerAssumption
           DEF View, TemplatesUsed, Rows
    <3> QED BY <2>1, <2>2, <2>3, <3>1 DEF IInv, ToBeFollowed
  <2>9. Accounted'
    BY <2>2, <2>4 DEF IInv, Accounted, Counted, Recorded, View
  <2> QED BY <2>5, <2>6, <2>7, <2>8, <2>9 DEF IInv
<1> QED BY <1>3, <1>4

\* A follow-up, and the row that counts it.
LEMMA SendFollowupStep ==
    ASSUME IInv, NEW p \in Pollers, SendFollowup(p)
    PROVE  IInv'
<1> USE DEF SendFollowup
<1>1. Shapes /\ \A q \in Pollers : Ended(q) /\ Followed(q)
  BY TypeParts DEF IInv
<1>2. PICK t \in Tasks : t = current[p]
  BY <1>1 DEF Shapes, Followed
<1>3. PICK v \in Rows : v = row[t]
  BY <1>1 DEF Shapes
<1>4. View(p, t) = v /\ t \notin todo[p] /\ v.status = "initial_sent" /\ v.followups < Templates
  BY <1>2, <1>3 DEF IInv, ToBeFollowed, View
<1>5. PICK r \in Rows :
          /\ r = FollowupSent(t, v)
          /\ r.status \in {"initial_sent", "completed"}
          /\ r.followups = v.followups + 1
  BY <1>4, FollowupRow
<1>6. Ahead(v, r)
  BY <1>4, <1>5, Ranks DEF Ahead, Rows
<1>7. Recorded(t, r) = Recorded(t, v) + 1
  BY <1>4, <1>5 DEF Recorded, Rows
<1>8. messages[t] <= Recorded(t, v) + faults
  BY <1>3, <1>4, CountedByPoll DEF Polling
<1>9. /\ messages' \in [Tasks -> Nat] /\ messages'[t] = messages[t] + 1
      /\ \A u \in Tasks \ {t} : messages'[u] = messages[u]
  BY <1>1, <1>2 DEF Shapes, Deliver
<1>10. messages'[t] <= Recorded(t, r) + faults /\ messages'[t] <= Recorded(t, v) + faults + 1
  BY <1>1, <1>7, <1>8, <1>9, RecordedIsNat, PollerAssumption DEF Shapes
<1>11. Change(p, t, r) /\ Goto(p, "replies")
  BY <1>2, <1>4, <1>5
<1>12. /\ current' \in [Pollers -> Tasks \cup {Null}] /\ current'[p] = Null
       /\ \A q \in Pollers \ {p} : current'[q] = current[q]
       /\ stage'[p] # "followup"
  BY <1>1, <1>11 DEF Shapes, Goto
<1>13. /\ todo' \in [Pollers -> SUBSET Tasks]
       /\ todo'[p] = todo[p] \ {t} /\ \A q \in Pollers \ {p} : todo'[q] = todo[q]
  BY <1>1, <1>4 DEF Shapes
<1> QED BY <1>3, <1>5, <1>6, <1>9, <1>10, <1>11, <1>12, <1>13, ChangeStep

\* What is counted without a poll's message is counted with one.
LEMMA CountedWithout ==
    ASSUME TypeOK, NEW t \in Tasks, Counted(t, row[t], 0)
    PROVE  Counted(t, row[t], 1)
<1>1. PICK w \in Rows : w = row[t]
  BY DEF TypeOK
<1>2. Recorded(t, w) \in Nat /\ messages[t] \in Nat /\ faults \in Nat
  BY <1>1, RecordedIsNat, PollerAssumption DEF TypeOK
<1> QED BY <1>1, <1>2 DEF Counted

-----------------------------------------------------------------------------
(***************************************************************************)
(* The steps of a poll that change no row.                                 *)
(***************************************************************************)

\* A replica finds a poll time due: it is not polling yet.
LEMMA FindStep ==
    ASSUME IInv, NEW p \in Pollers, Find(p)
    PROVE  IInv'
<1> USE DEF Find, Goto, campaignVars, accountVars, pollVars, ghostVars
<1>1. Shapes /\ \A q \in Pollers : Ended(q) /\ Followed(q)
  BY TypeParts DEF IInv
<1>2. TypeOK'
  <2>1. Shapes'
    BY <1>1 DEF Shapes, Stages, PollTimes
  <2>2. \A q \in Pollers : Ended(q)' /\ Followed(q)'
    BY <1>1, PollerAssumption
    DEF Shapes, Ended, Followed, IInv, Polling, Clean, Stages, NoRows
  <2> QED BY <2>1, <2>2 DEF TypeOK, Shapes, Ended, Followed
<1>3. Exclusive' /\ Clean' /\ EarlyRows'
  BY <1>1, PollerAssumption
  DEF IInv, Shapes, Ended, Followed, Exclusive, Polling, Clean, EarlyRows, NoRows
<1>4. MemAhead' /\ MemEarly'
  BY <1>1, PollerAssumption
  DEF IInv, Shapes, Ended, Followed, MemAhead, MemEarly, Clean, NoRows
<1>5. ToBeMessaged' /\ ToBeSeen' /\ ToBeFollowed'
  BY <1>1, PollerAssumption
  DEF IInv, Shapes, Ended, Followed, ToBeMessaged, ToBeSeen, ToBeFollowed,
      Following, View, Clean, NoRows
<1>6. Accounted'
  BY <1>1, PollerAssumption
  DEF IInv, Shapes, Ended, Followed, Accounted, Counted, Recorded, View, Exclusive, Polling
<1> QED BY <1>2, <1>3, <1>4, <1>5, <1>6 DEF IInv

\* Another replica has the lock.
LEMMA SkipStep ==
    ASSUME IInv, NEW p \in Pollers, Skip(p)
    PROVE  IInv'
<1> USE DEF Skip, Goto, campaignVars, accountVars, pollVars, ghostVars
<1>1. Shapes /\ \A q \in Pollers : Ended(q) /\ Followed(q)
  BY TypeParts DEF IInv
<1>2. TypeOK'
  <2>1. Shapes'
    BY <1>1 DEF Shapes, Stages, PollTimes
  <2>2. \A q \in Pollers : Ended(q)' /\ Followed(q)'
    BY <1>1, PollerAssumption
    DEF Shapes, Ended, Followed, IInv, Polling, Clean, Stages, NoRows
  <2> QED BY <2>1, <2>2 DEF TypeOK, Shapes, Ended, Followed
<1>3. Exclusive' /\ Clean' /\ EarlyRows'
  BY <1>1, PollerAssumption
  DEF IInv, Shapes, Ended, Followed, Exclusive, Polling, Clean, EarlyRows, NoRows
<1>4. MemAhead' /\ MemEarly'
  BY <1>1, PollerAssumption
  DEF IInv, Shapes, Ended, Followed, MemAhead, MemEarly, Clean, NoRows
<1>5. ToBeMessaged' /\ ToBeSeen' /\ ToBeFollowed'
  BY <1>1, PollerAssumption
  DEF IInv, Shapes, Ended, Followed, ToBeMessaged, ToBeSeen, ToBeFollowed,
      Following, View, Clean, NoRows
<1>6. Accounted'
  BY <1>1, PollerAssumption
  DEF IInv, Shapes, Ended, Followed, Accounted, Counted, Recorded, View, Exclusive, Polling
<1> QED BY <1>2, <1>3, <1>4, <1>5, <1>6 DEF IInv

\* Nobody polls while the lock is free, so that all that was sent is in the rows.
LEMMA StartStep ==
    ASSUME IInv, NEW p \in Pollers, Start(p)
    PROVE  IInv'
<1> USE DEF Start, Goto, LockIsFree, campaignVars, accountVars, pollVars, ghostVars
<1>1. Shapes /\ \A q \in Pollers : Ended(q) /\ Followed(q)
  BY TypeParts DEF IInv
<1>2. TypeOK'
  <2>1. Shapes'
    BY <1>1 DEF Shapes, Stages, PollTimes
  <2>2. \A q \in Pollers : Ended(q)' /\ Followed(q)'
    BY <1>1, PollerAssumption
    DEF Shapes, Ended, Followed, IInv, Polling, Clean, Stages, NoRows
  <2> QED BY <2>1, <2>2 DEF TypeOK, Shapes, Ended, Followed
<1>3. Exclusive' /\ Clean' /\ EarlyRows'
  BY <1>1, PollerAssumption
  DEF IInv, Shapes, Ended, Followed, Exclusive, Polling, Clean, EarlyRows, NoRows
<1>4. MemAhead' /\ MemEarly'
  BY <1>1, PollerAssumption
  DEF IInv, Shapes, Ended, Followed, MemAhead, MemEarly, Clean, NoRows
<1>5. ToBeMessaged' /\ ToBeSeen' /\ ToBeFollowed'
  BY <1>1, PollerAssumption
  DEF IInv, Shapes, Ended, Followed, ToBeMessaged, ToBeSeen, ToBeFollowed,
      Following, View, Clean, NoRows
<1>6. Accounted'
  <2>1. \A q \in Pollers : ~Polling(q)
    BY PollerAssumption DEF IInv, Exclusive
  <2>2. \A u \in Tasks : Counted(u, row[u], 0) /\ Counted(u, row[u], 1)
    BY <2>1, CountedWithout DEF IInv, Accounted
  <2>3. \A u \in Tasks : Counted(u, row[u], 0)' /\ Counted(u, row[u], 1)'
    BY <2>2 DEF Counted, Recorded
  <2>4. \A q \in Pollers, u \in Tasks : View(q, u)' = row'[u]
    BY <1>1, <2>1 DEF View, Ended, NoRows
  <2> QED BY <2>3, <2>4 DEF Accounted, Counted, Recorded
<1> QED BY <1>2, <1>3, <1>4, <1>5, <1>6 DEF IInv

\* A task is passed over.
LEMMA DeferInitialStep ==
    ASSUME IInv, NEW p \in Pollers, NEW t \in Tasks, DeferInitial(p, t)
    PROVE  IInv'
<1> USE DEF DeferInitial, Done, campaignVars, accountVars, pollVars, ghostVars
<1>1. Shapes /\ \A q \in Pollers : Ended(q) /\ Followed(q)
  BY TypeParts DEF IInv
<1>2. TypeOK'
  <2>1. Shapes'
    BY <1>1 DEF Shapes, Stages, PollTimes
  <2>2. \A q \in Pollers : Ended(q)' /\ Followed(q)'
    BY <1>1, PollerAssumption
    DEF Shapes, Ended, Followed, IInv, Polling, Clean, Stages, NoRows
  <2> QED BY <2>1, <2>2 DEF TypeOK, Shapes, Ended, Followed
<1>3. Exclusive' /\ Clean' /\ EarlyRows'
  BY <1>1, PollerAssumption
  DEF IInv, Shapes, Ended, Followed, Exclusive, Polling, Clean, EarlyRows, NoRows
<1>4. MemAhead' /\ MemEarly'
  BY <1>1, PollerAssumption
  DEF IInv, Shapes, Ended, Followed, MemAhead, MemEarly, Clean, NoRows
<1>5. ToBeMessaged' /\ ToBeSeen' /\ ToBeFollowed'
  BY <1>1, PollerAssumption
  DEF IInv, Shapes, Ended, Followed, ToBeMessaged, ToBeSeen, ToBeFollowed,
      Following, View, Clean, NoRows
<1>6. Accounted'
  BY <1>1, PollerAssumption
  DEF IInv, Shapes, Ended, Followed, Accounted, Counted, Recorded, View, Exclusive, Polling
<1> QED BY <1>2, <1>3, <1>4, <1>5, <1>6 DEF IInv

LEMMA SkipActiveStep ==
    ASSUME IInv, NEW p \in Pollers, NEW t \in Tasks, SkipActive(p, t)
    PROVE  IInv'
<1> USE DEF SkipActive, Done, campaignVars, accountVars, pollVars, ghostVars
<1>1. Shapes /\ \A q \in Pollers : Ended(q) /\ Followed(q)
  BY TypeParts DEF IInv
<1>2. TypeOK'
  <2>1. Shapes'
    BY <1>1 DEF Shapes, Stages, PollTimes
  <2>2. \A q \in Pollers : Ended(q)' /\ Followed(q)'
    BY <1>1, PollerAssumption
    DEF Shapes, Ended, Followed, IInv, Polling, Clean, Stages, NoRows
  <2> QED BY <2>1, <2>2 DEF TypeOK, Shapes, Ended, Followed
<1>3. Exclusive' /\ Clean' /\ EarlyRows'
  BY <1>1, PollerAssumption
  DEF IInv, Shapes, Ended, Followed, Exclusive, Polling, Clean, EarlyRows, NoRows
<1>4. MemAhead' /\ MemEarly'
  BY <1>1, PollerAssumption
  DEF IInv, Shapes, Ended, Followed, MemAhead, MemEarly, Clean, NoRows
<1>5. ToBeMessaged' /\ ToBeSeen' /\ ToBeFollowed'
  BY <1>1, PollerAssumption
  DEF IInv, Shapes, Ended, Followed, ToBeMessaged, ToBeSeen, ToBeFollowed,
      Following, View, Clean, NoRows
<1>6. Accounted'
  BY <1>1, PollerAssumption
  DEF IInv, Shapes, Ended, Followed, Accounted, Counted, Recorded, View, Exclusive, Polling
<1> QED BY <1>2, <1>3, <1>4, <1>5, <1>6 DEF IInv

\* A follow-up that was not taken is in no count.
LEMMA FollowupRefusedStep ==
    ASSUME IInv, NEW p \in Pollers, FollowupRefused(p)
    PROVE  IInv'
<1> USE DEF FollowupRefused, Goto, campaignVars, accountVars, pollVars, ghostVars
<1>1. Shapes /\ \A q \in Pollers : Ended(q) /\ Followed(q)
  BY TypeParts DEF IInv
<1>2. TypeOK'
  <2>1. Shapes'
    BY <1>1 DEF Shapes, Stages, PollTimes
  <2>2. \A q \in Pollers : Ended(q)' /\ Followed(q)'
    BY <1>1, PollerAssumption
    DEF Shapes, Ended, Followed, IInv, Polling, Clean, Stages, NoRows
  <2> QED BY <2>1, <2>2 DEF TypeOK, Shapes, Ended, Followed
<1>3. Exclusive' /\ Clean' /\ EarlyRows'
  BY <1>1, PollerAssumption
  DEF IInv, Shapes, Ended, Followed, Exclusive, Polling, Clean, EarlyRows, NoRows
<1>4. MemAhead' /\ MemEarly'
  BY <1>1, PollerAssumption
  DEF IInv, Shapes, Ended, Followed, MemAhead, MemEarly, Clean, NoRows
<1>5. ToBeMessaged' /\ ToBeSeen' /\ ToBeFollowed'
  BY <1>1, PollerAssumption
  DEF IInv, Shapes, Ended, Followed, ToBeMessaged, ToBeSeen, ToBeFollowed,
      Following, View, Clean, NoRows
<1>6. Accounted'
  BY <1>1, PollerAssumption
  DEF IInv, Shapes, Ended, Followed, Accounted, Counted, Recorded, View, Exclusive, Polling
<1> QED BY <1>2, <1>3, <1>4, <1>5, <1>6 DEF IInv

\* A poll that has ended has nothing to store, and nobody else polls.
LEMMA ReleaseStep ==
    ASSUME IInv, NEW p \in Pollers, Release(p)
    PROVE  IInv'
<1> USE DEF Release, Goto, campaignVars, accountVars, pollVars, ghostVars
<1>1. Shapes /\ \A q \in Pollers : Ended(q) /\ Followed(q)
  BY TypeParts DEF IInv
<1>2. TypeOK'
  <2>1. Shapes'
    BY <1>1 DEF Shapes, Stages, PollTimes
  <2>2. \A q \in Pollers : Ended(q)' /\ Followed(q)'
    BY <1>1, PollerAssumption
    DEF Shapes, Ended, Followed, IInv, Polling, Clean, Stages, NoRows
  <2> QED BY <2>1, <2>2 DEF TypeOK, Shapes, Ended, Followed
<1>3. Exclusive' /\ Clean' /\ EarlyRows'
  BY <1>1, PollerAssumption
  DEF IInv, Shapes, Ended, Followed, Exclusive, Polling, Clean, EarlyRows, NoRows
<1>4. MemAhead' /\ MemEarly'
  BY <1>1, PollerAssumption
  DEF IInv, Shapes, Ended, Followed, MemAhead, MemEarly, Clean, NoRows
<1>5. ToBeMessaged' /\ ToBeSeen' /\ ToBeFollowed'
  BY <1>1, PollerAssumption
  DEF IInv, Shapes, Ended, Followed, ToBeMessaged, ToBeSeen, ToBeFollowed,
      Following, View, Clean, NoRows
<1>6. Accounted'
  <2>1. \A q \in Pollers : ~Polling(q)'
    BY <1>1 DEF IInv, Exclusive, Polling, Shapes
  <2>2. \A u \in Tasks : View(p, u) = row[u]
    BY DEF View, IInv, Clean, NoRows
  <2>3. \A u \in Tasks : Counted(u, row[u], 0)
    BY <2>2 DEF IInv, Accounted, Polling, Counted, Recorded
  <2>4. \A u \in Tasks : Counted(u, row[u], 0)'
    BY <2>3 DEF Counted, Recorded
  <2> QED BY <2>1, <2>4 DEF Accounted
<1> QED BY <1>2, <1>3, <1>4, <1>5, <1>6 DEF IInv

\* The key of a poll under way does not expire, without overruns.
LEMMA ExpireKeyStep ==
    ASSUME IInv, Overrun = FALSE, ExpireKey
    PROVE  IInv'
<1> USE DEF ExpireKey, campaignVars, accountVars, pollVars, ghostVars
<1>1. Shapes /\ \A q \in Pollers : Ended(q) /\ Followed(q)
  BY TypeParts DEF IInv
<1>2. TypeOK'
  <2>1. Shapes'
    BY <1>1 DEF Shapes, Stages, PollTimes
  <2>2. \A q \in Pollers : Ended(q)' /\ Followed(q)'
    BY <1>1, PollerAssumption
    DEF Shapes, Ended, Followed, IInv, Polling, Clean, Stages, NoRows
  <2> QED BY <2>1, <2>2 DEF TypeOK, Shapes, Ended, Followed
<1>3. Exclusive' /\ Clean' /\ EarlyRows'
  BY <1>1, PollerAssumption
  DEF IInv, Shapes, Ended, Followed, Exclusive, Polling, Clean, EarlyRows, NoRows
<1>4. MemAhead' /\ MemEarly'
  BY <1>1, PollerAssumption
  DEF IInv, Shapes, Ended, Followed, MemAhead, MemEarly, Clean, NoRows
<1>5. ToBeMessaged' /\ ToBeSeen' /\ ToBeFollowed'
  BY <1>1, PollerAssumption
  DEF IInv, Shapes, Ended, Followed, ToBeMessaged, ToBeSeen, ToBeFollowed,
      Following, View, Clean, NoRows
<1>6. Accounted'
  BY <1>1, PollerAssumption
  DEF IInv, Shapes, Ended, Followed, Accounted, Counted, Recorded, View, Exclusive, Polling
<1> QED BY <1>2, <1>3, <1>4, <1>5, <1>6 DEF IInv

\* Those found accepted have an untouched row.
LEMMA FindAcceptedStep ==
    ASSUME IInv, NEW p \in Pollers, FindAccepted(p)
    PROVE  IInv'
<1> USE DEF FindAccepted, Goto, campaignVars, accountVars, ghostVars
<1>1. Shapes /\ \A q \in Pollers : Ended(q) /\ Followed(q)
  BY TypeParts DEF IInv
<1>2. PICK A \in SUBSET Listed("invite_sent") :
          mem' = [mem EXCEPT ![p] = [t \in Tasks |->
                     IF t \in A THEN [row[t] EXCEPT !.status = "accepted"] ELSE Null]]
  OBVIOUS
<1>3. ASSUME NEW t \in Tasks, t \in A
      PROVE  /\ mem'[p][t] \in Rows /\ mem'[p][t].status = "accepted"
             /\ mem'[p][t].followups = row[t].followups /\ mem'[p][t].next = "null"
             /\ row[t].status = "invite_sent"
  <2>1. PICK w \in Rows : w = row[t]
    BY <1>1 DEF Shapes
  <2>2. PICK r \in Rows :
            /\ r = [w EXCEPT !.status = "accepted"]
            /\ r.status = "accepted" /\ r.followups = w.followups /\ r.next = w.next
    BY StatusChange DEF Statuses
  <2>3. mem'[p][t] = r
    BY <1>1, <1>2, <1>3, <2>1, <2>2 DEF Shapes
  <2>4. w.status = "invite_sent" /\ w.next = "null"
    BY <1>3, <2>1 DEF Listed, IInv, EarlyRows, Early
  <2> QED BY <2>1, <2>2, <2>3, <2>4
<1>4. \A t \in Tasks \ A : mem'[p][t] = Null
  BY <1>1, <1>2 DEF Shapes
<1>5. /\ mem' \in [Pollers -> [Tasks -> Rows \cup {Null}]]
      /\ \A q \in Pollers \ {p} : mem'[q] = mem[q]
  <2>1. mem'[p] \in [Tasks -> Rows \cup {Null}]
    <3>1. mem'[p] = [t \in Tasks |->
                        IF t \in A THEN [row[t] EXCEPT !.status = "accepted"] ELSE Null]
      BY <1>1, <1>2 DEF Shapes
    <3>2. \A t \in Tasks : mem'[p][t] \in Rows \cup {Null}
      BY <1>3, <1>4
    <3> QED BY <3>1, <3>2
  <2> QED BY <1>1, <1>2, <2>1 DEF Shapes
<1>6. /\ stage' \in [Pollers -> Stages] /\ stage'[p] = "accepted"
      /\ \A q \in Pollers \ {p} : stage'[q] = stage[q]
  BY <1>1 DEF Shapes, Stages
<1>7. \A q \in Pollers : Polling(q)' <=> Polling(q)
  BY <1>6 DEF Polling
<1>8. TypeOK'
  <2>1. Shapes'
    BY <1>1, <1>5, <1>6 DEF Shapes
  <2>2. \A q \in Pollers : Ended(q)' /\ Followed(q)'
    BY <1>1, <1>5, <1>6, <1>7 DEF Ended, Followed, Polling, NoRows
  <2> QED BY <2>1, <2>2 DEF TypeOK, Shapes, Ended, Followed
<1>9. Exclusive' /\ Clean' /\ EarlyRows'
  BY <1>5, <1>6, <1>7 DEF IInv, Exclusive, Clean, EarlyRows, NoRows
<1>10. MemAhead' /\ MemEarly'
  <2>1. \A t \in Tasks : mem'[p][t] # Null =>
            /\ Ahead(row[t], mem'[p][t])
            /\ row[t].status \in Early /\ mem'[p][t].next # "reached"
            /\ mem'[p][t].status = "accepted"
    BY <1>1, <1>3, <1>4, Ranks DEF Ahead, Early, Shapes, Rows
  <2>2. \A q \in Pollers \ {p}, t \in Tasks : mem'[q][t] = mem[q][t]
    BY <1>5
  <2>3. MemAhead'
    BY <2>1, <2>2 DEF IInv, MemAhead
  <2>4. ASSUME NEW q \in Pollers, NEW t \in Tasks,
               stage'[q] \in {"accepted", "initial"}, mem'[q][t] # Null
        PROVE  /\ row'[t].status \in Early
               /\ mem'[q][t].next # "reached"
               /\ stage'[q] = "accepted" => mem'[q][t].status = "accepted"
    <3>1. CASE q = p
      BY <3>1, <2>1, <2>4
    <3>2. CASE q # p
      BY <3>2, <1>6, <2>2, <2>4 DEF IInv, MemEarly
    <3> QED BY <3>1, <3>2
  <2> QED BY <2>3, <2>4 DEF MemEarly
<1>11. ToBeMessaged' /\ ToBeSeen' /\ ToBeFollowed'
  <2>1. ASSUME NEW q \in Pollers, q # p, NEW t \in Tasks PROVE View(q, t)' = View(q, t)
    BY <2>1, <1>5 DEF View
  <2> QED BY <1>5, <1>6, <2>1 DEF IInv, ToBeMessaged, ToBeSeen, ToBeFollowed, Following
<1>12. Accounted'
  <2>1. ASSUME NEW t \in Tasks
        PROVE  Counted(t, View(p, t), 0)' /\ Counted(t, row[t], 1)'
    <3>1. PICK w \in Rows : w = row[t]
      BY <1>1 DEF Shapes
    <3>2. View(p, t) = w
      BY <3>1 DEF View, IInv, Clean, NoRows
    <3>3. Counted(t, w, 0) /\ Counted(t, w, 1)
      BY <3>1, <3>2 DEF IInv, Accounted, Polling
    <3>4. PICK r \in Rows : r = View(p, t)'
      BY <1>5, <3>1 DEF View
    <3>5. r.followups = w.followups /\ (r = w \/ {r.status, w.status} \subseteq Early)
      BY <1>3, <1>4, <3>1, <3>4 DEF View, Early
    <3>6. Recorded(t, r) = Recorded(t, w)
      BY <3>5, SameRecord
    <3>7. Recorded(t, r)' = Recorded(t, r) /\ Recorded(t, w)' = Recorded(t, w)
      BY RecordedIsNat
    <3> QED BY <3>1, <3>3, <3>4, <3>6, <3>7 DEF Counted
  <2>2. \A q \in Pollers : Polling(q)' => q = p
    BY <1>7 DEF IInv, Exclusive, Polling
  <2>3. Polling(p)'
    BY <1>6 DEF Polling
  <2> QED BY <2>1, <2>2, <2>3 DEF Accounted
<1> QED BY <1>8, <1>9, <1>10, <1>11, <1>12 DEF IInv

\* Those listed are accepted in the row, and in memory where it has them.
LEMMA ListAcceptedStep ==
    ASSUME IInv, NEW p \in Pollers, ListAccepted(p)
    PROVE  IInv'
<1> USE DEF ListAccepted, Goto, campaignVars, accountVars, ghostVars
<1>1. Shapes /\ \A q \in Pollers : Ended(q) /\ Followed(q)
  BY TypeParts DEF IInv
<1>2. /\ todo' \in [Pollers -> SUBSET Tasks] /\ todo'[p] = Listed("accepted")
      /\ \A q \in Pollers \ {p} : todo'[q] = todo[q]
  BY <1>1 DEF ToMessage, Listed, Shapes
<1>3. /\ stage' \in [Pollers -> Stages] /\ stage'[p] = "initial"
      /\ \A q \in Pollers \ {p} : stage'[q] = stage[q]
  BY <1>1 DEF Shapes, Stages
<1>4. \A q \in Pollers : Polling(q)' <=> Polling(q)
  BY <1>3 DEF Polling
<1>5. \A q \in Pollers, t \in Tasks : View(q, t)' = View(q, t)
  BY DEF View
<1>6. TypeOK'
  <2>1. Shapes'
    BY <1>1, <1>2, <1>3 DEF Shapes
  <2>2. \A q \in Pollers : Ended(q)' /\ Followed(q)'
    BY <1>1, <1>2, <1>3, <1>4 DEF Ended, Followed, Polling, NoRows
  <2> QED BY <2>1, <2>2 DEF TypeOK, Shapes, Ended, Followed
<1>7. Exclusive' /\ Clean' /\ EarlyRows' /\ MemAhead' /\ MemEarly'
  BY <1>2, <1>3, <1>4
  DEF IInv, Exclusive, Clean, EarlyRows, NoRows, MemAhead, MemEarly
<1>8. ToBeMessaged'
  <2>1. \A t \in Listed("accepted") :
            row[t].status = "accepted" /\ View(p, t).status = "accepted"
    BY <1>1 DEF Listed, View, IInv, MemEarly, Shapes
  <2> QED BY <1>2, <1>3, <1>5, <2>1 DEF IInv, ToBeMessaged
<1>9. ToBeSeen' /\ ToBeFollowed'
  BY <1>2, <1>3, <1>5 DEF IInv, ToBeSeen, ToBeFollowed, Following
<1>10. Accounted'
  BY <1>4, <1>5 DEF IInv, Accounted, Counted, Recorded
<1> QED BY <1>6, <1>7, <1>8, <1>9, <1>10 DEF IInv

\* Those listed are untouched, or have their initial message from this poll,
\* which makes no follow-up due.
LEMMA ListActiveStep ==
    ASSUME IInv, NEW p \in Pollers, ListActive(p)
    PROVE  IInv'
<1> USE DEF ListActive, Goto, campaignVars, accountVars, ghostVars
<1>1. Shapes /\ \A q \in Pollers : Ended(q) /\ Followed(q)
  BY TypeParts DEF IInv
<1>2. PICK F \in SUBSET {t \in running \ Listed("initial_sent") :
                            View(p, t).status = "initial_sent"} :
          todo' = [todo EXCEPT ![p] = Active \cup F]
  OBVIOUS
<1>3. /\ todo' \in [Pollers -> SUBSET Tasks] /\ todo'[p] = Active \cup F
      /\ \A q \in Pollers \ {p} : todo'[q] = todo[q]
  BY <1>1, <1>2 DEF Active, Listed, Shapes
<1>4. /\ stage' \in [Pollers -> Stages] /\ stage'[p] = "replies"
      /\ \A q \in Pollers \ {p} : stage'[q] = stage[q]
  BY <1>1 DEF Shapes, Stages
<1>5. \A q \in Pollers : Polling(q)' <=> Polling(q)
  BY <1>4 DEF Polling
<1>6. \A q \in Pollers, t \in Tasks : View(q, t)' = View(q, t)
  BY DEF View
<1>7. TypeOK'
  <2>1. Shapes'
    BY <1>1, <1>3, <1>4 DEF Shapes
  <2>2. \A q \in Pollers : Ended(q)' /\ Followed(q)'
    BY <1>1, <1>3, <1>4, <1>5 DEF Ended, Followed, Polling, NoRows
  <2> QED BY <2>1, <2>2 DEF TypeOK, Shapes, Ended, Followed
<1>8. Exclusive' /\ Clean' /\ EarlyRows' /\ MemAhead' /\ MemEarly'
  BY <1>3, <1>4, <1>5
  DEF IInv, Exclusive, Clean, EarlyRows, NoRows, MemAhead, MemEarly
<1>9. ToBeSeen'
  <2>1. ASSUME NEW t \in Active \cup F
        PROVE  /\ View(p, t).status = "initial_sent"
               /\ mem[p][t] # Null => mem[p][t].next # "reached"
    <3>1. t \in Tasks /\ View(p, t).status = "initial_sent"
      BY <1>1, <1>2 DEF Active, Listed, View, Shapes, IInv, MemEarly, Early
    <3> QED BY <3>1 DEF IInv, MemEarly
  <2> QED BY <1>3, <1>4, <1>6, <2>1 DEF IInv, ToBeSeen, Following
<1>10. ToBeMessaged' /\ ToBeFollowed'
  BY <1>3, <1>4, <1>6 DEF IInv, ToBeMessaged, ToBeFollowed
<1>11. Accounted'
  BY <1>5, <1>6 DEF IInv, Accounted, Counted, Recorded
<1> QED BY <1>7, <1>8, <1>9, <1>10, <1>11 DEF IInv

\* A fault counts for the message whose answer was lost.
LEMMA LostReplyStep ==
    ASSUME IInv, NEW p \in Pollers, LostReply(p)
    PROVE  IInv'
<1> USE DEF LostReply, Fault, campaignVars, accountVars, pollVars
<1>1. Shapes /\ \A q \in Pollers : Ended(q) /\ Followed(q)
  BY TypeParts DEF IInv
<1>2. PICK t \in Tasks : Deliver(t)
  BY <1>1 DEF Shapes, Followed
<1>3. /\ messages' \in [Tasks -> Nat] /\ faults' \in 0 .. MaxFaults /\ faults \in Nat
      /\ \A u \in Tasks : messages'[u] <= messages[u] + 1
  BY <1>1, <1>2, PollerAssumption DEF Shapes, Deliver
<1>4. TypeOK'
  BY <1>3 DEF IInv, TypeOK, Polling, NoRows
<1>5. Exclusive' /\ Clean' /\ EarlyRows' /\ MemAhead' /\ MemEarly'
  BY DEF IInv, Exclusive, Polling, Clean, NoRows, EarlyRows, MemAhead, MemEarly
<1>6. ToBeMessaged' /\ ToBeSeen' /\ ToBeFollowed'
  BY DEF IInv, ToBeMessaged, ToBeSeen, ToBeFollowed, Following, View
<1>7. ASSUME NEW u \in Tasks, NEW r \in Rows, NEW n \in {0, 1}, Counted(u, r, n)
      PROVE  Counted(u, r, n)'
  <2>1. Recorded(u, r) \in Nat /\ Recorded(u, r)' = Recorded(u, r)
    BY RecordedIsNat
  <2> QED BY <1>1, <1>3, <1>7, <2>1 DEF Counted, Shapes
<1>8. Accounted'
  <2>1. \A u \in Tasks : row[u] \in Rows /\ \A q \in Pollers : View(q, u) \in Rows
    BY ViewIsRow DEF IInv, TypeOK
  <2>2. \A q \in Pollers, u \in Tasks : View(q, u)' = View(q, u)
    BY DEF View
  <2> QED BY <1>7, <2>1, <2>2 DEF IInv, Accounted, Polling
<1> QED BY <1>4, <1>5, <1>6, <1>8 DEF IInv

-----------------------------------------------------------------------------
(***************************************************************************)
(* The end of a poll.                                                      *)
(***************************************************************************)

\* The session of p was the only one with anything in memory.
LEMMA Forgotten ==
    ASSUME Shapes, \A q \in Pollers : Ended(q) /\ Followed(q), Exclusive,
           NEW p \in Pollers, Polling(p), Forget(p), Goto(p, "done") \/ Goto(p, "idle")
    PROVE  /\ keep' \in [Pollers -> PollTimes \cup {{"same"}}]
           /\ todo' \in [Pollers -> SUBSET Tasks]
           /\ current' \in [Pollers -> Tasks \cup {Null}]
           /\ mem' \in [Pollers -> [Tasks -> Rows \cup {Null}]]
           /\ stage' \in [Pollers -> Stages]
           /\ stage'[p] \in {"done", "idle"}
           /\ \A q \in Pollers : /\ mem'[q] = NoRows /\ todo'[q] = {} /\ current'[q] = Null
                                 /\ q # p => stage'[q] = stage[q]
                                 /\ stage'[q] \in {"idle", "found", "done"}
                                 /\ Polling(q)' => q = p
<1> USE DEF Forget
<1>1. \A q \in Pollers \ {p} : ~Polling(q)
  BY DEF Exclusive
<1>2. /\ stage' \in [Pollers -> Stages] /\ stage'[p] \in {"done", "idle"}
      /\ \A q \in Pollers \ {p} : stage'[q] = stage[q]
  BY DEF Shapes, Goto, Stages
<1>3. NoRows \in [Tasks -> Rows \cup {Null}]
  BY DEF NoRows
<1>4. /\ keep' \in [Pollers -> PollTimes \cup {{"same"}}]
      /\ todo' \in [Pollers -> SUBSET Tasks]
      /\ current' \in [Pollers -> Tasks \cup {Null}]
      /\ mem' \in [Pollers -> [Tasks -> Rows \cup {Null}]]
      /\ \A q \in Pollers : mem'[q] = NoRows /\ todo'[q] = {} /\ current'[q] = Null
  BY <1>1, <1>3 DEF Shapes, Ended, Followed, Polling
<1> QED BY <1>1, <1>2, <1>4 DEF Polling

\* A fault counts for the message the poll had not stored.
LEMMA AbortStep ==
    ASSUME IInv, NEW p \in Pollers, Polling(p), Fault, Forget(p),
           Goto(p, "done") \/ Goto(p, "idle"),
           UNCHANGED <<row, campaignVars, accountVars, lock, replied, messages>>
    PROVE  IInv'
<1> USE DEF campaignVars, accountVars
<1>1. Shapes /\ (\A q \in Pollers : Ended(q) /\ Followed(q)) /\ Exclusive
  BY TypeParts DEF IInv
<1>2. /\ keep' \in [Pollers -> PollTimes \cup {{"same"}}]
      /\ todo' \in [Pollers -> SUBSET Tasks]
      /\ current' \in [Pollers -> Tasks \cup {Null}]
      /\ mem' \in [Pollers -> [Tasks -> Rows \cup {Null}]]
      /\ stage' \in [Pollers -> Stages]
      /\ \A q \in Pollers : /\ mem'[q] = NoRows /\ todo'[q] = {} /\ current'[q] = Null
                            /\ stage'[q] \in {"idle", "found", "done"}
                            /\ Polling(q)' => q = p
  BY <1>1, Forgotten
<1>3. /\ \A q \in Pollers : Ended(q)' /\ Followed(q)'
      /\ Clean' /\ MemAhead' /\ MemEarly' /\ ToBeMessaged' /\ ToBeSeen' /\ ToBeFollowed'
      /\ \A q \in Pollers, t \in Tasks : View(q, t)' = row'[t]
  BY <1>2 DEF Ended, Followed, NoRows, Clean, MemAhead, MemEarly, ToBeMessaged, ToBeSeen,
              Following, ToBeFollowed, View
<1>4. faults' \in 0 .. MaxFaults /\ faults' = faults + 1 /\ faults \in Nat
  BY <1>1, PollerAssumption DEF Fault, Shapes
<1>5. TypeOK'
  BY <1>1, <1>2, <1>3, <1>4 DEF TypeOK, Shapes, Ended, Followed
<1>6. Exclusive' /\ EarlyRows'
  BY <1>2 DEF IInv, Exclusive, EarlyRows
<1>7. ASSUME NEW t \in Tasks PROVE Counted(t, row[t], 0)' /\ Counted(t, row[t], 1)'
  <2>1. PICK w \in Rows : w = row[t]
    BY <1>1 DEF Shapes
  <2>2. Recorded(t, w) \in Nat /\ Recorded(t, w)' = Recorded(t, w) /\ messages[t] \in Nat
    BY <1>1, RecordedIsNat DEF Shapes
  <2>3. Counted(t, w, 1)
    BY <2>1 DEF IInv, Accounted
  <2> QED BY <1>4, <2>1, <2>2, <2>3 DEF Counted
<1>8. Accounted'
  BY <1>3, <1>7 DEF Accounted, Counted, Recorded
<1> QED BY <1>3, <1>5, <1>6, <1>8 DEF IInv

\* What was in memory is in the row, and no one else had anything there.
LEMMA CommitStep ==
    ASSUME IInv, NEW p \in Pollers, Commit(p)
    PROVE  IInv'
<1> USE DEF Commit, campaignVars, ghostVars
<1>1. Shapes /\ (\A q \in Pollers : Ended(q) /\ Followed(q)) /\ Exclusive
  BY TypeParts DEF IInv
<1>2. Polling(p)
  BY DEF Polling
<1>3. /\ keep' \in [Pollers -> PollTimes \cup {{"same"}}]
      /\ todo' \in [Pollers -> SUBSET Tasks]
      /\ current' \in [Pollers -> Tasks \cup {Null}]
      /\ mem' \in [Pollers -> [Tasks -> Rows \cup {Null}]]
      /\ stage' \in [Pollers -> Stages]
      /\ \A q \in Pollers : /\ mem'[q] = NoRows /\ todo'[q] = {} /\ current'[q] = Null
                            /\ stage'[q] \in {"idle", "found", "done"}
                            /\ Polling(q)' => q = p
  BY <1>1, <1>2, Forgotten
<1>4. /\ \A q \in Pollers : Ended(q)' /\ Followed(q)'
      /\ Clean' /\ MemAhead' /\ MemEarly' /\ ToBeMessaged' /\ ToBeSeen' /\ ToBeFollowed'
      /\ \A q \in Pollers, t \in Tasks : View(q, t)' = row'[t]
  BY <1>3 DEF Ended, Followed, NoRows, Clean, MemAhead, MemEarly, ToBeMessaged, ToBeSeen,
              Following, ToBeFollowed, View
<1>5. row' \in [Tasks -> Rows] /\ \A t \in Tasks : row'[t] = View(p, t)
  BY ViewIsRow DEF IInv, Stored
<1>6. times' \in PollTimes
  BY <1>1 DEF Shapes
<1>7. TypeOK'
  BY <1>1, <1>3, <1>4, <1>5, <1>6 DEF TypeOK, Shapes, Ended, Followed
<1>8. Exclusive'
  BY <1>2, <1>3 DEF IInv, Exclusive
<1>9. EarlyRows'
  BY <1>5 DEF IInv, EarlyRows, Early, MemAhead, Ahead, View
<1>10. ASSUME NEW t \in Tasks PROVE Counted(t, row[t], 0)' /\ Counted(t, row[t], 1)'
  <2>1. PICK v \in Rows : v = View(p, t)
    BY ViewIsRow DEF IInv
  <2>2. /\ Recorded(t, v) \in Nat /\ Recorded(t, v)' = Recorded(t, v)
        /\ messages[t] \in Nat /\ faults \in Nat
    BY <1>1, RecordedIsNat, PollerAssumption DEF Shapes
  <2>3. Counted(t, v, 0)
    BY <1>2, <2>1 DEF IInv, Accounted
  <2> QED BY <1>5, <2>1, <2>2, <2>3 DEF Counted
<1>11. Accounted'
  BY <1>4, <1>10 DEF Accounted, Counted, Recorded
<1> QED BY <1>4, <1>7, <1>8, <1>9, <1>11 DEF IInv

-----------------------------------------------------------------------------
(***************************************************************************)
(* What changes a row besides a poll.                                      *)
(***************************************************************************)

\* A webhook accepts an invitation a poll may have found accepted already.
LEMMA WebhookStep ==
    ASSUME IInv, NEW t \in Tasks, Webhook(t)
    PROVE  IInv'
<1> USE DEF Webhook, campaignVars, accountVars, pollVars, ghostVars
<1>1. Shapes /\ \A q \in Pollers : Ended(q) /\ Followed(q)
  BY TypeParts DEF IInv
<1>2. PICK w \in Rows : w = row[t]
  BY <1>1 DEF Shapes
<1>3. PICK r \in Rows :
          /\ r = [w EXCEPT !.status = "accepted"]
          /\ r.status = "accepted" /\ r.followups = w.followups /\ r.next = w.next
  BY StatusChange DEF Statuses
<1>4. w.status = "invite_sent" /\ w.next = "null"
  BY <1>2 DEF IInv, EarlyRows, Early
<1>5. /\ row' \in [Tasks -> Rows] /\ row'[t] = r
      /\ \A u \in Tasks \ {t} : row'[u] = row[u]
  BY <1>1, <1>2, <1>3 DEF Shapes
<1>6. TypeOK'
  BY <1>1, <1>5 DEF TypeOK, Shapes, Ended, Followed, Polling, NoRows
<1>7. Exclusive' /\ Clean' /\ EarlyRows'
  BY <1>3, <1>4, <1>5 DEF IInv, Exclusive, Polling, Clean, NoRows, EarlyRows
<1>8. MemAhead'
  <2>1. ASSUME NEW q \in Pollers, mem[q][t] # Null PROVE Ahead(r, mem[q][t])
    <3>1. PICK m \in Rows : m = mem[q][t]
      BY <1>1, <2>1 DEF Shapes
    <3>2. Ahead(w, m)
      BY <1>2, <2>1, <3>1 DEF IInv, MemAhead
    <3> QED BY <1>3, <3>1, <3>2, Ranks DEF Ahead, Rows, Statuses
  <2> QED BY <1>5, <2>1 DEF IInv, MemAhead
<1>9. MemEarly'
  BY <1>3, <1>5 DEF IInv, MemEarly, Early
<1>10. ToBeMessaged' /\ ToBeSeen' /\ ToBeFollowed'
  <2>1. \A q \in Pollers, u \in Tasks :
            View(q, u)' = View(q, u) \/ (View(q, u).status = "invite_sent" /\ u = t)
    BY <1>2, <1>4, <1>5 DEF View
  <2>2. ToBeMessaged'
    BY <1>3, <1>5, <2>1 DEF IInv, ToBeMessaged
  <2>3. ToBeSeen'
    BY <2>1 DEF IInv, ToBeSeen, Following
  <2>4. ToBeFollowed'
    BY <1>1, <1>2, <1>4, <1>5 DEF IInv, ToBeFollowed, Shapes, Followed
  <2> QED BY <2>2, <2>3, <2>4
<1>11. Accounted'
  <2>1. Recorded(t, r) = Recorded(t, w)
    BY <1>3, <1>4, SameRecord DEF Early
  <2>2. ASSUME NEW u \in Tasks, NEW v \in Rows, NEW n \in {0, 1}, Counted(u, v, n)
        PROVE  Counted(u, v, n)'
    BY <2>2, RecordedIsNat DEF Counted
  <2>3. ASSUME NEW n \in {0, 1}, Counted(t, w, n) PROVE Counted(t, r, n)'
    BY <2>1, <2>3, RecordedIsNat DEF Counted
  <2>4. ASSUME NEW u \in Tasks, NEW n \in {0, 1}, Counted(u, row[u], n)
        PROVE  Counted(u, row[u], n)'
    <3>1. CASE u = t
      BY <1>2, <1>5, <2>3, <2>4, <3>1 DEF Counted, Recorded
    <3>2. CASE u # t
      BY <1>1, <1>5, <2>2, <2>4, <3>2 DEF Shapes, Counted, Recorded
    <3> QED BY <3>1, <3>2
  <2>5. ASSUME NEW q \in Pollers, NEW u \in Tasks, Counted(u, View(q, u), 0)
        PROVE  Counted(u, View(q, u), 0)'
    <3>1. CASE mem[q][u] = Null
      BY <2>4, <2>5, <3>1 DEF View, Counted, Recorded
    <3>2. CASE mem[q][u] # Null
      BY <2>5, <3>2 DEF View, Counted, Recorded
    <3> QED BY <3>1, <3>2
  <2> QED BY <2>4, <2>5 DEF IInv, Accounted, Polling
<1> QED BY <1>6, <1>7, <1>8, <1>9, <1>10, <1>11 DEF IInv

\* A follow-up becomes due while nobody polls.
LEMMA FollowupTimeStep ==
    ASSUME IInv, NEW t \in Tasks, FollowupTimeComes(t)
    PROVE  IInv'
<1> USE DEF FollowupTimeComes, campaignVars, accountVars, pollVars, ghostVars
<1>1. Shapes /\ \A q \in Pollers : Ended(q) /\ Followed(q)
  BY TypeParts DEF IInv
<1>2. PICK w \in Rows : w = row[t]
  BY <1>1 DEF Shapes
<1>3. PICK r \in Rows :
          /\ r = [w EXCEPT !.next = "reached"]
          /\ r.status = w.status /\ r.followups = w.followups
  <2>1. [w EXCEPT !.next = "reached"] \in Rows
    BY DEF Rows
  <2> QED BY <2>1 DEF Rows
<1>4. w.status \notin Early
  BY <1>2 DEF IInv, EarlyRows
<1>5. /\ row' \in [Tasks -> Rows] /\ row'[t] = r
      /\ \A u \in Tasks \ {t} : row'[u] = row[u]
  BY <1>1, <1>2, <1>3 DEF Shapes
<1>6. /\ \A q \in Pollers : ~Polling(q) /\ mem[q] = NoRows /\ todo[q] = {}
      /\ \A q \in Pollers : stage[q] \in {"idle", "found"}
  BY <1>1 DEF Ended, Polling
<1>7. TypeOK'
  BY <1>1, <1>5 DEF TypeOK, Shapes, Ended, Followed, Polling, NoRows
<1>8. Exclusive' /\ Clean' /\ EarlyRows' /\ MemAhead' /\ MemEarly'
  BY <1>3, <1>4, <1>5, <1>6
  DEF IInv, Exclusive, Polling, Clean, NoRows, EarlyRows, MemAhead, MemEarly
<1>9. ToBeMessaged' /\ ToBeSeen' /\ ToBeFollowed'
  BY <1>6 DEF ToBeMessaged, ToBeSeen, ToBeFollowed, Following
<1>10. Accounted'
  <2>1. Recorded(t, r) = Recorded(t, w)
    BY <1>3, SameRecord
  <2>2. \A u \in Tasks : Counted(u, row[u], 0)
    BY <1>6 DEF IInv, Accounted
  <2>3. Counted(t, r, 0)'
    BY <1>2, <2>1, <2>2, RecordedIsNat DEF Counted
  <2>4. \A u \in Tasks : Counted(u, row[u], 0)'
    BY <1>5, <2>2, <2>3 DEF Counted, Recorded
  <2>5. \A q \in Pollers : ~Polling(q)'
    BY <1>6 DEF Polling
  <2> QED BY <2>4, <2>5 DEF Accounted
<1> QED BY <1>7, <1>8, <1>9, <1>10 DEF IInv

-----------------------------------------------------------------------------
(***************************************************************************)
(* The invariant.                                                          *)
(***************************************************************************)

\* Nobody polls, nothing is sent, nothing is due.
LEMMA InitHolds == Init => IInv
<1> SUFFICES ASSUME Init PROVE IInv
  OBVIOUS
<1> USE PollerAssumption DEF Init
<1>1. row \in [Tasks -> Rows]
  BY DEF Rows, Statuses
<1>2. Shapes /\ \A p \in Pollers : Ended(p) /\ Followed(p)
  BY <1>1 DEF Shapes, Stages, PollTimes, NoRows, Ended, Followed
<1>3. Exclusive /\ Clean /\ EarlyRows /\ MemAhead /\ MemEarly
  BY DEF Exclusive, Polling, Clean, EarlyRows, MemAhead, MemEarly, NoRows
<1>4. ToBeMessaged /\ ToBeSeen /\ ToBeFollowed
  BY DEF ToBeMessaged, ToBeSeen, ToBeFollowed, Following
<1>5. Accounted
  BY DEF Accounted, Counted, Recorded, Polling
<1> QED BY <1>2, <1>3, <1>4, <1>5, TypeParts DEF IInv

\* Every step, action by action.
LEMMA NextHolds ==
    ASSUME Overrun = FALSE, IInv, [Next]_vars
    PROVE  IInv'
<1>1. CASE UNCHANGED vars
  BY <1>1, AsideStep
  DEF vars, campaignVars, accountVars, pollVars, ghostVars, IInv, TypeOK, Polling, NoRows
<1>2. CASE Environment
  <2>1. CASE \/ \E t \in Tasks : Reply(t) \/ ToggleCampaign(t)
             \/ ToggleAccount \/ PlanPolls \/ PollTimeComes
    BY <2>1, EnvironmentTypes, AsideStep DEF IInv
  <2>2. CASE \E t \in Tasks : Webhook(t) \/ FollowupTimeComes(t)
    BY <2>2, WebhookStep, FollowupTimeStep
  <2>3. CASE ExpireKey
    BY <2>3, ExpireKeyStep
  <2> QED BY <1>2, <2>1, <2>2, <2>3 DEF Environment
<1>3. ASSUME NEW p \in Pollers, Poll(p) PROVE IInv'
  <2>1. CASE Find(p) \/ Start(p) \/ Skip(p) \/ Release(p)
    BY <2>1, FindStep, StartStep, SkipStep, ReleaseStep
  <2>2. CASE FindAccepted(p) \/ ListAccepted(p) \/ ListActive(p)
    BY <2>2, FindAcceptedStep, ListAcceptedStep, ListActiveStep
  <2>3. CASE \E t \in Tasks : TaskStep(p, t)
    BY <2>3, DeferInitialStep, CompleteSilentlyStep, SendInitialStep, SkipActiveStep,
       SeeReplyStep, SeeNoReplyStep DEF TaskStep
  <2>4. CASE SendFollowup(p) \/ FollowupRefused(p) \/ LostReply(p) \/ Commit(p)
    BY <2>4, SendFollowupStep, FollowupRefusedStep, LostReplyStep, CommitStep
  <2>5. CASE Fail(p) \/ Crash(p)
    <3>1. Polling(p)
      BY <2>5 DEF Fail, Crash, Polling
    <3> QED BY <2>5, <3>1, AbortStep DEF Fail, Crash
  <2> QED BY <1>3, <2>1, <2>2, <2>3, <2>4, <2>5 DEF Poll
<1> QED BY <1>1, <1>2, <1>3 DEF Next

\* IInv is an invariant while no poll overruns the expiry of its lock.
LEMMA Invariance == ASSUME Overrun = FALSE PROVE Spec => []IInv
BY InitHolds, NextHolds, PTL DEF Spec

-----------------------------------------------------------------------------
(***************************************************************************)
(* Theorems.                                                               *)
(***************************************************************************)

\* A poll never stores a follow-up past the last template, and every session
\* ends clean.
THEOREM TypeCorrect == ASSUME Overrun = FALSE PROVE Spec => []TypeOK
BY Invariance, PTL DEF IInv

\* Nobody gets a message twice, faults aside, whatever webhooks, pauses,
\* failures and restarts come between the polls.
THEOREM MessagesAreRecorded == ASSUME Overrun = FALSE PROVE Spec => []MessagesRecorded
<1>1. ASSUME IInv PROVE MessagesRecorded
  <2>1. SUFFICES ASSUME NEW t \in Tasks
                 PROVE  \E p \in Pollers : messages[t] <= Recorded(t, View(p, t)) + faults
    BY DEF MessagesRecorded
  <2>2. CASE \E p \in Pollers : Polling(p)
    <3>1. PICK p \in Pollers : Polling(p)
      BY <2>2
    <3>2. PICK v \in Rows : v = View(p, t)
      BY <1>1, ViewIsRow DEF IInv
    <3>3. PICK w \in Rows : w = row[t]
      BY <1>1 DEF IInv, TypeOK
    <3> QED BY <1>1, <3>1, <3>2, <3>3, CountedByPoll
  <2>3. CASE \A p \in Pollers : ~Polling(p)
    <3>1. PICK p \in Pollers : TRUE
      BY PollerAssumption
    <3>2. PICK w \in Rows : w = row[t]
      BY <1>1 DEF IInv, TypeOK
    <3>3. View(p, t) = w
      BY <1>1, <2>3, <3>2 DEF IInv, TypeOK, View, NoRows
    <3>4. Counted(t, w, 0)
      BY <1>1, <2>3, <3>2 DEF IInv, Accounted
    <3>5. Recorded(t, w) \in Nat /\ faults \in Nat
      BY <1>1, RecordedIsNat, PollerAssumption DEF IInv, TypeOK
    <3> QED BY <3>3, <3>4, <3>5 DEF Counted
  <2> QED BY <2>2, <2>3
<1> QED BY <1>1, Invariance, PTL

\* Only a webhook, the time of a follow-up and the commit of a poll change a
\* row.
LEMMA RowWriters ==
    ASSUME Next, ~(\E t \in Tasks : Webhook(t) \/ FollowupTimeComes(t)),
           ~(\E p \in Pollers : Commit(p))
    PROVE  row' = row
<1>1. CASE Environment
  BY <1>1 DEF Environment, Reply, ToggleCampaign, ToggleAccount, PlanPolls, PollTimeComes,
              ExpireKey
<1>2. CASE \E p \in Pollers : Poll(p)
  BY <1>2 DEF Poll, Find, Start, Skip, FindAccepted, ListAccepted, ListActive, TaskStep,
              DeferInitial, CompleteSilently, SendInitial, SkipActive, SeeReply, SeeNoReply,
              SendFollowup, FollowupRefused, LostReply, Fail, Release, Crash
<1> QED BY <1>1, <1>2 DEF Next

\* A committed row never goes back.
THEOREM RowsOnlyForward == ASSUME Overrun = FALSE PROVE Spec => RowsForward
<1> DEFINE Forward(t) == /\ Rank(row[t].status) <= Rank(row'[t].status)
                         /\ row[t].followups <= row'[t].followups
<1>1. ASSUME TypeOK, NEW t \in Tasks, row'[t] = row[t] PROVE Forward(t)
  <2>1. PICK w \in Rows : w = row[t]
    BY <1>1 DEF TypeOK
  <2> QED BY <1>1, <2>1, Ranks DEF Rows, Statuses
<1>2. ASSUME IInv, [Next]_vars, NEW t \in Tasks PROVE Forward(t)
  <2>1. CASE UNCHANGED vars
    BY <2>1, <1>1, <1>2 DEF IInv, vars
  <2>2. CASE \E u \in Tasks : Webhook(u)
    <3>1. PICK u \in Tasks : Webhook(u)
      BY <2>2
    <3>2. CASE u = t
      <4>1. row[t].status = "invite_sent" /\ row'[t].status = "accepted"
        BY <1>2, <3>1, <3>2 DEF Webhook, IInv, TypeOK, Rows
      <4>2. row'[t].followups = row[t].followups /\ row[t].followups \in Nat
        BY <1>2, <3>1, <3>2, PollerAssumption DEF Webhook, IInv, TypeOK, Rows
      <4> QED BY <4>1, <4>2, Ranks
    <3>3. CASE u # t
      BY <1>1, <1>2, <3>1, <3>3 DEF Webhook, IInv, TypeOK
    <3> QED BY <3>2, <3>3
  <2>3. CASE \E u \in Tasks : FollowupTimeComes(u)
    <3>1. PICK u \in Tasks : FollowupTimeComes(u)
      BY <2>3
    <3>2. CASE u = t
      <4>1. PICK w \in Rows : w = row[t]
        BY <1>2 DEF IInv, TypeOK
      <4>2. row'[t].status = w.status /\ row'[t].followups = w.followups
        BY <1>2, <3>1, <3>2, <4>1 DEF FollowupTimeComes, IInv, TypeOK, Rows
      <4> QED BY <4>1, <4>2, Ranks DEF Rows, Statuses
    <3>3. CASE u # t
      BY <1>1, <1>2, <3>1, <3>3 DEF FollowupTimeComes, IInv, TypeOK
    <3> QED BY <3>2, <3>3
  <2>4. CASE \E p \in Pollers : Commit(p)
    <3>1. PICK p \in Pollers : Commit(p)
      BY <2>4
    <3>2. CASE mem[p][t] = Null
      BY <1>1, <1>2, <3>1, <3>2 DEF Commit, Stored, View, IInv
    <3>3. CASE mem[p][t] # Null
      BY <1>2, <3>1, <3>3 DEF Commit, Stored, View, IInv, MemAhead, Ahead
    <3> QED BY <3>2, <3>3
  <2> QED BY <1>1, <1>2, <2>1, <2>2, <2>3, <2>4, RowWriters DEF IInv
<1>3. IInv /\ [Next]_vars => [\A t \in Tasks : Forward(t)]_vars
  BY <1>2
<1>4. Spec => [][\A t \in Tasks : Forward(t)]_vars
  BY <1>3, Invariance, PTL DEF Spec
<1> QED BY <1>4 DEF RowsForward

\* No message goes to a person whose reply is stored: none on a poll's list is,
\* whatever it listed, as no other writer stores replies.
THEOREM RepliedIsQuiet == ASSUME Overrun = FALSE PROVE Spec => QuietOnceReplied
<1> DEFINE Quiet == \A t \in Tasks : row[t].status = "replied" => messages'[t] = messages[t]
<1>1. ASSUME IInv, NEW p \in Pollers, NEW t \in Tasks, t \in todo[p], stage[p] = "initial"
      PROVE  row[t].status # "replied"
  BY <1>1 DEF IInv, ToBeMessaged
<1>2. ASSUME IInv, NEW p \in Pollers, stage[p] = "followup"
      PROVE  row[current[p]].status # "replied"
  BY <1>2 DEF IInv, ToBeFollowed
<1>3. ASSUME NEW u \in Tasks, row[u].status # "replied", Deliver(u), TypeOK
      PROVE  Quiet
  BY <1>3 DEF Deliver, TypeOK
<1>4. ASSUME IInv, [Next]_vars PROVE Quiet
  <2>1. CASE UNCHANGED vars
    BY <2>1 DEF vars, ghostVars
  <2>2. CASE Environment
    BY <2>2 DEF Environment, Reply, Webhook, ToggleCampaign, FollowupTimeComes, ToggleAccount,
                PlanPolls, PollTimeComes, ExpireKey, ghostVars
  <2>3. ASSUME NEW p \in Pollers, Poll(p) PROVE Quiet
    <3>1. CASE SendFollowup(p) \/ (LostReply(p) /\ stage[p] = "followup" /\ Deliver(current[p]))
      <4>1. PICK u \in Tasks : u = current[p]
        BY <1>4, <3>1 DEF IInv, TypeOK, SendFollowup
      <4> QED BY <1>2, <1>3, <1>4, <3>1, <4>1 DEF IInv, SendFollowup
    <3>2. CASE \E t \in Tasks : /\ stage[p] = "initial" /\ t \in todo[p] /\ Deliver(t)
      BY <1>1, <1>3, <1>4, <3>2 DEF IInv
    <3>3. CASE UNCHANGED messages
      BY <3>3
    <3>4. LostReply(p) => \/ stage[p] = "followup" /\ Deliver(current[p])
                          \/ \E t \in Tasks : stage[p] = "initial" /\ t \in todo[p] /\ Deliver(t)
      BY <1>4 DEF LostReply, IInv, TypeOK
    <3>5. \A t \in Tasks : SendInitial(p, t) => stage[p] = "initial" /\ t \in todo[p] /\ Deliver(t)
      BY DEF SendInitial
    <3> QED
      BY <2>3, <3>1, <3>2, <3>3, <3>4, <3>5
      DEF Poll, Find, Start, Skip, FindAccepted, ListAccepted, ListActive, TaskStep,
          DeferInitial, CompleteSilently, SkipActive, SeeReply, SeeNoReply, FollowupRefused,
          Commit, Fail, Release, Crash, ghostVars
  <2> QED BY <1>4, <2>1, <2>2, <2>3 DEF Next
<1>5. IInv /\ [Next]_vars => [Quiet]_vars
  BY <1>4
<1>6. Spec => [][Quiet]_vars
  BY <1>5, Invariance, PTL DEF Spec
<1> QED BY <1>6 DEF QuietOnceReplied
=============================================================================
