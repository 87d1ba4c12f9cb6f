------------------------- MODULE ProfileCacheProofs -------------------------
(***************************************************************************)
(* Proofs about ProfileCache, for any accounts, people and tasks, and any  *)
(* number of sessions open at once.                                        *)
(***************************************************************************)
EXTENDS ProfileCache, TLAPS

\* Some account of the campaigns is connected with the person.
Known(p) == \E u \in related : Person(u) = p

-----------------------------------------------------------------------------
(***************************************************************************)
(* The inductive invariant.                                                *)
(***************************************************************************)

\* Every first degree anywhere is about a person who is known.
FirstIsKnown ==
    /\ \A t \in Tasks : dist[t] = "first" \/ status[t] = "accepted" => Known(Person(t))
    /\ \A p \in People : cache[p] = "first" => Known(p)

PendingIsKnown ==
    \A s \in Sessions :
        /\ \A r \in session[s].rows :
              r.dist = "first" \/ r.status = "accepted" => Known(Person(r.task))
        /\ \A q \in session[s].puts : q.key \in People /\ q.dist = "first" => Known(q.key)

\* A profile is stored under the identifier the person has.
KeysFit == \A s \in Sessions : \A q \in session[s].puts : q.key \notin anonymous

\* Executors write the one scheduled task of their account they work on, and
\* polls never a scheduled one.
ExecutorTask(a, t) ==
    /\ t[1] = a /\ status[t] = "scheduled"
    /\ \A r \in session[<<a, "executor">>].rows : r.task = t
    /\ \A q \in session[<<a, "executor">>].puts : q.person = t[2] /\ q.key = Key(t[2])
    /\ \A q, o \in session[<<a, "executor">>].puts : q = o
    /\ t \in forgotten /\ t[2] \notin anonymous
         => \A q \in session[<<a, "executor">>].puts : ~q.new

ExecutorRow(a) == session[<<a, "executor">>].open => \E t \in Tasks : ExecutorTask(a, t)

PollRows(a) ==
    \A r \in session[<<a, "poll">>].rows :
        r.task[1] = a /\ status[r.task] # "scheduled" /\ r.status # "scheduled"

RowsApart == \A a \in Accounts : ExecutorRow(a) /\ PollRows(a)

\* Who lost a record to the unique key finds the row from then on.
ForgottenIsCached ==
    \A t \in forgotten : t[2] \notin anonymous => cache[t[2]] # "absent"

\* Rows and profiles of a session that is not open are none.
ClosedIsEmpty ==
    \A s \in Sessions : ~session[s].open => session[s].rows = {} /\ session[s].puts = {}

IInv ==
    /\ TypeOK
    /\ FirstIsKnown
    /\ PendingIsKnown
    /\ KeysFit
    /\ RowsApart
    /\ ForgottenIsCached
    /\ ClosedIsEmpty

-----------------------------------------------------------------------------
(***************************************************************************)
(* What ensure_task_profile returns, and what a session writes.            *)
(***************************************************************************)

LEMMA TaskPair ==
    ASSUME NEW t \in Tasks
    PROVE  t[1] \in Accounts /\ t[2] \in People /\ Person(t) = t[2]
BY ProfileAssumption DEF Person

\* Blank is nobody's identifier.
LEMMA KeyFits ==
    ASSUME TypeOK, NEW p \in People
    PROVE  /\ Key(p) \in Keys
           /\ Key(p) \notin anonymous
           /\ Key(p) \in People => Key(p) = p
           /\ Key(p) = Blank => ~Existing(p)
           /\ Existing(p) \in BOOLEAN
BY ProfileAssumption DEF TypeOK, Key, Keys, Existing

\* The distance is the account's own or comes from the cache, and the profile
\* to store is the person's.
LEMMA EnsuredFits ==
    ASSUME TypeOK, FirstIsKnown, NEW t \in Tasks, NEW e \in Ensured(t)
    PROVE  /\ e.dist \in Distances
           /\ e.dist = "first" => Known(t[2])
           /\ e.puts \subseteq Puts
           /\ \A q \in e.puts : /\ q.person = t[2] /\ q.key = Key(t[2])
                                /\ q.dist = e.dist
                                /\ q.new = ~Existing(t[2])
           /\ \A q, o \in e.puts : q = o
<1>1. t[2] \in People /\ Person(t) = t[2]
    BY TaskPair
<1>2. cache[t[2]] \in Distances \cup {"absent"} /\ dist[t] \in Distances
    BY <1>1 DEF TypeOK, Keys
<1>3. CASE e \in Scraped(t)
    <2>1. PICK d \in {"none", IF t \in related THEN "first" ELSE "second"} :
              e = Profile(d, {[person |-> t[2], key |-> Key(t[2]),
                               new |-> ~Existing(t[2]), dist |-> d]})
        BY <1>1, <1>3 DEF Scraped
    <2>2. d \in Distances
        BY DEF Distances
    <2>3. d = "first" => Known(t[2])
        BY <1>1 DEF Known
    <2>4. [person |-> t[2], key |-> Key(t[2]), new |-> ~Existing(t[2]), dist |-> d] \in Puts
        BY <1>1, <2>2, KeyFits DEF Puts
    <2> QED BY <2>1, <2>2, <2>3, <2>4 DEF Profile
<1>4. CASE e = Profile("none", {})
    BY <1>4 DEF Profile, Distances
<1>5. CASE e = Profile(dist[t], {})
    BY <1>1, <1>2, <1>5 DEF Profile, FirstIsKnown
<1>6. CASE e = Profile(cache[t[2]], {}) /\ cache[t[2]] \in {"first", "second"}
    BY <1>1, <1>6 DEF Profile, FirstIsKnown, Distances
<1> QED BY <1>1, <1>3, <1>4, <1>5, <1>6 DEF Ensured

\* A task after a commit is as it was, or as one of the session's rows says.
LEMMA CommittedTask ==
    ASSUME TypeOK, NEW s \in Sessions, Commit(s), NEW t \in Tasks
    PROVE  \/ /\ status'[t] = status[t] /\ dist'[t] = dist[t]
              /\ \A r \in session[s].rows : r.task # t
           \/ \E r \in session[s].rows :
                 r.task = t /\ status'[t] = r.status /\ dist'[t] = r.dist
<1>1. CASE \A r \in session[s].rows : r.task # t
    BY <1>1 DEF Commit
<1>2. CASE \E r \in session[s].rows : r.task = t
    <2> DEFINE R == CHOOSE r \in session[s].rows : r.task = t
    <2>1. R \in session[s].rows /\ R.task = t
        BY <1>2
    <2>2. status'[t] = R.status /\ dist'[t] = R.dist
        BY <1>2 DEF Commit
    <2> QED BY <2>1, <2>2
<1> QED BY <1>1, <1>2

\* A cached distance after a commit is as it was, or as one of the session's
\* profiles says.
LEMMA CommittedProfile ==
    ASSUME TypeOK, NEW s \in Sessions, Commit(s), NEW k \in Keys
    PROVE  \/ cache'[k] = cache[k]
           \/ \E q \in session[s].puts : q.key = k /\ cache'[k] = q.dist
<1>1. CASE \A q \in session[s].puts : ~Stores(q, k)
    BY <1>1 DEF Commit
<1>2. CASE \E q \in session[s].puts : Stores(q, k)
    <2> DEFINE Q == CHOOSE q \in session[s].puts : Stores(q, k)
    <2>1. Q \in session[s].puts /\ Stores(Q, k)
        BY <1>2
    <2>2. cache'[k] = Q.dist
        BY <1>2 DEF Commit
    <2> QED BY <2>1, <2>2 DEF Stores
<1> QED BY <1>1, <1>2

-----------------------------------------------------------------------------
(***************************************************************************)
(* Sessions open.                                                          *)
(***************************************************************************)

\* What opens a session changes nobody else's, and its rows and profiles are
\* those it has written.
LEMMA Opened ==
    ASSUME TypeOK, NEW s \in Sessions, NEW rows, NEW puts, Write(s, rows, puts)
    PROVE  /\ session'[s] = [open |-> TRUE, rows |-> rows, puts |-> puts]
           /\ \A o \in Sessions \ {s} : session'[o] = session[o]
BY DEF TypeOK, Write

LEMMA SessionKinds ==
    ASSUME NEW a \in Accounts
    PROVE  /\ <<a, "executor">> \in Sessions /\ <<a, "poll">> \in Sessions
           /\ \A b \in Accounts : <<a, "executor">> # <<b, "poll">>
           /\ \A b \in Accounts : <<a, "executor">> = <<b, "executor">> => a = b
           /\ \A b \in Accounts : <<a, "poll">> = <<b, "poll">> => a = b
BY DEF Sessions

\* A session opens with rows and profiles that fit: everything but what the
\* rows of its own kind are.
LEMMA OpeningKeeps ==
    ASSUME IInv, NEW s \in Sessions, NEW rows \in SUBSET Rows, NEW puts \in SUBSET Puts,
           Write(s, rows, puts),
           UNCHANGED <<worldVars, taskVars, cache, forgotten>>,
           \A r \in rows : r.dist = "first" \/ r.status = "accepted" => Known(Person(r.task)),
           \A q \in puts : /\ q.key \in People /\ q.dist = "first" => Known(q.key)
                           /\ q.key \notin anonymous
                           /\ q.key = Blank => q.new
    PROVE  /\ TypeOK' /\ FirstIsKnown' /\ PendingIsKnown' /\ KeysFit'
           /\ ForgottenIsCached' /\ ClosedIsEmpty'
<1> USE DEF worldVars, taskVars
<1>1. /\ session'[s] = [open |-> TRUE, rows |-> rows, puts |-> puts]
      /\ \A o \in Sessions \ {s} : session'[o] = session[o]
    BY Opened DEF IInv
<1>2. TypeOK'
    <2>1. session' \in [Sessions -> [open : BOOLEAN, rows : SUBSET Rows, puts : SUBSET Puts]]
        BY DEF IInv, TypeOK, Write
    <2>2. \A o \in Sessions : \A q \in session'[o].puts : q.key = Blank => q.new
        BY <1>1 DEF IInv, TypeOK
    <2> QED BY <2>1, <2>2 DEF IInv, TypeOK
<1>3. FirstIsKnown' /\ ForgottenIsCached'
    BY DEF IInv, FirstIsKnown, ForgottenIsCached, Known, Person
<1>4. PendingIsKnown'
    BY <1>1 DEF IInv, PendingIsKnown, Known, Person
<1>5. KeysFit' /\ ClosedIsEmpty'
    BY <1>1 DEF IInv, KeysFit, ClosedIsEmpty
<1> QED BY <1>2, <1>3, <1>4, <1>5

\* What an executor works on stays so while its session, its task's status and
\* what is forgotten of it do.
LEMMA RowKept ==
    ASSUME NEW b \in Accounts, ExecutorRow(b), UNCHANGED <<anonymous, status, forgotten>>,
           session'[<<b, "executor">>] = session[<<b, "executor">>]
    PROVE  ExecutorRow(b)'
<1>1. ASSUME NEW t \in Tasks, ExecutorTask(b, t) PROVE ExecutorTask(b, t)'
    BY <1>1 DEF ExecutorTask, Key
<1> QED BY <1>1 DEF ExecutorRow

\* An executor's section, whatever the outcome.
LEMMA ExecutorKeeps ==
    ASSUME IInv, NEW a \in Accounts, NEW t \in Tasks, Begin(a, t),
           NEW e \in Ensured(t), NEW st \in Statuses, st = "accepted" => FirstDegree(e),
           Write(<<a, "executor">>, {Row(t, st, e)}, e.puts),
           UNCHANGED <<worldVars, taskVars, cache, forgotten>>
    PROVE  IInv'
<1> DEFINE s == <<a, "executor">>
<1>1. /\ e.dist \in Distances
      /\ e.dist = "first" => Known(t[2])
      /\ e.puts \subseteq Puts
      /\ \A q \in e.puts : /\ q.person = t[2] /\ q.key = Key(t[2])
                           /\ q.dist = e.dist
                           /\ q.new = ~Existing(t[2])
      /\ \A q, o \in e.puts : q = o
    BY EnsuredFits DEF IInv
<1>2. t[1] = a /\ t[2] \in People /\ Person(t) = t[2] /\ status[t] = "scheduled"
    BY TaskPair DEF Begin
<1>3. /\ Key(t[2]) \in People => Key(t[2]) = t[2]
      /\ Key(t[2]) \notin anonymous
      /\ Key(t[2]) = Blank => ~Existing(t[2])
    BY <1>2, KeyFits DEF IInv
<1>4. {Row(t, st, e)} \subseteq Rows
    BY <1>1 DEF Row, Rows
<1>5. TypeOK' /\ FirstIsKnown' /\ PendingIsKnown' /\ KeysFit' /\ ForgottenIsCached' /\ ClosedIsEmpty'
    <2>1. s \in Sessions
        BY SessionKinds
    <2>2. \A r \in {Row(t, st, e)} :
              r.dist = "first" \/ r.status = "accepted" => Known(Person(r.task))
        BY <1>1, <1>2 DEF Row, FirstDegree
    <2>3. \A q \in e.puts : /\ q.key \in People /\ q.dist = "first" => Known(q.key)
                            /\ q.key \notin anonymous
                            /\ q.key = Blank => q.new
        BY <1>1, <1>2, <1>3
    <2> QED BY <1>1, <1>4, <2>1, <2>2, <2>3, OpeningKeeps
<1>6. /\ session'[s] = [open |-> TRUE, rows |-> {Row(t, st, e)}, puts |-> e.puts]
      /\ \A o \in Sessions \ {s} : session'[o] = session[o]
    <2>1. s \in Sessions
        BY SessionKinds
    <2> HIDE DEF s
    <2> QED BY <2>1, Opened DEF IInv, s
<1>7. ExecutorRow(a)'
    <2>1. t \in forgotten /\ t[2] \notin anonymous => Existing(t[2])
        BY DEF IInv, ForgottenIsCached, Existing
    <2>2. Key(t[2])' = Key(t[2])
        BY DEF Key, worldVars
    <2>3. session'[s].rows = {Row(t, st, e)} /\ session'[s].puts = e.puts
        BY <1>6
    <2>4. \A r \in session'[s].rows : r.task = t
        BY <2>3 DEF Row
    <2>5. \A q \in session'[s].puts : q.person = t[2] /\ q.key = Key(t[2])'
        BY <1>1, <2>2, <2>3
    <2>6. \A q, o \in session'[s].puts : q = o
        BY <1>1, <2>3
    <2>7. t \in forgotten' /\ t[2] \notin anonymous' => \A q \in session'[s].puts : ~q.new
        BY <1>1, <2>1, <2>3 DEF worldVars
    <2>8. t[1] = a /\ status'[t] = "scheduled"
        BY <1>2 DEF taskVars
    <2>9. ExecutorTask(a, t)'
        BY <2>4, <2>5, <2>6, <2>7, <2>8 DEF ExecutorTask
    <2> QED BY <2>9 DEF ExecutorRow
<1>8. ASSUME NEW b \in Accounts, b # a PROVE ExecutorRow(b)'
    <2>1. <<b, "executor">> \in Sessions \ {s}
        BY <1>8, SessionKinds
    <2>2. session'[<<b, "executor">>] = session[<<b, "executor">>]
        BY <1>6, <2>1
    <2>3. ExecutorRow(b)
        BY DEF IInv, RowsApart
    <2> QED BY <2>2, <2>3, RowKept DEF worldVars, taskVars
<1>9. ASSUME NEW b \in Accounts PROVE PollRows(b)'
    <2>1. <<b, "poll">> \in Sessions \ {s}
        BY SessionKinds
    <2>2. session'[<<b, "poll">>] = session[<<b, "poll">>]
        BY <1>6, <2>1
    <2> QED BY <2>2 DEF IInv, RowsApart, PollRows, taskVars
<1> QED BY <1>5, <1>7, <1>8, <1>9 DEF IInv, RowsApart

\* What a poll believes of a task is as well founded as the profile.
LEMMA BelievedFits ==
    ASSUME TypeOK, FirstIsKnown, NEW t \in Tasks, NEW seen, NEW e \in Believed(t, seen)
    PROVE  /\ e.dist \in Distances
           /\ e.dist = "first" => Known(t[2])
           /\ e.puts \subseteq Puts
           /\ \A q \in e.puts : /\ q.key = Key(t[2])
                                /\ q.dist = e.dist
                                /\ q.new = ~Existing(t[2])
<1>1. CASE e \in Ensured(t)
    BY <1>1, EnsuredFits
<1>2. CASE e = Profile(dist[t], {})
    <2>1. dist[t] \in Distances
        BY DEF TypeOK
    <2>2. dist[t] = "first" => Known(t[2])
        BY TaskPair DEF FirstIsKnown
    <2> QED BY <1>2, <2>1, <2>2 DEF Profile
<1> QED BY <1>1, <1>2 DEF Believed

\* A poll writes rows of tasks that were invited.
LEMMA PollKeeps ==
    ASSUME IInv, NEW a \in Accounts, Poll(a)
    PROVE  IInv'
<1>1. PICK seen \in SUBSET Recent(a) : PollSeeing(a, seen, Beliefs(a, seen))
    BY DEF Poll
<1> DEFINE mine == Mine(a)
           After(t, e) == IF Connected(t, seen, e) THEN "accepted" ELSE status[t]
<1>2. PICK f \in Beliefs(a, seen) :
          Write(<<a, "poll">>, {Row(t, After(t, f[t]), f[t]) : t \in mine},
                UNION {f[t].puts : t \in mine})
    BY <1>1 DEF PollSeeing
<1> DEFINE s == <<a, "poll">>
           rows == {Row(t, After(t, f[t]), f[t]) : t \in mine}
           puts == UNION {f[t].puts : t \in mine}
<1>3. UNCHANGED <<worldVars, taskVars, cache, forgotten>>
    BY <1>1 DEF PollSeeing
<1>4. ASSUME NEW t \in mine
      PROVE  /\ f[t].dist \in Distances
             /\ f[t].dist = "first" => Known(t[2])
             /\ f[t].puts \subseteq Puts
             /\ \A q \in f[t].puts : /\ q.key = Key(t[2])
                                     /\ q.dist = f[t].dist
                                     /\ q.new = ~Existing(t[2])
    BY <1>2, <1>4, BelievedFits DEF IInv, Beliefs, Mine
<1>5. ASSUME NEW t \in mine
      PROVE  /\ After(t, f[t]) \in {"invite_sent", "accepted"}
             /\ After(t, f[t]) = "accepted" => Known(t[2])
    <2>1. Person(t) = t[2] /\ t \in Tasks /\ status[t] \in {"invite_sent", "accepted"}
        BY TaskPair DEF Mine
    <2>2. t \in seen => Known(t[2])
        BY <2>1 DEF IInv, TypeOK, Recent, Known
    <2>3. status[t] = "accepted" => Known(t[2])
        BY <2>1 DEF IInv, FirstIsKnown
    <2> QED BY <1>4, <2>1, <2>2, <2>3 DEF Connected, FirstDegree
<1>6. ASSUME NEW r \in rows
      PROVE  \E t \in mine : /\ r = Row(t, After(t, f[t]), f[t])
                             /\ r.task = t /\ r.status = After(t, f[t]) /\ r.dist = f[t].dist
    <2>1. PICK t \in mine : r = Row(t, After(t, f[t]), f[t])
        BY <1>6
    <2> QED BY <2>1 DEF Row
<1>7. rows \subseteq Rows
    BY <1>4, <1>5 DEF Row, Rows, Statuses, Mine
<1>8. puts \subseteq Puts
    BY <1>4
<1>9. \A r \in rows : r.dist = "first" \/ r.status = "accepted" => Known(Person(r.task))
    <2> SUFFICES ASSUME NEW r \in rows, r.dist = "first" \/ r.status = "accepted"
                 PROVE  Known(Person(r.task))
        OBVIOUS
    <2>1. PICK t \in mine : r.task = t /\ r.status = After(t, f[t]) /\ r.dist = f[t].dist
        BY <1>6
    <2>2. Known(t[2])
        BY <1>4, <1>5, <2>1
    <2>3. Person(t) = t[2]
        BY TaskPair DEF Mine
    <2> QED BY <2>1, <2>2, <2>3
<1>10. \A q \in puts : /\ q.key \in People /\ q.dist = "first" => Known(q.key)
                       /\ q.key \notin anonymous
                       /\ q.key = Blank => q.new
    <2> SUFFICES ASSUME NEW q \in puts
                 PROVE  /\ q.key \in People /\ q.dist = "first" => Known(q.key)
                        /\ q.key \notin anonymous
                        /\ q.key = Blank => q.new
        OBVIOUS
    <2>1. PICK t \in mine : q \in f[t].puts
        OBVIOUS
    <2>2. t[2] \in People
        BY TaskPair DEF Mine
    <2>3. /\ Key(t[2]) \in People => Key(t[2]) = t[2]
          /\ Key(t[2]) \notin anonymous
          /\ Key(t[2]) = Blank => ~Existing(t[2])
        BY <2>2, KeyFits DEF IInv
    <2>4. /\ f[t].dist = "first" => Known(t[2])
          /\ q.key = Key(t[2]) /\ q.dist = f[t].dist /\ q.new = ~Existing(t[2])
        BY <1>4, <2>1
    <2> QED BY <2>3, <2>4
<1>11. s \in Sessions
    BY SessionKinds
<1>12. Write(s, rows, puts)
    BY <1>2
<1>13. \A t \in mine : t[1] = a /\ status[t] # "scheduled" /\ t \in Tasks
    BY DEF Mine
<1>14. \A r \in rows : r.task[1] = a /\ status[r.task] # "scheduled" /\ r.status # "scheduled"
    BY <1>5, <1>6, <1>13
<1> HIDE DEF s, rows, puts, mine
<1>15. PICK R \in SUBSET Rows, P \in SUBSET Puts : R = rows /\ P = puts
    BY <1>7, <1>8
<1>16. /\ session'[s] = [open |-> TRUE, rows |-> R, puts |-> P]
       /\ \A o \in Sessions \ {s} : session'[o] = session[o]
    BY <1>11, <1>12, <1>15, Opened DEF IInv
<1>17. ASSUME NEW b \in Accounts PROVE ExecutorRow(b)'
    <2>1. <<b, "executor">> \in Sessions \ {s}
        BY SessionKinds DEF s
    <2>2. ExecutorRow(b)
        BY DEF IInv, RowsApart
    <2> QED BY <1>3, <1>16, <2>1, <2>2, RowKept DEF worldVars, taskVars
<1>18. ASSUME NEW b \in Accounts PROVE PollRows(b)'
    <2>1. CASE b = a
        <3>1. session'[<<b, "poll">>].rows = rows
            BY <1>15, <1>16, <2>1 DEF s
        <3> QED BY <1>3, <1>14, <2>1, <3>1 DEF PollRows, taskVars
    <2>2. CASE b # a
        <3>1. <<b, "poll">> \in Sessions \ {s}
            BY <2>2, SessionKinds DEF s
        <3>2. session'[<<b, "poll">>] = session[<<b, "poll">>]
            BY <1>16, <3>1
        <3> QED BY <1>3, <3>2 DEF IInv, RowsApart, PollRows, taskVars
    <2> QED BY <2>1, <2>2
<1>19. TypeOK' /\ FirstIsKnown' /\ PendingIsKnown' /\ KeysFit' /\ ForgottenIsCached' /\ ClosedIsEmpty'
    <2>1. Write(s, R, P)
        BY <1>12, <1>15
    <2>2. \A r \in R : r.dist = "first" \/ r.status = "accepted" => Known(Person(r.task))
        BY <1>9, <1>15
    <2>3. \A q \in P : /\ q.key \in People /\ q.dist = "first" => Known(q.key)
                       /\ q.key \notin anonymous
                       /\ q.key = Blank => q.new
        BY <1>10, <1>15
    <2> QED BY <1>3, <1>11, <2>1, <2>2, <2>3, OpeningKeeps
<1> QED BY <1>17, <1>18, <1>19 DEF IInv, RowsApart

-----------------------------------------------------------------------------
(***************************************************************************)
(* Sessions end.                                                           *)
(***************************************************************************)

\* A row is of the session's account, and of a scheduled task if and only if
\* the session is an executor's.
LEMMA RowOwner ==
    ASSUME IInv, NEW s \in Sessions, session[s].open, NEW r \in session[s].rows
    PROVE  /\ r.task \in Tasks
           /\ \/ /\ s = <<r.task[1], "executor">>
                 /\ status[r.task] = "scheduled"
              \/ /\ s = <<r.task[1], "poll">>
                 /\ status[r.task] # "scheduled" /\ r.status # "scheduled"
<1>1. r \in Rows
    BY DEF IInv, TypeOK
<1>2. PICK a \in Accounts : s = <<a, "executor">> \/ s = <<a, "poll">>
    BY DEF Sessions
<1>3. ExecutorRow(a) /\ PollRows(a)
    BY DEF IInv, RowsApart
<1>4. CASE s = <<a, "executor">>
    BY <1>1, <1>3, <1>4 DEF ExecutorRow, ExecutorTask, Rows
<1>5. CASE s = <<a, "poll">>
    BY <1>1, <1>3, <1>5 DEF PollRows, Rows
<1> QED BY <1>2, <1>4, <1>5

\* The task an executor works on is changed by no other session.
LEMMA OthersCommit ==
    ASSUME IInv, NEW s \in Sessions, Commit(s), NEW t \in Tasks
    PROVE  /\ status[t] = "scheduled" /\ s # <<t[1], "executor">> => status'[t] = "scheduled"
           /\ status[t] # "scheduled" => status'[t] # "scheduled"
<1>1. TypeOK /\ session[s].open
    BY DEF IInv, Commit
<1>2. CASE status'[t] = status[t]
    BY <1>2
<1>3. CASE \E r \in session[s].rows : r.task = t /\ status'[t] = r.status
    <2>1. PICK r \in session[s].rows : r.task = t /\ status'[t] = r.status
        BY <1>3
    <2> QED BY <1>1, <2>1, RowOwner
<1> QED BY <1>1, <1>2, <1>3, CommittedTask

LEMMA CommitKeeps ==
    ASSUME IInv, NEW s \in Sessions, Commit(s)
    PROVE  IInv'
<1>1. /\ session'[s] = Closed
      /\ \A o \in Sessions \ {s} : session'[o] = session[o]
      /\ session' \in [Sessions -> [open : BOOLEAN, rows : SUBSET Rows, puts : SUBSET Puts]]
    BY DEF IInv, TypeOK, Commit, Closed
<1>2. UNCHANGED <<anonymous, related, recent, forgotten>> /\ session[s].open
    BY DEF Commit, worldVars
<1>3. \A r \in session[s].rows : r \in Rows
    BY DEF IInv, TypeOK
<1>4. \A q \in session[s].puts : q \in Puts
    BY DEF IInv, TypeOK
<1>5. TypeOK'
    <2>1. status' \in [Tasks -> Statuses]
        <3>1. ASSUME NEW t \in Tasks PROVE status'[t] \in Statuses
            BY <1>3, CommittedTask DEF IInv, TypeOK, Rows
        <3> QED BY <3>1 DEF Commit
    <2>2. dist' \in [Tasks -> Distances]
        <3>1. ASSUME NEW t \in Tasks PROVE dist'[t] \in Distances
            BY <1>3, CommittedTask DEF IInv, TypeOK, Rows
        <3> QED BY <3>1 DEF Commit
    <2>3. cache' \in [Keys -> Distances \cup {"absent"}]
        <3>1. ASSUME NEW k \in Keys PROVE cache'[k] \in Distances \cup {"absent"}
            BY <1>4, CommittedProfile DEF IInv, TypeOK, Puts
        <3> QED BY <3>1 DEF Commit
    <2>4. \A p \in anonymous : cache'[p] \in {"absent", "none"}
        <3>1. ASSUME NEW p \in anonymous PROVE cache'[p] = cache[p]
            <4>1. p \in Keys
                BY DEF IInv, TypeOK, Keys
            <4> QED BY <4>1, CommittedProfile DEF IInv, KeysFit
        <3> QED BY <3>1 DEF IInv, TypeOK
    <2>5. \A o \in Sessions : \A q \in session'[o].puts : q.key = Blank => q.new
        BY <1>1 DEF IInv, TypeOK, Closed
    <2> QED BY <1>1, <1>2, <2>1, <2>2, <2>3, <2>4, <2>5 DEF IInv, TypeOK
<1>6. \A p : Known(p)' <=> Known(p)
    BY <1>2 DEF Known, Person
<1>7. FirstIsKnown'
    <2>1. ASSUME NEW t \in Tasks, dist'[t] = "first" \/ status'[t] = "accepted"
          PROVE  Known(Person(t))
        <3>1. CASE status'[t] = status[t] /\ dist'[t] = dist[t]
            BY <2>1, <3>1 DEF IInv, FirstIsKnown
        <3>2. CASE \E r \in session[s].rows :
                       r.task = t /\ status'[t] = r.status /\ dist'[t] = r.dist
            BY <2>1, <3>2 DEF IInv, PendingIsKnown
        <3> QED BY <3>1, <3>2, CommittedTask DEF IInv
    <2>2. ASSUME NEW p \in People, cache'[p] = "first"
          PROVE  Known(p)
        <3>1. p \in Keys
            BY DEF Keys
        <3>2. CASE cache'[p] = cache[p]
            BY <2>2, <3>2 DEF IInv, FirstIsKnown
        <3>3. CASE \E q \in session[s].puts : q.key = p /\ cache'[p] = q.dist
            BY <2>2, <3>3 DEF IInv, PendingIsKnown
        <3> QED BY <3>1, <3>2, <3>3, CommittedProfile DEF IInv
    <2> QED BY <1>6, <2>1, <2>2 DEF FirstIsKnown, Person
<1>8. PendingIsKnown'
    BY <1>1, <1>2 DEF IInv, PendingIsKnown, Known, Person, Closed
<1>9. KeysFit' /\ ClosedIsEmpty'
    BY <1>1, <1>2 DEF IInv, KeysFit, ClosedIsEmpty, Closed
<1>10. ForgottenIsCached'
    <2>1. ASSUME NEW t \in forgotten, t[2] \notin anonymous
          PROVE  cache'[t[2]] # "absent"
        <3>1. t[2] \in Keys /\ cache[t[2]] # "absent"
            BY <2>1, TaskPair DEF IInv, TypeOK, ForgottenIsCached, Keys
        <3>2. \A q \in session[s].puts : q.dist # "absent"
            BY <1>4 DEF Puts, Distances
        <3> QED BY <3>1, <3>2, CommittedProfile DEF IInv
    <2> QED BY <1>2, <2>1 DEF ForgottenIsCached
<1>11. ASSUME NEW b \in Accounts PROVE ExecutorRow(b)'
    <2>1. <<b, "executor">> \in Sessions /\ ExecutorRow(b)
        BY SessionKinds DEF IInv, RowsApart
    <2>2. CASE s = <<b, "executor">>
        BY <1>1, <2>2 DEF ExecutorRow, Closed
    <2>3. CASE s # <<b, "executor">>
        <3>1. session'[<<b, "executor">>] = session[<<b, "executor">>]
            BY <1>1, <2>1, <2>3
        <3>2. ASSUME NEW t \in Tasks, ExecutorTask(b, t) PROVE ExecutorTask(b, t)'
            <4>1. status'[t] = "scheduled"
                BY <2>3, <3>2, OthersCommit DEF ExecutorTask
            <4> QED BY <1>2, <3>1, <3>2, <4>1 DEF ExecutorTask, Key
        <3> QED BY <2>1, <3>1, <3>2 DEF ExecutorRow
    <2> QED BY <2>2, <2>3
<1>12. ASSUME NEW b \in Accounts PROVE PollRows(b)'
    <2>1. <<b, "poll">> \in Sessions /\ PollRows(b)
        BY SessionKinds DEF IInv, RowsApart
    <2>2. CASE s = <<b, "poll">>
        BY <1>1, <2>2 DEF PollRows, Closed
    <2>3. CASE s # <<b, "poll">>
        <3>1. session'[<<b, "poll">>] = session[<<b, "poll">>]
            BY <1>1, <2>1, <2>3
        <3>2. \A r \in session[<<b, "poll">>].rows : r.task \in Tasks
            BY <2>1 DEF IInv, TypeOK, Rows
        <3> QED BY <2>1, <3>1, <3>2, OthersCommit DEF PollRows
    <2> QED BY <2>2, <2>3
<1> QED BY <1>5, <1>7, <1>8, <1>9, <1>10, <1>11, <1>12 DEF IInv, RowsApart

\* A session that forgets an invitation is the executor's of that task, and if
\* the person has an identifier it met the row of just that person.
LEMMA WhoForgets ==
    ASSUME IInv, NEW s \in Sessions, session[s].open, KeyTaken(s), NEW t \in Invited(s)
    PROVE  /\ t \in Tasks /\ s = <<t[1], "executor">>
           /\ t[2] \notin anonymous => cache[t[2]] # "absent" /\ t \notin forgotten
<1>1. PICK r \in session[s].rows :
          r.task = t /\ r.status = "invite_sent" /\ status[t] = "scheduled"
    BY DEF Invited
<1>2. t \in Tasks /\ s = <<t[1], "executor">>
    BY <1>1, RowOwner
<1>3. t[1] \in Accounts /\ t[2] \in People
    BY <1>2, TaskPair
<1>4. ExecutorRow(t[1])
    BY <1>3 DEF IInv, RowsApart
<1>5. ExecutorTask(t[1], t)
    BY <1>1, <1>2, <1>4 DEF ExecutorRow, ExecutorTask
<1>6. PICK q \in session[s].puts :
          q.new /\ (\/ cache[q.key] # "absent"
                    \/ \E o \in session[s].puts : o # q /\ o.key = q.key)
    BY DEF KeyTaken
<1>7. q.key = Key(t[2]) /\ \A o \in session[s].puts : o = q
    BY <1>2, <1>5, <1>6 DEF ExecutorTask
<1>8. cache[q.key] # "absent"
    BY <1>6, <1>7
<1>9. ASSUME t[2] \notin anonymous PROVE cache[t[2]] # "absent" /\ t \notin forgotten
    <2>1. Key(t[2]) = t[2]
        BY <1>9 DEF Key
    <2>2. t \notin forgotten
        BY <1>2, <1>5, <1>6, <1>9 DEF ExecutorTask
    <2> QED BY <1>7, <1>8, <2>1, <2>2
<1> QED BY <1>2, <1>9

LEMMA CollideKeeps ==
    ASSUME IInv, NEW s \in Sessions, Collide(s)
    PROVE  IInv'
<1>1. /\ session'[s] = Closed
      /\ \A o \in Sessions \ {s} : session'[o] = session[o]
      /\ session' \in [Sessions -> [open : BOOLEAN, rows : SUBSET Rows, puts : SUBSET Puts]]
    BY DEF IInv, TypeOK, Collide, Closed
<1>2. /\ UNCHANGED <<anonymous, related, recent, status, dist, cache>>
      /\ session[s].open /\ KeyTaken(s)
      /\ forgotten' = forgotten \cup Invited(s)
    BY DEF Collide, worldVars, taskVars
<1>3. TypeOK'
    <2>1. Invited(s) \subseteq Tasks
        BY <1>2, WhoForgets
    <2>2. \A o \in Sessions : \A q \in session'[o].puts : q.key = Blank => q.new
        BY <1>1 DEF IInv, TypeOK, Closed
    <2> QED BY <1>1, <1>2, <2>1, <2>2 DEF IInv, TypeOK
<1>4. FirstIsKnown' /\ PendingIsKnown'
    BY <1>1, <1>2 DEF IInv, FirstIsKnown, PendingIsKnown, Known, Person, Closed
<1>5. KeysFit' /\ ClosedIsEmpty'
    BY <1>1, <1>2 DEF IInv, KeysFit, ClosedIsEmpty, Closed
<1>6. ForgottenIsCached'
    BY <1>2, WhoForgets DEF IInv, ForgottenIsCached
<1>7. ASSUME NEW b \in Accounts PROVE ExecutorRow(b)'
    <2>1. <<b, "executor">> \in Sessions /\ ExecutorRow(b)
        BY SessionKinds DEF IInv, RowsApart
    <2>2. CASE s = <<b, "executor">>
        BY <1>1, <2>2 DEF ExecutorRow, Closed
    <2>3. CASE s # <<b, "executor">>
        <3>1. session'[<<b, "executor">>] = session[<<b, "executor">>]
            BY <1>1, <2>1, <2>3
        <3>2. ASSUME NEW t \in Tasks, ExecutorTask(b, t) PROVE ExecutorTask(b, t)'
            <4>1. t \in forgotten' => t \in forgotten
                BY <1>2, <2>3, <3>2, WhoForgets DEF ExecutorTask
            <4> QED BY <1>2, <3>1, <3>2, <4>1 DEF ExecutorTask, Key
        <3> QED BY <2>1, <3>1, <3>2 DEF ExecutorRow
    <2> QED BY <2>2, <2>3
<1>8. ASSUME NEW b \in Accounts PROVE PollRows(b)'
    <2>1. <<b, "poll">> \in Sessions /\ PollRows(b)
        BY SessionKinds DEF IInv, RowsApart
    <2>2. CASE s = <<b, "poll">>
        BY <1>1, <2>2 DEF PollRows, Closed
    <2>3. CASE s # <<b, "poll">>
        BY <1>1, <1>2, <2>1, <2>3 DEF PollRows
    <2> QED BY <2>2, <2>3
<1> QED BY <1>3, <1>4, <1>5, <1>6, <1>7, <1>8 DEF IInv, RowsApart

-----------------------------------------------------------------------------
(***************************************************************************)
(* The world, and the beginning.                                           *)
(***************************************************************************)

\* What is said of the sessions alone stays true while they and the tasks do
\* not change.
LEMMA SessionsKept ==
    ASSUME IInv, UNCHANGED <<anonymous, status, session, forgotten>>
    PROVE  KeysFit' /\ ClosedIsEmpty' /\ RowsApart'
<1>1. KeysFit' /\ ClosedIsEmpty'
    BY DEF IInv, KeysFit, ClosedIsEmpty
<1>2. ASSUME NEW b \in Accounts PROVE ExecutorRow(b)' /\ PollRows(b)'
    <2>1. ExecutorRow(b) /\ PollRows(b)
        BY DEF IInv, RowsApart
    <2>2. ExecutorRow(b)'
        BY <2>1, RowKept
    <2>3. PollRows(b)'
        BY <2>1 DEF PollRows
    <2> QED BY <2>2, <2>3
<1>3. RowsApart'
    BY <1>2 DEF RowsApart
<1> QED BY <1>1, <1>3

\* Connections only come, if they leave the recent ones, and a lead is cached
\* without a distance.
LEMMA WorldKeeps ==
    ASSUME IInv, World
    PROVE  IInv'
<1>1. UNCHANGED <<anonymous, status, dist, session, forgotten>>
    BY DEF World, Befriend, Age, CacheLead, worldVars, taskVars
<1>2. KeysFit' /\ ClosedIsEmpty' /\ RowsApart'
    BY <1>1, SessionsKept
<1>3. CASE \E t \in Tasks : Befriend(t) \/ Age(t)
    <2>1. /\ related \subseteq related' /\ related' \subseteq Tasks
          /\ recent' \subseteq related' /\ cache' = cache
        BY <1>3 DEF IInv, TypeOK, Befriend, Age, taskVars
    <2>2. ASSUME NEW p, Known(p) PROVE Known(p)'
        BY <2>1, <2>2 DEF Known, Person
    <2>3. TypeOK'
        BY <1>1, <2>1 DEF IInv, TypeOK
    <2>4. FirstIsKnown' /\ PendingIsKnown'
        BY <1>1, <2>1, <2>2 DEF IInv, FirstIsKnown, PendingIsKnown, Person
    <2>5. ForgottenIsCached'
        BY <1>1, <2>1 DEF IInv, ForgottenIsCached
    <2> QED BY <1>2, <2>3, <2>4, <2>5 DEF IInv
<1>4. CASE \E p \in People : CacheLead(p)
    <2>1. PICK p \in People : /\ p \notin anonymous /\ cache[p] = "absent"
                              /\ cache' = [cache EXCEPT ![p] = "none"]
                              /\ related' = related /\ recent' = recent
        BY <1>4 DEF CacheLead, worldVars
    <2>2. /\ cache' \in [Keys -> Distances \cup {"absent"}]
          /\ \A k \in Keys : cache'[k] = cache[k] \/ cache'[k] = "none"
        BY <2>1 DEF IInv, TypeOK, Distances
    <2>3. TypeOK'
        <3>1. anonymous \subseteq Keys
            BY DEF IInv, TypeOK, Keys
        <3> QED BY <1>1, <2>1, <2>2, <3>1 DEF IInv, TypeOK
    <2>4. FirstIsKnown' /\ PendingIsKnown'
        BY <1>1, <2>1, <2>2 DEF IInv, FirstIsKnown, PendingIsKnown, Known, Person, Keys
    <2>5. ForgottenIsCached'
        <3>1. \A t \in forgotten : t[2] \in Keys
            BY TaskPair DEF IInv, TypeOK, Keys
        <3> QED BY <1>1, <2>2, <3>1 DEF IInv, ForgottenIsCached
    <2> QED BY <1>2, <2>3, <2>4, <2>5 DEF IInv
<1> QED BY <1>3, <1>4 DEF World

LEMMA InitHolds == Init => IInv
<1> SUFFICES ASSUME Init PROVE IInv
    OBVIOUS
<1>1. \A s \in Sessions : session[s] = [open |-> FALSE, rows |-> {}, puts |-> {}]
    BY DEF Init, Closed
<1>2. TypeOK
    <2>1. \A p \in anonymous : cache[p] = "absent"
        BY DEF Init, Keys
    <2>2. session \in [Sessions -> [open : BOOLEAN, rows : SUBSET Rows, puts : SUBSET Puts]]
        BY DEF Init, Closed
    <2> QED BY <1>1, <2>1, <2>2 DEF Init, TypeOK, Statuses, Distances
<1>3. FirstIsKnown
    BY DEF Init, FirstIsKnown, Keys
<1>4. PendingIsKnown /\ KeysFit /\ ClosedIsEmpty
    BY <1>1 DEF PendingIsKnown, KeysFit, ClosedIsEmpty
<1>5. RowsApart
    <2>1. ASSUME NEW b \in Accounts PROVE ExecutorRow(b) /\ PollRows(b)
        <3>1. /\ session[<<b, "executor">>].open = FALSE
              /\ session[<<b, "poll">>].rows = {}
            BY <1>1, SessionKinds
        <3> QED BY <3>1 DEF ExecutorRow, PollRows
    <2> QED BY <2>1 DEF RowsApart
<1>6. ForgottenIsCached
    BY DEF Init, ForgottenIsCached
<1> QED BY <1>2, <1>3, <1>4, <1>5, <1>6 DEF IInv

LEMMA StutterKeeps == IInv /\ UNCHANGED vars => IInv'
<1> SUFFICES ASSUME IInv, UNCHANGED vars PROVE IInv'
    OBVIOUS
<1> USE DEF vars, worldVars, taskVars
<1>1. TypeOK' /\ FirstIsKnown' /\ PendingIsKnown'
    BY DEF IInv, TypeOK, FirstIsKnown, PendingIsKnown, Known, Person
<1>2. KeysFit' /\ ForgottenIsCached' /\ ClosedIsEmpty'
    BY DEF IInv, KeysFit, ForgottenIsCached, ClosedIsEmpty
<1>3. RowsApart'
    BY SessionsKept
<1> QED BY <1>1, <1>2, <1>3 DEF IInv

LEMMA NextKeeps == IInv /\ [Next]_vars => IInv'
<1> SUFFICES ASSUME IInv, [Next]_vars PROVE IInv'
    OBVIOUS
<1>1. CASE World
    BY <1>1, WorldKeeps
<1>2. ASSUME NEW a \in Accounts, NEW t \in Tasks, AcceptAtOnce(a, t) PROVE IInv'
    <2>1. PICK e \in Ensured(t) :
              FirstDegree(e) /\ Write(<<a, "executor">>, {Row(t, "accepted", e)}, e.puts)
        BY <1>2 DEF AcceptAtOnce
    <2>2. "accepted" \in Statuses
        BY DEF Statuses
    <2> QED BY <1>2, <2>1, <2>2, ExecutorKeeps DEF AcceptAtOnce
<1>3. ASSUME NEW a \in Accounts, NEW t \in Tasks, Invite(a, t) PROVE IInv'
    <2>1. PICK e \in Ensured(t) :
              Write(<<a, "executor">>, {Row(t, "invite_sent", e)}, e.puts)
        BY <1>3 DEF Invite
    <2>2. "invite_sent" \in Statuses /\ "invite_sent" # "accepted"
        BY DEF Statuses
    <2> QED BY <1>3, <2>1, <2>2, ExecutorKeeps DEF Invite
<1>4. ASSUME NEW a \in Accounts, NEW t \in Tasks, Refused(a, t) PROVE IInv'
    <2>1. PICK e \in Ensured(t), st \in {"failed", "scheduled"} :
              Write(<<a, "executor">>, {Row(t, st, e)}, e.puts)
        BY <1>4 DEF Refused
    <2>2. st \in Statuses /\ st # "accepted"
        BY DEF Statuses
    <2> QED BY <1>4, <2>1, <2>2, ExecutorKeeps DEF Refused
<1>5. ASSUME NEW a \in Accounts, Poll(a) PROVE IInv'
    BY <1>5, PollKeeps
<1>6. ASSUME NEW s \in Sessions, Commit(s) PROVE IInv'
    BY <1>6, CommitKeeps
<1>7. ASSUME NEW s \in Sessions, Collide(s) PROVE IInv'
    BY <1>7, CollideKeeps
<1>8. CASE UNCHANGED vars
    BY <1>8, StutterKeeps
<1> QED BY <1>1, <1>2, <1>3, <1>4, <1>5, <1>6, <1>7, <1>8 DEF Next, Executor

LEMMA IInvHolds == Spec => []IInv
BY InitHolds, NextKeeps, PTL DEF Spec

-----------------------------------------------------------------------------
\* The variables keep their types, and only a profile with an identifier
\* updates a row (upsert_profile).
THEOREM TypeCorrect == Spec => []TypeOK
<1>1. IInv => TypeOK
    BY DEF IInv
<1> QED BY <1>1, IInvHolds, PTL

\* However many accounts share the cache, nobody's acceptance is made up: some
\* account of the campaigns is connected with the person (ensure_task_profile).
THEOREM AcceptanceIsKnown == Spec => []AcceptedIsKnown
<1>1. IInv => AcceptedIsKnown
    BY DEF IInv, FirstIsKnown, AcceptedIsKnown, Known
<1> QED BY <1>1, IInvHolds, PTL

\* The unique key of profiles rolls back an invitation once at most, except for
\* people without an identifier (upsert_profile, session_scope).
THEOREM InvitationForgottenOnce == Spec => []ForgottenOnce
<1>1. IInv => ForgottenOnce
    <2> SUFFICES ASSUME IInv, NEW s \in Sessions, session[s].open, KeyTaken(s),
                        NEW t \in Invited(s) \cap forgotten
                 PROVE  Person(t) \in anonymous
        BY DEF ForgottenOnce
    <2> QED BY WhoForgets, TaskPair
<1> QED BY <1>1, IInvHolds, PTL
=============================================================================
