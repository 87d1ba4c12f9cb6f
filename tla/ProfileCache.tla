---------------------------- MODULE ProfileCache ----------------------------
(***************************************************************************)
(* What the program believes about who is connected with whom:             *)
(* app/services/profile_service.py, called by the executor before an       *)
(* invitation and by the poll for invitations without an answer.  A        *)
(* scraped profile is cached once for all accounts, with the distance the  *)
(* scraping account has to the person; the recent relations of an account  *)
(* are the poll's other source.                                            *)
(*                                                                         *)
(* Sessions of different accounts, and the executor and the poll of one    *)
(* account, share no lock.  The reads and the requests of a session are    *)
(* one step and its commit another.  A poll that flushes before its commit *)
(* for the counter row, and whom it then keeps waiting, are the subject of *)
(* DailyCounter.  Every scraped profile is taken to have a first name and  *)
(* a provider id.                                                          *)
(***************************************************************************)
EXTENDS Integers, FiniteSets

CONSTANTS
    Accounts,    \* connected accounts, each in a running campaign of its own
    People,      \* the people the campaigns target
    Tasks,       \* the pairs of an account and a person it is to reach
    Blank,       \* the empty public_identifier
    MaxOpen      \* bound: sessions open at once

ASSUME ProfileAssumption ==
    /\ Tasks \subseteq Accounts \X People
    /\ Blank \notin People
    /\ MaxOpen \in Nat

\* network_distance: NULL or empty, FIRST_DEGREE, or any other.
Distances == {"none", "first", "second"}
Statuses == {"scheduled", "invite_sent", "accepted", "failed"}
Sessions == Accounts \X {"executor", "poll"}
Keys == People \cup {Blank}

VARIABLES
    anonymous, \* people whose scraped profile has no public_identifier
    related,   \* tasks whose account and person are connected on LinkedIn
    recent,    \* those of them among the relations a poll reads: 5 pages of 100
    status,    \* [Tasks -> uo_tasks.status]
    dist,      \* [Tasks -> uo_tasks.network_distance]
    cache,     \* [Keys -> network_distance of the uo_profiles row, or "absent"]
    session,   \* [Sessions -> whether open, and the rows it is going to write]
    forgotten  \* ghost: tasks with an invitation whose record was rolled back

worldVars == <<anonymous, related, recent>>
taskVars == <<status, dist>>
vars == <<worldVars, taskVars, cache, session, forgotten>>

Closed == [open |-> FALSE, rows |-> {}, puts |-> {}]
Rows == [task : Tasks, status : Statuses, dist : Distances]
Puts == [person : People, key : Keys, new : BOOLEAN, dist : Distances]

\* Only a profile with an identifier updates a row that is there.
TypeOK ==
    /\ anonymous \subseteq People
    /\ related \subseteq Tasks
    /\ recent \subseteq related
    /\ status \in [Tasks -> Statuses]
    /\ dist \in [Tasks -> Distances]
    /\ cache \in [Keys -> Distances \cup {"absent"}]
    /\ \A p \in anonymous : cache[p] \in {"absent", "none"}
    /\ session \in [Sessions -> [open : BOOLEAN, rows : SUBSET Rows, puts : SUBSET Puts]]
    /\ \A s \in Sessions : \A q \in session[s].puts : q.key = Blank => q.new
    /\ forgotten \subseteq Tasks

\* Some people are connected already, and some of them since long.
Init ==
    /\ anonymous \in SUBSET People
    /\ related \in SUBSET Tasks
    /\ recent \in SUBSET related
    /\ status = [t \in Tasks |-> "scheduled"]
    /\ dist = [t \in Tasks |-> "none"]
    /\ cache = [k \in Keys |-> "absent"]
    /\ session = [s \in Sessions |-> Closed]
    /\ forgotten = {}

-----------------------------------------------------------------------------
(***************************************************************************)
(* LinkedIn, and the search imports that cache people without a distance.  *)
(***************************************************************************)

Befriend(t) ==
    /\ t \notin related
    /\ related' = related \cup {t}
    /\ recent' = recent \cup {t}
    /\ UNCHANGED <<anonymous, taskVars, cache, session, forgotten>>

\* So many people have connected with the account since that the pages a poll
\* reads are full without this one.
Age(t) ==
    /\ t \in recent
    /\ recent' = recent \ {t}
    /\ UNCHANGED <<anonymous, related, taskVars, cache, session, forgotten>>

\* The row of an anonymous person is never given a distance, and changes
\* nothing.
CacheLead(p) ==
    /\ p \notin anonymous /\ cache[p] = "absent"
    /\ cache' = [cache EXCEPT ![p] = "none"]
    /\ UNCHANGED <<worldVars, taskVars, session, forgotten>>

-----------------------------------------------------------------------------
(***************************************************************************)
(* ensure_task_profile.                                                    *)
(***************************************************************************)

Person(t) == t[2]
Key(p) == IF p \in anonymous THEN Blank ELSE p

\* upsert_profile looks for a row to update by the public_identifier of the
\* scraped profile, unless that is empty.
NeverThere(p) == FALSE
BlankToo(p) == cache[Key(p)] # "absent"
Existing(p) == p \notin anonymous /\ cache[p] # "absent"

Profile(d, puts) == [dist |-> d, puts |-> puts]

\* Unipile returns the account's own distance to the person, or none.
Scraped(t) ==
    LET p == Person(t)
        Now == IF t \in related THEN "first" ELSE "second"
        Put(d) == [person |-> p, key |-> Key(p), new |-> ~Existing(p), dist |-> d]
    IN  {Profile(d, {Put(d)}) : d \in {"none", Now}}

\* 1. the task has it all; 2. the cache has it; 3. scrape, which may fail.
Ensured(t) ==
    LET cached == cache[Person(t)]
    IN  IF dist[t] # "none" THEN {Profile(dist[t], {})}
        ELSE IF cached \in {"first", "second"} THEN {Profile(cached, {})}
        ELSE Scraped(t) \cup {Profile("none", {})}

Open(s) ==
    /\ ~session[s].open
    /\ Cardinality({o \in Sessions : session[o].open}) < MaxOpen

Write(s, rows, puts) ==
    session' = [session EXCEPT ![s] = [open |-> TRUE, rows |-> rows, puts |-> puts]]

Row(t, st, e) == [task |-> t, status |-> st, dist |-> e.dist]

-----------------------------------------------------------------------------
(***************************************************************************)
(* The executor's section: _send_one_invite.                               *)
(***************************************************************************)

\* "network_distance == FIRST_DEGREE": already connected, no invitation.
AnyDistance(e) == e.dist # "none"
FirstDegree(e) == e.dist = "first"

Begin(a, t) == t[1] = a /\ status[t] = "scheduled" /\ Open(<<a, "executor">>)

AcceptAtOnce(a, t) ==
    /\ Begin(a, t)
    /\ \E e \in Ensured(t) :
          /\ FirstDegree(e)
          /\ Write(<<a, "executor">>, {Row(t, "accepted", e)}, e.puts)
    /\ UNCHANGED <<worldVars, taskVars, cache, forgotten>>

\* A task that an import gave a provider id is invited even if the profile
\* cannot be fetched.
Invite(a, t) ==
    /\ Begin(a, t)
    /\ \E e \in Ensured(t) :
          /\ ~FirstDegree(e)
          /\ Write(<<a, "executor">>, {Row(t, "invite_sent", e)}, e.puts)
    /\ UNCHANGED <<worldVars, taskVars, cache, forgotten>>

\* Unipile refuses, for good or for now, or there is no provider id.
Refused(a, t) ==
    /\ Begin(a, t)
    /\ \E e \in Ensured(t), st \in {"failed", "scheduled"} :
          /\ ~FirstDegree(e)
          /\ Write(<<a, "executor">>, {Row(t, st, e)}, e.puts)
    /\ UNCHANGED <<worldVars, taskVars, cache, forgotten>>

-----------------------------------------------------------------------------
(***************************************************************************)
(* The poll's section: steps 1 and 2 of _poll_account.                     *)
(***************************************************************************)

ProfileOnly(t, seen, e) == FirstDegree(e)
Connected(t, seen, e) == t \in seen \/ FirstDegree(e)

\* An invited person in the relations is accepted at once; another's profile is
\* asked for, and so is an accepted one's before the initial message.
Asked(t, seen) == status[t] = "accepted" \/ t \notin seen
Believed(t, seen) ==
    IF Asked(t, seen) THEN Ensured(t) ELSE {Profile(dist[t], {})}

Mine(a) == {t \in Tasks : t[1] = a /\ status[t] \in {"invite_sent", "accepted"}}

\* What a poll may believe of the account's tasks, and those of it where every
\* profile asked for comes with a distance.
Beliefs(a, seen) ==
    {f \in [Mine(a) -> UNION {Believed(t, seen) : t \in Mine(a)}] :
        \A t \in Mine(a) : f[t] \in Believed(t, seen)}
Answered(a, seen) ==
    {f \in Beliefs(a, seen) : \A t \in Mine(a) : Asked(t, seen) => f[t].dist # "none"}

PollSeeing(a, seen, beliefs) ==
    LET After(t, e) == IF Connected(t, seen, e) THEN "accepted" ELSE status[t]
    IN  /\ Open(<<a, "poll">>)
        /\ \E f \in beliefs :
              Write(<<a, "poll">>, {Row(t, After(t, f[t]), f[t]) : t \in Mine(a)},
                    UNION {f[t].puts : t \in Mine(a)})
        /\ UNCHANGED <<worldVars, taskVars, cache, forgotten>>

\* _fetch_connected_provider_ids: the pages hold the recent relations, fewer
\* when one fails.
Recent(a) == {t \in recent : t[1] = a}
Poll(a) == \E seen \in SUBSET Recent(a) : PollSeeing(a, seen, Beliefs(a, seen))
FullPoll(a) == PollSeeing(a, Recent(a), Answered(a, Recent(a)))

-----------------------------------------------------------------------------
(***************************************************************************)
(* The end of a session: session_scope.                                    *)
(***************************************************************************)

\* A row with the same public_identifier was committed meanwhile, or another of
\* this session's has it too.
KeyTaken(s) ==
    \E q \in session[s].puts :
        q.new /\ (\/ cache[q.key] # "absent"
                  \/ \E o \in session[s].puts : o # q /\ o.key = q.key)

\* A row keeps the distance it has when the profile came without one.
Stores(q, k) == q.key = k /\ (q.new \/ q.dist # "none")

Commit(s) ==
    /\ session[s].open /\ ~KeyTaken(s)
    /\ status' = [t \in Tasks |->
                    IF \E r \in session[s].rows : r.task = t
                    THEN (CHOOSE r \in session[s].rows : r.task = t).status ELSE status[t]]
    /\ dist' = [t \in Tasks |->
                    IF \E r \in session[s].rows : r.task = t
                    THEN (CHOOSE r \in session[s].rows : r.task = t).dist ELSE dist[t]]
    /\ cache' = [k \in Keys |->
                    IF \E q \in session[s].puts : Stores(q, k)
                    THEN (CHOOSE q \in session[s].puts : Stores(q, k)).dist ELSE cache[k]]
    /\ session' = [session EXCEPT ![s] = Closed]
    /\ UNCHANGED <<worldVars, forgotten>>

Invited(s) == {r.task : r \in {q \in session[s].rows :
                                  q.status = "invite_sent" /\ status[q.task] = "scheduled"}}

\* IntegrityError: everything the session recorded is rolled back, its
\* invitation too, and will be sent again.
Collide(s) ==
    /\ session[s].open /\ KeyTaken(s)
    /\ session' = [session EXCEPT ![s] = Closed]
    /\ forgotten' = forgotten \cup Invited(s)
    /\ UNCHANGED <<worldVars, taskVars, cache>>

World == (\E t \in Tasks : Befriend(t) \/ Age(t)) \/ (\E p \in People : CacheLead(p))

Executor == \E a \in Accounts, t \in Tasks :
                AcceptAtOnce(a, t) \/ Invite(a, t) \/ Refused(a, t)

Next ==
    \/ World \/ Executor
    \/ \E a \in Accounts : Poll(a)
    \/ \E s \in Sessions : Commit(s) \/ Collide(s)

\* Polls are planned every day, and now and then one gets all its pages and
\* profiles, which is not more than the recent relations; a session ends.
Fairness ==
    /\ \A a \in Accounts : SF_vars(FullPoll(a))
    /\ \A s \in Sessions : SF_vars(Commit(s)) /\ WF_vars(Collide(s))

Spec == Init /\ [][Next]_vars /\ Fairness

-----------------------------------------------------------------------------
\* An accepted task, which is sent messages, is about a person whom some
\* account of the campaigns is connected with: the distance comes from the
\* cache, whichever account scraped it, but never out of nothing.  Where one
\* account alone targets the person, it is that account.
AcceptedIsKnown ==
    \A t \in Tasks :
        status[t] = "accepted" => \E u \in related : Person(u) = Person(t)

\* A unique key taken by another session rolls back the record of an invitation
\* once at most: for a person with a public_identifier the cache row is there
\* the next time.
ForgottenOnce ==
    \A s \in Sessions :
        session[s].open /\ KeyTaken(s)
          => \A t \in Invited(s) \cap forgotten : Person(t) \in anonymous

\* poller.py:119-121, "the connection may be old and not appear in the recent
\* relations list": an invited person who connects is seen by the poll in the
\* end, whichever rows other sessions insert.  A connection that is old by then
\* is missed if the task holds another distance, which is never scraped again,
\* or the person has no identifier; and an account that also polls for people
\* without one may record nothing.
ConnectionIsSeen ==
    \A t \in Tasks :
        (\A u \in Tasks \ {t} : u[1] = t[1] => Person(u) \notin anonymous)
          => (status[t] = "invite_sent" /\ t \in related
                ~> \/ status[t] = "accepted"
                   \/ t \notin recent /\ (dist[t] = "second" \/ Person(t) \in anonymous))
=============================================================================
