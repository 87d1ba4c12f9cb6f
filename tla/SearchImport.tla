---------------------------- MODULE SearchImport ----------------------------
(***************************************************************************)
(* Imports of LinkedIn searches into one campaign through one account      *)
(* (app/services/search_import_service.py, queued by                       *)
(* app/api/search_imports.py).  An import is a background task of the API, *)
(* in a thread of its own, so that several run at once: it asks Unipile    *)
(* for page after page and stores each person in a transaction, which      *)
(* caches the profile, creates the lead (a pending task of the campaign)   *)
(* and counts it in the account's row of the day.                          *)
(*                                                                         *)
(* Such a transaction reads, and then inserts and updates: two steps here. *)
(* The executor and the API add to the same tables meanwhile.  All happens *)
(* in one day, as an import keeps the date it started with.                *)
(***************************************************************************)
EXTENDS Integers, FiniteSets

CONSTANTS
    Imports,    \* bound: imports queued in a run
    NumPeople,  \* the persons the searches find, numbered
    Limit,      \* _DAILY_LIMITS of the type of these imports
    Others,     \* bound: the persons that others cache or add, too
    Anonymous,  \* the persons a search item gives no identifier of
    MaxFaults   \* bound: restarts of the API process and errors in a thread

ASSUME ImportAssumption ==
    /\ NumPeople \in Nat
    /\ Others \subseteq 1 .. NumPeople
    /\ Anonymous \subseteq 1 .. NumPeople
    /\ Anonymous \cap Others = {}
    /\ Limit \in Nat \ {0}
    /\ MaxFaults \in Nat

People == 1 .. NumPeople
Null == 0

Final == {"completed", "partial", "failed"}
Stages == {"none", "queued", "plan", "search", "items", "write", "finish", "abort", "exit"}

\* The tables a transaction may insert into.
Tables == {"profile", "lead", "counter"}
NoRow == -1

VARIABLES
    status,    \* [Imports -> uo_search_imports.status], "none" before
    target,    \* [Imports -> target_count]
    count,     \* [Imports -> imported_count]
    profiles,  \* persons in uo_profiles
    leads,     \* persons with a task in the campaign
    counter,   \* search_imports of the account's counter row, or NoRow
    pc,        \* [Imports -> where the background task is]
    room,      \* [Imports -> remaining_today]
    rest,      \* [Imports -> persons the search has not returned yet]
    page,      \* [Imports -> items of the current page not looked at yet]
    item,      \* [Imports -> person of the transaction under way, or Null]
    inserts,   \* [Imports -> tables that transaction inserts into]
    seen,      \* [Imports -> counter that transaction read]
    imported,  \* [Imports -> leads it has created]
    ended,     \* [Imports -> why the loop ended: "", "limit" or "error"]
    made,      \* ghost: [Imports -> leads of its committed transactions]
    overlap,   \* ghost: an import began while another one was running
    faults,    \* ghost: restarts and errors so far
    dead       \* ghost: imports whose thread ended without a final status

records == <<status, target, count>>
tables == <<profiles, leads, counter>>
transaction == <<item, inserts, seen>>
locals == <<room, rest, page, transaction, imported, ended>>
ghosts == <<made, overlap, faults, dead>>
vars == <<records, tables, pc, locals, ghosts>>

Smaller(a, b) == IF a < b THEN a ELSE b
ImportLimit(i) == Smaller(room[i], target[i])

TypeOK ==
    /\ status \in [Imports -> {"none", "pending", "running"} \cup Final]
    /\ target \in [Imports -> 1 .. Limit]
    /\ count \in [Imports -> 0 .. Limit]
    /\ profiles \subseteq People
    /\ leads \subseteq People
    /\ counter \in {NoRow} \cup Nat
    /\ pc \in [Imports -> Stages]
    /\ room \in [Imports -> 0 .. Limit]
    /\ rest \in [Imports -> SUBSET People]
    /\ page \in [Imports -> SUBSET People]
    /\ item \in [Imports -> People \cup {Null}]
    /\ inserts \in [Imports -> SUBSET Tables]
    /\ seen \in [Imports -> {NoRow} \cup Nat]
    /\ imported \in [Imports -> 0 .. Limit]
    /\ ended \in [Imports -> {"", "limit", "error"}]
    /\ made \in [Imports -> SUBSET People]
    /\ overlap \in BOOLEAN
    /\ faults \in 0 .. MaxFaults
    /\ dead \subseteq Imports
    \* no import exceeds what it was allowed when it started
    /\ \A i \in Imports : pc[i] \in {"search", "items", "write", "finish"} =>
        imported[i] <= ImportLimit(i)

Init ==
    /\ status = [i \in Imports |-> "none"]
    /\ target \in [Imports -> 1 .. Limit]
    /\ count = [i \in Imports |-> 0]
    /\ profiles = {}
    /\ leads = {}
    /\ counter = NoRow
    /\ pc = [i \in Imports |-> "none"]
    /\ room = [i \in Imports |-> 0]
    /\ rest = [i \in Imports |-> People]
    /\ page = [i \in Imports |-> {}]
    /\ item = [i \in Imports |-> Null]
    /\ inserts = [i \in Imports |-> {}]
    /\ seen = [i \in Imports |-> NoRow]
    /\ imported = [i \in Imports |-> 0]
    /\ ended = [i \in Imports |-> ""]
    /\ made = [i \in Imports |-> {}]
    /\ overlap = FALSE
    /\ faults = 0
    /\ dead = {}

-----------------------------------------------------------------------------
(***************************************************************************)
(* What others do to the tables.                                           *)
(***************************************************************************)

\* ensure_task_profile caches a person it looked up.
CacheProfile(p) ==
    /\ p \in Others \ profiles
    /\ profiles' = profiles \cup {p}
    /\ UNCHANGED <<records, leads, counter, pc, locals, ghosts>>

\* add_targets.
AddTarget(p) ==
    /\ p \in Others \ leads
    /\ leads' = leads \cup {p}
    /\ UNCHANGED <<records, profiles, counter, pc, locals, ghosts>>

\* The executor or the poller counts its first send of the day.
CreateCounter ==
    /\ counter = NoRow
    /\ counter' = 0
    /\ UNCHANGED <<records, profiles, leads, pc, locals, ghosts>>

-----------------------------------------------------------------------------
(***************************************************************************)
(* One import.                                                             *)
(***************************************************************************)
At(i, s) == pc[i] = s
Goto(i, s) == pc' = [pc EXCEPT ![i] = s]
SetStatus(i, s) == status' = [status EXCEPT ![i] = s]

Running(i) == pc[i] \notin {"none", "exit"}

\* The thread ends, and its variables with it.
Exit(I) ==
    LET Reset(f, v) == [i \in Imports |-> IF i \in I THEN v ELSE f[i]]
    IN /\ pc' = Reset(pc, "exit")
       /\ room' = Reset(room, 0)
       /\ rest' = Reset(rest, {})
       /\ page' = Reset(page, {})
       /\ item' = Reset(item, Null)
       /\ inserts' = Reset(inserts, {})
       /\ seen' = Reset(seen, NoRow)
       /\ imported' = Reset(imported, 0)
       /\ ended' = Reset(ended, "")

\* POST: the record, and the background task.
Queue(i) ==
    /\ At(i, "none")
    /\ SetStatus(i, "pending")
    /\ Goto(i, "queued")
    /\ overlap' = (overlap \/ \E j \in Imports : Running(j))
    /\ UNCHANGED <<target, count, tables, locals, made, faults, dead>>

Begin(i) ==
    /\ At(i, "queued")
    /\ SetStatus(i, "running")
    /\ Goto(i, "plan")
    /\ UNCHANGED <<target, count, tables, locals, ghosts>>

\* A missing row counts as nothing imported.
Counted(c) == IF c = NoRow THEN 0 ELSE c

\* What is left of the daily limit.  Mutant: one too many.
OneTooMany == Limit + 1 - Counted(counter)
Remaining == Limit - Counted(counter)

Plan(i) ==
    /\ At(i, "plan")
    /\ Remaining > 0
    /\ room' = [room EXCEPT ![i] = Remaining]
    /\ Goto(i, "search")
    /\ UNCHANGED <<records, tables, rest, page, transaction, imported, ended, ghosts>>

PlanNothing(i) ==
    /\ At(i, "plan")
    /\ Remaining <= 0
    /\ SetStatus(i, "partial")
    /\ Exit({i})
    /\ UNCHANGED <<target, count, tables, ghosts>>

\* The account is gone, or is not linked any more.
PlanRefused(i) ==
    /\ At(i, "plan")
    /\ SetStatus(i, "failed")
    /\ Exit({i})
    /\ UNCHANGED <<target, count, tables, ghosts>>

\* search_linkedin returns another page of persons.
SearchPage(i) ==
    /\ At(i, "search")
    /\ \E items \in SUBSET rest[i] \ {{}} :
        /\ page' = [page EXCEPT ![i] = items]
        /\ rest' = [rest EXCEPT ![i] = @ \ items]
    /\ Goto(i, "items")
    /\ UNCHANGED <<records, tables, room, transaction, imported, ended, ghosts>>

\* An empty page ends the search.
SearchEmpty(i) ==
    /\ At(i, "search")
    /\ Goto(i, "finish")
    /\ UNCHANGED <<records, tables, locals, ghosts>>

\* UnipileError ends the loop.
SearchFails(i) ==
    /\ At(i, "search")
    /\ ended' = [ended EXCEPT ![i] = "error"]
    /\ Goto(i, "finish")
    /\ UNCHANGED <<records, tables, room, rest, page, transaction, imported, ghosts>>

\* "if imported >= import_limit" for each item.
LimitReached(i) == imported[i] >= ImportLimit(i)

StopAtLimit(i) ==
    /\ At(i, "items") /\ page[i] # {}
    /\ LimitReached(i)
    /\ ended' = [ended EXCEPT ![i] = "limit"]
    /\ Goto(i, "finish")
    /\ UNCHANGED <<records, tables, room, rest, page, transaction, imported, ghosts>>

\* The items of a page are taken in the order of their numbers: any other order
\* is that of smaller pages.  The transaction reads the three tables, the
\* counter only for a new lead.  An item without an identifier gives neither a
\* profile nor a lead, and nothing says so.
ReadItem(i) ==
    /\ At(i, "items")
    /\ ~LimitReached(i)
    /\ \E p \in page[i] :
        /\ \A q \in page[i] : p <= q
        /\ page' = [page EXCEPT ![i] = @ \ {p}]
        /\ item' = [item EXCEPT ![i] = p]
        /\ inserts' = [inserts EXCEPT ![i] =
                        {t \in Tables : /\ p \notin Anonymous
                                        /\ \/ t = "profile" /\ p \notin profiles
                                           \/ t = "lead" /\ p \notin leads
                                           \/ t = "counter" /\ p \notin leads /\ counter = NoRow}]
    /\ seen' = [seen EXCEPT ![i] = counter]
    /\ Goto(i, "write")
    /\ UNCHANGED <<records, tables, room, rest, imported, ended, ghosts>>

EndTransaction(i) ==
    /\ item' = [item EXCEPT ![i] = Null]
    /\ inserts' = [inserts EXCEPT ![i] = {}]
    /\ seen' = [seen EXCEPT ![i] = NoRow]

\* A row it inserts is there by now: the unique keys of the three tables.
Duplicate(i) ==
    \/ "profile" \in inserts[i] /\ item[i] \in profiles
    \/ "lead" \in inserts[i] /\ item[i] \in leads
    \/ "counter" \in inserts[i] /\ counter # NoRow

\* The commit of a person who is a lead already or has no identifier, and of a
\* new lead.
WriteKnown(i) ==
    /\ At(i, "write")
    /\ ~Duplicate(i) /\ "lead" \notin inserts[i]
    /\ profiles' = profiles \cup ({item[i]} \ Anonymous)
    /\ EndTransaction(i)
    /\ Goto(i, "items")
    /\ UNCHANGED <<records, leads, counter, room, rest, page, imported, ended, ghosts>>

\* imported_count is what the import created.  Mutant: it is what the day has.
CountOfDay(i) == Counted(seen[i]) + 1
CountOfImport(i) == imported[i] + 1

\* The UPDATE stores one more than the row held.  Mutant: it stores one.
CountedOnce(i) == 1
CountedUp(i) == Counted(seen[i]) + 1

WriteLead(i) ==
    /\ At(i, "write")
    /\ ~Duplicate(i) /\ "lead" \in inserts[i]
    /\ profiles' = profiles \cup {item[i]}
    /\ leads' = leads \cup {item[i]}
    /\ counter' = CountedUp(i)
    /\ imported' = [imported EXCEPT ![i] = @ + 1]
    /\ count' = [count EXCEPT ![i] = CountOfImport(i)]
    /\ made' = [made EXCEPT ![i] = @ \cup {item[i]}]
    /\ EndTransaction(i)
    /\ Goto(i, "items")
    /\ UNCHANGED <<status, target, room, rest, page, ended, overlap, faults, dead>>

\* Where a unique key that was violated leads.  Mutant: to the next item.
SkipDuplicate == "items"
AfterDuplicate == "abort"

WriteFails(i) ==
    /\ At(i, "write")
    /\ Duplicate(i)
    /\ EndTransaction(i)
    /\ Goto(i, AfterDuplicate)
    /\ UNCHANGED <<records, tables, room, rest, page, imported, ended, ghosts>>

\* The page is through: another one if there is a cursor and room.
EndPage(i) ==
    /\ At(i, "items") /\ page[i] = {}
    /\ \E s \in {"search", "finish"} : Goto(i, s) /\ (LimitReached(i) => s = "finish")
    /\ UNCHANGED <<records, tables, locals, ghosts>>

Outcome(i) ==
    CASE ended[i] = "error" -> IF imported[i] = 0 THEN "failed" ELSE "partial"
      [] ended[i] = "limit" -> IF imported[i] >= room[i] THEN "partial" ELSE "completed"
      [] OTHER -> "completed"

Finish(i) ==
    /\ At(i, "finish")
    /\ SetStatus(i, Outcome(i))
    /\ count' = [count EXCEPT ![i] = imported[i]]
    /\ Exit({i})
    /\ UNCHANGED <<target, tables, ghosts>>

\* What process_search_import stores for any exception.  Mutant: nobody
\* catches it, and the record stays as it is.
Uncaught == "running"
Caught == "failed"

Abort(i) ==
    /\ At(i, "abort")
    /\ SetStatus(i, Caught)
    /\ Exit({i})
    /\ UNCHANGED <<target, count, tables, ghosts>>

\* Any other exception: a session that fails, an answer of an unexpected shape.
Throw(i) ==
    /\ Running(i) /\ ~At(i, "abort")
    /\ faults < MaxFaults
    /\ faults' = faults + 1
    /\ EndTransaction(i)
    /\ Goto(i, "abort")
    /\ UNCHANGED <<records, tables, room, rest, page, imported, ended, made, overlap, dead>>

\* The transaction that stores the failure fails, too, and nobody hears of it.
AbortFails(i) ==
    /\ At(i, "abort")
    /\ faults < MaxFaults
    /\ faults' = faults + 1
    /\ dead' = dead \cup {i}
    /\ Exit({i})
    /\ UNCHANGED <<records, tables, made, overlap>>

\* The API process restarts; no import is taken up again.
Crash ==
    /\ faults < MaxFaults
    /\ \E i \in Imports : Running(i)
    /\ faults' = faults + 1
    /\ dead' = dead \cup {i \in Imports : Running(i)}
    /\ Exit({i \in Imports : Running(i)})
    /\ UNCHANGED <<records, tables, made, overlap>>

-----------------------------------------------------------------------------
Step(i) ==
    \/ Begin(i) \/ Plan(i) \/ PlanNothing(i) \/ PlanRefused(i)
    \/ SearchPage(i) \/ SearchEmpty(i) \/ SearchFails(i) \/ StopAtLimit(i)
    \/ ReadItem(i) \/ WriteKnown(i) \/ WriteLead(i) \/ WriteFails(i)
    \/ EndPage(i) \/ Finish(i) \/ Abort(i)

Next ==
    \/ \E p \in People : CacheProfile(p) \/ AddTarget(p)
    \/ CreateCounter \/ Crash
    \/ \E i \in Imports : Queue(i) \/ Step(i) \/ Throw(i) \/ AbortFails(i)

Spec == Init /\ [][Next]_vars

\* A thread goes on: every request has a timeout.
LiveSpec == Spec /\ \A i \in Imports : WF_vars(Step(i))

-----------------------------------------------------------------------------
(***************************************************************************)
(* Properties.                                                             *)
(***************************************************************************)
Made == UNION {made[i] : i \in Imports}

\* docs/search_imports.md:96, the counter "tracks how many profiles have been
\* imported per account per day", and the daily limit that is compared with
\* it: both hold while imports of the account do not overlap.
CapWhenAlone ==
    ~overlap => Cardinality(Made) = Counted(counter) /\ Cardinality(Made) <= Limit

\* imported_count never says more or less than the leads this import created,
\* through rollbacks, errors and restarts, beside other imports.
CountIsTrue == \A i \in Imports : count[i] = Cardinality(made[i])

\* docs/search_imports.md:99, "completed - all requested leads were imported":
\* every person a completed import looked at is a lead, unless its limit ended
\* it or the item had no identifier (search_import_service.py:143-144).  A
\* conflict with another import loses nobody unnoticed.
NobodyIsLost ==
    [][\A i \in Imports : status'[i] = "completed" /\ status[i] # "completed" =>
        \/ People \ (rest[i] \cup Anonymous) \subseteq leads
        \/ imported[i] = ImportLimit(i)]_vars

\* Every import comes to a final status and keeps it, unless a restart or a
\* second error ends its thread.
ImportEnds ==
    <>[](\A i \in Imports : status[i] \in {"pending", "running"} => i \in dead)
=============================================================================
