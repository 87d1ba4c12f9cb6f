------------------------- MODULE SearchImportProofs -------------------------
(***************************************************************************)
(* Proofs about SearchImport, for any number of imports and of people, any *)
(* daily limit, and any number of restarts and errors.                     *)
(***************************************************************************)
EXTENDS SearchImport, FiniteSetTheorems, TLAPS

-----------------------------------------------------------------------------
(***************************************************************************)
(* The inductive invariant.                                                *)
(***************************************************************************)
Looping == {"search", "items", "write", "finish"}

\* The record is never behind the thread, and both count what was committed.
RecordIsTrue ==
    \A i \in Imports :
        /\ count[i] = Cardinality(made[i])
        /\ pc[i] # "exit" => imported[i] = count[i]
        /\ pc[i] \in {"none", "queued", "plan"} => imported[i] = 0

\* Whoever has a person in hand may still import one.
RoomLeft ==
    \A i \in Imports :
        /\ pc[i] \in Looping => imported[i] <= ImportLimit(i)
        /\ pc[i] = "write" => imported[i] < ImportLimit(i)

\* A person the transaction does not insert is there or has no identifier.
MadeAreLeads ==
    /\ \A i \in Imports : made[i] \subseteq leads
    /\ \A i \in Imports :
          pc[i] = "write" /\ "lead" \notin inserts[i] => item[i] \in leads \cup Anonymous

\* Who was returned is a lead, in hand, or still on the page, or has no
\* identifier; a search ends with the page looked through unless the limit or an
\* error ended it.
LookedAt(i) ==
    /\ pc[i] \in {"none", "queued", "plan"} => rest[i] = People
    /\ pc[i] \in {"none", "queued", "plan", "search"} => page[i] = {}
    /\ pc[i] = "write" => item[i] \in People
    /\ pc[i] \in Looping =>
          \A p \in People \ (rest[i] \cup page[i] \cup Anonymous) :
              p \in leads \/ (pc[i] = "write" /\ p = item[i])
    /\ pc[i] \notin {"finish", "abort", "exit"} => ended[i] = ""
    /\ pc[i] = "finish" /\ ended[i] = "" => page[i] = {}
    /\ pc[i] = "finish" /\ ended[i] = "limit" => LimitReached(i)
Looked == \A i \in Imports : LookedAt(i)

\* Alone, an import reads the counter nobody else writes: what the day has is
\* what this import was not left plus what it imported.
AloneCounts ==
    ~overlap =>
        /\ \A i, j \in Imports : Running(i) /\ Running(j) => i = j
        /\ Cardinality(Made) = Counted(counter)
        /\ Counted(counter) <= Limit
        /\ \A i \in Imports :
              /\ pc[i] = "write" => Counted(seen[i]) = Counted(counter)
              /\ pc[i] \in Looping => Counted(counter) = Limit - room[i] + imported[i]

IInv ==
    /\ TypeOK
    /\ RecordIsTrue
    /\ RoomLeft
    /\ MadeAreLeads
    /\ Looked
    /\ AloneCounts

-----------------------------------------------------------------------------
(***************************************************************************)
(* The operators.                                                          *)
(***************************************************************************)

\* What is left of the day fits in the limit.
LEMMA CountedType ==
    ASSUME NEW c \in {NoRow} \cup Nat
    PROVE  Counted(c) \in Nat
BY DEF Counted, NoRow

LEMMA NumbersType ==
    ASSUME TypeOK, NEW i \in Imports
    PROVE  /\ Limit \in Nat /\ room[i] \in Nat /\ imported[i] \in Nat
           /\ Counted(seen[i]) \in Nat /\ Counted(counter) \in Nat
           /\ ImportLimit(i) \in Nat
           /\ ImportLimit(i) <= room[i] /\ ImportLimit(i) <= Limit
<1>1. /\ room \in [Imports -> 0 .. Limit] /\ target \in [Imports -> 1 .. Limit]
      /\ imported \in [Imports -> 0 .. Limit]
    BY DEF TypeOK
<1>2. /\ room[i] \in Nat /\ target[i] \in Nat /\ imported[i] \in Nat
      /\ room[i] <= Limit /\ target[i] <= Limit
    BY <1>1, ImportAssumption
<1>3. ImportLimit(i) \in Nat /\ ImportLimit(i) <= room[i] /\ ImportLimit(i) <= Limit
    BY <1>2, ImportAssumption DEF ImportLimit, Smaller
<1>4. Counted(seen[i]) \in Nat /\ Counted(counter) \in Nat
    BY CountedType DEF TypeOK
<1> QED BY <1>2, <1>3, <1>4, ImportAssumption

\* Sets of people are finite.
LEMMA PeopleFinite ==
    ASSUME NEW S \in SUBSET People
    PROVE  IsFiniteSet(S) /\ Cardinality(S) \in Nat
<1>1. IsFiniteSet(People)
    BY ImportAssumption, FS_Interval DEF People
<1> QED BY <1>1, FS_Subset, FS_CardinalityType

\* One more of them.
LEMMA OneMore ==
    ASSUME NEW S \in SUBSET People, NEW p \in People \ S
    PROVE  Cardinality(S \cup {p}) = Cardinality(S) + 1
BY PeopleFinite, FS_AddElement

LEMMA MadeInPeople == TypeOK => Made \subseteq People
<1>1. TypeOK => made \in [Imports -> SUBSET People]
    BY DEF TypeOK
<1> QED BY <1>1 DEF Made

\* A thread that ends leaves its record alone and resets its variables.
LEMMA Exited ==
    ASSUME TypeOK, NEW I \in SUBSET Imports, Exit(I)
    PROVE  /\ pc' \in [Imports -> Stages]
           /\ room' \in [Imports -> 0 .. Limit]
           /\ rest' \in [Imports -> SUBSET People]
           /\ page' \in [Imports -> SUBSET People]
           /\ item' \in [Imports -> People \cup {Null}]
           /\ inserts' \in [Imports -> SUBSET Tables]
           /\ seen' \in [Imports -> {NoRow} \cup Nat]
           /\ imported' \in [Imports -> 0 .. Limit]
           /\ ended' \in [Imports -> {"", "limit", "error"}]
           /\ \A j \in I : pc'[j] = "exit"
           /\ \A j \in Imports \ I :
                 /\ pc'[j] = pc[j] /\ room'[j] = room[j] /\ rest'[j] = rest[j]
                 /\ page'[j] = page[j] /\ item'[j] = item[j] /\ inserts'[j] = inserts[j]
                 /\ seen'[j] = seen[j] /\ imported'[j] = imported[j] /\ ended'[j] = ended[j]
<1> DEFINE Reset(f, v) == [i \in Imports |-> IF i \in I THEN v ELSE f[i]]
<1>1. /\ pc' = Reset(pc, "exit") /\ room' = Reset(room, 0) /\ rest' = Reset(rest, {})
      /\ page' = Reset(page, {}) /\ item' = Reset(item, Null)
      /\ inserts' = Reset(inserts, {}) /\ seen' = Reset(seen, NoRow)
      /\ imported' = Reset(imported, 0) /\ ended' = Reset(ended, "")
    BY DEF Exit
<1>2. /\ "exit" \in Stages /\ 0 \in 0 .. Limit /\ Null \in People \cup {Null}
      /\ NoRow \in {NoRow} \cup Nat /\ {} \in SUBSET People /\ {} \in SUBSET Tables
      /\ "" \in {"", "limit", "error"}
    BY ImportAssumption DEF Stages
<1>3. /\ pc' \in [Imports -> Stages]
      /\ \A j \in I : pc'[j] = "exit"
      /\ \A j \in Imports \ I : pc'[j] = pc[j]
    BY <1>1, <1>2 DEF TypeOK
<1>4. room' \in [Imports -> 0 .. Limit] /\ \A j \in Imports \ I : room'[j] = room[j]
    BY <1>1, <1>2 DEF TypeOK
<1>5. rest' \in [Imports -> SUBSET People] /\ \A j \in Imports \ I : rest'[j] = rest[j]
    BY <1>1, <1>2 DEF TypeOK
<1>6. page' \in [Imports -> SUBSET People] /\ \A j \in Imports \ I : page'[j] = page[j]
    BY <1>1, <1>2 DEF TypeOK
<1>7. item' \in [Imports -> People \cup {Null}] /\ \A j \in Imports \ I : item'[j] = item[j]
    BY <1>1, <1>2 DEF TypeOK
<1>8. /\ inserts' \in [Imports -> SUBSET Tables]
      /\ \A j \in Imports \ I : inserts'[j] = inserts[j]
    BY <1>1, <1>2 DEF TypeOK
<1>9. seen' \in [Imports -> {NoRow} \cup Nat] /\ \A j \in Imports \ I : seen'[j] = seen[j]
    BY <1>1, <1>2 DEF TypeOK
<1>10. /\ imported' \in [Imports -> 0 .. Limit]
       /\ \A j \in Imports \ I : imported'[j] = imported[j]
    BY <1>1, <1>2 DEF TypeOK
<1>11. /\ ended' \in [Imports -> {"", "limit", "error"}]
       /\ \A j \in Imports \ I : ended'[j] = ended[j]
    BY <1>1, <1>2 DEF TypeOK
<1> QED BY <1>3, <1>4, <1>5, <1>6, <1>7, <1>8, <1>9, <1>10, <1>11

-----------------------------------------------------------------------------
(***************************************************************************)
(* Each step keeps the invariant.                                          *)
(***************************************************************************)

\* The end of a thread: nothing is said of one that has ended.
LEMMA ExitKeeps ==
    ASSUME IInv, NEW I \in SUBSET Imports, Exit(I),
           UNCHANGED <<target, tables, made, overlap>>,
           faults' \in 0 .. MaxFaults, dead' \subseteq Imports,
           status' \in [Imports -> {"none", "pending", "running"} \cup Final],
           count' = count
    PROVE  IInv'
<1> USE DEF tables
<1>1. /\ \A j \in I : pc'[j] = "exit"
      /\ \A j \in Imports \ I :
            /\ pc'[j] = pc[j] /\ room'[j] = room[j] /\ rest'[j] = rest[j]
            /\ page'[j] = page[j] /\ item'[j] = item[j] /\ inserts'[j] = inserts[j]
            /\ seen'[j] = seen[j] /\ imported'[j] = imported[j] /\ ended'[j] = ended[j]
    BY Exited DEF IInv
<1>2. RoomLeft'
    BY <1>1 DEF IInv, RoomLeft, ImportLimit, Looping
<1>3. TypeOK'
    <2>1. \A i \in Imports : pc'[i] \in Looping => imported'[i] <= ImportLimit(i)'
        BY <1>2 DEF RoomLeft
    <2> QED BY <2>1, Exited DEF IInv, TypeOK, Looping
<1>4. RecordIsTrue'
    BY <1>1 DEF IInv, RecordIsTrue
<1>5. MadeAreLeads'
    BY <1>1 DEF IInv, MadeAreLeads
<1>6. Looked'
    <2> SUFFICES ASSUME NEW i \in Imports \ I PROVE LookedAt(i)'
        BY <1>1 DEF Looked, LookedAt, Looping
    <2>1. LookedAt(i)
        BY DEF IInv, Looked
    <2> QED BY <1>1, <2>1 DEF LookedAt, LimitReached, ImportLimit
<1>7. AloneCounts'
    <2>1. Made' = Made
        BY DEF Made
    <2> QED BY <1>1, <2>1 DEF IInv, AloneCounts, Running, Looping
<1> QED BY <1>2, <1>3, <1>4, <1>5, <1>6, <1>7 DEF IInv

LEMMA QueueKeeps ==
    ASSUME IInv, NEW i \in Imports, Queue(i)
    PROVE  IInv'
<1> USE DEF Queue, At, Goto, SetStatus, records, tables, transaction, locals, ghosts
<1>1. RoomLeft'
    BY DEF IInv, TypeOK, RoomLeft, ImportLimit, Looping
<1>2. TypeOK'
    <2>1. \A j \in Imports : pc'[j] \in Looping => imported'[j] <= ImportLimit(j)'
        BY <1>1 DEF RoomLeft
    <2> QED BY <2>1 DEF IInv, TypeOK, Looping, Stages
<1>3. RecordIsTrue'
    BY DEF IInv, TypeOK, RecordIsTrue
<1>4. MadeAreLeads'
    BY DEF IInv, TypeOK, MadeAreLeads
<1>5. Looked'
    <2> SUFFICES ASSUME NEW j \in Imports PROVE LookedAt(j)'
        BY DEF Looked
    <2>1. LookedAt(j)
        BY DEF IInv, Looked
    <2> QED BY <2>1 DEF IInv, TypeOK, LookedAt, LimitReached, ImportLimit, Looping
<1>6. AloneCounts'
    <2>1. Made' = Made
        BY DEF Made
    <2> QED BY <2>1 DEF IInv, TypeOK, AloneCounts, Running, Looping
<1> QED BY <1>1, <1>2, <1>3, <1>4, <1>5, <1>6 DEF IInv

\* The search comes to nothing, or the page is through, or the import begins.
LEMMA MoveKeeps ==
    ASSUME IInv, NEW i \in Imports,
           Begin(i) \/ SearchEmpty(i) \/ SearchFails(i) \/ StopAtLimit(i) \/ EndPage(i)
    PROVE  IInv'
<1> USE DEF At, Goto, SetStatus, records, tables, transaction, locals, ghosts
<1>1. UNCHANGED <<target, count, tables, room, rest, page, item, inserts, seen, imported,
                  made, overlap, faults, dead>>
    BY DEF Begin, SearchEmpty, SearchFails, StopAtLimit, EndPage
<1>2. \A j \in Imports \ {i} : pc'[j] = pc[j] /\ ended'[j] = ended[j]
    BY DEF IInv, TypeOK, Begin, SearchEmpty, SearchFails, StopAtLimit, EndPage
<1>3. \/ pc[i] = "queued" /\ pc'[i] = "plan" /\ ended'[i] = ended[i]
      \/ pc[i] = "search" /\ pc'[i] = "finish" /\ ended'[i] \in {ended[i], "error"}
      \/ /\ pc[i] = "items" /\ pc'[i] = "finish"
         /\ ended'[i] = "limit" /\ LimitReached(i)
      \/ /\ pc[i] = "items" /\ pc'[i] \in {"search", "finish"}
         /\ ended'[i] = ended[i] /\ page[i] = {}
    BY DEF IInv, TypeOK, Begin, SearchEmpty, SearchFails, StopAtLimit, EndPage
<1>4. RoomLeft'
    BY <1>1, <1>2, <1>3 DEF IInv, RoomLeft, ImportLimit, Looping
<1>5. TypeOK'
    <2>1. \A j \in Imports : pc'[j] \in Looping => imported'[j] <= ImportLimit(j)'
        BY <1>4 DEF RoomLeft
    <2>2. /\ pc' \in [Imports -> Stages]
          /\ ended' \in [Imports -> {"", "limit", "error"}]
          /\ status' \in [Imports -> {"none", "pending", "running"} \cup Final]
        BY DEF IInv, TypeOK, Begin, SearchEmpty, SearchFails, StopAtLimit, EndPage, Stages
    <2> QED BY <1>1, <2>1, <2>2 DEF IInv, TypeOK, Looping
<1>6. RecordIsTrue' /\ MadeAreLeads'
    BY <1>1, <1>2, <1>3 DEF IInv, RecordIsTrue, MadeAreLeads
<1>7. Looked'
    <2> SUFFICES ASSUME NEW j \in Imports PROVE LookedAt(j)'
        BY DEF Looked
    <2>1. LookedAt(j)
        BY DEF IInv, Looked
    <2> QED BY <1>1, <1>2, <1>3, <2>1 DEF LookedAt, LimitReached, ImportLimit, Looping
<1>8. AloneCounts'
    <2>1. Made' = Made
        BY <1>1 DEF Made
    <2> QED BY <1>1, <1>2, <1>3, <2>1 DEF IInv, AloneCounts, Running, Looping
<1> QED BY <1>4, <1>5, <1>6, <1>7, <1>8 DEF IInv

LEMMA PlanKeeps ==
    ASSUME IInv, NEW i \in Imports, Plan(i)
    PROVE  IInv'
<1> USE DEF Plan, At, Goto, SetStatus, records, tables, transaction, locals, ghosts
<1>1. Remaining \in 0 .. Limit
    <2>1. Counted(counter) \in Nat
        BY NumbersType DEF IInv
    <2> QED BY <2>1, ImportAssumption DEF Remaining
<1>2. /\ room' = [room EXCEPT ![i] = Remaining] /\ room' \in [Imports -> 0 .. Limit]
      /\ room \in [Imports -> 0 .. Limit]
      /\ target \in [Imports -> 1 .. Limit] /\ imported \in [Imports -> 0 .. Limit]
    BY <1>1 DEF IInv, TypeOK
<1>3. RoomLeft'
    <2> SUFFICES ASSUME NEW j \in Imports
                 PROVE  /\ pc'[j] \in Looping => imported'[j] <= ImportLimit(j)'
                        /\ pc'[j] = "write" => imported'[j] < ImportLimit(j)'
        BY DEF RoomLeft
    <2>1. CASE j = i
        <3>1. imported[i] = 0 /\ pc'[i] = "search"
            BY DEF IInv, RecordIsTrue, TypeOK
        <3>2. ImportLimit(i)' >= 0
            BY <1>2, ImportAssumption DEF ImportLimit, Smaller
        <3> QED BY <2>1, <3>1, <3>2
    <2>2. CASE j # i
        BY <1>2, <2>2 DEF IInv, TypeOK, RoomLeft, ImportLimit
    <2> QED BY <2>1, <2>2
<1>4. TypeOK'
    <2>1. \A j \in Imports : pc'[j] \in Looping => imported'[j] <= ImportLimit(j)'
        BY <1>3 DEF RoomLeft
    <2> QED BY <1>2, <2>1 DEF IInv, TypeOK, Looping, Stages
<1>5. RecordIsTrue'
    BY DEF IInv, TypeOK, RecordIsTrue
<1>6. MadeAreLeads'
    BY DEF IInv, TypeOK, MadeAreLeads
<1>7. Looked'
    <2> SUFFICES ASSUME NEW j \in Imports PROVE LookedAt(j)'
        BY DEF Looked
    <2>1. LookedAt(j)
        BY DEF IInv, Looked
    <2> QED BY <2>1 DEF IInv, TypeOK, LookedAt, LimitReached, ImportLimit, Looping
<1>8. AloneCounts'
    <2>1. Made' = Made
        BY DEF Made
    <2>2. ASSUME NEW j \in Imports, ~overlap, pc'[j] \in Looping
          PROVE  Counted(counter) = Limit - room'[j] + imported[j]
        <3>1. CASE j = i
            <4>1. imported[i] = 0 /\ room'[i] = Limit - Counted(counter)
                BY <1>2 DEF IInv, RecordIsTrue, Remaining
            <4>2. Counted(counter) \in Nat
                BY NumbersType DEF IInv
            <4> QED BY <3>1, <4>1, <4>2, ImportAssumption
        <3>2. CASE j # i
            BY <1>2, <2>2, <3>2 DEF IInv, TypeOK, AloneCounts
        <3> QED BY <3>1, <3>2
    <2> QED BY <2>1, <2>2 DEF IInv, TypeOK, AloneCounts, Running, Looping
<1> QED BY <1>3, <1>4, <1>5, <1>6, <1>7, <1>8 DEF IInv

LEMMA SearchPageKeeps ==
    ASSUME IInv, NEW i \in Imports, SearchPage(i)
    PROVE  IInv'
<1> USE DEF SearchPage, At, Goto, SetStatus, records, tables, transaction, locals, ghosts
<1>1. RoomLeft'
    BY DEF IInv, TypeOK, RoomLeft, ImportLimit, Looping
<1>2. TypeOK'
    <2>1. \A j \in Imports : pc'[j] \in Looping => imported'[j] <= ImportLimit(j)'
        BY <1>1 DEF RoomLeft
    <2>2. PICK items \in SUBSET rest[i] :
              /\ page' = [page EXCEPT ![i] = items]
              /\ rest' = [rest EXCEPT ![i] = @ \ items]
        OBVIOUS
    <2>3. rest' \in [Imports -> SUBSET People] /\ page' \in [Imports -> SUBSET People]
        <3>1. rest \in [Imports -> SUBSET People] /\ page \in [Imports -> SUBSET People]
            BY DEF IInv, TypeOK
        <3>2. rest[i] \in SUBSET People
            BY <3>1
        <3>3. rest[i] \ items \in SUBSET People /\ items \in SUBSET People
            BY <2>2, <3>2
        <3> QED BY <2>2, <3>1, <3>3
    <2> QED BY <2>1, <2>3 DEF IInv, TypeOK, Looping, Stages
<1>3. RecordIsTrue'
    BY DEF IInv, TypeOK, RecordIsTrue
<1>4. MadeAreLeads'
    BY DEF IInv, TypeOK, MadeAreLeads
<1>5. Looked'
    <2> SUFFICES ASSUME NEW j \in Imports PROVE LookedAt(j)'
        BY DEF Looked
    <2>1. LookedAt(j)
        BY DEF IInv, Looked
    <2>2. PICK items \in SUBSET rest[i] :
              /\ page' = [page EXCEPT ![i] = items]
              /\ rest' = [rest EXCEPT ![i] = @ \ items]
        OBVIOUS
    <2>3. CASE j = i
        <3>1. /\ page'[i] = items /\ rest'[i] = rest[i] \ items
              /\ pc[i] = "search" /\ pc'[i] = "items" /\ ended'[i] = ended[i]
              /\ leads' = leads
            BY <2>2 DEF IInv, TypeOK
        <3>2. \A p \in People \ (rest'[i] \cup page'[i] \cup Anonymous) : p \in leads
            BY <2>1, <2>3, <3>1 DEF LookedAt, Looping
        <3> QED BY <2>1, <2>3, <3>1, <3>2 DEF LookedAt
    <2>4. CASE j # i
        BY <2>1, <2>2, <2>4 DEF IInv, TypeOK, LookedAt, LimitReached, ImportLimit
    <2> QED BY <2>3, <2>4
<1>6. AloneCounts'
    <2>1. Made' = Made
        BY DEF Made
    <2> QED BY <2>1 DEF IInv, TypeOK, AloneCounts, Running, Looping
<1> QED BY <1>1, <1>2, <1>3, <1>4, <1>5, <1>6 DEF IInv

LEMMA ReadItemKeeps ==
    ASSUME IInv, NEW i \in Imports, ReadItem(i)
    PROVE  IInv'
<1> USE DEF ReadItem, At, Goto, SetStatus, records, tables, transaction, locals, ghosts
<1>1. PICK p \in page[i] :
          /\ page' = [page EXCEPT ![i] = @ \ {p}]
          /\ item' = [item EXCEPT ![i] = p]
          /\ inserts' = [inserts EXCEPT ![i] =
                {t \in Tables : /\ p \notin Anonymous
                                /\ \/ t = "profile" /\ p \notin profiles
                                   \/ t = "lead" /\ p \notin leads
                                   \/ t = "counter" /\ p \notin leads /\ counter = NoRow}]
    OBVIOUS
<1>2. p \in People
    BY DEF IInv, TypeOK
<1>3. /\ inserts' \in [Imports -> SUBSET Tables]
      /\ "lead" \notin inserts'[i] => p \in leads \cup Anonymous
      /\ \A j \in Imports \ {i} : inserts'[j] = inserts[j]
    <2> DEFINE wanted == {t \in Tables : /\ p \notin Anonymous
                                        /\ \/ t = "profile" /\ p \notin profiles
                                           \/ t = "lead" /\ p \notin leads
                                           \/ t = "counter" /\ p \notin leads /\ counter = NoRow}
    <2>1. inserts' = [inserts EXCEPT ![i] = wanted]
        BY <1>1
    <2>2. wanted \in SUBSET Tables
        OBVIOUS
    <2>3. "lead" \notin wanted => p \in leads \cup Anonymous
        BY DEF Tables
    <2>4. inserts \in [Imports -> SUBSET Tables]
        BY DEF IInv, TypeOK
    <2> HIDE DEF wanted
    <2> QED BY ONLY <2>1, <2>2, <2>3, <2>4, i \in Imports
<1>4. /\ item' \in [Imports -> People \cup {Null}] /\ item'[i] = p
       /\ page' \in [Imports -> SUBSET People] /\ page'[i] = page[i] \ {p}
       /\ \A j \in Imports \ {i} : item'[j] = item[j] /\ page'[j] = page[j]
    BY <1>1, <1>2 DEF IInv, TypeOK
<1>5. pc[i] = "items" /\ pc'[i] = "write" /\ \A j \in Imports \ {i} : pc'[j] = pc[j]
    BY DEF IInv, TypeOK
<1>6. RoomLeft'
    <2>1. ~(imported[i] >= ImportLimit(i)) => imported[i] < ImportLimit(i)
        BY NumbersType DEF IInv
    <2> QED BY <1>5, <2>1 DEF IInv, RoomLeft, LimitReached, ImportLimit, Looping
<1>7. TypeOK'
    <2>1. \A j \in Imports : pc'[j] \in Looping => imported'[j] <= ImportLimit(j)'
        BY <1>6 DEF RoomLeft
    <2>2. seen' \in [Imports -> {NoRow} \cup Nat]
        BY DEF IInv, TypeOK
    <2> QED BY <1>3, <1>4, <2>1, <2>2 DEF IInv, TypeOK, Looping, Stages
<1>8. RecordIsTrue'
    BY DEF IInv, TypeOK, RecordIsTrue
<1>9. MadeAreLeads'
    BY <1>3, <1>4, <1>5 DEF IInv, MadeAreLeads
<1>10. Looked'
    <2> SUFFICES ASSUME NEW j \in Imports PROVE LookedAt(j)'
        BY DEF Looked
    <2>1. LookedAt(j)
        BY DEF IInv, Looked
    <2> QED BY <1>2, <1>4, <1>5, <2>1 DEF LookedAt, LimitReached, ImportLimit, Looping
<1>11. AloneCounts'
    <2>1. Made' = Made
        BY DEF Made
    <2> QED BY <2>1 DEF IInv, TypeOK, AloneCounts, Running, Looping
<1> QED BY <1>6, <1>7, <1>8, <1>9, <1>10, <1>11 DEF IInv

LEMMA WriteKnownKeeps ==
    ASSUME IInv, NEW i \in Imports, WriteKnown(i)
    PROVE  IInv'
<1> USE DEF WriteKnown, EndTransaction, At, Goto, SetStatus, records, tables, transaction, locals, ghosts
<1>1. RoomLeft'
    BY DEF IInv, TypeOK, RoomLeft, ImportLimit, Looping
<1>2. TypeOK'
    <2>1. \A j \in Imports : pc'[j] \in Looping => imported'[j] <= ImportLimit(j)'
        BY <1>1 DEF RoomLeft
    <2>2. item[i] \in People
        BY DEF IInv, Looked, LookedAt
    <2> QED BY <2>1, <2>2 DEF IInv, TypeOK, Looping, Stages
<1>3. RecordIsTrue'
    BY DEF IInv, TypeOK, RecordIsTrue
<1>4. MadeAreLeads'
    BY DEF IInv, TypeOK, MadeAreLeads
<1>5. Looked'
    <2> SUFFICES ASSUME NEW j \in Imports PROVE LookedAt(j)'
        BY DEF Looked
    <2>1. LookedAt(j)
        BY DEF IInv, Looked
    <2>2. item[i] \in leads \cup Anonymous
        BY DEF IInv, MadeAreLeads
    <2>3. leads' = leads /\ page' = page /\ rest' = rest /\ ended' = ended
        OBVIOUS
    <2>4. CASE j = i
        <3>1. pc[i] = "write" /\ pc'[i] = "items"
            BY DEF IInv, TypeOK
        <3> QED BY <2>1, <2>2, <2>3, <2>4, <3>1 DEF LookedAt, Looping
    <2>5. CASE j # i
        BY <2>1, <2>3, <2>5 DEF IInv, TypeOK, LookedAt, LimitReached, ImportLimit
    <2> QED BY <2>4, <2>5
<1>6. AloneCounts'
    <2>1. Made' = Made
        BY DEF Made
    <2> QED BY <2>1 DEF IInv, TypeOK, AloneCounts, Running, Looping
<1> QED BY <1>1, <1>2, <1>3, <1>4, <1>5, <1>6 DEF IInv

LEMMA WriteLeadKeeps ==
    ASSUME IInv, NEW i \in Imports, WriteLead(i)
    PROVE  IInv'
<1> USE DEF WriteLead, EndTransaction, CountedUp, CountOfImport, At, Goto, SetStatus, records, tables, transaction, locals, ghosts
<1>1. /\ item[i] \in People \ leads
      /\ made \in [Imports -> SUBSET People] /\ made[i] \subseteq leads
    BY DEF IInv, Looked, LookedAt, MadeAreLeads, Duplicate, TypeOK
<1>2. /\ pc[i] = "write" /\ pc'[i] = "items" /\ \A j \in Imports \ {i} : pc'[j] = pc[j]
      /\ imported'[i] = imported[i] + 1 /\ count'[i] = imported[i] + 1
      /\ made'[i] = made[i] \cup {item[i]}
      /\ \A j \in Imports \ {i} :
            imported'[j] = imported[j] /\ count'[j] = count[j] /\ made'[j] = made[j]
      /\ counter' = Counted(seen[i]) + 1
    BY DEF IInv, TypeOK
<1>3. /\ imported[i] \in Nat /\ imported[i] < ImportLimit(i)
      /\ ImportLimit(i) \in Nat /\ ImportLimit(i) <= Limit /\ Limit \in Nat
      /\ Counted(seen[i]) \in Nat
    BY NumbersType DEF IInv, RoomLeft
<1>4. RoomLeft'
    <2> SUFFICES ASSUME NEW j \in Imports
                 PROVE  /\ pc'[j] \in Looping => imported'[j] <= ImportLimit(j)
                        /\ pc'[j] = "write" => imported'[j] < ImportLimit(j)
        BY DEF RoomLeft, ImportLimit
    <2> QED BY <1>2, <1>3 DEF IInv, RoomLeft
<1>5. TypeOK'
    <2>1. \A j \in Imports : pc'[j] \in Looping => imported'[j] <= ImportLimit(j)'
        BY <1>4 DEF RoomLeft
    <2>2. imported' \in [Imports -> 0 .. Limit] /\ count' \in [Imports -> 0 .. Limit]
        <3>1. imported[i] + 1 \in 0 .. Limit
            BY <1>3
        <3> QED BY <3>1 DEF IInv, TypeOK
    <2>3. counter' \in Nat
        BY <1>2, <1>3
    <2>4. /\ made' \in [Imports -> SUBSET People]
          /\ profiles' \subseteq People /\ leads' \subseteq People
        BY <1>1 DEF IInv, TypeOK
    <2> QED BY <2>1, <2>2, <2>3, <2>4 DEF IInv, TypeOK, Looping, Stages
<1>6. RecordIsTrue'
    <2>1. Cardinality(made'[i]) = Cardinality(made[i]) + 1
        BY <1>1, <1>2, OneMore
    <2>2. imported[i] = Cardinality(made[i])
        BY <1>2 DEF IInv, RecordIsTrue
    <2> QED BY <1>2, <2>1, <2>2 DEF IInv, RecordIsTrue
<1>7. MadeAreLeads'
    BY <1>1, <1>2 DEF IInv, TypeOK, MadeAreLeads
<1>8. Looked'
    <2> SUFFICES ASSUME NEW j \in Imports PROVE LookedAt(j)'
        BY DEF Looked
    <2>1. LookedAt(j)
        BY DEF IInv, Looked
    <2>2. leads' = leads \cup {item[i]} /\ page' = page /\ rest' = rest /\ ended' = ended
        OBVIOUS
    <2>3. CASE j = i
        BY <1>2, <2>1, <2>2, <2>3 DEF LookedAt, Looping
    <2>4. CASE j # i
        BY <1>2, <2>1, <2>2, <2>4 DEF IInv, TypeOK, LookedAt, LimitReached, ImportLimit
    <2> QED BY <2>3, <2>4
<1>9. AloneCounts'
    <2> SUFFICES ASSUME ~overlap PROVE AloneCounts'
        BY DEF AloneCounts
    <2>1. Cardinality(Made') = Cardinality(Made) + 1
        <3>1. Made' = Made \cup {item[i]}
            BY <1>1, <1>2 DEF Made
        <3>2. Made \subseteq leads
            BY DEF Made, IInv, MadeAreLeads
        <3>3. Made \in SUBSET People /\ item[i] \in People \ Made
            BY <1>1, <3>2, MadeInPeople DEF IInv
        <3> QED BY <3>1, <3>3, OneMore
    <2>2. Counted(counter') = Counted(counter) + 1
        <3>1. Counted(seen[i]) = Counted(counter)
            BY DEF IInv, AloneCounts
        <3> QED BY <1>2, <1>3, <3>1 DEF Counted, NoRow
    <2>3. \A j, k \in Imports : Running(j)' /\ Running(k)' => j = k
        BY <1>2 DEF IInv, AloneCounts, Running
    <2>4. \A j \in Imports : j # i => pc[j] \in {"none", "exit"}
        BY <1>2 DEF IInv, AloneCounts, Running
    <2>5. Counted(counter) = Limit - room[i] + imported[i]
        BY <1>2 DEF IInv, AloneCounts, Looping
    <2>6. room[i] \in Nat /\ imported[i] + 1 <= room[i] /\ Counted(counter) \in Nat
        BY <1>3, NumbersType DEF IInv
    <2>7. room' = room /\ overlap' = overlap
        OBVIOUS
    <2>8. Counted(counter') <= Limit /\ Counted(counter') = Limit - room[i] + imported'[i]
        BY <1>2, <1>3, <2>2, <2>5, <2>6
    <2>9. Cardinality(Made') = Counted(counter')
        BY <2>1, <2>2 DEF IInv, AloneCounts
    <2> QED BY <1>2, <2>3, <2>4, <2>7, <2>8, <2>9 DEF AloneCounts, Looping
<1> QED BY <1>4, <1>5, <1>6, <1>7, <1>8, <1>9 DEF IInv

LEMMA WriteFailsKeeps ==
    ASSUME IInv, NEW i \in Imports, WriteFails(i)
    PROVE  IInv'
<1> USE DEF WriteFails, EndTransaction, AfterDuplicate, At, Goto, SetStatus, records, tables, transaction, locals, ghosts
<1>1. RoomLeft'
    BY DEF IInv, TypeOK, RoomLeft, ImportLimit, Looping
<1>2. TypeOK'
    <2>1. \A j \in Imports : pc'[j] \in Looping => imported'[j] <= ImportLimit(j)'
        BY <1>1 DEF RoomLeft
    <2> QED BY <2>1 DEF IInv, TypeOK, Looping, Stages
<1>3. RecordIsTrue'
    BY DEF IInv, TypeOK, RecordIsTrue
<1>4. MadeAreLeads'
    BY DEF IInv, TypeOK, MadeAreLeads
<1>5. Looked'
    <2> SUFFICES ASSUME NEW j \in Imports PROVE LookedAt(j)'
        BY DEF Looked
    <2>1. LookedAt(j)
        BY DEF IInv, Looked
    <2> QED BY <2>1 DEF IInv, TypeOK, LookedAt, LimitReached, ImportLimit, Looping
<1>6. AloneCounts'
    <2>1. Made' = Made
        BY DEF Made
    <2> QED BY <2>1 DEF IInv, TypeOK, AloneCounts, Running, Looping
<1> QED BY <1>1, <1>2, <1>3, <1>4, <1>5, <1>6 DEF IInv

\* Others only add rows, and the counter they create counts as none.
LEMMA OthersKeep ==
    ASSUME IInv,
           \/ \E p \in People : CacheProfile(p) \/ AddTarget(p)
           \/ CreateCounter
    PROVE  IInv'
<1>1. /\ UNCHANGED <<records, pc, locals, ghosts>>
      /\ profiles' \subseteq People /\ leads' \subseteq People /\ leads \subseteq leads'
      /\ counter' \in {NoRow} \cup Nat /\ Counted(counter') = Counted(counter)
    <2>1. ASSUME NEW p \in People, CacheProfile(p) \/ AddTarget(p)
          PROVE  /\ UNCHANGED <<records, pc, locals, ghosts, counter>>
                 /\ profiles' \subseteq People /\ leads' \subseteq People
                 /\ leads \subseteq leads'
        BY <2>1 DEF IInv, TypeOK, CacheProfile, AddTarget
    <2>2. CASE CreateCounter
        <3>1. UNCHANGED <<records, pc, locals, ghosts, profiles, leads>> /\ counter' = 0
            BY <2>2 DEF CreateCounter
        <3>2. Counted(0) = Counted(counter)
            BY <2>2 DEF CreateCounter, Counted
        <3> QED BY <3>1, <3>2 DEF IInv, TypeOK
    <2>3. counter \in {NoRow} \cup Nat
        BY DEF IInv, TypeOK
    <2> QED BY <2>1, <2>2, <2>3
<1> USE DEF records, transaction, locals, ghosts
<1>2. TypeOK'
    BY <1>1 DEF IInv, TypeOK, ImportLimit
<1>3. RecordIsTrue' /\ RoomLeft' /\ MadeAreLeads'
    BY <1>1 DEF IInv, RecordIsTrue, RoomLeft, ImportLimit, MadeAreLeads
<1>4. Looked'
    BY <1>1 DEF IInv, Looked, LookedAt, LimitReached, ImportLimit
<1>5. AloneCounts'
    BY <1>1 DEF IInv, AloneCounts, Made, Running
<1> QED BY <1>2, <1>3, <1>4, <1>5 DEF IInv

LEMMA InitHolds == Init => IInv
<1> SUFFICES ASSUME Init PROVE IInv
    OBVIOUS
<1>1. 0 \in 0 .. Limit /\ 0 \in 0 .. MaxFaults /\ 0 <= Limit
    BY ImportAssumption
<1> USE DEF Init
<1>2. \A i \in Imports : pc[i] = "none" /\ made[i] = {} /\ count[i] = 0 /\ imported[i] = 0
    OBVIOUS
<1>3. TypeOK
    <2>1. "none" \in Stages
        BY DEF Stages
    <2> QED BY <1>1, <1>2, <2>1 DEF TypeOK
<1>4. RecordIsTrue /\ RoomLeft /\ MadeAreLeads /\ Looked
    BY FS_EmptySet DEF RecordIsTrue, RoomLeft, MadeAreLeads, Looked, LookedAt, Looping
<1>5. AloneCounts
    <2>1. Made = {}
        BY DEF Made
    <2>2. Cardinality(Made) = 0 /\ Counted(counter) = 0
        BY <2>1, FS_EmptySet DEF Counted
    <2>3. \A i \in Imports : ~Running(i) /\ pc[i] \notin Looping /\ pc[i] # "write"
        BY <1>2 DEF Running, Looping
    <2> HIDE DEF Init
    <2> QED BY <1>1, <2>2, <2>3 DEF AloneCounts
<1> QED BY <1>3, <1>4, <1>5 DEF IInv

\* The ways a thread ends.
LEMMA EndsKeep ==
    ASSUME IInv, NEW i \in Imports,
           PlanNothing(i) \/ PlanRefused(i) \/ Finish(i) \/ Abort(i)
    PROVE  IInv'
<1>1. Exit({i}) /\ UNCHANGED <<target, tables, made, overlap, faults, dead>>
    BY DEF PlanNothing, PlanRefused, Finish, Abort, ghosts
<1>2. status' \in [Imports -> {"none", "pending", "running"} \cup Final]
    <2>1. Outcome(i) \in Final
        BY DEF Outcome, Final
    <2>2. {"partial", "failed"} \subseteq Final /\ Caught \in Final
        BY DEF Final, Caught
    <2> QED BY <2>1, <2>2
            DEF IInv, TypeOK, PlanNothing, PlanRefused, Finish, Abort, SetStatus
<1>3. count' = count
    <2>1. CASE Finish(i)
        <3>1. imported[i] = count[i]
            BY <2>1 DEF IInv, RecordIsTrue, Finish, At
        <3> QED BY <2>1, <3>1 DEF Finish, IInv, TypeOK
    <2>2. CASE PlanNothing(i) \/ PlanRefused(i) \/ Abort(i)
        BY <2>2 DEF PlanNothing, PlanRefused, Abort
    <2> QED BY <2>1, <2>2
<1>4. faults' \in 0 .. MaxFaults /\ dead' \subseteq Imports
    BY <1>1 DEF IInv, TypeOK
<1> QED BY <1>1, <1>2, <1>3, <1>4, ExitKeeps

\* Any exception leads to the handler, like a conflict.
LEMMA ThrowKeeps ==
    ASSUME IInv, NEW i \in Imports, Throw(i)
    PROVE  IInv'
<1> USE DEF Throw, EndTransaction, At, Goto, SetStatus, records, tables, transaction, locals, ghosts
<1>1. RoomLeft'
    BY DEF IInv, TypeOK, RoomLeft, ImportLimit, Looping
<1>2. TypeOK'
    <2>1. \A j \in Imports : pc'[j] \in Looping => imported'[j] <= ImportLimit(j)'
        BY <1>1 DEF RoomLeft
    <2>2. faults' \in 0 .. MaxFaults
        <3>1. faults \in 0 .. MaxFaults /\ faults < MaxFaults /\ faults' = faults + 1
            BY DEF IInv, TypeOK
        <3> QED BY <3>1, ImportAssumption
    <2> QED BY <2>1, <2>2 DEF IInv, TypeOK, Looping, Stages
<1>3. RecordIsTrue'
    <2> SUFFICES ASSUME NEW j \in Imports
                 PROVE  /\ count[j] = Cardinality(made[j])
                        /\ pc'[j] # "exit" => imported[j] = count[j]
                        /\ pc'[j] \in {"none", "queued", "plan"} => imported[j] = 0
        BY DEF RecordIsTrue
    <2>1. pc[i] # "exit" /\ pc'[i] = "abort" /\ \A k \in Imports \ {i} : pc'[k] = pc[k]
        BY DEF IInv, TypeOK, Running
    <2> QED BY <2>1 DEF IInv, RecordIsTrue
<1>4. MadeAreLeads'
    BY DEF IInv, TypeOK, MadeAreLeads
<1>5. Looked'
    <2> SUFFICES ASSUME NEW j \in Imports PROVE LookedAt(j)'
        BY DEF Looked
    <2>1. LookedAt(j)
        BY DEF IInv, Looked
    <2> QED BY <2>1 DEF IInv, TypeOK, LookedAt, LimitReached, ImportLimit, Looping
<1>6. AloneCounts'
    <2>1. Made' = Made
        BY DEF Made
    <2> QED BY <2>1 DEF IInv, TypeOK, AloneCounts, Running, Looping
<1> QED BY <1>1, <1>2, <1>3, <1>4, <1>5, <1>6 DEF IInv

\* A thread that dies leaves the record as it is.
LEMMA DeathKeeps ==
    ASSUME IInv,
           Crash \/ \E i \in Imports : AbortFails(i)
    PROVE  IInv'
<1>1. faults' \in 0 .. MaxFaults /\ dead' \subseteq Imports
    <2>1. /\ faults \in 0 .. MaxFaults /\ faults < MaxFaults /\ faults' = faults + 1
          /\ dead \subseteq Imports
        BY DEF IInv, TypeOK, Crash, AbortFails
    <2>2. dead' \subseteq Imports
        BY <2>1 DEF Crash, AbortFails
    <2> QED BY <2>1, <2>2, ImportAssumption
<1>2. /\ UNCHANGED <<target, tables, made, overlap>> /\ count' = count
      /\ status' \in [Imports -> {"none", "pending", "running"} \cup Final]
    BY DEF IInv, TypeOK, Crash, AbortFails, records
<1>3. PICK I \in SUBSET Imports : Exit(I)
    <2>1. {i \in Imports : Running(i)} \in SUBSET Imports
        OBVIOUS
    <2> QED BY <2>1 DEF Crash, AbortFails
<1> QED BY <1>1, <1>2, <1>3, ExitKeeps

LEMMA NextKeeps == IInv /\ [Next]_vars => IInv'
<1> SUFFICES ASSUME IInv, [Next]_vars PROVE IInv'
    OBVIOUS
<1>1. CASE \/ \E p \in People : CacheProfile(p) \/ AddTarget(p)
           \/ CreateCounter
    BY <1>1, OthersKeep
<1>2. CASE Crash \/ \E i \in Imports : AbortFails(i)
    BY <1>2, DeathKeeps
<1>3. ASSUME NEW i \in Imports, Queue(i) \/ Throw(i) PROVE IInv'
    BY <1>3, QueueKeeps, ThrowKeeps
<1>4. ASSUME NEW i \in Imports, Step(i) PROVE IInv'
    BY <1>4, MoveKeeps, PlanKeeps, SearchPageKeeps, ReadItemKeeps, WriteKnownKeeps,
       WriteLeadKeeps, WriteFailsKeeps, EndsKeep
       DEF Step
<1>5. CASE UNCHANGED vars
    <2> USE DEF vars, records, tables, transaction, locals, ghosts
    <2>1. TypeOK' /\ RecordIsTrue' /\ RoomLeft' /\ MadeAreLeads'
        BY <1>5 DEF IInv, TypeOK, RecordIsTrue, RoomLeft, ImportLimit, MadeAreLeads
    <2>2. Looked'
        BY <1>5 DEF IInv, Looked, LookedAt, LimitReached, ImportLimit
    <2>3. AloneCounts'
        <3>1. Made' = Made /\ counter' = counter
            BY <1>5 DEF Made
        <3> QED BY <1>5, <3>1 DEF IInv, AloneCounts, Running
    <2> QED BY <2>1, <2>2, <2>3 DEF IInv
<1> QED BY <1>1, <1>2, <1>3, <1>4, <1>5 DEF Next

LEMMA IInvHolds == Spec => []IInv
BY InitHolds, NextKeeps, PTL DEF Spec

-----------------------------------------------------------------------------
\* The variables keep their types, and no import exceeds what it was allowed
\* when it started (_run_import).
THEOREM TypeCorrect == Spec => []TypeOK
<1>1. IInv => TypeOK
    BY DEF IInv
<1> QED BY <1>1, IInvHolds, PTL

\* imported_count is the number of leads the import created, beside any other
\* imports and through conflicts and restarts (_process_item).
THEOREM CountHolds == Spec => []CountIsTrue
<1>1. IInv => CountIsTrue
    BY DEF IInv, RecordIsTrue, CountIsTrue
<1> QED BY <1>1, IInvHolds, PTL

\* The counter counts the leads of the day, within the daily limit, as long as
\* imports of the account do not overlap (increment_search_import).
THEOREM CapHolds == Spec => []CapWhenAlone
<1>1. IInv => CapWhenAlone
    BY DEF IInv, AloneCounts, CapWhenAlone
<1> QED BY <1>1, IInvHolds, PTL

\* Only the end of a thread makes an import completed, with everybody looked at
\* a lead unless its limit ended it or the item had no identifier.
LEMMA CompletedLooked ==
    ASSUME IInv, [Next]_vars, NEW i \in Imports,
           status'[i] = "completed", status[i] # "completed"
    PROVE  \/ People \ (rest[i] \cup Anonymous) \subseteq leads
           \/ imported[i] = ImportLimit(i)
<1>1. Finish(i) /\ status'[i] = Outcome(i)
    <2>1. ASSUME NEW j \in Imports, Queue(j) \/ Step(j) PROVE j = i /\ Finish(i)
        BY <2>1 DEF IInv, TypeOK, Queue, Step, SetStatus, records, Begin, Plan, PlanNothing,
            PlanRefused, SearchPage, SearchEmpty, SearchFails, StopAtLimit, ReadItem,
            WriteKnown, WriteLead, WriteFails, EndPage, Finish, Abort, Caught
    <2>2. status' # status
        OBVIOUS
    <2>3. Finish(i)
        BY <2>1, <2>2 DEF Next, CacheProfile, AddTarget, CreateCounter, Crash, Throw,
            AbortFails, vars, records
    <2> QED BY <2>3 DEF Finish, SetStatus, IInv, TypeOK
<1>2. pc[i] = "finish" /\ Outcome(i) = "completed" /\ LookedAt(i)
    BY <1>1 DEF Finish, At, IInv, Looked
<1>3. ended[i] \in {"", "limit", "error"}
    BY DEF IInv, TypeOK
<1>4. CASE ended[i] = ""
    BY <1>2, <1>4 DEF LookedAt, Looping
<1>5. CASE ended[i] = "limit"
    <2>1. imported[i] >= ImportLimit(i) /\ imported[i] <= ImportLimit(i)
        BY <1>2, <1>5 DEF LookedAt, LimitReached, IInv, RoomLeft, Looping
    <2> QED BY <2>1, NumbersType DEF IInv
<1>6. CASE ended[i] = "error"
    BY <1>2, <1>6 DEF Outcome
<1> QED BY <1>3, <1>4, <1>5, <1>6

\* A completed import has looked at everybody the search returned: beside any
\* other imports, conflicts and errors, each is a lead, or came without an
\* identifier, or the import's limit ended it (_run_import, _process_item).
THEOREM NobodyLost == Spec => NobodyIsLost
<1>1. IInv /\ [Next]_vars =>
        [\A i \in Imports : status'[i] = "completed" /\ status[i] # "completed" =>
            \/ People \ (rest[i] \cup Anonymous) \subseteq leads
            \/ imported[i] = ImportLimit(i)]_vars
    BY CompletedLooked
<1> QED BY <1>1, IInvHolds, PTL DEF Spec, NobodyIsLost
=============================================================================
