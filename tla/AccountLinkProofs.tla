------------------------- MODULE AccountLinkProofs --------------------------
(***************************************************************************)
(* Proofs about AccountLink, for any number of connects, of checkpoints    *)
(* and of errors and restarts.                                             *)
(***************************************************************************)
EXTENDS AccountLink, TLAPS

-----------------------------------------------------------------------------
(***************************************************************************)
(* The inductive invariants.                                               *)
(***************************************************************************)

\* Tasks of connects to come have not begun.
InOrder == \A k \in Attempts : k > attempt => pc[k] = "none"

TInv == TypeOK /\ InOrder

\* A task that no connect came upon serves the attempt of its connect, and only
\* the current one is about to write the account.
OwnAttempt ==
    /\ overtaken = overtaken \cap {k \in Attempts : k < attempt}
    /\ \A k \in Attempts :
          /\ pc[k] \in {"none", "queued"} => tid[k] = 0
          /\ Running(k) /\ k \notin overtaken =>
                /\ tid[k] \in {0, k}
                /\ Exposed(k) => k = attempt

\* Whoever finishes has an outcome: failed, unless the answer said more, and
\* failed in the except clause.
EndsWithOutcome ==
    \A k \in Attempts :
        /\ pc[k] \in {"start", "connect", "give_up", "finish", "closing"} => result[k] \in Final
        /\ k \in handler => pc[k] \in {"finish", "closing", "exit"} /\ result[k] = "failed"

\* The account is linked or failed because its current task says so, or said so
\* before an error; and the password is there as long as that task has not
\* finished.
Agrees == \/ result[attempt] = status
          \/ status = "connected" /\ attempt \in handler
OutcomeIsOwn ==
    overtaken = {} =>
        /\ status \in Final =>
              /\ attempt \in Attempts
              /\ pc[attempt] \in {"settle", "finish", "closing", "exit"}
              /\ Running(attempt) => Agrees /\ tid[attempt] = attempt
        /\ attempt \in Attempts /\ pc[attempt] = "exit" /\ attempt \notin dead => password = 0

\* What a checkpoint asks for is what the current task is busy with.
Serves(k) ==
    /\ tid[k] = k
    /\ \/ pc[k] \in {"wait", "check", "store", "give_up"} /\ intent[k] = Len(intents)
       \/ /\ pc[k] = "solve" /\ intent[k] = Len(intents)
          /\ intents[Len(intents)].status # "pending"
       \/ pc[k] = "settle" /\ next[k] = Len(intents) /\ result[k] = "checkpoint"
       \/ pc[k] \in {"finish", "closing"}
CheckpointIsServed ==
    status = "checkpoint" /\ overtaken = {} =>
        /\ attempt \in Attempts /\ intents # <<>>
        /\ attempt \notin dead => Serves(attempt)

IInv ==
    /\ TInv
    /\ OwnAttempt
    /\ EndsWithOutcome
    /\ OutcomeIsOwn
    /\ CheckpointIsServed

-----------------------------------------------------------------------------
(***************************************************************************)
(* The list of intents.                                                    *)
(***************************************************************************)
IntentStatuses == {"pending", "submitted", "solved", "failed", "stale"}

\* Setting the status of one intent, if there is such an intent.
LEMMA IntentSet ==
    ASSUME intents \in Seq(Intents), NEW i \in Nat, NEW s \in IntentStatuses, SetIntent(i, s)
    PROVE  /\ intents' \in Seq(Intents) /\ Len(intents') = Len(intents)
           /\ \A j \in 1 .. Len(intents) :
                 intents'[j].status = IF j = i THEN s ELSE intents[j].status
<1>1. /\ DOMAIN intents = 1 .. Len(intents) /\ Len(intents) \in Nat
      /\ intents \in [1 .. Len(intents) -> Intents]
    OBVIOUS
<1>2. intents' = [intents EXCEPT ![i].status = s]
    BY DEF SetIntent
<1>3. \A j \in 1 .. Len(intents) : intents'[j] =
          IF j = i THEN [intents[j] EXCEPT !.status = s] ELSE intents[j]
    BY <1>1, <1>2
<1>4. \A j \in 1 .. Len(intents) : [intents[j] EXCEPT !.status = s] \in Intents
    BY <1>1 DEF Intents, IntentStatuses
<1>5. intents' \in [1 .. Len(intents) -> Intents]
    BY <1>1, <1>2, <1>3, <1>4
<1>6. intents' \in Seq(Intents) /\ Len(intents') = Len(intents)
    BY <1>1, <1>5
<1>7. \A j \in 1 .. Len(intents) :
          intents'[j].status = IF j = i THEN s ELSE intents[j].status
    BY <1>1, <1>3 DEF Intents
<1> QED BY <1>6, <1>7

\* A new connect makes the pending ones stale.
LEMMA IntentsStale ==
    ASSUME intents \in Seq(Intents), Connect
    PROVE  intents' \in Seq(Intents) /\ Len(intents') = Len(intents)
<1>1. /\ DOMAIN intents = 1 .. Len(intents) /\ Len(intents) \in Nat
      /\ intents \in [1 .. Len(intents) -> Intents]
    OBVIOUS
<1>2. \A j \in 1 .. Len(intents) : [intents[j] EXCEPT !.status = "stale"] \in Intents
    BY <1>1 DEF Intents
<1>3. intents' \in [1 .. Len(intents) -> Intents]
    BY <1>1, <1>2 DEF Connect
<1> QED BY <1>1, <1>3

\* A checkpoint adds one.
LEMMA IntentAdded ==
    ASSUME intents \in Seq(Intents), NEW k \in Attempts, StoreCheckpoint(k)
    PROVE  /\ intents' \in Seq(Intents) /\ Len(intents') = Len(intents) + 1
           /\ intents'[Len(intents) + 1].status = "pending"
<1>1. [kind |-> answer[k], status |-> "pending"] \in Intents
    BY DEF StoreCheckpoint, Intents
<1> QED BY <1>1 DEF StoreCheckpoint

-----------------------------------------------------------------------------
(***************************************************************************)
(* Types, whether connects overlap or not.                                 *)
(***************************************************************************)

\* What the steps of a task have in common.
LEMMA TaskStep ==
    ASSUME TInv, NEW k \in Attempts, Task(k)
    PROVE  /\ pc[k] \notin {"none", "exit"} /\ pc'[k] \notin {"none", "queued"}
           /\ \A j \in Attempts \ {k} :
                 /\ pc'[j] = pc[j] /\ tid'[j] = tid[j] /\ intent'[j] = intent[j]
                 /\ next'[j] = next[j] /\ answer'[j] = answer[j] /\ result'[j] = result[j]
           /\ UNCHANGED <<attempt, faults, handler, dead, overtaken>>
<1> USE DEF TInv, TypeOK, Goto, At, Ends, accountVars, faultVars
<1>1. CASE ReadAttempt(k) \/ ReadPassword(k) \/ Answer(k) \/ Refused(k) \/ Check(k)
    BY <1>1 DEF ReadAttempt, ReadPassword, Answer, Refused, Check, AfterAnswer
<1>2. CASE StoreOutcome(k) \/ StoreCheckpoint(k) \/ Settle(k) \/ TakeCode(k)
    BY <1>2 DEF StoreOutcome, StoreCheckpoint, Settle, TakeCode, AfterAnswer
<1>3. CASE Approved(k) \/ TimeOut(k) \/ GiveUp(k) \/ Finish(k) \/ Close(k)
    BY <1>3 DEF Approved, TimeOut, GiveUp, Finish, Close
<1> QED BY <1>1, <1>2, <1>3 DEF Task

\* A task past its first step knows its attempt.
KnowsAttempt ==
    \A j \in Attempts :
        \/ pc[j] = "exit"
        \/ tid[j] \in 1 .. attempt
        \/ /\ tid[j] = 0
           /\ \/ pc[j] \in {"none", "queued"}
              \/ j \in handler /\ pc[j] \in {"finish", "closing"}

LEMMA TaskKnows ==
    ASSUME TInv, NEW k \in Attempts, Task(k)
    PROVE  KnowsAttempt'
<1> USE DEF Goto, At
<1>1. /\ attempt' = attempt /\ handler' = handler
      /\ \A j \in Attempts \ {k} : pc'[j] = pc[j] /\ tid'[j] = tid[j]
    BY TaskStep
<1>2. KnowsAttempt
    BY DEF TInv, TypeOK, KnowsAttempt
<1>3. CASE ReadAttempt(k)
    <2>1. attempt \in 1 .. attempt
        <3>1. k <= attempt /\ k \in 1 .. MaxAttempts /\ attempt \in 0 .. MaxAttempts
            BY TaskStep DEF TInv, InOrder, TypeOK, Attempts
        <3> QED BY <3>1, LinkAssumption
    <2>2. tid'[k] = attempt
        BY <1>3 DEF ReadAttempt, CurrentAttempt, TInv, TypeOK
    <2> QED BY <1>1, <1>2, <2>1, <2>2 DEF KnowsAttempt
<1>4. CASE Finish(k) \/ Close(k)
    <2>1. tid' = tid /\ pc'[k] \in {"closing", "exit"} /\ pc[k] \in {"finish", "closing"}
        BY <1>4 DEF Finish, Close, TInv, TypeOK
    <2> QED BY <1>1, <1>2, <2>1 DEF KnowsAttempt
<1>5. CASE ~(ReadAttempt(k) \/ Finish(k) \/ Close(k))
    <2>1. tid' = tid /\ pc[k] \notin {"none", "queued", "finish", "closing", "exit"}
        BY <1>5 DEF Task, ReadPassword, Answer, Refused, Check, StoreOutcome, StoreCheckpoint,
            Settle, TakeCode, Approved, TimeOut, GiveUp
    <2>2. tid[k] \in 1 .. attempt
        BY <1>2, <2>1 DEF KnowsAttempt
    <2> QED BY <1>1, <1>2, <2>1, <2>2 DEF KnowsAttempt
<1> QED BY <1>3, <1>4, <1>5

LEMMA TaskTypes ==
    ASSUME TInv, NEW k \in Attempts, Task(k)
    PROVE  TypeOK'
<1> USE DEF Goto, At, Ends, accountVars, faultVars, Stages, Answers, Final
<1>1. /\ attempt \in 1 .. MaxAttempts /\ Len(intents) \in Nat
      /\ 0 \in 0 .. Len(intents)
    <2>1. k <= attempt /\ k \in 1 .. MaxAttempts /\ attempt \in 0 .. MaxAttempts
        BY TaskStep DEF TInv, InOrder, TypeOK, Attempts
    <2>2. Len(intents) \in Nat
        BY DEF TInv, TypeOK
    <2> QED BY <2>1, <2>2, LinkAssumption
<1>2. CASE ReadAttempt(k)
    <2>1. attempt \in 0 .. MaxAttempts /\ 1 .. attempt \subseteq Int
        BY DEF TInv, TypeOK
    <2>2. tid' \in [Attempts -> 0 .. MaxAttempts] /\ tid'[k] \in 1 .. attempt
        BY <1>1, <1>2, <2>1 DEF TInv, TypeOK, ReadAttempt, CurrentAttempt
    <2> QED BY <1>2, <2>2, TaskKnows DEF TInv, TypeOK, KnowsAttempt, ReadAttempt
<1>3. CASE ReadPassword(k) \/ Answer(k) \/ Refused(k) \/ TakeCode(k) \/ Approved(k) \/ TimeOut(k)
    <2>1. UNCHANGED <<status, attempt, password, intents, tid, intent, next, faultVars>>
        BY <1>3 DEF ReadPassword, Answer, Refused, TakeCode, Approved, TimeOut
    <2>2. /\ pc' \in [Attempts -> Stages] /\ answer' \in [Attempts -> Answers]
          /\ result' \in [Attempts -> Final \cup {"checkpoint"}]
        <3>1. /\ \E s \in Stages : pc' = [pc EXCEPT ![k] = s]
              /\ \E a \in Answers : answer' \in {answer, [answer EXCEPT ![k] = a]}
              /\ \E r \in Final : result' \in {result, [result EXCEPT ![k] = r]}
            BY <1>3 DEF ReadPassword, Answer, Refused, TakeCode, Approved, TimeOut
        <3>2. /\ pc \in [Attempts -> Stages] /\ answer \in [Attempts -> Answers]
              /\ result \in [Attempts -> Final \cup {"checkpoint"}]
            BY DEF TInv, TypeOK
        <3>3. pc' \in [Attempts -> Stages]
            BY <3>1, <3>2
        <3>4. answer' \in [Attempts -> Answers]
            BY <3>1, <3>2
        <3>5. result' \in [Attempts -> Final \cup {"checkpoint"}]
            BY <3>1, <3>2
        <3> QED BY <3>3, <3>4, <3>5
    <2> QED BY <2>1, <2>2, TaskKnows DEF TInv, TypeOK, KnowsAttempt
<1>4. CASE Check(k)
    BY <1>1, <1>4 DEF TInv, TypeOK, Check, AfterAnswer
<1>5. CASE StoreOutcome(k) \/ Finish(k)
    BY <1>5 DEF TInv, TypeOK, StoreOutcome, Finish, AfterAnswer
<1>6. CASE StoreCheckpoint(k)
    <2>1. intents' \in Seq(Intents) /\ Len(intents') = Len(intents) + 1
        BY <1>6, IntentAdded DEF TInv, TypeOK
    <2>2. Len(intents') <= MaxIntents
        BY <1>1, <1>6, <2>1, LinkAssumption DEF StoreCheckpoint
    <2>3. 0 .. Len(intents) \subseteq 0 .. Len(intents') /\ Len(intents') \in 0 .. Len(intents')
        BY <1>1, <2>1
    <2>4. intent' \in [Attempts -> 0 .. Len(intents')]
        BY <1>6, <2>3 DEF TInv, TypeOK, StoreCheckpoint
    <2>5. next' \in [Attempts -> 0 .. Len(intents')]
        BY <1>6, <2>1, <2>3 DEF TInv, TypeOK, StoreCheckpoint
    <2> QED BY <1>6, <2>1, <2>2, <2>4, <2>5 DEF TInv, TypeOK, StoreCheckpoint
<1>7. CASE Settle(k)
    <2>1. intents' \in Seq(Intents) /\ Len(intents') = Len(intents)
        <3>1. PICK i \in Nat : i = intent[k]
            BY <1>1 DEF TInv, TypeOK
        <3>2. CASE i = 0
            BY <1>7, <3>1, <3>2 DEF Settle, TInv, TypeOK
        <3>3. CASE i # 0
            <4>1. SetIntent(i, "solved")
                BY <1>7, <3>1, <3>3 DEF Settle
            <4> QED BY <4>1, IntentSet DEF TInv, TypeOK, IntentStatuses
        <3> QED BY <3>2, <3>3
    <2>2. /\ pc' \in [Attempts -> Stages] /\ intent' \in [Attempts -> 0 .. Len(intents')]
          /\ UNCHANGED <<accountVars, tid, next, answer, result, faultVars>>
        <3>1. /\ pc \in [Attempts -> Stages] /\ intent \in [Attempts -> 0 .. Len(intents)]
              /\ next[k] \in 0 .. Len(intents) /\ Len(intents') = Len(intents)
            BY <2>1 DEF TInv, TypeOK
        <3>2. /\ \E st \in {"wait", "finish"} : pc' = [pc EXCEPT ![k] = st]
              /\ intent' \in {intent, [intent EXCEPT ![k] = next[k]]}
              /\ UNCHANGED <<accountVars, tid, next, answer, result, faultVars>>
            BY <1>7 DEF Settle, NextIntent
        <3> QED BY <3>1, <3>2
    <2>3. KnowsAttempt'
        BY TaskKnows
    <2> QED BY <2>1, <2>2, <2>3 DEF TInv, TypeOK, KnowsAttempt
<1>8. CASE GiveUp(k)
    <2>1. intents' \in Seq(Intents) /\ Len(intents') = Len(intents)
        <3>1. PICK i \in Nat : i = intent[k]
            BY <1>1 DEF TInv, TypeOK
        <3>2. SetIntent(i, "failed")
            BY <1>8, <3>1 DEF GiveUp
        <3> QED BY <3>2, IntentSet DEF TInv, TypeOK, IntentStatuses
    <2> QED BY <1>8, <2>1, TaskKnows DEF TInv, TypeOK, KnowsAttempt, GiveUp
<1>9. CASE Close(k)
    BY <1>9, LinkAssumption DEF TInv, TypeOK, Close, PasswordCleared
<1> QED BY <1>2, <1>3, <1>4, <1>5, <1>6, <1>7, <1>8, <1>9 DEF Task

LEMMA ConnectTypes ==
    ASSUME TInv, Connect
    PROVE  TInv'
<1>1. attempt \in Nat /\ attempt + 1 \in Attempts /\ MaxAttempts \in Nat
    BY LinkAssumption DEF TInv, TypeOK, Connect, Attempts
<1>2. intents' \in Seq(Intents) /\ Len(intents') = Len(intents)
    BY IntentsStale DEF TInv, TypeOK
<1>3. /\ attempt' \in 0 .. MaxAttempts /\ password' \in 0 .. MaxAttempts
      /\ attempt' = attempt + 1 /\ 1 .. attempt \subseteq 1 .. attempt'
    BY <1>1 DEF Connect, Attempts
<1>4. /\ pc' \in [Attempts -> Stages] /\ pc'[attempt + 1] = "queued"
      /\ \A k \in Attempts \ {attempt + 1} : pc'[k] = pc[k]
    BY <1>1 DEF TInv, TypeOK, Connect, Stages
<1>5. TypeOK'
    <2>1. \A k \in Attempts :
              \/ pc'[k] = "exit"
              \/ tid[k] \in 1 .. attempt'
              \/ /\ tid[k] = 0
                 /\ \/ pc'[k] \in {"none", "queued"}
                    \/ k \in handler /\ pc'[k] \in {"finish", "closing"}
        BY <1>3, <1>4 DEF TInv, TypeOK, InOrder
    <2> QED BY <1>2, <1>3, <1>4, <2>1 DEF TInv, TypeOK, Connect
<1>6. InOrder'
    BY <1>1, <1>3, <1>4 DEF TInv, InOrder, Attempts
<1> QED BY <1>5, <1>6 DEF TInv

LEMMA SubmitTypes ==
    ASSUME TInv, Submit
    PROVE  /\ TInv' /\ Len(intents') = Len(intents)
           /\ intents'[Len(intents)].status # "pending"
<1>1. Len(intents) \in Nat \ {0}
    BY DEF TInv, TypeOK, Submit
<1>2. PICK n \in Nat : n = Len(intents) /\ n \in 1 .. Len(intents)
    BY <1>1
<1>3. SetIntent(n, "submitted")
    BY <1>2 DEF Submit
<1>4. /\ intents' \in Seq(Intents) /\ Len(intents') = Len(intents)
      /\ intents'[n].status = "submitted"
    BY <1>2, <1>3, IntentSet DEF TInv, TypeOK, IntentStatuses
<1> QED BY <1>2, <1>4 DEF TInv, TypeOK, InOrder, Submit, accountVars, taskVars, faultVars

LEMMA FaultCounted ==
    ASSUME TInv, faults < MaxFaults, faults' = faults + 1
    PROVE  faults' \in 0 .. MaxFaults
BY LinkAssumption DEF TInv, TypeOK

LEMMA ThrowTypes ==
    ASSUME TInv, NEW k \in Attempts, Throw(k)
    PROVE  TInv'
<1>1. faults' \in 0 .. MaxFaults
    BY FaultCounted DEF Throw
<1>2. /\ pc' \in [Attempts -> Stages] /\ \A j \in Attempts \ {k} : pc'[j] = pc[j]
      /\ result' \in [Attempts -> Final \cup {"checkpoint"}]
      /\ pc[k] \notin {"none", "exit"}
      /\ IF k \in handler THEN pc'[k] = "exit" /\ handler' = handler
         ELSE pc'[k] = "finish" /\ handler' = handler \cup {k}
    BY DEF TInv, TypeOK, Throw, Running, Goto, Ends, Stages, Final
<1>3. handler' \subseteq Attempts /\ dead' \subseteq Attempts
    BY DEF TInv, TypeOK, Throw
<1> QED BY <1>1, <1>2, <1>3 DEF TInv, TypeOK, InOrder, Throw, accountVars

LEMMA CrashTypes ==
    ASSUME TInv, Crash
    PROVE  TInv'
<1>1. faults' \in 0 .. MaxFaults
    BY FaultCounted DEF Crash
<1>2. /\ pc' \in [Attempts -> Stages]
      /\ \A k \in Attempts : pc'[k] = IF Running(k) THEN "exit" ELSE pc[k]
    BY DEF TInv, TypeOK, Crash, Stages
<1>3. dead' \subseteq Attempts
    BY DEF TInv, TypeOK, Crash
<1> QED BY <1>1, <1>2, <1>3 DEF TInv, TypeOK, InOrder, Crash, accountVars, Running

LEMMA TypesKept == TInv /\ [Next]_vars => TInv'
<1> SUFFICES ASSUME TInv, [Next]_vars PROVE TInv'
    OBVIOUS
<1>1. ASSUME NEW k \in Attempts, Task(k) PROVE TInv'
    <2>1. InOrder'
        BY <1>1, TaskStep DEF TInv, InOrder
    <2> QED BY <1>1, <2>1, TaskTypes DEF TInv
<1>2. CASE Connect
    BY <1>2, ConnectTypes
<1>3. CASE Submit
    BY <1>3, SubmitTypes
<1>4. CASE Crash
    BY <1>4, CrashTypes
<1>5. ASSUME NEW k \in Attempts, Throw(k) PROVE TInv'
    BY <1>5, ThrowTypes
<1>6. CASE UNCHANGED vars
    BY <1>6 DEF TInv, TypeOK, InOrder, vars, accountVars, taskVars, faultVars
<1> QED BY <1>1, <1>2, <1>3, <1>4, <1>5, <1>6 DEF Next

LEMMA TypesInit == Init => TInv
<1> SUFFICES ASSUME Init PROVE TInv
    OBVIOUS
<1>1. /\ intents = <<>> /\ Len(intents) = 0 /\ intents \in Seq(Intents)
      /\ 0 \in 0 .. Len(intents) /\ 0 \in 0 .. MaxAttempts /\ 0 \in 0 .. MaxFaults
      /\ 0 <= MaxIntents
    BY LinkAssumption DEF Init
<1>2. "none" \in Stages /\ "none" \in Answers /\ "failed" \in Final \cup {"checkpoint"}
    BY DEF Stages, Answers, Final
<1> QED BY <1>1, <1>2 DEF Init, TInv, TypeOK, InOrder

LEMMA TInvHolds == Spec => []TInv
BY TypesInit, TypesKept, PTL DEF Spec

\* The variables keep their types, and a task past its first step knows its
\* attempt (process_link_account).
THEOREM TypeCorrect == Spec => []TypeOK
<1>1. TInv => TypeOK
    BY DEF TInv
<1> QED BY <1>1, TInvHolds, PTL

-----------------------------------------------------------------------------
(***************************************************************************)
(* Who writes the account.                                                 *)
(***************************************************************************)

\* A task no connect came upon writes the account only if it is the current one,
\* and only a checkpoint makes the list of intents longer or its last one pending.
LEMMA TaskWrites ==
    ASSUME IInv, NEW k \in Attempts, Task(k)
    PROVE  /\ pc[k] \in {"store", "closing"} /\ k \notin overtaken => k = attempt
           /\ pc[k] \notin {"store", "closing"} => UNCHANGED <<status, password>>
           /\ ~Close(k) => password' = password
           /\ ~(StoreOutcome(k) \/ StoreCheckpoint(k) \/ Close(k)) => status' = status
           /\ ~StoreCheckpoint(k) =>
                 /\ Len(intents') = Len(intents)
                 /\ \A n \in 1 .. Len(intents) :
                       intents[n].status # "pending" => intents'[n].status # "pending"
<1>1. pc[k] \in {"store", "closing"} /\ k \notin overtaken => k = attempt
    BY DEF IInv, OwnAttempt, Exposed, Running
<1>2. ~Close(k) => password' = password
    BY DEF Task, ReadAttempt, ReadPassword, Answer, Refused, Check, StoreOutcome,
        StoreCheckpoint, Settle, TakeCode, Approved, TimeOut, GiveUp, Finish, accountVars
<1>3. ~(StoreOutcome(k) \/ StoreCheckpoint(k) \/ Close(k)) => status' = status
    BY DEF Task, ReadAttempt, ReadPassword, Answer, Refused, Check, Settle,
        TakeCode, Approved, TimeOut, GiveUp, Finish, accountVars
<1>4. ASSUME ~StoreCheckpoint(k)
      PROVE  /\ Len(intents') = Len(intents)
             /\ \A n \in 1 .. Len(intents) :
                   intents[n].status # "pending" => intents'[n].status # "pending"
    <2>1. intents \in Seq(Intents) /\ intent[k] \in Nat
        BY DEF IInv, TInv, TypeOK
    <2>2. PICK i \in Nat : i = intent[k]
        BY <2>1
    <2>3. \/ intents' = intents
          \/ \E st \in {"solved", "failed"} : SetIntent(i, st)
        BY <1>4, <2>2 DEF Task, ReadAttempt, ReadPassword, Answer, Refused, Check,
            StoreOutcome, Settle, TakeCode, Approved, TimeOut, GiveUp, Finish, Close
    <2>4. ASSUME NEW st \in {"solved", "failed"}, SetIntent(i, st)
          PROVE  /\ Len(intents') = Len(intents)
                 /\ \A n \in 1 .. Len(intents) :
                       intents[n].status # "pending" => intents'[n].status # "pending"
        BY <2>1, <2>4, IntentSet DEF IntentStatuses
    <2> QED BY <2>3, <2>4
<1>5. pc[k] \notin {"store", "closing"} => ~(StoreOutcome(k) \/ StoreCheckpoint(k) \/ Close(k))
    BY DEF StoreOutcome, StoreCheckpoint, Close, At
<1> QED BY <1>1, <1>2, <1>3, <1>4, <1>5

\* Only the comparison of the attempt id leads to a write.
LEMMA TaskCompares ==
    ASSUME TInv, NEW k \in Attempts, Task(k), pc'[k] \in {"store", "closing"}
    PROVE  tid[k] \in {0, attempt}
<1>1. Check(k) \/ Finish(k)
    BY DEF TInv, TypeOK, Task, ReadAttempt, ReadPassword, Answer, Refused, StoreOutcome,
        StoreCheckpoint, Settle, TakeCode, Approved, TimeOut, GiveUp, Close, AfterAnswer, Goto
<1> QED BY <1>1 DEF TInv, TypeOK, Check, Finish, AfterAnswer, AnswerIsCurrent, FinishIsCurrent, Goto

LEMMA TaskOwn ==
    ASSUME IInv, NEW k \in Attempts, Task(k)
    PROVE  OwnAttempt'
<1> USE DEF Goto, At
<1>1. /\ pc[k] \notin {"none", "exit"} /\ pc'[k] \notin {"none", "queued"} /\ attempt' = attempt
      /\ overtaken' = overtaken /\ handler' = handler
      /\ \A j \in Attempts \ {k} : pc'[j] = pc[j] /\ tid'[j] = tid[j]
    BY TaskStep DEF IInv
<1>2. ASSUME k \notin overtaken, pc'[k] # "exit"
      PROVE  tid'[k] \in {0, k} /\ (tid'[k] = 0 \/ pc'[k] \in {"store", "closing"} => k = attempt)
    <2>1. tid[k] \in {0, k} /\ (tid[k] = 0 => k = attempt)
        BY <1>1, <1>2 DEF IInv, OwnAttempt, Exposed, Running
    <2>2. CASE ReadAttempt(k)
        <3>1. tid[k] = 0 /\ tid'[k] = attempt
            BY <2>2 DEF IInv, OwnAttempt, TInv, TypeOK, ReadAttempt, CurrentAttempt
        <3> QED BY <2>1, <3>1
    <2>3. CASE ~ReadAttempt(k)
        <3>1. tid' = tid
            BY <2>3 DEF Task, ReadPassword, Answer, Refused, Check, StoreOutcome, StoreCheckpoint,
                Settle, TakeCode, Approved, TimeOut, GiveUp, Finish, Close
        <3>2. pc'[k] \in {"store", "closing"} => tid[k] \in {0, attempt}
            BY TaskCompares DEF IInv
        <3> QED BY <2>1, <3>1, <3>2
    <2> QED BY <2>2, <2>3
<1>3. overtaken' = overtaken' \cap {j \in Attempts : j < attempt'}
    BY <1>1 DEF IInv, OwnAttempt
<1>4. ASSUME NEW j \in Attempts
      PROVE  /\ pc'[j] \in {"none", "queued"} => tid'[j] = 0
             /\ Running(j)' /\ j \notin overtaken' => tid'[j] \in {0, j} /\ (Exposed(j)' => j = attempt')
    <2>1. CASE j = k
        BY <1>1, <1>2, <2>1 DEF Running, Exposed
    <2>2. CASE j # k
        BY <1>1, <2>2 DEF IInv, OwnAttempt, Running, Exposed
    <2> QED BY <2>1, <2>2
<1> QED BY <1>3, <1>4 DEF OwnAttempt

LEMMA TaskEnds ==
    ASSUME IInv, NEW k \in Attempts, Task(k)
    PROVE  EndsWithOutcome'
<1> USE DEF Goto, At, Ends
<1>1. pc'[k] \in {"start", "connect", "give_up", "finish", "closing"} => result'[k] \in Final
    <2>1. CASE ReadAttempt(k) \/ ReadPassword(k) \/ Answer(k) \/ Refused(k) \/ Check(k)
        BY <2>1 DEF IInv, TInv, TypeOK, EndsWithOutcome, Final,
            ReadAttempt, ReadPassword, Answer, Refused, Check, AfterAnswer
    <2>2. CASE StoreOutcome(k) \/ StoreCheckpoint(k) \/ Settle(k)
        BY <2>2 DEF IInv, TInv, TypeOK, Final, StoreOutcome, StoreCheckpoint, Settle, AfterAnswer
    <2>3. CASE TakeCode(k) \/ Approved(k) \/ TimeOut(k) \/ GiveUp(k) \/ Finish(k) \/ Close(k)
        BY <2>3 DEF IInv, TInv, TypeOK, EndsWithOutcome, Final,
            TakeCode, Approved, TimeOut, GiveUp, Finish, Close
    <2> QED BY <2>1, <2>2, <2>3 DEF Task
<1>2. ASSUME k \in handler
      PROVE  pc'[k] \in {"finish", "closing", "exit"} /\ result'[k] = "failed"
    <2>1. pc[k] \in {"finish", "closing"} /\ result[k] = "failed"
        BY <1>2, TaskStep DEF IInv, EndsWithOutcome, Running
    <2>2. Finish(k) \/ Close(k)
        BY <2>1 DEF Task, ReadAttempt, ReadPassword, Answer, Refused, Check, StoreOutcome,
            StoreCheckpoint, Settle, TakeCode, Approved, TimeOut, GiveUp
    <2> QED BY <1>2, <2>1, <2>2 DEF Finish, Close, IInv, TInv, TypeOK
<1>3. /\ handler' = handler
      /\ \A j \in Attempts \ {k} : pc'[j] = pc[j] /\ result'[j] = result[j]
    BY TaskStep DEF IInv
<1>4. ASSUME NEW j \in Attempts
      PROVE  /\ pc'[j] \in {"start", "connect", "give_up", "finish", "closing"} => result'[j] \in Final
             /\ j \in handler' =>
                   pc'[j] \in {"finish", "closing", "exit"} /\ result'[j] = "failed"
    <2>1. CASE j = k
        BY <1>1, <1>2, <1>3, <2>1 DEF Running
    <2>2. CASE j # k
        BY <1>3, <2>2 DEF IInv, EndsWithOutcome, Running
    <2> QED BY <2>1, <2>2
<1> QED BY <1>4 DEF EndsWithOutcome

-----------------------------------------------------------------------------
(***************************************************************************)
(* What the current task leaves behind, where no connect came upon a task. *)
(***************************************************************************)

LEMMA StoresForItself ==
    ASSUME IInv, NEW k \in Attempts, pc[k] = "store", k \notin overtaken
    PROVE  tid[k] = k
<1>1. tid[k] \in {0, k}
    BY DEF IInv, OwnAttempt, Running
<1>2. tid[k] \in 1 .. attempt /\ attempt \in Int
    <2>1. KnowsAttempt /\ attempt \in Int
        BY DEF IInv, TInv, TypeOK, KnowsAttempt
    <2> QED BY <2>1 DEF KnowsAttempt
<1> QED BY <1>1, <1>2

LEMMA TaskOutcome ==
    ASSUME IInv, NEW k \in Attempts, Task(k)
    PROVE  OutcomeIsOwn'
<1> USE DEF Goto, At, Ends
<1> SUFFICES ASSUME overtaken = {}
             PROVE  /\ status' \in Final =>
                          /\ attempt \in Attempts
                          /\ pc'[attempt] \in {"settle", "finish", "closing", "exit"}
                          /\ Running(attempt)' => Agrees' /\ tid'[attempt] = attempt
                    /\ attempt \in Attempts /\ pc'[attempt] = "exit" /\ attempt \notin dead
                          => password' = 0
    BY TaskStep DEF IInv, OutcomeIsOwn
<1>1. attempt' = attempt /\ handler' = handler /\ dead' = dead /\ pc[k] \notin {"none", "exit"}
    BY TaskStep DEF IInv
<1>2. CASE k # attempt
    <2>1. UNCHANGED <<status, password>>
        BY <1>2, TaskWrites
    <2>2. attempt \in Attempts => /\ pc'[attempt] = pc[attempt] /\ tid'[attempt] = tid[attempt]
                                  /\ result'[attempt] = result[attempt]
        BY <1>2, TaskStep DEF IInv
    <2> QED BY <1>1, <2>1, <2>2 DEF IInv, OutcomeIsOwn, Running, Agrees
<1>3. CASE k = attempt
    <2>1. tid[k] \in {0, k}
        BY <1>1 DEF IInv, OwnAttempt, Running
    <2>2. CASE StoreOutcome(k)
        <3>1. tid[k] = k
            BY <2>2, StoresForItself DEF StoreOutcome
        <3> QED BY <1>3, <2>2, <3>1
                DEF StoreOutcome, AfterAnswer, Agrees, IInv, TInv, TypeOK, accountVars
    <2>3. CASE StoreCheckpoint(k)
        BY <1>3, <2>3 DEF StoreCheckpoint, Final, IInv, TInv, TypeOK
    <2>4. CASE Close(k)
        BY <1>3, <2>4 DEF Close, PasswordCleared, Running, IInv, TInv, TypeOK
    <2>5. CASE Settle(k)
        <3>1. UNCHANGED <<status, tid, result>> /\ pc[k] = "settle"
            BY <2>5 DEF Settle, accountVars
        <3>2. status \in Final => result[k] = status /\ tid[k] = k
            BY <1>3, <3>1 DEF IInv, OutcomeIsOwn, Agrees, EndsWithOutcome, Running
        <3>3. pc'[k] = IF result[k] = "checkpoint" THEN "wait" ELSE "finish"
            BY <2>5 DEF Settle, IInv, TInv, TypeOK
        <3> QED BY <1>1, <1>3, <3>1, <3>2, <3>3 DEF Agrees, Final
    <2>6. CASE Finish(k)
        <3>1. UNCHANGED <<status, password, tid, result>> /\ pc[k] = "finish" /\ pc'[k] = "closing"
            BY <1>3, <2>1, <2>6 DEF Finish, FinishIsCurrent, IInv, TInv, TypeOK, accountVars
        <3>2. status \in Final => Agrees /\ tid[attempt] = attempt
            BY <1>3, <3>1 DEF IInv, OutcomeIsOwn, Running
        <3>3. Agrees' <=> Agrees
            BY <1>1, <3>1 DEF Agrees
        <3> QED BY <1>1, <1>3, <3>1, <3>2, <3>3
    <2>7. CASE ~(StoreOutcome(k) \/ StoreCheckpoint(k) \/ Close(k) \/ Settle(k) \/ Finish(k))
        <3>1. pc[k] \notin {"settle", "finish", "closing", "exit"}
            BY <2>7 DEF Task, ReadAttempt, ReadPassword, Answer, Refused, Check,
                TakeCode, Approved, TimeOut, GiveUp
        <3>2. status' = status /\ status \notin Final
            BY <1>3, <2>7, <3>1, TaskWrites DEF IInv, OutcomeIsOwn
        <3>3. pc'[k] # "exit"
            BY <2>7 DEF Task, ReadAttempt, ReadPassword, Answer, Refused, Check,
                TakeCode, Approved, TimeOut, GiveUp, AfterAnswer, IInv, TInv, TypeOK
        <3> QED BY <1>3, <3>2, <3>3
    <2> QED BY <2>2, <2>3, <2>4, <2>5, <2>6, <2>7
<1> QED BY <1>2, <1>3

\* The current task stays with what the checkpoint asks for.
LEMMA TaskServes ==
    ASSUME IInv, NEW k \in Attempts, Task(k)
    PROVE  CheckpointIsServed'
<1> USE DEF Goto, At, Ends
<1> SUFFICES ASSUME overtaken = {}, status' = "checkpoint"
             PROVE  /\ attempt \in Attempts /\ intents' # <<>>
                    /\ attempt \notin dead => Serves(attempt)'
    BY TaskStep DEF IInv, CheckpointIsServed
<1>1. attempt' = attempt /\ handler' = handler /\ dead' = dead
    BY TaskStep DEF IInv
<1>2. CASE StoreCheckpoint(k)
    <2>1. pc[k] = "store" /\ k = attempt
        BY <1>2, TaskWrites DEF StoreCheckpoint
    <2>2. intents' # <<>> /\ Len(intents') = Len(intents) + 1
        BY <1>2, IntentAdded DEF IInv, TInv, TypeOK
    <2>3. tid[k] = k
        BY <2>1, StoresForItself
    <2>4. /\ pc'[k] = "settle" /\ next'[k] = Len(intents') /\ result'[k] = "checkpoint"
          /\ tid'[k] = k
        BY <1>2, <2>2, <2>3 DEF StoreCheckpoint, IInv, TInv, TypeOK
    <2> QED BY <1>1, <2>1, <2>2, <2>4 DEF Serves
<1>3. CASE StoreOutcome(k) \/ Close(k)
    <2>1. status' \in Final
        BY <1>3 DEF StoreOutcome, Close, Final, IInv, EndsWithOutcome
    <2> QED BY <2>1 DEF Final
<1>4. CASE ~(StoreCheckpoint(k) \/ StoreOutcome(k) \/ Close(k))
    <2>0. status = "checkpoint"
        BY <1>4, TaskWrites
    <2>1. /\ attempt \in Attempts /\ intents \in Seq(Intents) /\ intents # <<>>
          /\ Len(intents) \in 1 .. Len(intents)
          /\ attempt \notin dead => Serves(attempt)
        BY <2>0 DEF IInv, CheckpointIsServed, TInv, TypeOK
    <2>2. /\ Len(intents') = Len(intents) /\ intents' # <<>>
          /\ intents[Len(intents)].status # "pending"
                => intents'[Len(intents)].status # "pending"
        BY <1>4, <2>1, TaskWrites
    <2>3. CASE k # attempt
        BY <1>1, <2>1, <2>2, <2>3, TaskStep DEF IInv, Serves
    <2>4. ASSUME k = attempt, Serves(k) PROVE Serves(k)'
        <3>0. tid[k] = attempt /\ tid[k] = k /\ ~ReadAttempt(k)
            BY <2>4 DEF Serves, ReadAttempt
        <3>9. tid'[k] = k
            BY <3>0 DEF Task, ReadPassword, Answer, Refused, Check, StoreOutcome, StoreCheckpoint,
                Settle, TakeCode, Approved, TimeOut, GiveUp, Finish, Close
        <3>1. CASE Answer(k) \/ Approved(k)
            BY <2>2, <2>4, <3>9, <3>1 DEF Serves, Answer, Approved, IInv, TInv, TypeOK
        <3>2. CASE Refused(k) \/ TimeOut(k)
            BY <2>2, <2>4, <3>9, <3>2 DEF Serves, Refused, TimeOut, IInv, TInv, TypeOK
        <3>3. CASE Check(k)
            BY <2>2, <2>4, <3>0, <3>9, <3>3
               DEF Serves, Check, AnswerIsCurrent, IInv, TInv, TypeOK
        <3>4. CASE Settle(k)
            BY <2>2, <2>4, <3>9, <3>4 DEF Serves, Settle, NextIntent, IInv, TInv, TypeOK
        <3>5. CASE TakeCode(k)
            BY <2>2, <2>4, <3>9, <3>5 DEF Serves, TakeCode, IInv, TInv, TypeOK
        <3>6. CASE GiveUp(k)
            BY <2>2, <2>4, <3>9, <3>6 DEF Serves, GiveUp, IInv, TInv, TypeOK
        <3>7. CASE Finish(k)
            BY <2>2, <2>4, <3>0, <3>9, <3>7
               DEF Serves, Finish, FinishIsCurrent, IInv, TInv, TypeOK
        <3>8. ~ReadPassword(k)
            BY <2>4 DEF Serves, ReadPassword
        <3> QED BY <1>4, <3>0, <3>1, <3>2, <3>3, <3>4, <3>5, <3>6, <3>7, <3>8 DEF Task
    <2> QED BY <1>1, <2>1, <2>2, <2>3, <2>4
<1> QED BY <1>2, <1>3, <1>4

\* An error sends the task to the except clause, or ends it there.
LEMMA ThrowKeeps ==
    ASSUME IInv, NEW k \in Attempts, Throw(k)
    PROVE  OwnAttempt' /\ EndsWithOutcome' /\ OutcomeIsOwn' /\ CheckpointIsServed'
<1>1. /\ UNCHANGED <<status, attempt, password, intents, tid, intent, next, overtaken>>
      /\ pc[k] \notin {"none", "exit"}
      /\ \A j \in Attempts \ {k} : /\ pc'[j] = pc[j] /\ result'[j] = result[j]
                                   /\ (j \in handler' <=> j \in handler)
                                   /\ (j \in dead' <=> j \in dead)
    BY DEF Throw, Goto, Ends, Running, IInv, TInv, TypeOK, accountVars
<1>2. \/ k \in handler /\ k \in dead' /\ pc'[k] = "exit" /\ result' = result
      \/ /\ k \notin handler /\ k \in handler' /\ (k \in dead' <=> k \in dead)
         /\ pc'[k] = "finish" /\ result'[k] = "failed"
    BY DEF Throw, Goto, Ends, IInv, TInv, TypeOK
<1>3. OwnAttempt'
    <2>1. overtaken' = overtaken' \cap {j \in Attempts : j < attempt'}
        BY <1>1 DEF IInv, OwnAttempt
    <2>2. ASSUME NEW j \in Attempts
          PROVE  /\ pc'[j] \in {"none", "queued"} => tid'[j] = 0
                 /\ Running(j)' /\ j \notin overtaken' =>
                       tid'[j] \in {0, j} /\ (Exposed(j)' => j = attempt')
        <3>1. CASE j = k
            BY <1>1, <1>2, <3>1 DEF IInv, OwnAttempt, Running, Exposed
        <3>2. CASE j # k
            BY <1>1, <3>2 DEF IInv, OwnAttempt, Running, Exposed
        <3> QED BY <3>1, <3>2
    <2> QED BY <2>1, <2>2 DEF OwnAttempt
<1>4. EndsWithOutcome'
    <2>1. ASSUME NEW j \in Attempts
          PROVE  /\ pc'[j] \in {"start", "connect", "give_up", "finish", "closing"} =>
                       result'[j] \in Final
                 /\ j \in handler' =>
                       pc'[j] \in {"finish", "closing", "exit"} /\ result'[j] = "failed"
        <3>1. CASE j = k
            BY <1>2, <3>1 DEF IInv, EndsWithOutcome, Final
        <3>2. CASE j # k
            BY <1>1, <3>2 DEF IInv, EndsWithOutcome, Running
        <3> QED BY <3>1, <3>2
    <2> QED BY <2>1 DEF EndsWithOutcome
<1>5. OutcomeIsOwn'
    <2>1. CASE k # attempt
        BY <1>1, <2>1 DEF IInv, OutcomeIsOwn, Agrees, Running
    <2>2. CASE k = attempt
        <3>1. status \in Final /\ overtaken = {} =>
                  tid[k] = k /\ (k \notin handler => result[k] = status)
            BY <1>1, <2>2 DEF IInv, OutcomeIsOwn, Agrees, Running
        <3>2. pc'[k] = "exit" => k \in dead'
            BY <1>2
        <3>3. status \in Final /\ overtaken = {} /\ pc'[k] # "exit" => Agrees'
            BY <1>1, <1>2, <2>2, <3>1 DEF Agrees, Final
        <3> QED BY <1>1, <1>2, <2>2, <3>1, <3>2, <3>3 DEF OutcomeIsOwn, Running
    <2> QED BY <2>1, <2>2
<1>6. CheckpointIsServed'
    <2>1. CASE k # attempt
        BY <1>1, <2>1 DEF IInv, CheckpointIsServed, Serves
    <2>2. CASE k = attempt
        <3>1. status = "checkpoint" /\ overtaken = {} /\ k \notin dead => tid[k] = k
            BY <2>2 DEF IInv, CheckpointIsServed, Serves
        <3>2. status = "checkpoint" /\ overtaken = {} => intents # <<>>
            BY DEF IInv, CheckpointIsServed
        <3> QED BY <1>1, <1>2, <2>2, <3>1, <3>2 DEF CheckpointIsServed, Serves
    <2> QED BY <2>1, <2>2
<1> QED BY <1>3, <1>4, <1>5, <1>6

LEMMA ConnectKeeps ==
    ASSUME IInv, Connect
    PROVE  OwnAttempt' /\ EndsWithOutcome' /\ OutcomeIsOwn' /\ CheckpointIsServed'
<1>1. attempt \in Nat /\ attempt + 1 \in Attempts /\ attempt' = attempt + 1
    BY LinkAssumption DEF IInv, TInv, TypeOK, Connect, Attempts
<1>2. /\ pc'[attempt + 1] = "queued" /\ pc[attempt + 1] = "none"
      /\ \A k \in Attempts \ {attempt + 1} : pc'[k] = pc[k]
      /\ status' = "pending" /\ UNCHANGED <<tid, result, handler>>
      /\ overtaken' = {k \in Attempts : Running(k) /\ (k \in overtaken \/ Exposed(k))}
    BY <1>1 DEF IInv, TInv, TypeOK, InOrder, Connect
<1>3. \A k \in Attempts : Running(k) => k < attempt'
    BY <1>1 DEF IInv, TInv, InOrder, Attempts, Running
<1>4. OwnAttempt'
    <2>1. overtaken' = overtaken' \cap {k \in Attempts : k < attempt'}
        BY <1>2, <1>3
    <2>2. ASSUME NEW j \in Attempts
          PROVE  /\ pc'[j] \in {"none", "queued"} => tid'[j] = 0
                 /\ Running(j)' /\ j \notin overtaken' =>
                       tid'[j] \in {0, j} /\ (Exposed(j)' => j = attempt')
        <3>1. CASE j = attempt + 1
            BY <1>1, <1>2, <3>1 DEF IInv, OwnAttempt
        <3>2. CASE j # attempt + 1
            BY <1>2, <3>2 DEF IInv, OwnAttempt, Running, Exposed
        <3> QED BY <3>1, <3>2
    <2> QED BY <2>1, <2>2 DEF OwnAttempt
<1>5. EndsWithOutcome'
    <2>1. attempt + 1 \notin handler
        BY <1>1, <1>2 DEF IInv, EndsWithOutcome
    <2> QED BY <1>1, <1>2, <2>1 DEF IInv, EndsWithOutcome
<1>6. OutcomeIsOwn' /\ CheckpointIsServed'
    BY <1>1, <1>2 DEF OutcomeIsOwn, CheckpointIsServed, Final
<1> QED BY <1>4, <1>5, <1>6

\* A code is submitted for the last intent, which is not pending then.
LEMMA SubmitKeeps ==
    ASSUME IInv, Submit
    PROVE  OwnAttempt' /\ EndsWithOutcome' /\ OutcomeIsOwn' /\ CheckpointIsServed'
<1>1. UNCHANGED <<accountVars, taskVars, faultVars>>
    BY DEF Submit
<1>2. Len(intents') = Len(intents) /\ intents'[Len(intents)].status # "pending"
    BY SubmitTypes DEF IInv
<1>3. OwnAttempt' /\ EndsWithOutcome' /\ OutcomeIsOwn'
    BY <1>1 DEF IInv, OwnAttempt, EndsWithOutcome, OutcomeIsOwn, Agrees, Running, Exposed,
                accountVars, taskVars, faultVars
<1>4. CheckpointIsServed'
    <2>1. intents' \in Seq(Intents) /\ intents \in Seq(Intents)
        BY SubmitTypes DEF IInv, TInv, TypeOK
    <2>2. intents # <<>> => intents' # <<>>
        BY <1>2, <2>1
    <2>3. Serves(attempt) => Serves(attempt)'
        BY <1>1, <1>2 DEF Serves, accountVars, taskVars, faultVars
    <2> QED BY <1>1, <2>2, <2>3 DEF IInv, CheckpointIsServed, accountVars, taskVars, faultVars
<1> QED BY <1>3, <1>4

LEMMA CrashKeeps ==
    ASSUME IInv, Crash
    PROVE  OwnAttempt' /\ EndsWithOutcome' /\ OutcomeIsOwn' /\ CheckpointIsServed'
<1>1. /\ \A k \in Attempts : pc'[k] = IF Running(k) THEN "exit" ELSE pc[k]
      /\ UNCHANGED <<status, attempt, password, intents, tid, intent, next, result, handler,
                     overtaken>>
      /\ dead' = dead \cup {k \in Attempts : Running(k)}
    BY DEF IInv, TInv, TypeOK, Crash, accountVars
<1>2. \A k \in Attempts : ~Running(k)' /\ (pc'[k] \in {"none", "queued"} => pc[k] = "none")
    BY <1>1 DEF Running
<1>3. OwnAttempt' /\ EndsWithOutcome'
    BY <1>1, <1>2 DEF IInv, OwnAttempt, EndsWithOutcome, Running
<1>4. \A k \in Attempts : k \notin dead' => k \notin dead /\ pc'[k] = pc[k]
    BY <1>1
<1>5. OutcomeIsOwn'
    BY <1>1, <1>2, <1>4 DEF IInv, OutcomeIsOwn, Running
<1>6. CheckpointIsServed'
    BY <1>1, <1>4 DEF IInv, CheckpointIsServed, Serves
<1> QED BY <1>3, <1>5, <1>6

LEMMA NextKeeps == IInv /\ [Next]_vars => IInv'
<1> SUFFICES ASSUME IInv, [Next]_vars PROVE IInv'
    OBVIOUS
<1>1. TInv'
    BY TypesKept DEF IInv
<1>2. ASSUME NEW k \in Attempts, Task(k) PROVE IInv'
    BY <1>1, <1>2, TaskOwn, TaskEnds, TaskOutcome, TaskServes DEF IInv
<1>3. ASSUME NEW k \in Attempts, Throw(k) PROVE IInv'
    BY <1>1, <1>3, ThrowKeeps DEF IInv
<1>4. CASE Connect
    BY <1>1, <1>4, ConnectKeeps DEF IInv
<1>5. CASE Submit
    BY <1>1, <1>5, SubmitKeeps DEF IInv
<1>6. CASE Crash
    BY <1>1, <1>6, CrashKeeps DEF IInv
<1>7. CASE UNCHANGED vars
    BY <1>1, <1>7 DEF IInv, OwnAttempt, EndsWithOutcome, OutcomeIsOwn, CheckpointIsServed,
                      Serves, Agrees, Running, Exposed, vars, accountVars, taskVars, faultVars
<1> QED BY <1>2, <1>3, <1>4, <1>5, <1>6, <1>7 DEF Next

LEMMA InitHolds == Init => IInv
<1> SUFFICES ASSUME Init PROVE IInv
    OBVIOUS
<1>1. 0 \notin Attempts
    BY DEF Attempts
<1> QED BY <1>1, TypesInit DEF Init, IInv, OwnAttempt, EndsWithOutcome, OutcomeIsOwn,
        CheckpointIsServed, Running, Final

LEMMA IInvHolds == Spec => []IInv
BY InitHolds, NextKeeps, PTL DEF Spec

-----------------------------------------------------------------------------
\* An account that is linked or failed keeps no password, unless its task is
\* about to clear it, ended without _finish_account, or a connect came upon a
\* task where its attempt id does not protect the account.
THEOREM PasswordCleaned == Spec => []NoPasswordLeft
<1>1. IInv => NoPasswordLeft
    <2> SUFFICES ASSUME IInv, status \in Final, password # 0, ~Abandoned, overtaken = {}
                 PROVE  \E k \in Attempts :
                            tid[k] = attempt /\ pc[k] \in {"settle", "finish", "closing"}
        BY DEF NoPasswordLeft
    <2>1. /\ attempt \in Attempts /\ attempt \notin dead
          /\ pc[attempt] \in {"settle", "finish", "closing"}
        BY DEF IInv, OutcomeIsOwn, Abandoned
    <2>2. tid[attempt] = attempt
        BY <2>1 DEF IInv, OutcomeIsOwn, Running
    <2> QED BY <2>1, <2>2
<1> QED BY <1>1, IInvHolds, PTL

\* A checkpoint on display has a task that is busy with it, under the same
\* conditions (_run_link_loop).
THEOREM PromptServed == Spec => []PromptIsLive
<1>1. IInv => PromptIsLive
    <2> SUFFICES ASSUME IInv, status = "checkpoint", ~Abandoned, overtaken = {},
                        intents[Len(intents)].status = "pending"
                 PROVE  \E k \in Attempts :
                            /\ tid[k] = attempt
                            /\ \/ pc[k] \in {"wait", "give_up"} /\ intent[k] = Len(intents)
                               \/ pc[k] \in {"check", "store"} /\ intent[k] = Len(intents)
                               \/ pc[k] = "settle" /\ Len(intents) \in {intent[k], next[k]}
                               \/ pc[k] \in {"finish", "closing"}
        BY DEF PromptIsLive
    <2>1. attempt \in Attempts /\ Serves(attempt)
        BY DEF IInv, CheckpointIsServed, Abandoned
    <2> QED BY <2>1 DEF Serves
<1> QED BY <1>1, IInvHolds, PTL

\* What a client saw as done stays so until the next connect, or is a connected
\* that the except clause of process_link_account turned into failed.
THEOREM DoneStays == Spec => DoneIsFinal
<1>1. IInv /\ [Next]_vars =>
          [attempt' = attempt /\ status \in Final /\ overtaken = {} =>
              \/ status' = status
              \/ status = "connected" /\ status' = "failed" /\ attempt \in handler]_vars
    <2> SUFFICES ASSUME IInv, [Next]_vars, attempt' = attempt, status \in Final, overtaken = {}
                 PROVE  \/ status' = status
                        \/ status = "connected" /\ status' = "failed" /\ attempt \in handler
        OBVIOUS
    <2>1. /\ attempt \in Attempts /\ pc[attempt] \notin {"store", "queued"}
          /\ pc[attempt] = "closing" => Agrees
        BY DEF IInv, OutcomeIsOwn, Running
    <2>2. ASSUME NEW k \in Attempts, Task(k), status' # status
          PROVE  status = "connected" /\ status' = "failed" /\ attempt \in handler
        <3>1. pc[k] \in {"store", "closing"}
            BY <2>2, TaskWrites
        <3>2. k = attempt /\ pc[k] = "closing" /\ Close(k)
            BY <2>1, <2>2, <3>1, TaskWrites DEF StoreOutcome, StoreCheckpoint, At
        <3>3. status' = result[k]
            BY <3>2 DEF Close
        <3>4. status = "connected" /\ attempt \in handler
            BY <2>1, <2>2, <3>2, <3>3 DEF Agrees
        <3>5. result[k] = "failed"
            BY <3>2, <3>4 DEF IInv, EndsWithOutcome, Running
        <3> QED BY <3>3, <3>4, <3>5
    <2>3. ~Connect
        BY DEF Connect, IInv, TInv, TypeOK
    <2> QED BY <2>2, <2>3 DEF Next, Submit, Crash, Throw, vars, accountVars
<1> QED BY <1>1, IInvHolds, PTL DEF Spec, DoneIsFinal

\* Whatever the order of connects and tasks, a task of an earlier attempt leaves
\* the account's status and password alone, unless a connect came upon it before
\* it read its attempt id or in the middle of a commit; and once it knows that
\* it is stale it comes to no other commit (_handle_auth_response and
\* _finish_account compare link_attempt_id).
THEOREM StaleTasksAreHarmless == Spec => StaleTaskIsHarmless
<1>1. IInv /\ [Next]_vars =>
          [\A k \in Attempts : pc'[k] # pc[k] /\ k < attempt =>
              /\ k \notin overtaken => UNCHANGED <<status, password>>
              /\ tid[k] \notin {0, attempt} => pc'[k] \notin {"store", "closing"}]_vars
    <2> SUFFICES ASSUME IInv, [Next]_vars, NEW k \in Attempts, pc'[k] # pc[k], k < attempt
                 PROVE  /\ k \notin overtaken => UNCHANGED <<status, password>>
                        /\ tid[k] \notin {0, attempt} => pc'[k] \notin {"store", "closing"}
        OBVIOUS
    <2>0. k # attempt
        BY DEF Attempts, IInv, TInv, TypeOK
    <2>1. ASSUME NEW j \in Attempts, Task(j) PROVE j = k
        BY <2>1, TaskStep DEF IInv
    <2>2. CASE \E j \in Attempts : Task(j)
        BY <2>0, <2>1, <2>2, TaskWrites, TaskCompares DEF IInv
    <2>3. CASE \E j \in Attempts : Throw(j)
        <3>1. PICK j \in Attempts : Throw(j)
            BY <2>3
        <3>2. j = k
            BY <3>1 DEF Throw, Goto, IInv, TInv, TypeOK
        <3> QED BY <3>1, <3>2 DEF Throw, Goto, accountVars, IInv, TInv, TypeOK
    <2>4. CASE Crash
        BY <2>4 DEF Crash, accountVars, IInv, TInv, TypeOK
    <2>5. ~Connect
        <3> SUFFICES ASSUME Connect PROVE FALSE
            OBVIOUS
        <3>1. attempt \in Nat /\ attempt + 1 \in Attempts /\ k # attempt + 1
            BY LinkAssumption DEF Connect, Attempts, IInv, TInv, TypeOK
        <3> QED BY <3>1 DEF Connect, IInv, TInv, TypeOK
    <2> QED BY <2>2, <2>3, <2>4, <2>5 DEF Next, Submit, vars, taskVars
<1> QED BY <1>1, IInvHolds, PTL DEF Spec, StaleTaskIsHarmless
=============================================================================
