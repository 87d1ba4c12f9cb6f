---------------------------- MODULE IntakeProofs ----------------------------
(***************************************************************************)
(* The safety of Intake, for any number of accounts, people and requests.  *)
(***************************************************************************)
EXTENDS Intake, FiniteSetTheorems, TLAPS

\* No account of the campaign is deleted, and only accounts of the campaign
\* have people or work on them.
Linked == \A a \in linked : conn[a] # "deleted"
OwnerLinked == \A p \in People : owner[p] \in linked \cup {NoAccount}
GivesLinked == \A r \in Requests : \A s \in Gives(r) : s.acct \in linked \cup {NoAccount}
TaskLinked == \A a \in Accounts : task[a] # Nobody => a \in linked

\* Whoever has no task has no account and no invitation; an executor's task has
\* an account; a start gives accounts to people with a task.
NoneUnowned == \A p \in People : state[p] = "none" => owner[p] = NoAccount
TaskOwned == \A a \in Accounts : task[a] # Nobody => owner[task[a]] # NoAccount
StartGives ==
    \A r \in Requests : req[r].kind = "start" =>
        \A s \in Gives(r) : s.acct # NoAccount /\ state[s.who] # "none"

\* While starts do not overlap, one at most is under way, the people it found
\* without an account still have none, and nobody changes hands.
Starts == {r \in Requests : req[r].kind = "start"}
OneStart == ~overlap => \A r, q \in Starts : r = q
StillUnowned == ~overlap => \A r \in Starts : \A s \in Gives(r) : owner[s.who] = NoAccount
OwnTask == ~overlap => \A a \in Accounts : task[a] # Nobody => owner[task[a]] = a
InvitedByOwner == ~overlap => \A p \in People : invitedBy[p] \subseteq {owner[p]}

IInv ==
    /\ TypeOK
    /\ Linked /\ OwnerLinked /\ GivesLinked /\ TaskLinked
    /\ NoneUnowned /\ TaskOwned /\ StartGives
    /\ OneStart /\ StillUnowned /\ OwnTask /\ InvitedByOwner

-----------------------------------------------------------------------------
(***************************************************************************)
(* Shares.                                                                 *)
(***************************************************************************)

\* The queries order the connected accounts of the campaign.
LEMMA OrdersAreSequences ==
    ASSUME TypeOK, NEW order \in Orders
    PROVE  /\ Cardinality(Active) \in Nat
           /\ order \in [1 .. Cardinality(Active) -> Active]
           /\ Len(order) = Cardinality(Active)
           /\ order # <<>> => Len(order) # 0
<1>1. IsFiniteSet(Active)
  BY IntakeAssumption, FS_Subset DEF Active, TypeOK
<1>2. Cardinality(Active) \in Nat
  BY <1>1, FS_CardinalityType
<1>3. order \in [1 .. Cardinality(Active) -> Active]
  BY DEF Orders, SetToSeqs
<1>4. order \in Seq(Active) /\ Len(order) = Cardinality(Active)
  BY <1>2, <1>3
<1> QED BY <1>2, <1>3, <1>4

\* Positions count round and round.
LEMMA Around ==
    ASSUME NEW n \in Nat \ {0}, NEW i \in Int
    PROVE  ((i - 1) % n) + 1 \in 1 .. n
OBVIOUS

\* The account whose turn it is is a connected one of the campaign.
LEMMA TurnIsActive ==
    ASSUME TypeOK, NEW order \in Orders, NEW i \in Int
    PROVE  /\ order = <<>> => Turn(order, i) = NoAccount
           /\ order # <<>> => Turn(order, i) \in Active
<1>1. CASE order # <<>>
  <2>1. PICK n \in Nat \ {0} : n = Len(order) /\ order \in [1 .. n -> Active]
    BY <1>1, OrdersAreSequences
  <2>2. ((i - 1) % n) + 1 \in 1 .. n
    BY Around
  <2> QED BY <1>1, <2>1, <2>2 DEF Turn
<1> QED BY <1>1 DEF Turn

\* The new people of a batch, and what they are given.
LEMMA TargetShares ==
    ASSUME TypeOK, NEW batch \in SeqOf(People \cup {Blank}, MaxBatch), NEW order \in Orders,
           NEW at \in Places(batch)
    PROVE  /\ RoundRobin(batch, at, order) \in Seq(Shares)
           /\ \A s \in ToSet(RoundRobin(batch, at, order)) :
                 state[s.who] = "none" /\ s.acct \in Active \cup {NoAccount}
<1> DEFINE N == {i \in DOMAIN batch : IsNew(batch[i])}
<1>1. PICK m \in Nat : batch \in [1 .. m -> People \cup {Blank}]
  BY IntakeAssumption DEF SeqOf
<1>2. IsFiniteSet(N)
  BY <1>1, FS_Interval, FS_Subset
<1>3. PICK c \in Nat : c = Cardinality(N)
  BY <1>2, FS_CardinalityType
<1>4. at \in [1 .. c -> N]
  BY <1>3 DEF Places
<1>5. ASSUME NEW i \in 1 .. c
      PROVE  /\ batch[at[i]] \in People /\ state[batch[at[i]]] = "none"
             /\ Turn(order, i) \in Active \cup {NoAccount}
  BY <1>4, TurnIsActive DEF IsNew
<1>6. \A i \in 1 .. c :
          [who |-> batch[at[i]], acct |-> Turn(order, i)] \in Shares
  BY <1>5 DEF Shares, Active, TypeOK
<1>7. RoundRobin(batch, at, order) =
          [i \in 1 .. c |-> [who |-> batch[at[i]], acct |-> Turn(order, i)]]
  BY <1>4 DEF RoundRobin
<1>8. RoundRobin(batch, at, order) \in Seq(Shares)
  <2>1. RoundRobin(batch, at, order) \in [1 .. c -> Shares]
    BY <1>6, <1>7
  <2> QED BY <2>1
<1>9. ASSUME NEW s \in ToSet(RoundRobin(batch, at, order))
      PROVE  state[s.who] = "none" /\ s.acct \in Active \cup {NoAccount}
  <2>1. PICK i \in 1 .. c : s = [who |-> batch[at[i]], acct |-> Turn(order, i)]
    BY <1>7 DEF ToSet
  <2> QED BY <1>5, <2>1
<1> QED BY <1>8, <1>9

\* The people without an account, and what they are given.
LEMMA StartShares ==
    ASSUME TypeOK, NEW order \in Orders, order # <<>>,
           NEW tasks \in SetToSeqs({p \in People : Unassigned(p)})
    PROVE  LET gives == [i \in DOMAIN tasks |-> [who |-> tasks[i], acct |-> Turn(order, i)]]
           IN  /\ gives \in Seq(Shares)
               /\ \A s \in ToSet(gives) : Unassigned(s.who) /\ s.acct \in Active
<1> DEFINE S == {p \in People : Unassigned(p)}
           gives == [i \in DOMAIN tasks |-> [who |-> tasks[i], acct |-> Turn(order, i)]]
<1>1. IsFiniteSet(S)
  BY IntakeAssumption, FS_Subset
<1>2. PICK c \in Nat : c = Cardinality(S)
  BY <1>1, FS_CardinalityType
<1>3. tasks \in [1 .. c -> S]
  BY <1>2 DEF SetToSeqs
<1>4. ASSUME NEW i \in 1 .. c
      PROVE  /\ tasks[i] \in S /\ Turn(order, i) \in Active
             /\ [who |-> tasks[i], acct |-> Turn(order, i)] \in Shares
  <2>1. tasks[i] \in S
    BY <1>3
  <2>2. Turn(order, i) \in Active /\ Active \subseteq Accounts
    BY TurnIsActive DEF Active, TypeOK
  <2>3. tasks[i] \in People
    BY <2>1
  <2> QED BY <2>1, <2>2, <2>3 DEF Shares
<1>5. gives = [i \in 1 .. c |-> [who |-> tasks[i], acct |-> Turn(order, i)]]
  BY <1>3
<1>6. gives \in Seq(Shares)
  BY <1>4, <1>5
<1>7. ASSUME NEW s \in ToSet(gives) PROVE Unassigned(s.who) /\ s.acct \in Active
  <2>1. PICK i \in 1 .. c : s = [who |-> tasks[i], acct |-> Turn(order, i)]
    BY <1>5, <1>7 DEF ToSet
  <2> QED BY <1>4, <2>1
<1> QED BY <1>6, <1>7

\* A handler gives to each of its people one of its shares.
LEMMA ShareOf ==
    ASSUME TypeOK, NEW r \in Requests, NEW p \in {s.who : s \in Gives(r)}
    PROVE  \E s \in Gives(r) : s \in Shares /\ s.who = p /\ s.acct = AcctFor(r, p)
<1>1. \E s \in Gives(r) : s.who = p
  OBVIOUS
<1>2. PICK s \in Gives(r) : s.who = p /\ s = (CHOOSE x \in Gives(r) : x.who = p)
  BY <1>1
<1>3. Gives(r) \subseteq Shares
  BY DEF TypeOK, Gives, ToSet
<1> QED BY <1>2, <1>3 DEF AcctFor

-----------------------------------------------------------------------------
(***************************************************************************)
(* Accounts.                                                               *)
(***************************************************************************)

\* Requests a step leaves as they are have the same shares.
LEMMA SameShares == UNCHANGED req => (\A r \in Requests : Gives(r)' = Gives(r)) /\ Starts' = Starts
BY DEF Gives, ToSet, Starts

\* A link makes more accounts linked and changes nothing else.
LEMMA AssignStep ==
    ASSUME IInv, NEW a \in Accounts, Assign(a)
    PROVE  IInv'
<1> USE DEF Assign, acctVars, taskVars, execVars, ghostVars
<1>1. TypeOK'
  BY DEF IInv, TypeOK
<1>2. Linked' /\ OwnerLinked' /\ GivesLinked' /\ TaskLinked'
  BY SameShares DEF IInv, Linked, OwnerLinked, GivesLinked, TaskLinked
<1>3. NoneUnowned' /\ TaskOwned' /\ StartGives'
  BY SameShares DEF IInv, NoneUnowned, TaskOwned, StartGives
<1>4. OneStart' /\ StillUnowned' /\ OwnTask' /\ InvitedByOwner'
  BY SameShares DEF IInv, OneStart, StillUnowned, OwnTask, InvitedByOwner, Starts
<1> QED BY <1>1, <1>2, <1>3, <1>4 DEF IInv

\* Pausing keeps an account.
LEMMA ToggleStep ==
    ASSUME IInv, NEW a \in Accounts, Toggle(a)
    PROVE  IInv'
<1> USE IntakeAssumption DEF Toggle, acctVars, taskVars, execVars, ghostVars
<1>1. TypeOK'
  BY DEF IInv, TypeOK, States, OwnerLinked, Linked, TaskOwned
<1>2. Linked' /\ OwnerLinked' /\ GivesLinked' /\ TaskLinked'
  BY SameShares DEF IInv, TypeOK, Linked, OwnerLinked, GivesLinked, TaskLinked
<1>3. NoneUnowned' /\ TaskOwned' /\ StartGives'
  BY SameShares
  DEF IInv, TypeOK, NoneUnowned, TaskOwned, StartGives, OwnerLinked, TaskLinked
<1>4. OneStart' /\ StillUnowned' /\ OwnTask' /\ InvitedByOwner'
  BY SameShares
  DEF IInv, TypeOK, OneStart, StillUnowned, OwnTask, InvitedByOwner, NoneUnowned,
      OwnerLinked, StartGives, Starts, TaskOwned
<1> QED BY <1>1, <1>2, <1>3, <1>4 DEF IInv

\* Nor does the deletion at Unipile touch the database.
LEMMA UnlinkStep ==
    ASSUME IInv, NEW a \in Accounts, Unlink(a)
    PROVE  IInv'
<1> USE IntakeAssumption DEF Unlink, acctVars, taskVars, execVars, ghostVars
<1>1. TypeOK'
  BY DEF IInv, TypeOK, States, OwnerLinked, Linked, TaskOwned
<1>2. Linked' /\ OwnerLinked' /\ GivesLinked' /\ TaskLinked'
  BY SameShares DEF IInv, TypeOK, Linked, OwnerLinked, GivesLinked, TaskLinked
<1>3. NoneUnowned' /\ TaskOwned' /\ StartGives'
  BY SameShares
  DEF IInv, TypeOK, NoneUnowned, TaskOwned, StartGives, OwnerLinked, TaskLinked
<1>4. OneStart' /\ StillUnowned' /\ OwnTask' /\ InvitedByOwner'
  BY SameShares
  DEF IInv, TypeOK, OneStart, StillUnowned, OwnTask, InvitedByOwner, NoneUnowned,
      OwnerLinked, StartGives, Starts, TaskOwned
<1> QED BY <1>1, <1>2, <1>3, <1>4 DEF IInv

\* Only an account without a link goes, and it has no people to lose.
LEMMA DeleteRowStep ==
    ASSUME IInv, NEW a \in Accounts, DeleteRow(a)
    PROVE  IInv'
<1> USE IntakeAssumption DEF DeleteRow, ForeignKeysAllow, acctVars, taskVars, execVars, ghostVars
<1>1. TypeOK'
  BY DEF IInv, TypeOK, States, OwnerLinked, Linked, TaskOwned
<1>2. Linked' /\ OwnerLinked' /\ GivesLinked' /\ TaskLinked'
  BY SameShares DEF IInv, TypeOK, Linked, OwnerLinked, GivesLinked, TaskLinked
<1>3. NoneUnowned' /\ TaskOwned' /\ StartGives'
  BY SameShares
  DEF IInv, TypeOK, NoneUnowned, TaskOwned, StartGives, OwnerLinked, TaskLinked
<1>4. OneStart' /\ StillUnowned' /\ OwnTask' /\ InvitedByOwner'
  BY SameShares
  DEF IInv, TypeOK, OneStart, StillUnowned, OwnTask, InvitedByOwner, NoneUnowned,
      OwnerLinked, StartGives, Starts, TaskOwned
<1> QED BY <1>1, <1>2, <1>3, <1>4 DEF IInv

\* An import takes a person nobody has.
LEMMA ImportLeadStep ==
    ASSUME IInv, NEW a \in Accounts, NEW p \in People, ImportLead(a, p)
    PROVE  IInv'
<1> USE IntakeAssumption DEF ImportLead, acctVars, taskVars, execVars, ghostVars
<1>1. TypeOK'
  BY DEF IInv, TypeOK, States, OwnerLinked, Linked, TaskOwned
<1>2. Linked' /\ OwnerLinked' /\ GivesLinked' /\ TaskLinked'
  BY SameShares DEF IInv, TypeOK, Linked, OwnerLinked, GivesLinked, TaskLinked
<1>3. NoneUnowned' /\ TaskOwned' /\ StartGives'
  BY SameShares
  DEF IInv, TypeOK, NoneUnowned, TaskOwned, StartGives, OwnerLinked, TaskLinked
<1>4. OneStart' /\ StillUnowned' /\ OwnTask' /\ InvitedByOwner'
  BY SameShares
  DEF IInv, TypeOK, OneStart, StillUnowned, OwnTask, InvitedByOwner, NoneUnowned,
      OwnerLinked, StartGives, Starts, TaskOwned
<1> QED BY <1>1, <1>2, <1>3, <1>4 DEF IInv

\* The planner takes an account's own tasks.
LEMMA PlanStep ==
    ASSUME IInv, NEW a \in Accounts, NEW p \in People, Plan(a, p)
    PROVE  IInv'
<1> USE IntakeAssumption DEF Plan, Own, acctVars, taskVars, execVars, ghostVars
<1>1. TypeOK'
  BY DEF IInv, TypeOK, States, OwnerLinked, Linked, TaskOwned
<1>2. Linked' /\ OwnerLinked' /\ GivesLinked' /\ TaskLinked'
  BY SameShares DEF IInv, TypeOK, Linked, OwnerLinked, GivesLinked, TaskLinked
<1>3. NoneUnowned' /\ TaskOwned' /\ StartGives'
  BY SameShares
  DEF IInv, TypeOK, NoneUnowned, TaskOwned, StartGives, OwnerLinked, TaskLinked
<1>4. OneStart' /\ StillUnowned' /\ OwnTask' /\ InvitedByOwner'
  BY SameShares
  DEF IInv, TypeOK, OneStart, StillUnowned, OwnTask, InvitedByOwner, NoneUnowned,
      OwnerLinked, StartGives, Starts, TaskOwned
<1> QED BY <1>1, <1>2, <1>3, <1>4 DEF IInv

\* The executor works for the owner of the task.
LEMMA PickStep ==
    ASSUME IInv, NEW a \in Accounts, NEW p \in People, Pick(a, p)
    PROVE  IInv'
<1> USE IntakeAssumption DEF Pick, Own, acctVars, taskVars, execVars, ghostVars
<1>1. TypeOK'
  BY DEF IInv, TypeOK, States, OwnerLinked, Linked, TaskOwned
<1>2. Linked' /\ OwnerLinked' /\ GivesLinked' /\ TaskLinked'
  BY SameShares DEF IInv, TypeOK, Linked, OwnerLinked, GivesLinked, TaskLinked
<1>3. NoneUnowned' /\ TaskOwned' /\ StartGives'
  BY SameShares
  DEF IInv, TypeOK, NoneUnowned, TaskOwned, StartGives, OwnerLinked, TaskLinked
<1>4. OneStart' /\ StillUnowned' /\ OwnTask' /\ InvitedByOwner'
  BY SameShares
  DEF IInv, TypeOK, OneStart, StillUnowned, OwnTask, InvitedByOwner, NoneUnowned,
      OwnerLinked, StartGives, Starts, TaskOwned
<1> QED BY <1>1, <1>2, <1>3, <1>4 DEF IInv

\* An invitation goes out from the account that works on the task, its owner.
LEMMA InviteStep ==
    ASSUME IInv, NEW a \in Accounts, Invite(a)
    PROVE  IInv'
<1> USE IntakeAssumption DEF Invite, acctVars, taskVars, execVars, ghostVars
<1>1. TypeOK'
  BY DEF IInv, TypeOK, States, OwnerLinked, Linked, TaskOwned
<1>2. Linked' /\ OwnerLinked' /\ GivesLinked' /\ TaskLinked'
  BY SameShares DEF IInv, TypeOK, Linked, OwnerLinked, GivesLinked, TaskLinked
<1>3. NoneUnowned' /\ TaskOwned' /\ StartGives'
  BY SameShares
  DEF IInv, TypeOK, NoneUnowned, TaskOwned, StartGives, OwnerLinked, TaskLinked
<1>4. OneStart' /\ StillUnowned' /\ OwnTask' /\ InvitedByOwner'
  BY SameShares
  DEF IInv, TypeOK, OneStart, StillUnowned, OwnTask, InvitedByOwner, NoneUnowned,
      OwnerLinked, StartGives, Starts, TaskOwned
<1> QED BY <1>1, <1>2, <1>3, <1>4 DEF IInv

\* A refusal leaves no invitation.
LEMMA RefuseStep ==
    ASSUME IInv, NEW a \in Accounts, Refuse(a)
    PROVE  IInv'
<1> USE IntakeAssumption DEF Refuse, acctVars, taskVars, execVars, ghostVars
<1>1. TypeOK'
  BY DEF IInv, TypeOK, States, OwnerLinked, Linked, TaskOwned
<1>2. Linked' /\ OwnerLinked' /\ GivesLinked' /\ TaskLinked'
  BY SameShares DEF IInv, TypeOK, Linked, OwnerLinked, GivesLinked, TaskLinked
<1>3. NoneUnowned' /\ TaskOwned' /\ StartGives'
  BY SameShares
  DEF IInv, TypeOK, NoneUnowned, TaskOwned, StartGives, OwnerLinked, TaskLinked
<1>4. OneStart' /\ StillUnowned' /\ OwnTask' /\ InvitedByOwner'
  BY SameShares
  DEF IInv, TypeOK, OneStart, StillUnowned, OwnTask, InvitedByOwner, NoneUnowned,
      OwnerLinked, StartGives, Starts, TaskOwned
<1> QED BY <1>1, <1>2, <1>3, <1>4 DEF IInv

\* A task that is worked on keeps its owner whatever becomes of it.
LEMMA FinishStep ==
    ASSUME IInv, NEW a \in Accounts, Finish(a)
    PROVE  IInv'
<1> USE IntakeAssumption DEF Finish, acctVars, taskVars, execVars, ghostVars
<1>1. TypeOK'
  BY DEF IInv, TypeOK, States, OwnerLinked, Linked, TaskOwned
<1>2. Linked' /\ OwnerLinked' /\ GivesLinked' /\ TaskLinked'
  BY SameShares DEF IInv, TypeOK, Linked, OwnerLinked, GivesLinked, TaskLinked
<1>3. NoneUnowned' /\ TaskOwned' /\ StartGives'
  BY SameShares
  DEF IInv, TypeOK, NoneUnowned, TaskOwned, StartGives, OwnerLinked, TaskLinked
<1>4. OneStart' /\ StillUnowned' /\ OwnTask' /\ InvitedByOwner'
  BY SameShares
  DEF IInv, TypeOK, OneStart, StillUnowned, OwnTask, InvitedByOwner, NoneUnowned,
      OwnerLinked, StartGives, Starts, TaskOwned
<1> QED BY <1>1, <1>2, <1>3, <1>4 DEF IInv

-----------------------------------------------------------------------------
(***************************************************************************)
(* Requests.                                                               *)
(***************************************************************************)

\* What r gives after it has read; the others give what they gave.
LEMMA ReadShares ==
    ASSUME TypeOK, NEW r \in Requests, NEW k \in {"targets", "start"}, NEW g \in Seq(Shares),
           req' = [req EXCEPT ![r] = [kind |-> k, gives |-> g]]
    PROVE  /\ req' \in [Requests -> [kind : {"idle", "targets", "start"}, gives : Seq(Shares)]]
           /\ req'[r].kind = k /\ Gives(r)' = ToSet(g)
           /\ \A q \in Requests \ {r} : req'[q].kind = req[q].kind /\ Gives(q)' = Gives(q)
BY DEF TypeOK, Gives, ToSet

\* The new people were nobody's when their task was not there.
LEMMA TargetsReadStep ==
    ASSUME IInv, NEW r \in Requests, TargetsRead(r)
    PROVE  IInv'
<1> USE DEF TargetsRead, acctVars, taskVars, execVars, ghostVars
<1>1. PICK g \in Seq(Shares) :
          /\ req' = [req EXCEPT ![r] = [kind |-> "targets", gives |-> g]]
          /\ \A s \in ToSet(g) : s.acct \in Active \cup {NoAccount}
  BY TargetShares DEF IInv
<1>2. /\ req' \in [Requests -> [kind : {"idle", "targets", "start"}, gives : Seq(Shares)]]
      /\ req'[r].kind = "targets" /\ Gives(r)' = ToSet(g)
      /\ \A q \in Requests \ {r} : req'[q].kind = req[q].kind /\ Gives(q)' = Gives(q)
  BY <1>1, ReadShares DEF IInv
<1>3. TypeOK'
  BY <1>2 DEF IInv, TypeOK
<1>4. Linked' /\ OwnerLinked' /\ GivesLinked' /\ TaskLinked'
  BY <1>1, <1>2 DEF IInv, Linked, OwnerLinked, GivesLinked, TaskLinked, Active
<1>5. NoneUnowned' /\ TaskOwned' /\ StartGives'
  BY <1>2 DEF IInv, NoneUnowned, TaskOwned, StartGives
<1>6. OneStart' /\ StillUnowned' /\ OwnTask' /\ InvitedByOwner'
  BY <1>2 DEF IInv, OneStart, StillUnowned, OwnTask, InvitedByOwner, Starts
<1> QED BY <1>3, <1>4, <1>5, <1>6 DEF IInv

\* The people a start found have a task and no account; another start under way
\* makes it an overlap.
LEMMA StartReadStep ==
    ASSUME IInv, NEW r \in Requests, StartRead(r)
    PROVE  IInv'
<1> USE DEF StartRead, acctVars, taskVars, execVars
<1>1. PICK g \in Seq(Shares) :
          /\ req' = [req EXCEPT ![r] = [kind |-> "start", gives |-> g]]
          /\ \A s \in ToSet(g) : Unassigned(s.who) /\ s.acct \in Active
  <2>1. PICK tasks \in SetToSeqs({p \in People : Unassigned(p)}), order \in Orders :
            req' = [req EXCEPT ![r] =
                      [kind |-> "start",
                       gives |-> IF order = <<>> THEN <<>>
                                 ELSE [i \in DOMAIN tasks |->
                                         [who |-> tasks[i], acct |-> Turn(order, i)]]]]
    OBVIOUS
  <2>2. CASE order = <<>>
    <3>1. <<>> \in Seq(Shares) /\ ToSet(<<>>) = {}
      BY DEF ToSet
    <3> QED BY <2>1, <2>2, <3>1
  <2>3. CASE order # <<>>
    BY <2>1, <2>3, StartShares DEF IInv
  <2> QED BY <2>2, <2>3
<1>2. /\ req' \in [Requests -> [kind : {"idle", "targets", "start"}, gives : Seq(Shares)]]
      /\ req'[r].kind = "start" /\ Gives(r)' = ToSet(g)
      /\ \A q \in Requests \ {r} : req'[q].kind = req[q].kind /\ Gives(q)' = Gives(q)
  BY <1>1, ReadShares DEF IInv
<1>3. TypeOK'
  BY <1>2 DEF IInv, TypeOK
<1>4. Linked' /\ OwnerLinked' /\ GivesLinked' /\ TaskLinked'
  BY <1>1, <1>2 DEF IInv, Linked, OwnerLinked, GivesLinked, TaskLinked, Active
<1>5. NoneUnowned' /\ TaskOwned' /\ StartGives'
  <2>1. \A s \in ToSet(g) : s.acct # NoAccount /\ state[s.who] # "none"
    BY <1>1, IntakeAssumption DEF Unassigned, Active, IInv, TypeOK
  <2> QED BY <1>2, <2>1 DEF IInv, NoneUnowned, TaskOwned, StartGives
<1>6. OneStart'
  BY <1>2 DEF IInv, OneStart, Starts
<1>7. StillUnowned' /\ OwnTask' /\ InvitedByOwner'
  <2>1. ASSUME ~overlap', NEW q \in Starts' PROVE q = r
    BY <2>1, <1>2 DEF Starts
  <2>2. \A s \in ToSet(g) : owner[s.who] = NoAccount
    BY <1>1 DEF Unassigned
  <2>3. StillUnowned'
    BY <1>2, <2>1, <2>2 DEF StillUnowned
  <2> QED BY <2>3 DEF IInv, OwnTask, InvitedByOwner
<1> QED BY <1>3, <1>4, <1>5, <1>6, <1>7 DEF IInv

\* A request that has committed gives nothing.
LEMMA CommitShares ==
    ASSUME TypeOK, NEW r \in Requests, req' = [req EXCEPT ![r] = Idle]
    PROVE  /\ req' \in [Requests -> [kind : {"idle", "targets", "start"}, gives : Seq(Shares)]]
           /\ req'[r].kind = "idle" /\ Gives(r)' = {}
           /\ \A q \in Requests \ {r} : req'[q].kind = req[q].kind /\ Gives(q)' = Gives(q)
BY DEF TypeOK, Gives, ToSet, Idle

\* The key lets only people without a task in, who had no account, no
\* invitation and no start to give them one.
LEMMA TargetsCommitStep ==
    ASSUME IInv, NEW r \in Requests, TargetsCommit(r)
    PROVE  IInv'
<1> DEFINE added == {s.who : s \in Gives(r)}
<1> USE DEF TargetsCommit, acctVars, taskVars, execVars, ghostVars
<1>1. /\ req' \in [Requests -> [kind : {"idle", "targets", "start"}, gives : Seq(Shares)]]
      /\ req'[r].kind = "idle" /\ Gives(r)' = {}
      /\ \A q \in Requests \ {r} : req'[q].kind = req[q].kind /\ Gives(q)' = Gives(q)
  BY CommitShares DEF IInv
<1>2. \A p \in People : \/ state'[p] = state[p] /\ owner'[p] = owner[p]
                        \/ /\ state[p] = "none" /\ state'[p] = "pending"
                           /\ owner'[p] \in linked \cup {NoAccount}
  <2>1. CASE KeyAllows(r)
    <3>1. ASSUME NEW p \in People, p \in added
          PROVE  state[p] = "none" /\ AcctFor(r, p) \in linked \cup {NoAccount}
      BY <2>1, <3>1, ShareOf DEF IInv, GivesLinked, KeyAllows
    <3> QED BY <2>1, <3>1
  <2>2. CASE ~KeyAllows(r)
    BY <2>2
  <2> QED BY <2>1, <2>2
<1>3. state' \in [People -> States] /\ owner' \in [People -> Accounts \cup {NoAccount}]
  <2>1. CASE KeyAllows(r)
    <3>1. /\ state' = [p \in People |-> IF p \in added THEN "pending" ELSE state[p]]
          /\ owner' = [p \in People |-> IF p \in added THEN AcctFor(r, p) ELSE owner[p]]
      BY <2>1
    <3>2. \A p \in People : state'[p] \in States /\ owner'[p] \in Accounts \cup {NoAccount}
      BY <1>2 DEF IInv, TypeOK, States
    <3> QED BY <3>1, <3>2
  <2>2. CASE ~KeyAllows(r)
    BY <2>2 DEF IInv, TypeOK
  <2> QED BY <2>1, <2>2
<1>4. TypeOK'
  BY <1>1, <1>2, <1>3 DEF IInv, TypeOK
<1>5. Linked' /\ OwnerLinked' /\ GivesLinked' /\ TaskLinked'
  BY <1>1, <1>2 DEF IInv, Linked, OwnerLinked, GivesLinked, TaskLinked
<1>6. NoneUnowned' /\ TaskOwned'
  BY <1>2 DEF IInv, TypeOK, NoneUnowned, TaskOwned
<1>7. ASSUME NEW q \in Requests, NEW s \in Gives(q) PROVE s.who \in People
  <2>1. req[q].gives \in Seq(Shares)
    BY DEF IInv, TypeOK
  <2>2. s \in Shares
    BY <2>1 DEF Gives, ToSet
  <2> QED BY <2>2 DEF Shares
<1>8. StartGives' /\ OneStart' /\ StillUnowned'
  BY <1>1, <1>2, <1>7 DEF IInv, StartGives, OneStart, StillUnowned, Starts
<1>9. OwnTask' /\ InvitedByOwner'
  BY <1>2, IntakeAssumption DEF IInv, TypeOK, OwnTask, InvitedByOwner, NoneUnowned, TaskOwned
<1> QED BY <1>4, <1>5, <1>6, <1>8, <1>9 DEF IInv

\* The only start under way takes nobody's people from anyone.
LEMMA StartCommitStep ==
    ASSUME IInv, NEW r \in Requests, StartCommit(r)
    PROVE  IInv'
<1> DEFINE given == {s.who : s \in Gives(r)}
<1> USE DEF StartCommit, acctVars, execVars, ghostVars
<1>1. /\ req' \in [Requests -> [kind : {"idle", "targets", "start"}, gives : Seq(Shares)]]
      /\ req'[r].kind = "idle" /\ Gives(r)' = {}
      /\ \A q \in Requests \ {r} : req'[q].kind = req[q].kind /\ Gives(q)' = Gives(q)
  BY CommitShares DEF IInv
<1>2. \A p \in People : \/ owner'[p] = owner[p]
                        \/ /\ state[p] # "none" /\ owner'[p] \in linked
                           /\ owner'[p] # NoAccount
                           /\ ~overlap => owner[p] = NoAccount
  <2>1. ASSUME NEW p \in People, p \in given
        PROVE  /\ state[p] # "none" /\ AcctFor(r, p) \in linked /\ AcctFor(r, p) # NoAccount
               /\ ~overlap => owner[p] = NoAccount
    BY <2>1, ShareOf DEF IInv, GivesLinked, StartGives, StillUnowned, Starts
  <2> QED BY <2>1
<1>3. owner' \in [People -> Accounts \cup {NoAccount}]
  <2>1. owner' = [p \in People |-> IF p \in given THEN AcctFor(r, p) ELSE owner[p]]
    OBVIOUS
  <2>2. \A p \in People : owner'[p] \in Accounts \cup {NoAccount}
    BY <1>2 DEF IInv, TypeOK
  <2> QED BY <2>1, <2>2
<1>4. TypeOK'
  BY <1>1, <1>2, <1>3 DEF IInv, TypeOK
<1>5. Linked' /\ OwnerLinked' /\ GivesLinked' /\ TaskLinked'
  BY <1>1, <1>2 DEF IInv, Linked, OwnerLinked, GivesLinked, TaskLinked
<1>6. NoneUnowned' /\ TaskOwned' /\ StartGives'
  BY <1>1, <1>2 DEF IInv, TypeOK, NoneUnowned, TaskOwned, StartGives
<1>7. OneStart' /\ StillUnowned'
  BY <1>1 DEF IInv, OneStart, StillUnowned, Starts
<1>8. OwnTask' /\ InvitedByOwner'
  BY <1>2, IntakeAssumption DEF IInv, TypeOK, OwnTask, InvitedByOwner, TaskOwned
<1> QED BY <1>4, <1>5, <1>6, <1>7, <1>8 DEF IInv

-----------------------------------------------------------------------------
(***************************************************************************)
(* The invariant, and the theorems.                                        *)
(***************************************************************************)

\* No account has anything to do yet.
LEMMA InitHolds == Init => IInv
<1> SUFFICES ASSUME Init PROVE IInv
  OBVIOUS
<1> USE DEF Init
<1>1. \A r \in Requests : Gives(r) = {} /\ req[r].kind = "idle"
  BY DEF Gives, ToSet, Idle
<1>2. TypeOK
  <2>1. Idle \in [kind : {"idle", "targets", "start"}, gives : Seq(Shares)]
    BY DEF Idle
  <2>2. req \in [Requests -> [kind : {"idle", "targets", "start"}, gives : Seq(Shares)]]
    BY <2>1
  <2> QED BY <2>2 DEF TypeOK, States
<1> QED BY <1>1, <1>2 DEF IInv, Linked, OwnerLinked, GivesLinked, TaskLinked, NoneUnowned,
    TaskOwned, StartGives, OneStart, StillUnowned, OwnTask, InvitedByOwner, Starts

\* Every step, action by action.
LEMMA NextHolds == ASSUME IInv, [Next]_vars PROVE IInv'
<1>1. CASE UNCHANGED vars
  <2> USE <1>1 DEF vars, acctVars, taskVars, execVars, ghostVars
  <2>1. TypeOK' /\ Linked' /\ OwnerLinked' /\ GivesLinked' /\ TaskLinked'
    BY SameShares DEF IInv, TypeOK, Linked, OwnerLinked, GivesLinked, TaskLinked
  <2>2. NoneUnowned' /\ TaskOwned' /\ StartGives'
    BY SameShares DEF IInv, NoneUnowned, TaskOwned, StartGives
  <2>3. OneStart' /\ StillUnowned' /\ OwnTask' /\ InvitedByOwner'
    BY SameShares DEF IInv, OneStart, StillUnowned, OwnTask, InvitedByOwner, Starts
  <2> QED BY <2>1, <2>2, <2>3 DEF IInv
<1>2. ASSUME NEW a \in Accounts, Account(a) PROVE IInv'
  BY <1>2, AssignStep, ToggleStep, UnlinkStep, DeleteRowStep, ImportLeadStep, PlanStep,
     PickStep, InviteStep, RefuseStep, FinishStep DEF Account
<1>3. ASSUME NEW r \in Requests, Handler(r) PROVE IInv'
  BY <1>3, TargetsReadStep, TargetsCommitStep, StartReadStep, StartCommitStep DEF Handler
<1> QED BY <1>1, <1>2, <1>3 DEF Next

\* IInv is an invariant.
LEMMA Invariance == Spec => []IInv
BY InitHolds, NextHolds, PTL DEF Spec

\* A task that went to the planner has an account, whatever starts, deletions
\* and batches do to the owners of tasks.
THEOREM TypeCorrect == Spec => []TypeOK
BY Invariance, PTL DEF IInv

\* No task, handler or executor has an account that was deleted.
THEOREM OwnersExist == Spec => []OwnerExists
<1>1. IInv => OwnerExists
  BY DEF IInv, Linked, OwnerLinked, GivesLinked, TaskLinked, OwnerExists
<1> QED BY <1>1, Invariance, PTL

\* While starts do not overlap, every person is invited by one account at most.
THEOREM InvitedOnce == Spec => []OneAccount
<1>1. ASSUME IInv, ~overlap, NEW p \in People PROVE Cardinality(invitedBy[p]) <= 1
  <2>1. PICK a : a = owner[p]
    OBVIOUS
  <2>2. invitedBy[p] \subseteq {a}
    BY <1>1, <2>1 DEF IInv, InvitedByOwner
  <2>3. IsFiniteSet({a}) /\ Cardinality({a}) = 1
    BY FS_Singleton
  <2> QED BY <2>2, <2>3, FS_Subset
<1>2. IInv => OneAccount
  BY <1>1 DEF OneAccount
<1> QED BY <1>2, Invariance, PTL

-----------------------------------------------------------------------------
(***************************************************************************)
(* Balance.                                                                *)
(***************************************************************************)

\* Division by the number of accounts.
LEMMA Division ==
    ASSUME NEW n \in Int, n > 0, NEW x \in Int
    PROVE  \E q \in Int : x = q * n + (x % n)
BY SMTT(60)

\* The same with the remainder named.
LEMMA Quotient ==
    ASSUME NEW n \in Nat \ {0}, NEW x \in Int
    PROVE  \E q \in Int, r \in 0 .. n - 1 : r = x % n /\ x = q * n + r
<1>1. \E q \in Int : x = q * n + (x % n)
  <2>1. n \in Int /\ n > 0
    OBVIOUS
  <2> QED BY <2>1, Division
<1>2. x % n \in 0 .. n - 1
  OBVIOUS
<1> QED BY <1>1, <1>2

\* And back.
LEMMA Remainder ==
    ASSUME NEW n \in Nat \ {0}, NEW q \in Int, NEW r \in 0 .. n - 1
    PROVE  (q * n + r) % n = r
OBVIOUS

\* From the turn of one account to that of another in the same round, or in
\* the round before.
LEMMA Shift ==
    ASSUME NEW n \in Nat \ {0}, NEW x \in Int, NEW d \in Int, (x % n) + d \in 0 .. n - 1
    PROVE  /\ (x + d) % n = (x % n) + d
           /\ (x + d - n) % n = (x % n) + d
<1>1. PICK q \in Int, r \in 0 .. n - 1 : r = x % n /\ x = q * n + r
  BY Quotient
<1>2. PICK e \in 0 .. n - 1 : e = r + d
  BY <1>1
<1>3. x + d = q * n + e /\ x + d - n = (q - 1) * n + e /\ (x % n) + d = e
  <2>1. (q - 1) * n = q * n - n
    OBVIOUS
  <2>2. (x % n) + d = e
    BY <1>1, <1>2
  <2>3. PICK m \in Int : m = q * n
    OBVIOUS
  <2>4. x = m + r
    BY <1>1, <2>3, Zenon
  <2>5. x + d = m + e /\ x + d - n = (m - n) + e
    BY <1>2, <2>4
  <2> QED BY <2>1, <2>2, <2>3, <2>5, Zenon
<1>4. (q * n + e) % n = e /\ ((q - 1) * n + e) % n = e
  BY Remainder
<1> QED BY <1>3, <1>4, Zenon

\* Every round but the first lies a whole round further.
LEMMA Rounds ==
    ASSUME NEW n \in Nat \ {0}, NEW x \in Nat
    PROVE  x % n <= x /\ (x % n # x => x >= n + (x % n))
<1>1. PICK q \in Int, r \in 0 .. n - 1 : r = x % n /\ x = q * n + r
  BY Quotient
<1>2. q >= 0
  <2>1. CASE q <= -1
    <3>1. q * n <= (-1) * n
      BY <2>1
    <3> QED BY <3>1, <1>1
  <2> QED BY <2>1
<1>3. CASE q = 0
  BY <1>1, <1>3
<1>4. CASE q >= 1
  <2>1. q * n >= 1 * n
    BY <1>4
  <2> QED BY <1>1, <2>1
<1> QED BY <1>2, <1>3, <1>4

\* Those of the first c shares that fall to the one at place j of n.
TurnsOf(c, n, j) == {i \in 1 .. c : ((i - 1) % n) + 1 = j}

\* The shares of one account go, one by one, to shares of another: those of
\* the same round, or of the round before, of which only the first has none.
LEMMA FairTurns ==
    ASSUME NEW n \in Nat \ {0}, NEW c \in Nat, NEW j \in 1 .. n, NEW k \in 1 .. n
    PROVE  Cardinality(TurnsOf(c, n, j)) <= Cardinality(TurnsOf(c, n, k)) + 1
<1>1. \A x \in 1 .. n : IsFiniteSet(TurnsOf(c, n, x)) /\ Cardinality(TurnsOf(c, n, x)) \in Nat
  <2>1. IsFiniteSet(1 .. c)
    BY FS_Interval
  <2>2. ASSUME NEW x \in 1 .. n PROVE IsFiniteSet(TurnsOf(c, n, x))
    <3>1. TurnsOf(c, n, x) \subseteq 1 .. c
      BY DEF TurnsOf
    <3> QED BY <2>1, <3>1, FS_Subset
  <2> QED BY <2>2, FS_CardinalityType
<1>2. ASSUME NEW S \in SUBSET TurnsOf(c, n, j), NEW d \in Int,
             \A i \in S : i + d \in TurnsOf(c, n, k)
      PROVE  Cardinality(S) <= Cardinality(TurnsOf(c, n, k))
  <2> DEFINE f == [i \in S |-> i + d]
  <2>1. S \subseteq Int
    BY DEF TurnsOf
  <2>2. f \in [S -> TurnsOf(c, n, k)]
    BY <1>2
  <2>3. \A x, y \in S : f[x] = f[y] => x = y
    BY <2>1
  <2>4. f \in Injection(S, TurnsOf(c, n, k))
    BY <2>2, <2>3 DEF Injection, IsInjective
  <2> QED BY <1>1, <2>4, FS_Injection
<1>3. ASSUME NEW i \in TurnsOf(c, n, j)
      PROVE  i \in 1 .. c /\ (i - 1) % n = j - 1 /\ i >= j /\ (i # j => i >= n + j)
  <2>1. i \in 1 .. c /\ i - 1 \in Nat /\ ((i - 1) % n) + 1 = j
    BY DEF TurnsOf
  <2>2. (i - 1) % n = j - 1
    BY <2>1
  <2>3. j - 1 <= i - 1 /\ (j - 1 # i - 1 => i - 1 >= n + (j - 1))
    BY <2>1, <2>2, Rounds
  <2> QED BY <2>1, <2>2, <2>3
<1>4. ASSUME NEW i \in TurnsOf(c, n, j)
      PROVE  /\ ((i - 1) + (k - j)) % n = k - 1
             /\ ((i - 1) + (k - j) - n) % n = k - 1
  <2>1. PICK x \in Int : x = i - 1
    BY <1>3
  <2>2. PICK d \in Int : d = k - j
    OBVIOUS
  <2>3. x % n = j - 1 /\ (x % n) + d = k - 1 /\ (x % n) + d \in 0 .. n - 1
    BY <1>3, <2>1, <2>2
  <2>4. (x + d) % n = (x % n) + d /\ (x + d - n) % n = (x % n) + d
    BY <2>3, Shift
  <2> QED BY <2>1, <2>2, <2>3, <2>4
<1>5. CASE k <= j
  <2>1. ASSUME NEW i \in TurnsOf(c, n, j) PROVE i + (k - j) \in TurnsOf(c, n, k)
    <3>1. ((i - 1) + (k - j)) % n = k - 1
      BY <1>4
    <3>2. i + (k - j) \in 1 .. c
      BY <1>3, <1>5
    <3>3. (i + (k - j)) - 1 = (i - 1) + (k - j)
      BY <1>3
    <3> QED BY <3>1, <3>2, <3>3 DEF TurnsOf
  <2>2. Cardinality(TurnsOf(c, n, j)) <= Cardinality(TurnsOf(c, n, k))
    BY <1>2, <2>1
  <2> QED BY <1>1, <2>2
<1>6. CASE k > j
  <2> DEFINE S == TurnsOf(c, n, j) \ {j}
  <2>1. ASSUME NEW i \in S PROVE i + (k - j - n) \in TurnsOf(c, n, k)
    <3>1. ((i - 1) + (k - j) - n) % n = k - 1
      BY <1>4
    <3>2. i + (k - j - n) \in 1 .. c
      BY <1>3, <1>6
    <3>3. (i + (k - j - n)) - 1 = (i - 1) + (k - j) - n
      BY <1>3
    <3> QED BY <3>1, <3>2, <3>3 DEF TurnsOf
  <2>2. Cardinality(S) <= Cardinality(TurnsOf(c, n, k))
    BY <1>2, <2>1
  <2>3. Cardinality(TurnsOf(c, n, j)) <= Cardinality(S) + 1
    <3>1. Cardinality(S) = IF j \in TurnsOf(c, n, j)
                           THEN Cardinality(TurnsOf(c, n, j)) - 1
                           ELSE Cardinality(TurnsOf(c, n, j))
      BY <1>1, FS_RemoveElement
    <3> QED BY <1>1, <3>1
  <2> QED BY <1>1, <2>2, <2>3, FS_Subset, FS_CardinalityType
<1> QED BY <1>5, <1>6

\* Every account of an order has one place in it.
LEMMA PlaceInOrder ==
    ASSUME TypeOK, NEW order \in Orders, NEW a \in Active
    PROVE  /\ Len(order) \in Nat \ {0} /\ DOMAIN order = 1 .. Len(order)
           /\ \E j \in 1 .. Len(order) :
                 \A i \in 1 .. Len(order) : order[i] = a <=> i = j
<1>1. IsFiniteSet(Active)
  BY IntakeAssumption, FS_Subset DEF Active, TypeOK
<1>2. PICK n \in Nat : n = Cardinality(Active)
  BY <1>1, FS_CardinalityType
<1>3. order \in [1 .. n -> Active] /\ Len(order) = n
  BY <1>2, OrdersAreSequences
<1>4. \A i, j \in 1 .. n : i # j => order[i] # order[j]
  BY <1>2 DEF Orders, SetToSeqs
<1>5. \E j \in 1 .. n : order[j] = a
  <2>1. SUFFICES ASSUME \A j \in 1 .. n : order[j] # a PROVE FALSE
    OBVIOUS
  <2>2. order \in [1 .. n -> Active \ {a}]
    BY <1>3, <2>1
  <2>3. order \in Injection(1 .. n, Active \ {a})
    BY <1>4, <2>2 DEF Injection, IsInjective
  <2>4. IsFiniteSet(Active \ {a}) /\ Cardinality(Active \ {a}) = n - 1
    BY <1>1, <1>2, FS_RemoveElement
  <2>5. Cardinality(1 .. n) <= Cardinality(Active \ {a})
    BY <2>3, <2>4, FS_Injection
  <2>6. Cardinality(1 .. n) = n
    BY FS_Interval
  <2> QED BY <2>4, <2>5, <2>6
<1>6. PICK j \in 1 .. n : order[j] = a
  BY <1>5
<1>7. \A i \in 1 .. n : order[i] = a <=> i = j
  BY <1>4, <1>6
<1>8. n \in Nat \ {0} /\ DOMAIN order = 1 .. n
  BY <1>3, <1>6
<1> QED BY <1>3, <1>7, <1>8

\* Shares are fair when no connected account has two more than another.
Fair(g) == \A a, b \in Active : Cardinality({i \in DOMAIN g : g[i].acct = a})
                                   <= Cardinality({i \in DOMAIN g : g[i].acct = b}) + 1

\* Shares given in turn are balanced.
LEMMA TurnsAreFair ==
    ASSUME TypeOK, NEW order \in Orders, NEW c \in Nat,
           NEW g, DOMAIN g = 1 .. c, \A i \in 1 .. c : g[i].acct = Turn(order, i)
    PROVE  Fair(g)
<1> SUFFICES ASSUME NEW a \in Active, NEW b \in Active
             PROVE  Cardinality({i \in DOMAIN g : g[i].acct = a})
                        <= Cardinality({i \in DOMAIN g : g[i].acct = b}) + 1
  BY DEF Fair
<1>1. PICK n \in Nat \ {0} : n = Len(order) /\ DOMAIN order = 1 .. n
  BY PlaceInOrder
<1>2. ASSUME NEW x \in Active
      PROVE  \E j \in 1 .. n : {i \in DOMAIN g : g[i].acct = x} = TurnsOf(c, n, j)
  <2>1. PICK j \in 1 .. Len(order) : \A i \in 1 .. Len(order) : order[i] = x <=> i = j
    BY PlaceInOrder
  <2>2. ASSUME NEW i \in 1 .. c
        PROVE  /\ ((i - 1) % n) + 1 \in 1 .. n
               /\ g[i].acct = order[((i - 1) % n) + 1]
    <3>1. ((i - 1) % n) + 1 \in 1 .. n
      BY Around
    <3>2. order # <<>>
      BY <1>1
    <3> QED BY <1>1, <3>1, <3>2 DEF Turn
  <2>3. {i \in DOMAIN g : g[i].acct = x} = TurnsOf(c, n, j)
    BY <1>1, <2>1, <2>2 DEF TurnsOf
  <2> QED BY <1>1, <2>1, <2>3
<1>3. PICK j \in 1 .. n : {i \in DOMAIN g : g[i].acct = a} = TurnsOf(c, n, j)
  BY <1>2
<1>4. PICK k \in 1 .. n : {i \in DOMAIN g : g[i].acct = b} = TurnsOf(c, n, k)
  BY <1>2
<1> QED BY <1>3, <1>4, FairTurns

\* Nothing given is balanced.
LEMMA NothingIsFair == ASSUME NEW g, DOMAIN g = {} PROVE Fair(g)
<1>1. \A a : {i \in DOMAIN g : g[i].acct = a} = {}
  OBVIOUS
<1>2. Cardinality({}) = 0
  BY FS_EmptySet
<1> QED BY <1>1, <1>2 DEF Fair

\* Within one request no connected account of the campaign gets two more people
\* than another, however many accounts there are and however long the batch is.
THEOREM BatchesAreBalanced == Spec => BatchBalanced
<1> DEFINE Balanced == \A r \in Requests : req[r] # req'[r] =>
                          \A a, b \in Active : Load(r, a)' <= Load(r, b)' + 1
<1>1. ASSUME IInv, NEW r \in Requests, NEW k, NEW g, Fair(g),
             req' = [req EXCEPT ![r] = [kind |-> k, gives |-> g]]
      PROVE  Balanced
  <2>1. req'[r].gives = g /\ \A q \in Requests \ {r} : req'[q] = req[q]
    BY <1>1 DEF IInv, TypeOK
  <2>2. \A a, b \in Active : Load(r, a)' <= Load(r, b)' + 1
    BY <1>1, <2>1 DEF Load, Fair
  <2> QED BY <2>1, <2>2
<1> HIDE DEF Balanced
<1>2. ASSUME IInv, NEW r \in Requests, TargetsRead(r) PROVE Balanced
  <2>0. PICK batch \in SeqOf(People \cup {Blank}, MaxBatch), order \in Orders :
          \E at \in Places(batch) :
            req' = [req EXCEPT ![r] = [kind |-> "targets",
                                       gives |-> RoundRobin(batch, at, order)]]
    BY <1>2 DEF TargetsRead
  <2>1. PICK at \in Places(batch) :
            req' = [req EXCEPT ![r] = [kind |-> "targets",
                                       gives |-> RoundRobin(batch, at, order)]]
    BY <2>0
  <2>2. PICK g : g = RoundRobin(batch, at, order)
    OBVIOUS
  <2>3. PICK m \in Nat : batch \in [1 .. m -> People \cup {Blank}]
    BY IntakeAssumption DEF SeqOf
  <2>4. PICK c \in Nat : c = Cardinality({i \in DOMAIN batch : IsNew(batch[i])})
    <3>1. IsFiniteSet(1 .. m)
      BY FS_Interval
    <3>2. {i \in DOMAIN batch : IsNew(batch[i])} \subseteq 1 .. m
      BY <2>3
    <3>3. IsFiniteSet({i \in DOMAIN batch : IsNew(batch[i])})
      BY <3>1, <3>2, FS_Subset
    <3> QED BY <3>3, FS_CardinalityType
  <2>5. DOMAIN at = 1 .. c
    BY <2>4 DEF Places
  <2>6. DOMAIN g = 1 .. c /\ \A i \in 1 .. c : g[i].acct = Turn(order, i)
    BY <2>2, <2>5 DEF RoundRobin
  <2>7. Fair(g)
    BY <1>2, <2>6, TurnsAreFair DEF IInv
  <2>8. req' = [req EXCEPT ![r] = [kind |-> "targets", gives |-> g]]
    BY <2>1, <2>2
  <2> QED BY <1>1, <1>2, <2>7, <2>8
<1>3. ASSUME IInv, NEW r \in Requests, StartRead(r) PROVE Balanced
  <2>1. PICK tasks \in SetToSeqs({p \in People : Unassigned(p)}), order \in Orders :
            req' = [req EXCEPT ![r] =
                      [kind |-> "start",
                       gives |-> IF order = <<>> THEN <<>>
                                 ELSE [i \in DOMAIN tasks |->
                                         [who |-> tasks[i], acct |-> Turn(order, i)]]]]
    BY <1>3 DEF StartRead
  <2>2. PICK g : g = IF order = <<>> THEN <<>>
                     ELSE [i \in DOMAIN tasks |->
                             [who |-> tasks[i], acct |-> Turn(order, i)]]
    OBVIOUS
  <2>3. PICK c \in Nat : c = Cardinality({p \in People : Unassigned(p)})
    BY IntakeAssumption, FS_Subset, FS_CardinalityType
  <2>4. DOMAIN tasks = 1 .. c
    BY <2>3 DEF SetToSeqs
  <2>5. Fair(g)
    <3>1. CASE order = <<>>
      <4>1. DOMAIN g = {}
        BY <2>2, <3>1
      <4> QED BY <4>1, NothingIsFair
    <3>2. CASE order # <<>>
      <4>1. DOMAIN g = 1 .. c /\ \A i \in 1 .. c : g[i].acct = Turn(order, i)
        BY <2>2, <2>4, <3>2
      <4> QED BY <1>3, <4>1, TurnsAreFair DEF IInv
    <3> QED BY <3>1, <3>2
  <2>6. req' = [req EXCEPT ![r] = [kind |-> "start", gives |-> g]]
    BY <2>1, <2>2
  <2> QED BY <1>1, <1>3, <2>5, <2>6
<1>4. ASSUME IInv, NEW r \in Requests, TargetsCommit(r) \/ StartCommit(r) PROVE Balanced
  <2>1. req' = [req EXCEPT ![r] = [kind |-> "idle", gives |-> <<>>]]
    BY <1>4 DEF TargetsCommit, StartCommit, Idle
  <2>2. PICK g : g = <<>>
    OBVIOUS
  <2>3. Fair(g)
    BY <2>2, NothingIsFair
  <2>4. req' = [req EXCEPT ![r] = [kind |-> "idle", gives |-> g]]
    BY <2>1, <2>2
  <2> QED BY <1>1, <1>4, <2>3, <2>4
<1>5. ASSUME NEW a \in Accounts, Account(a) PROVE Balanced
  <2>1. req' = req
    BY <1>5 DEF Account, Assign, Toggle, Unlink, DeleteRow, Invite, Refuse, Finish,
                ImportLead, Plan, Pick
  <2> QED BY <2>1 DEF Balanced
<1>6. IInv /\ [Next]_vars => [Balanced]_vars
  BY <1>2, <1>3, <1>4, <1>5 DEF Next, Handler
<1>7. Spec => [][Balanced]_vars
  BY <1>6, Invariance, PTL DEF Spec
<1> QED BY <1>7 DEF BatchBalanced, Balanced
=============================================================================
