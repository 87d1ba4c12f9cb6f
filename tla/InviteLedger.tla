---------------------------- MODULE InviteLedger ----------------------------
(***************************************************************************)
(* What the dispatcher of one account promises, whatever schedules and     *)
(* locks it uses: a task's person is invited once, and in one day no more  *)
(* people than the limit.  Only a mishap, an invitation whose success was  *)
(* never recorded, excuses one invitation too many.                        *)
(***************************************************************************)
EXTENDS Naturals

CONSTANTS Tasks, Limit

VARIABLES
    times,   \* [Tasks -> invitations that reached the person]
    used,    \* invitations of the current day
    mishaps  \* invitations whose success was not recorded

vars == <<times, used, mishaps>>

Init ==
    /\ times = [t \in Tasks |-> 0]
    /\ used = 0
    /\ mishaps = 0

\* A mishap may come with the invitation it hides (the reply is lost) or
\* after it (the process dies, the transaction fails).
Mishap == mishaps' = mishaps + 1

Invite(t) ==
    /\ Mishap \/ UNCHANGED mishaps
    /\ times[t] <= mishaps'
    /\ used < Limit + mishaps'
    /\ times' = [times EXCEPT ![t] = @ + 1]
    /\ used' = used + 1

Forget ==
    /\ Mishap
    /\ UNCHANGED <<times, used>>

NewDay ==
    /\ used' = 0
    /\ UNCHANGED <<times, mishaps>>

Next == Forget \/ NewDay \/ \E t \in Tasks : Invite(t)

Spec == Init /\ [][Next]_vars
=============================================================================
