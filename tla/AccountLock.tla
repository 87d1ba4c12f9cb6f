---------------------------- MODULE AccountLock ----------------------------
(***************************************************************************)
(* The per-account Redis lock of app/services/redis_lock.py, and the       *)
(* section of code that runs while a worker holds it.                      *)
(*                                                                         *)
(* The lock is a Redis key with an expiry (SET key token NX EX ttl).  It   *)
(* excludes other workers only while the expiry has not passed, so what it *)
(* promises depends on how long the section can take.  In the executor     *)
(* the section makes at most two Unipile requests (profile, invitation),   *)
(* each of up to three attempts of up to 60 s (app/unipile/client.py).     *)
(* Time passes in ticks (half a minute in the runs).                       *)
(***************************************************************************)
EXTENDS Integers

CONSTANTS
    Workers,      \* worker processes (docker-compose: --scale worker=3)
    Free,         \* the value of the key when Redis does not have it
    TTL,          \* expiry of the key, in ticks
    Calls,        \* Unipile requests one section makes at most
    Retries,      \* _TRANSIENT_RETRIES
    AttemptTime,  \* ticks one attempt lasts at most (its timeout)
    Owned         \* TRUE: account_lock (release compares the token)
                  \* FALSE: poll_lock (release deletes unconditionally)

ASSUME LockAssumption ==
    /\ Free \notin Workers
    /\ TTL \in Nat \ {0}
    /\ Calls \in Nat \ {0}
    /\ Retries \in Nat \ {0}
    /\ AttemptTime \in Nat \ {0}
    /\ Owned \in BOOLEAN

VARIABLES
    key,      \* whose token the Redis key holds, or Free
    left,     \* ticks until the key expires
    call,     \* [Workers -> request in progress, 0 outside the section]
    attempt,  \* [Workers -> attempt of that request]
    spent     \* [Workers -> ticks the attempt has taken]

vars == <<key, left, call, attempt, spent>>

Inside(w) == call[w] > 0

TypeOK ==
    /\ key \in Workers \cup {Free}
    /\ left \in 0 .. TTL
    /\ call \in [Workers -> 0 .. Calls]
    /\ attempt \in [Workers -> 1 .. Retries]
    /\ spent \in [Workers -> 0 .. AttemptTime]
    /\ key = Free <=> left = 0

-----------------------------------------------------------------------------
Init ==
    /\ key = Free
    /\ left = 0
    /\ call = [w \in Workers |-> 0]
    /\ attempt = [w \in Workers |-> 1]
    /\ spent = [w \in Workers |-> 0]

\* A request starts with its first attempt.
StartCall(w, n) ==
    /\ call' = [call EXCEPT ![w] = n]
    /\ attempt' = [attempt EXCEPT ![w] = 1]
    /\ spent' = [spent EXCEPT ![w] = 0]

\* The two options of the SET: nx takes the key only if it is free, ex makes
\* it expire.  Mutants: the same SET without one of them.
AnyKey == TRUE
KeyIsFree == key = Free
NoExpiry == 0
Expiry == TTL

\* r.set(key, token, nx=True, ex=ttl).  A worker that finds the key taken
\* skips the account until a later tick: that is no step of this module.
\* The token is a fresh uuid; a worker has one section in flight per account
\* and a restarted worker finds its old key taken, so its name tells as much.
Acquire(w) ==
    /\ ~Inside(w)
    /\ KeyIsFree
    /\ key' = w
    /\ left' = Expiry
    /\ StartCall(w, 1)

\* A request that answered, or that gave up, is followed by the next one.
NextCall(w) ==
    /\ Inside(w)
    /\ call[w] < Calls
    /\ StartCall(w, call[w] + 1)
    /\ UNCHANGED <<key, left>>

\* "if attempt < _TRANSIENT_RETRIES".  Mutant: retry without counting.
RetryAlways(w) == TRUE
MayRetry(w) == attempt[w] < Retries

\* httpx.TransportError: sleep and try again.
RetryCall(w) ==
    /\ Inside(w)
    /\ MayRetry(w)
    /\ attempt' = [attempt EXCEPT ![w] = @ + 1]
    /\ spent' = [spent EXCEPT ![w] = 0]
    /\ UNCHANGED <<key, left, call>>

\* The Lua script deletes the key only if it still holds our token;
\* release_poll_lock deletes it whoever it belongs to.
\* Mutant: account_lock deletes without comparing, as poll_lock does.
DeleteAlways(w) == TRUE
MayDelete(w) == Owned => key = w

\* The section ends, by return or by exception, and the finally releases.
Release(w) ==
    /\ Inside(w)
    /\ StartCall(w, 0)
    /\ IF MayDelete(w)
       THEN key' = Free /\ left' = 0
       ELSE UNCHANGED <<key, left>>

\* The process dies inside the section: only the expiry removes the key.
Crash(w) ==
    /\ Inside(w)
    /\ StartCall(w, 0)
    /\ UNCHANGED <<key, left>>

\* Time passes; an attempt that used its whole timeout must first end.
Tick ==
    /\ left > 0 \/ \E w \in Workers : Inside(w)
    /\ \A w \in Workers : Inside(w) => spent[w] < AttemptTime
    /\ spent' = [w \in Workers |-> IF Inside(w) THEN spent[w] + 1 ELSE spent[w]]
    /\ left' = IF left > 0 THEN left - 1 ELSE 0
    /\ key' = IF left = 1 THEN Free ELSE key
    /\ UNCHANGED <<call, attempt>>

Next ==
    \/ \E w \in Workers :
        Acquire(w) \/ NextCall(w) \/ RetryCall(w) \/ Release(w) \/ Crash(w)
    \/ Tick

Spec == Init /\ [][Next]_vars

\* A worker inside goes on (every attempt has a timeout), and time passes.
\* Nothing makes a worker acquire again, and crashes are never due.
Fairness ==
    /\ \A w \in Workers : WF_vars(NextCall(w) \/ RetryCall(w) \/ Release(w))
    /\ WF_vars(Tick)

LiveSpec == Spec /\ Fairness

-----------------------------------------------------------------------------
(***************************************************************************)
(* Properties.                                                             *)
(***************************************************************************)

\* redis_lock.py:3-5, "a single LinkedIn account is never operated on by two
\* workers at once": at most one worker is inside.
MutualExclusion ==
    \A v, w \in Workers : Inside(v) /\ Inside(w) => v = w

\* redis_lock.py:48, "avoid releasing someone else's lock": a key disappears
\* only because it expired or because its own holder left, even when other
\* workers, which outlived their expiry, leave in the meantime.
OnlyHolderFrees ==
    [][\A w \in Workers : key = w /\ key' # w => left <= 1 \/ ~Inside(w)']_vars

\* A worker that dies, or releases late, never leaves the account locked for
\* good: the key is free again and again.
NeverLockedForGood == []<>(key = Free)

-----------------------------------------------------------------------------
(***************************************************************************)
(* The invariant behind MutualExclusion.                                   *)
(***************************************************************************)

\* The most ticks the attempts of a worker's section can have taken so far.
Elapsed(w) ==
    ((call[w] - 1) * Retries + (attempt[w] - 1)) * AttemptTime + spent[w]

\* A worker inside has its key, whose expiry is no nearer than its attempts
\* account for, unless those attempts are enough to outlast the TTL: nobody
\* loses the key any other way, whatever other workers do.
LeaseCovers ==
    \A w \in Workers : Inside(w) =>
        \/ key = w /\ left + Elapsed(w) >= TTL
        \/ Elapsed(w) >= TTL

\* Under which the lock is exclusive: the longest section is shorter than the
\* expiry.  The code's values are 2 * 3 * 60 s against 300 s.
SectionFitsTTL == Calls * Retries * AttemptTime < TTL
=============================================================================
