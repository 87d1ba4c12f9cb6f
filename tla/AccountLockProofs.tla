------------------------- MODULE AccountLockProofs -------------------------
(***************************************************************************)
(* The lock excludes, for any number of workers and both ways of releasing *)
(* it, as long as the longest section fits in the expiry.                  *)
(*                                                                         *)
(* The invariant is LeaseCovers: a worker inside owns the key and has at   *)
(* least TTL minus the time its attempts account for left on it, until     *)
(* that time reaches the TTL.  It never exceeds Calls * Retries *          *)
(* AttemptTime, so under SectionFitsTTL no key expires under a worker.     *)
(***************************************************************************)
EXTENDS AccountLock, TLAPS

\* Multiplication by a natural number is monotonic.
LEMMA TimesMonotonic ==
    ASSUME NEW a \in Nat, NEW b \in Nat, NEW c \in Nat, a <= b
    PROVE  a * c <= b * c
<1>1. PICK d \in Nat : b = a + d
  <2>1. b - a \in Nat /\ b = a + (b - a)
    OBVIOUS
  <2> QED
    BY <2>1
<1>2. b * c = a * c + d * c
  BY <1>1
<1>3. d * c \in Nat /\ a * c \in Nat
  OBVIOUS
<1> QED
  BY <1>2, <1>3

\* A section at its n-th request and k-th attempt has made fewer than
\* Calls * Retries attempts before, so its elapsed time stays under the bound.
LEMMA ElapsedBound ==
    ASSUME TypeOK, NEW w \in Workers, Inside(w)
    PROVE  /\ Elapsed(w) \in Nat
           /\ Elapsed(w) + (AttemptTime - spent[w]) <= Calls * Retries * AttemptTime
<1> DEFINE c == call[w] - 1
           a == attempt[w] - 1
           s == spent[w]
<1>1. /\ c \in Nat /\ a \in Nat /\ s \in Nat
      /\ c + 1 <= Calls /\ a + 1 <= Retries /\ s <= AttemptTime
      /\ Calls \in Nat /\ Retries \in Nat /\ AttemptTime \in Nat
  BY LockAssumption DEF TypeOK, Inside
<1>2. Elapsed(w) = (c * Retries + a) * AttemptTime + s
  BY DEF Elapsed
<1> HIDE DEF c, a, s
<1>3. c * Retries \in Nat /\ (c + 1) * Retries = c * Retries + Retries
  BY <1>1
<1>4. (c + 1) * Retries <= Calls * Retries
  BY <1>1, TimesMonotonic
<1>5. Calls * Retries \in Nat
  BY <1>1
<1>6. c * Retries + a + 1 <= Calls * Retries
  BY <1>1, <1>3, <1>4, <1>5
<1> DEFINE n == c * Retries + a
<1>7. n \in Nat /\ n + 1 <= Calls * Retries
  BY <1>1, <1>3, <1>6
<1>8. (n + 1) * AttemptTime <= (Calls * Retries) * AttemptTime
  BY <1>1, <1>5, <1>7, TimesMonotonic
<1>9. Elapsed(w) = n * AttemptTime + s
  BY <1>2
<1> HIDE DEF n
<1>10. n * AttemptTime \in Nat /\ (n + 1) * AttemptTime = n * AttemptTime + AttemptTime
  BY <1>1, <1>7
<1> DEFINE nt == n * AttemptTime
           bound == Calls * Retries * AttemptTime
<1>11. nt \in Nat /\ bound \in Nat /\ nt + AttemptTime <= bound /\ Elapsed(w) = nt + s
  BY <1>1, <1>5, <1>8, <1>9, <1>10
<1> HIDE DEF nt, bound
<1>12. Elapsed(w) \in Nat /\ Elapsed(w) + (AttemptTime - s) <= bound
  BY <1>1, <1>11
<1> QED
  BY <1>12 DEF bound, s

-----------------------------------------------------------------------------
LEMMA TypeStep == TypeOK /\ [Next]_vars => TypeOK'
<1> SUFFICES ASSUME TypeOK, [Next]_vars PROVE TypeOK'
  OBVIOUS
<1> USE LockAssumption DEF TypeOK, Inside
<1>0. 0 \in 0 .. Calls /\ 1 \in 0 .. Calls /\ 1 \in 1 .. Retries /\ 0 \in 0 .. AttemptTime
  OBVIOUS
<1>1. ASSUME NEW w \in Workers, Acquire(w) PROVE TypeOK'
  BY <1>0, <1>1 DEF Acquire, StartCall, Expiry
<1>2. ASSUME NEW w \in Workers, NextCall(w) PROVE TypeOK'
  <2>1. call[w] + 1 \in 0 .. Calls
    BY <1>2 DEF NextCall
  <2> QED
    BY <1>0, <1>2, <2>1 DEF NextCall, StartCall
<1>3. ASSUME NEW w \in Workers, RetryCall(w) PROVE TypeOK'
  <2>1. attempt[w] + 1 \in 1 .. Retries
    BY <1>3 DEF RetryCall, MayRetry
  <2> QED
    BY <1>0, <1>3, <2>1 DEF RetryCall
<1>4. ASSUME NEW w \in Workers, Release(w) PROVE TypeOK'
  BY <1>0, <1>4 DEF Release, StartCall
<1>5. ASSUME NEW w \in Workers, Crash(w) PROVE TypeOK'
  BY <1>0, <1>5 DEF Crash, StartCall
<1>6. CASE Tick
  <2>1. spent' \in [Workers -> 0 .. AttemptTime]
    BY <1>6 DEF Tick
  <2>2. left' \in 0 .. TTL /\ (key' = Free <=> left' = 0) /\ key' \in Workers \cup {Free}
    BY <1>6 DEF Tick
  <2> QED
    BY <1>6, <2>1, <2>2 DEF Tick
<1>7. CASE UNCHANGED vars
  BY <1>7 DEF vars
<1> QED
  BY <1>1, <1>2, <1>3, <1>4, <1>5, <1>6, <1>7 DEF Next

\* Types: the key, its expiry and the position of every worker stay in their
\* domains, and Redis has the key exactly while it has time left.
THEOREM TypeCorrect == Spec => []TypeOK
<1>1. Init => TypeOK
  BY LockAssumption DEF Init, TypeOK
<1> QED
  BY <1>1, TypeStep, PTL DEF Spec

-----------------------------------------------------------------------------
\* While a worker stays inside, the time its attempts account for only grows,
\* and by one in a tick.
LEMMA ElapsedGrows ==
    ASSUME TypeOK, [Next]_vars, NEW v \in Workers, Inside(v), Inside(v)'
    PROVE  /\ Elapsed(v) \in Nat /\ Elapsed(v)' \in Nat
           /\ Elapsed(v)' >= Elapsed(v)
           /\ Tick => Elapsed(v)' = Elapsed(v) + 1
<1> DEFINE Grows == Elapsed(v)' \in Nat /\ Elapsed(v)' >= Elapsed(v)
<1>a. /\ Elapsed(v) \in Nat
      /\ spent[v] \in Nat /\ spent[v] <= AttemptTime
      /\ call[v] \in Nat /\ attempt[v] \in Nat
      /\ call[v] <= Calls /\ attempt[v] <= Retries
  BY ElapsedBound, LockAssumption DEF TypeOK
<1>b. /\ Calls \in Nat /\ Retries \in Nat /\ AttemptTime \in Nat
  BY LockAssumption
\* Steps that leave v where it is.
<1>1. ASSUME call'[v] = call[v], attempt'[v] = attempt[v], spent'[v] = spent[v]
      PROVE  Elapsed(v)' = Elapsed(v)
  BY <1>1 DEF Elapsed
<1>2. ASSUME NextCall(v) PROVE Grows
  <2>1. Inside(v)
    OBVIOUS
  <2>3. call'[v] = call[v] + 1 /\ attempt'[v] = 1 /\ spent'[v] = 0
    BY <1>2 DEF NextCall, StartCall, TypeOK
  <2> DEFINE c == call[v] - 1
             a == attempt[v] - 1
             s == spent[v]
  <2>4. /\ Elapsed(v)' = ((c + 1) * Retries) * AttemptTime
        /\ Elapsed(v) = (c * Retries + a) * AttemptTime + s
        /\ c \in Nat /\ a \in Nat /\ s \in Nat /\ a + 1 <= Retries /\ s <= AttemptTime
    <3>1. call[v] \in Nat \ {0} /\ attempt[v] \in Nat \ {0}
      BY <1>a, <2>1, LockAssumption DEF Inside, TypeOK
    <3>2. Elapsed(v)' = ((call'[v] - 1) * Retries + (attempt'[v] - 1)) * AttemptTime + spent'[v]
      BY DEF Elapsed
    <3>3. call'[v] - 1 = c + 1 /\ attempt'[v] - 1 = 0 /\ spent'[v] = 0 /\ c \in Nat
      BY <2>3, <3>1
    <3> HIDE DEF c
    <3>4. (c + 1) * Retries \in Nat /\ ((c + 1) * Retries) * AttemptTime \in Nat
      BY <3>3, <1>b
    <3>5. Elapsed(v)' = ((c + 1) * Retries) * AttemptTime
      BY <3>2, <3>3, <3>4, <1>b
    <3> QED
      BY <3>1, <3>3, <3>5, <1>a, <2>1 DEF Elapsed, c
  <2> HIDE DEF c, a, s
  <2>5. (c + 1) * Retries = c * Retries + Retries /\ c * Retries \in Nat
    BY <2>4, <1>b
  <2> DEFINE m == c * Retries + a
  <2>6. m \in Nat /\ m + 1 <= (c + 1) * Retries /\ (c + 1) * Retries \in Nat
    BY <2>4, <2>5, <1>b
  <2>7. (m + 1) * AttemptTime <= ((c + 1) * Retries) * AttemptTime
    BY <2>6, <1>b, TimesMonotonic
  <2>8. Elapsed(v) = m * AttemptTime + s
    BY <2>4
  <2> HIDE DEF m
  <2>9. (m + 1) * AttemptTime = m * AttemptTime + AttemptTime /\ m * AttemptTime \in Nat
    BY <2>6, <1>b
  <2>10. Elapsed(v)' >= Elapsed(v) /\ Elapsed(v)' \in Nat /\ Elapsed(v) \in Nat
    <3> DEFINE p == ((c + 1) * Retries) * AttemptTime
               q == m * AttemptTime
    <3>1. p \in Nat /\ q \in Nat /\ q + AttemptTime <= p
      BY <2>6, <2>7, <2>9, <1>b
    <3> HIDE DEF p, q
    <3>2. Elapsed(v)' = p /\ Elapsed(v) = q + s
      BY <2>4, <2>8 DEF p, q
    <3> QED
      BY <3>1, <3>2, <2>4, <1>b
  <2> QED
    BY <2>10
<1>3. ASSUME RetryCall(v) PROVE Grows
  <2>1. Inside(v)
    OBVIOUS
  <2>3. call'[v] = call[v] /\ attempt'[v] = attempt[v] + 1 /\ spent'[v] = 0
    BY <1>3 DEF RetryCall, TypeOK
  <2>4. PICK n \in Nat : n = (call[v] - 1) * Retries + (attempt[v] - 1)
    <3>1. call[v] - 1 \in Nat /\ attempt[v] - 1 \in Nat
      BY <2>1, <1>a DEF Inside, TypeOK
    <3>2. (call[v] - 1) * Retries \in Nat
      BY <3>1, <1>b
    <3> QED
      BY <3>1, <3>2
  <2>5. Elapsed(v) = n * AttemptTime + spent[v]
    BY <2>4 DEF Elapsed
  <2>6. Elapsed(v)' = (n + 1) * AttemptTime + 0
    <3>1. Elapsed(v)' = ((call[v] - 1) * Retries + (attempt'[v] - 1)) * AttemptTime + spent'[v]
      BY <2>3 DEF Elapsed
    <3>2. (call[v] - 1) * Retries \in Int /\ attempt[v] \in Nat
      BY <2>1, <1>a, <1>b
    <3>3. (call[v] - 1) * Retries + (attempt'[v] - 1) = n + 1
      BY <2>3, <2>4, <3>2
    <3> QED
      BY <2>3, <3>1, <3>3
  <2>7. (n + 1) * AttemptTime = n * AttemptTime + AttemptTime /\ n * AttemptTime \in Nat
    BY <1>b
  <2>8. Elapsed(v)' >= Elapsed(v) /\ Elapsed(v)' \in Nat /\ Elapsed(v) \in Nat
    BY <2>1, <2>5, <2>6, <2>7, <1>a, <1>b
  <2> QED
    BY <2>8
<1>4. ASSUME Tick PROVE Elapsed(v)' = Elapsed(v) + 1
  <2>1. Inside(v)
    OBVIOUS
  <2>4. Elapsed(v)' = Elapsed(v) + 1
    <3>1. spent'[v] = spent[v] + 1
      BY <1>4, <2>1 DEF Tick
    <3> DEFINE n == ((call[v] - 1) * Retries + (attempt[v] - 1)) * AttemptTime
    <3>2. Elapsed(v) = n + spent[v] /\ Elapsed(v)' = n + (spent[v] + 1)
      BY <1>4, <3>1 DEF Tick, Elapsed
    <3>3. n \in Nat
      <4>1. call[v] - 1 \in Nat /\ attempt[v] - 1 \in Nat
        BY <2>1, <1>a DEF Inside, TypeOK
      <4>2. (call[v] - 1) * Retries \in Nat
        BY <4>1, <1>b
      <4>3. (call[v] - 1) * Retries + (attempt[v] - 1) \in Nat
        BY <4>1, <4>2
      <4> QED
        BY <4>3, <1>b
    <3> HIDE DEF n
    <3> QED
      BY <3>2, <3>3, <1>a, <2>1
  <2> QED
    BY <2>4
<1>5. ASSUME NEW w \in Workers, w # v,
             Acquire(w) \/ NextCall(w) \/ RetryCall(w) \/ Release(w) \/ Crash(w)
      PROVE  Elapsed(v)' = Elapsed(v)
  <2>1. call'[v] = call[v] /\ attempt'[v] = attempt[v] /\ spent'[v] = spent[v]
    BY <1>5 DEF Acquire, NextCall, RetryCall, Release, Crash, StartCall, TypeOK
  <2> QED
    BY <1>1, <2>1
<1>6. ~Acquire(v) /\ ~Release(v) /\ ~Crash(v)
  BY DEF Acquire, Release, Crash, StartCall, Inside, TypeOK
<1>7. CASE UNCHANGED vars
  BY <1>1, <1>4, <1>7, <1>a DEF vars
<1>8. CASE Tick
  BY <1>4, <1>8, <1>a
<1>9. CASE ~Tick
  <2>1. CASE UNCHANGED vars
    BY <1>7, <2>1
  <2>2. CASE NextCall(v)
    BY <1>2, <1>9, <1>a, <2>2
  <2>3. CASE RetryCall(v)
    BY <1>3, <1>9, <1>a, <2>3
  <2>4. ASSUME NEW w \in Workers, w # v,
               Acquire(w) \/ NextCall(w) \/ RetryCall(w) \/ Release(w) \/ Crash(w)
        PROVE  Grows
    BY <1>5, <1>a, <2>4
  <2> QED
    BY <1>6, <1>9, <1>a, <2>1, <2>2, <2>3, <2>4 DEF Next
<1> QED
  BY <1>8, <1>9

\* No step takes the key from a worker whose attempts are fewer than the TTL.
LEMMA LeaseStep ==
    ASSUME Owned \/ SectionFitsTTL, TypeOK, TypeOK', LeaseCovers, [Next]_vars
    PROVE  LeaseCovers'
<1> DEFINE Covered(v) == key = v /\ left + Elapsed(v) >= TTL
<1> SUFFICES ASSUME NEW v \in Workers, Inside(v)'
             PROVE  Covered(v)' \/ Elapsed(v)' >= TTL
  BY DEF LeaseCovers
<1>b. /\ TTL \in Nat /\ left \in Nat /\ left' \in Nat
      /\ Calls * Retries * AttemptTime \in Nat
  BY LockAssumption DEF TypeOK
<1>1. CASE ~Inside(v)
  <2>1. Acquire(v)
    BY <1>1 DEF Next, vars, Acquire, NextCall, RetryCall, Release, Crash, Tick,
                StartCall, Inside, TypeOK
  <2>2. call'[v] = 1 /\ attempt'[v] = 1 /\ spent'[v] = 0
    BY <2>1 DEF Acquire, StartCall, TypeOK
  <2>3. Elapsed(v)' = ((call'[v] - 1) * Retries + (attempt'[v] - 1)) * AttemptTime + spent'[v]
    BY DEF Elapsed
  <2>4. Elapsed(v)' = 0
    BY <2>2, <2>3, LockAssumption
  <2> QED
    BY <1>b, <2>1, <2>4 DEF Acquire, Expiry
<1>2. CASE Inside(v)
  <2>1. /\ Elapsed(v) \in Nat /\ Elapsed(v)' \in Nat
        /\ Elapsed(v)' >= Elapsed(v)
        /\ Tick => Elapsed(v)' = Elapsed(v) + 1
    BY <1>2, ElapsedGrows
  <2>2. CASE Elapsed(v) >= TTL
    BY <1>b, <2>1, <2>2
  <2>3. CASE Elapsed(v) < TTL
    <3>1. Covered(v)
      BY <1>2, <1>b, <2>1, <2>3 DEF LeaseCovers
    <3>2. ASSUME UNCHANGED <<key, left>> PROVE Covered(v)'
      BY <1>b, <2>1, <3>1, <3>2
    <3>3. ASSUME NEW w \in Workers, Acquire(w) PROVE FALSE
      BY <3>1, <3>3, LockAssumption DEF Acquire, KeyIsFree
    <3>4. ASSUME NEW w \in Workers, Release(w) PROVE Covered(v)'
      <4>1. w # v
        BY <3>4 DEF Release, StartCall, Inside, TypeOK
      <4>2. ~MayDelete(w)
        <5>1. CASE Owned
          BY <3>1, <4>1, <5>1 DEF MayDelete
        <5>2. CASE SectionFitsTTL
          <6>1. Inside(w)
            BY <3>4 DEF Release
          <6>2. Elapsed(w) \in Nat /\ Elapsed(w) <= Calls * Retries * AttemptTime
            BY <6>1, ElapsedBound, LockAssumption, <1>b DEF TypeOK
          <6>3. Elapsed(w) < TTL
            BY <1>b, <5>2, <6>2 DEF SectionFitsTTL
          <6>4. key = w
            BY <1>b, <6>1, <6>2, <6>3 DEF LeaseCovers
          <6> QED
            BY <3>1, <4>1, <6>4
        <5> QED
          BY <5>1, <5>2
      <4> QED
        BY <3>2, <3>4, <4>2 DEF Release
    <3>5. ASSUME Tick PROVE Covered(v)' \/ Elapsed(v)' >= TTL
      <4>1. Elapsed(v)' = Elapsed(v) + 1
        BY <2>1, <3>5
      <4>2. CASE left > 1
        BY <1>b, <2>1, <3>1, <3>5, <4>1, <4>2 DEF Tick
      <4>3. CASE left <= 1
        BY <1>b, <2>1, <3>1, <4>1, <4>3
      <4> QED
        BY <1>b, <4>2, <4>3
    <3> QED
      BY <3>2, <3>3, <3>4, <3>5 DEF Next, NextCall, RetryCall, Crash, vars
  <2> QED
    BY <1>b, <2>1, <2>2, <2>3
<1> QED
  BY <1>1, <1>2

\* A worker inside has its key for as long as its attempts are fewer than the
\* TTL, for any number of workers, whatever other workers, expiries and
\* crashes do (poll_lock needs sections that fit in the expiry even for that).
THEOREM LeaseIsKept ==
    ASSUME Owned \/ SectionFitsTTL
    PROVE  Spec => []LeaseCovers
<1>1. Init => TypeOK /\ LeaseCovers
  BY LockAssumption DEF Init, TypeOK, LeaseCovers, Inside
<1>2. TypeOK /\ LeaseCovers /\ [Next]_vars => (TypeOK /\ LeaseCovers)'
  BY TypeStep, LeaseStep
<1> QED
  BY <1>1, <1>2, PTL DEF Spec

\* redis_lock.py:3-5: no account is operated on by two workers at once, for
\* any number of workers and either way of releasing, provided the section
\* fits in the expiry (which the executor's 300 s and six attempts of 60 s do
\* not: see the run lock_executor_ttl).
THEOREM LockExcludes ==
    ASSUME SectionFitsTTL
    PROVE  Spec => []MutualExclusion
<1>1. TypeOK /\ LeaseCovers => MutualExclusion
  <2> SUFFICES ASSUME TypeOK, LeaseCovers PROVE MutualExclusion
    OBVIOUS
  <2>1. ASSUME NEW w \in Workers, Inside(w) PROVE key = w
    <3>1. /\ Elapsed(w) \in Nat /\ Elapsed(w) <= Calls * Retries * AttemptTime
          /\ TTL \in Nat /\ Calls * Retries * AttemptTime \in Nat
      BY <2>1, ElapsedBound, LockAssumption DEF TypeOK
    <3> QED
      BY <2>1, <3>1 DEF LeaseCovers, SectionFitsTTL
  <2> QED
    BY <2>1 DEF MutualExclusion
<1> QED
  BY <1>1, LeaseIsKept, TypeCorrect, PTL
\* A key that has time left disappears in one step only: its own worker's
\* release.
LEMMA FreeingStep ==
    ASSUME Owned \/ SectionFitsTTL, TypeOK, LeaseCovers, [Next]_vars,
           NEW v \in Workers, key = v, key' # v
    PROVE  left <= 1 \/ ~Inside(v)'
<1>1. ASSUME NEW w \in Workers, Acquire(w) PROVE FALSE
  BY <1>1, LockAssumption DEF Acquire, KeyIsFree
<1>2. ASSUME NEW w \in Workers, Release(w) PROVE ~Inside(v)'
  <2>1. MayDelete(w)
    BY <1>2 DEF Release
  <2>2. w = v
    <3>1. CASE Owned
      BY <2>1, <3>1 DEF MayDelete
    <3>2. CASE SectionFitsTTL
      <4>1. Inside(w)
        BY <1>2 DEF Release
      <4>2. /\ Elapsed(w) \in Nat /\ Elapsed(w) <= Calls * Retries * AttemptTime
            /\ TTL \in Nat /\ Calls * Retries * AttemptTime \in Nat
        BY <4>1, ElapsedBound, LockAssumption DEF TypeOK
      <4> QED
        BY <3>2, <4>1, <4>2 DEF LeaseCovers, SectionFitsTTL
    <3> QED
      BY <3>1, <3>2
  <2> QED
    BY <1>2, <2>2 DEF Release, StartCall, Inside, TypeOK
<1>3. CASE Tick
  BY <1>3, LockAssumption DEF Tick, TypeOK
<1> QED
  BY <1>1, <1>2, <1>3 DEF Next, NextCall, RetryCall, Crash, vars

\* redis_lock.py:48: nobody releases someone else's lock.  A key disappears
\* because it expired or its worker left, for any number of workers, when
\* the token is compared, and without that when sections fit in the expiry.
THEOREM OnlyItsHolderFrees ==
    ASSUME Owned \/ SectionFitsTTL
    PROVE  Spec => OnlyHolderFrees
<1>1. TypeOK /\ LeaseCovers /\ [Next]_vars =>
        [\A w \in Workers : key = w /\ key' # w => left <= 1 \/ ~Inside(w)']_vars
  BY FreeingStep
<1> QED
  BY <1>1, LeaseIsKept, TypeCorrect, PTL DEF Spec, OnlyHolderFrees
=============================================================================
