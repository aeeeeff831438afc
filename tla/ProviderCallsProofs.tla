--------------------------- MODULE ProviderCallsProofs ---------------------------
(***************************************************************************)
(* Theorems about the retries of ProviderCalls, for every number of        *)
(* threads, providers and retries that the delay of with_retry allows: the *)
(* time slept is known, and calls with retries are calls of Failover.      *)
(***************************************************************************)
EXTENDS ProviderCalls, WellFoundedInduction, TLAPS

\* Powers of two, as far as the delay fits an int: the provers know a power of
\* literals only, so each doubling is listed.
LEMMA Doubling ==
    ASSUME NEW n \in 0..25, NEW m, m = n + 1
    PROVE  2^m = 2 * 2^n
<1>1. \/ (n = 0 /\ m = 1) \/ (n = 1 /\ m = 2) \/ (n = 2 /\ m = 3) \/ (n = 3 /\ m = 4)
      \/ (n = 4 /\ m = 5) \/ (n = 5 /\ m = 6) \/ (n = 6 /\ m = 7) \/ (n = 7 /\ m = 8)
      \/ (n = 8 /\ m = 9) \/ (n = 9 /\ m = 10) \/ (n = 10 /\ m = 11) \/ (n = 11 /\ m = 12)
      \/ (n = 12 /\ m = 13) \/ (n = 13 /\ m = 14) \/ (n = 14 /\ m = 15) \/ (n = 15 /\ m = 16)
      \/ (n = 16 /\ m = 17) \/ (n = 17 /\ m = 18) \/ (n = 18 /\ m = 19) \/ (n = 19 /\ m = 20)
      \/ (n = 20 /\ m = 21) \/ (n = 21 /\ m = 22) \/ (n = 22 /\ m = 23) \/ (n = 23 /\ m = 24)
      \/ (n = 24 /\ m = 25) \/ (n = 25 /\ m = 26)
  OBVIOUS
<1>2. /\ 2^1 = 2 * 2^0 /\ 2^2 = 2 * 2^1 /\ 2^3 = 2 * 2^2 /\ 2^4 = 2 * 2^3
      /\ 2^5 = 2 * 2^4 /\ 2^6 = 2 * 2^5 /\ 2^7 = 2 * 2^6 /\ 2^8 = 2 * 2^7
      /\ 2^9 = 2 * 2^8 /\ 2^10 = 2 * 2^9 /\ 2^11 = 2 * 2^10 /\ 2^12 = 2 * 2^11
      /\ 2^13 = 2 * 2^12 /\ 2^14 = 2 * 2^13 /\ 2^15 = 2 * 2^14 /\ 2^16 = 2 * 2^15
      /\ 2^17 = 2 * 2^16 /\ 2^18 = 2 * 2^17 /\ 2^19 = 2 * 2^18 /\ 2^20 = 2 * 2^19
      /\ 2^21 = 2 * 2^20 /\ 2^22 = 2 * 2^21 /\ 2^23 = 2 * 2^22 /\ 2^24 = 2 * 2^23
      /\ 2^25 = 2 * 2^24 /\ 2^26 = 2 * 2^25
  BY SMT
<1> QED
  BY <1>1, <1>2, Zenon

\* A power of two is positive.
LEMMA Powers ==
    ASSUME NEW n \in 0..25
    PROVE  2^n \in Nat \ {0}
<1>1. \/ (n = 0) \/ (n = 1) \/ (n = 2) \/ (n = 3) \/ (n = 4) \/ (n = 5) \/ (n = 6) \/ (n = 7) \/ (n = 8)
      \/ (n = 9) \/ (n = 10) \/ (n = 11) \/ (n = 12) \/ (n = 13) \/ (n = 14) \/ (n = 15) \/ (n = 16) \/ (n = 17)
      \/ (n = 18) \/ (n = 19) \/ (n = 20) \/ (n = 21) \/ (n = 22) \/ (n = 23) \/ (n = 24) \/ (n = 25)
  OBVIOUS
<1>2. /\ 2^0 > 0 /\ 2^1 > 0 /\ 2^2 > 0 /\ 2^3 > 0 /\ 2^4 > 0 /\ 2^5 > 0 /\ 2^6 > 0
      /\ 2^7 > 0 /\ 2^8 > 0 /\ 2^9 > 0 /\ 2^10 > 0 /\ 2^11 > 0 /\ 2^12 > 0 /\ 2^13 > 0
      /\ 2^14 > 0 /\ 2^15 > 0 /\ 2^16 > 0 /\ 2^17 > 0 /\ 2^18 > 0 /\ 2^19 > 0 /\ 2^20 > 0
      /\ 2^21 > 0 /\ 2^22 > 0 /\ 2^23 > 0 /\ 2^24 > 0 /\ 2^25 > 0
  BY SMT
<1>3. 2^n > 0
  BY <1>1, <1>2, Zenon
<1>4. 2^n \in Int
  BY SMT
<1> QED
  BY <1>3, <1>4

\* A set of naturals has a least element.
LEMMA SmallestOf ==
    ASSUME NEW D \in SUBSET Nat, D # {}
    PROVE  \E k \in D : \A i \in D : k <= i
<1> DEFINE R == OpToRel(<, Nat)
<1>1. \A i, k \in Nat : i < k => <<i, k>> \in R
  BY DEF OpToRel
<1>2. IsWellFoundedOn(R, Nat)
  BY NatLessThanWellFounded
<1> HIDE DEF R
<1>3. \E k \in D : \A i \in D : ~ (<<i, k>> \in R)
  BY <1>2, WFMin
<1>4. PICK k \in D : \A i \in D : ~ (<<i, k>> \in R)
  BY <1>3
<1>5. ASSUME NEW i \in D PROVE k <= i
  <2>1. i \in Nat /\ k \in Nat
    OBVIOUS
  <2>2. ~ (i < k)
    BY <1>1, <1>4, <2>1
  <2> QED
    BY <2>1, <2>2
<1> QED
  BY <1>5

\* So that the delays of a call are no longer than those of one that fails.
LEMMA PowersGrow ==
    ASSUME NEW m \in 0..25, NEW n \in 0..m
    PROVE  2^n <= 2^m
<1> DEFINE Grows(k) == \A j \in 0..k : 2^j <= 2^k
           D == {k \in 0..25 : ~Grows(k)}
<1>1. ASSUME D # {} PROVE FALSE
  <2>1. PICK k \in D : \A i \in D : k <= i
    <3>1. D \in SUBSET Nat
      OBVIOUS
    <3> HIDE DEF D
    <3> QED
      BY <1>1, <3>1, SmallestOf
  <2>2. k \in 0..25 /\ ~Grows(k)
    BY <2>1
  <2>3. PICK j \in 0..k : ~(2^j <= 2^k)
    BY <2>2
  <2> HIDE DEF D
  <2>4. 2^k \in Nat /\ 2^j \in Nat
    <3>1. j \in 0..25 /\ k \in 0..25
      BY <2>2, <2>3
    <3>2. 2^k \in Nat \ {0}
      BY <3>1, Powers
    <3>3. 2^j \in Nat \ {0}
      BY <3>1, Powers
    <3> QED
      BY <3>2, <3>3, Zenon
  <2>5. j # k
    BY <2>3, <2>4
  <2>6. PICK i : i = k - 1
    OBVIOUS
  <2>7. i \in 0..24 /\ k = i + 1 /\ j \in 0..i /\ i < k
    BY <2>2, <2>3, <2>5, <2>6
  <2>8. Grows(i)
    <3> HIDE DEF Grows
    <3> QED
      BY <2>1, <2>2, <2>7 DEF D
  <2>9. 2^j <= 2^i
    BY <2>7, <2>8
  <2>10. 2^k = 2 * 2^i /\ 2^i \in Nat
    <3>1. i \in 0..25 /\ k = i + 1
      BY <2>7
    <3>2. 2^k = 2 * 2^i
      BY <3>1, Doubling
    <3>3. 2^i \in Nat \ {0}
      BY <3>1, Powers
    <3> QED
      BY <3>2, <3>3, Zenon
  <2> DEFINE a == 2^i
             b == 2^j
             c == 2^k
  <2>11. b <= a /\ c = 2 * a /\ a \in Nat /\ b \in Nat
    BY <2>4, <2>9, <2>10
  <2> HIDE DEF a, b, c
  <2>12. b <= c
    BY <2>11
  <2> QED
    BY <2>3, <2>12 DEF b, c
<1>2. Grows(m)
  <2> HIDE DEF Grows
  <2> QED
    BY <1>1
<1> QED
  BY <1>2

----------------------------------------------------------------------------
\* The time slept when the sleep before attempt n has begun.
Waited(n) == 100 * (2^n - 1)

LEMMA WaitedNothing == Waited(0) = 0
  BY SMT DEF Waited

\* Each delay brings the time slept to that of one attempt more.
LEMMA WaitedStep ==
    ASSUME NEW n \in 0..24
    PROVE  Waited(n) + DelayMs(n) = Waited(n + 1)
<1> DEFINE a == 2^n
           b == 2^(n + 1)
<1>1. a \in Nat
  <2>1. n \in 0..25
    OBVIOUS
  <2> QED
    BY <2>1, Powers
<1>2. b = 2 * a
  <2>1. PICK m : m = n + 1
    OBVIOUS
  <2>2. n \in 0..25
    OBVIOUS
  <2>3. 2^m = 2 * 2^n
    BY <2>1, <2>2, Doubling
  <2> QED
    BY <2>1, <2>3, Zenon
<1> HIDE DEF a, b
<1>3. 100 * (a - 1) + 100 * a = 100 * (b - 1)
  BY <1>1, <1>2
<1> QED
  BY <1>3 DEF Waited, DelayMs, a, b

LEMMA WaitedGrows ==
    ASSUME NEW m \in 0..25, NEW n \in 0..m
    PROVE  Waited(n) <= Waited(m)
<1> DEFINE a == 2^n
           b == 2^m
<1>1. a \in Nat /\ b \in Nat
  <2>1. n \in 0..25
    OBVIOUS
  <2>2. 2^n \in Nat \ {0} /\ 2^m \in Nat \ {0}
    BY <2>1, Powers
  <2> QED
    BY <2>2
<1>2. a <= b
  BY PowersGrow
<1> HIDE DEF a, b
<1>3. 100 * (a - 1) <= 100 * (b - 1)
  BY <1>1, <1>2
<1> QED
  BY <1>3 DEF Waited, a, b

\* The attempt a thread makes, or sleeps before.
Due(t) == attempt[t] + (IF t \in sleeping THEN 1 ELSE 0)

\* A thread sleeps inside a call that has an attempt left, and has slept all
\* the delays up to the attempt that is due.
RetryInv ==
    /\ DOMAIN calls = Threads
    /\ attempt \in [Threads -> 0..MaxRetries]
    /\ DOMAIN slept = Threads
    /\ sleeping \subseteq Threads
    /\ \A t \in sleeping : Pool!Calling(t) /\ attempt[t] < MaxRetries
    /\ \A t \in Threads : slept[t] = Waited(Due(t))
    /\ \A t \in Threads : ~Pool!Calling(t) => slept[t] = 0

LEMMA RetryInvInit == Init => RetryInv
<1> SUFFICES ASSUME Init PROVE RetryInv
  OBVIOUS
<1>1. \A t \in Threads : Due(t) = 0
  BY DEF Init, Due
<1>2. \A t \in Threads : slept[t] = Waited(Due(t))
  BY <1>1, WaitedNothing DEF Init
<1>3. MaxRetries \in Nat
  BY RetriesAssumption
<1> QED
  BY <1>2, <1>3 DEF Init, RetryInv, Pool!Init

\* What a step does to the calls alone is no business of the retries, so long
\* as it ends no call.
LEMMA CallsKeepRetryInv ==
    ASSUME RetryInv, UNCHANGED retryVars, DOMAIN calls' = Threads,
           \A t \in Threads : Pool!Calling(t) => Pool!Calling(t)'
    PROVE  RetryInv'
<1>1. attempt' = attempt /\ sleeping' = sleeping /\ slept' = slept
  BY DEF retryVars
<1>2. \A t \in Threads : slept'[t] = Waited(Due(t)')
  BY <1>1 DEF RetryInv, Due
<1>3. \A t \in Threads : ~Pool!Calling(t)' => slept'[t] = 0
  BY <1>1 DEF RetryInv
<1>4. \A t \in sleeping' : Pool!Calling(t)' /\ attempt'[t] < MaxRetries
  BY <1>1 DEF RetryInv
<1>5. \A t \in Threads : slept'[t] = Waited(Due(t))'
  BY <1>2
<1> QED
  BY <1>1, <1>3, <1>4, <1>5 DEF RetryInv

\* The return of a call forgets its attempts and its delays.
LEMMA CallOverKeepsRetryInv ==
    ASSUME RetryInv, NEW t \in Threads, t \notin sleeping, CallOver(t),
           DOMAIN calls' = Threads,
           \A u \in Threads \ {t} : calls'[u] = calls[u]
    PROVE  RetryInv'
<1>1. /\ attempt' = [attempt EXCEPT ![t] = 0] /\ slept' = [slept EXCEPT ![t] = 0]
      /\ sleeping' = sleeping
  BY DEF CallOver
<1>2. 0 \in 0..MaxRetries
  BY RetriesAssumption
<1>3. attempt' \in [Threads -> 0..MaxRetries] /\ DOMAIN slept' = Threads
  BY <1>1, <1>2 DEF RetryInv
<1>4. attempt'[t] = 0 /\ slept'[t] = 0
  BY <1>1 DEF RetryInv
<1>5. \A u \in Threads \ {t} :
          attempt'[u] = attempt[u] /\ slept'[u] = slept[u]
          /\ (Pool!Calling(u)' <=> Pool!Calling(u))
  BY <1>1 DEF RetryInv, Pool!Calling
<1>6. ASSUME NEW u \in Threads PROVE slept'[u] = Waited(Due(u))'
  <2>1. CASE u = t
    <3>1. Due(t)' = 0
      BY <1>1, <1>4 DEF Due
    <3> QED
      BY <2>1, <3>1, <1>4, WaitedNothing
  <2>2. CASE u # t
    <3>1. Due(u)' = Due(u)
      BY <2>2, <1>1, <1>5 DEF Due
    <3> QED
      BY <2>2, <3>1, <1>5 DEF RetryInv
  <2> QED
    BY <2>1, <2>2
<1>7. \A u \in Threads : ~Pool!Calling(u)' => slept'[u] = 0
  BY <1>4, <1>5 DEF RetryInv
<1>8. \A u \in sleeping' : Pool!Calling(u)' /\ attempt'[u] < MaxRetries
  BY <1>1, <1>5 DEF RetryInv
<1>9. sleeping' \subseteq Threads
  BY <1>1 DEF RetryInv
<1> QED
  BY <1>3, <1>6, <1>7, <1>8, <1>9 DEF RetryInv

\* A sleep begins: its delay is added.
LEMMA PostFailsKeepsRetryInv ==
    ASSUME RetryInv, NEW t \in Threads, PostFails(t)
    PROVE  RetryInv'
<1>1. /\ Pool!Calling(t) /\ t \notin sleeping /\ attempt[t] < MaxRetries
      /\ sleeping' = sleeping \cup {t} /\ calls' = calls /\ attempt' = attempt
      /\ slept' = [slept EXCEPT ![t] = @ + DelayMs(attempt[t])]
  BY DEF PostFails, Posting, RetriesLeft, poolVars
<1>2. \A u \in Threads : Pool!Calling(u)' <=> Pool!Calling(u)
  BY <1>1 DEF Pool!Calling
<1>3. attempt[t] \in 0..24
  BY <1>1, RetriesAssumption DEF RetryInv
<1>4. ASSUME NEW u \in Threads PROVE slept'[u] = Waited(Due(u))'
  <2>1. CASE u = t
    <3>1. Due(t) = attempt[t]
      BY <1>1, <1>3 DEF Due
    <3>2. Due(t)' = attempt[t] + 1
      BY <1>1 DEF Due
    <3>3. slept[t] = Waited(attempt[t])
      BY <3>1 DEF RetryInv
    <3>4. slept'[t] = slept[t] + DelayMs(attempt[t])
      BY <1>1 DEF RetryInv
    <3>5. Waited(attempt[t]) + DelayMs(attempt[t]) = Waited(attempt[t] + 1)
      BY <1>3, WaitedStep
    <3> QED
      BY <2>1, <3>2, <3>3, <3>4, <3>5, Zenon
  <2>2. CASE u # t
    <3>1. Due(u)' = Due(u) /\ slept'[u] = slept[u]
      BY <2>2, <1>1 DEF Due, RetryInv
    <3> QED
      BY <3>1 DEF RetryInv
  <2> QED
    BY <2>1, <2>2
<1>5. \A u \in Threads : ~Pool!Calling(u)' => slept'[u] = 0
  <2> TAKE u \in Threads
  <2> HAVE ~Pool!Calling(u)'
  <2>1. u # t /\ ~Pool!Calling(u)
    BY <1>1, <1>2
  <2>2. slept'[u] = slept[u]
    BY <2>1, <1>1 DEF RetryInv
  <2> QED
    BY <2>1, <2>2 DEF RetryInv
<1>6. \A u \in sleeping' : Pool!Calling(u)' /\ attempt'[u] < MaxRetries
  BY <1>1, <1>2 DEF RetryInv
<1>7. sleeping' \subseteq Threads /\ DOMAIN slept' = Threads
      /\ attempt' \in [Threads -> 0..MaxRetries] /\ DOMAIN calls' = Threads
  BY <1>1 DEF RetryInv
<1> QED
  BY <1>4, <1>5, <1>6, <1>7 DEF RetryInv

\* A sleep ends: the attempt that was due is made.
LEMMA WakeUpKeepsRetryInv ==
    ASSUME RetryInv, NEW t \in Threads, WakeUp(t)
    PROVE  RetryInv'
<1>1. /\ t \in sleeping /\ sleeping' = sleeping \ {t} /\ calls' = calls /\ slept' = slept
      /\ attempt' = [attempt EXCEPT ![t] = @ + 1]
  BY DEF WakeUp, poolVars
<1>2. \A u \in Threads : Pool!Calling(u)' <=> Pool!Calling(u)
  BY <1>1 DEF Pool!Calling
<1>3. attempt[t] \in 0..MaxRetries /\ attempt[t] < MaxRetries
  BY <1>1 DEF RetryInv
<1>4. attempt[t] + 1 \in 0..MaxRetries
  BY <1>3, RetriesAssumption
<1>5. attempt' \in [Threads -> 0..MaxRetries]
  BY <1>1, <1>4 DEF RetryInv
<1>6. ASSUME NEW u \in Threads PROVE slept'[u] = Waited(Due(u))'
  <2>1. Due(u)' = Due(u)
    <3>1. CASE u = t
      <4>1. attempt'[t] = attempt[t] + 1
        BY <1>1 DEF RetryInv
      <4>2. Due(t)' = attempt[t] + 1 + 0
        BY <1>1, <4>1 DEF Due
      <4>3. Due(t) = attempt[t] + 1
        BY <1>1 DEF Due
      <4> QED
        BY <3>1, <4>2, <4>3, <1>3
    <3>2. CASE u # t
      BY <3>2, <1>1 DEF Due, RetryInv
    <3> QED
      BY <3>1, <3>2
  <2> QED
    BY <1>1, <2>1 DEF RetryInv
<1>7. \A u \in Threads : ~Pool!Calling(u)' => slept'[u] = 0
  BY <1>1, <1>2 DEF RetryInv
<1>8. \A u \in sleeping' : Pool!Calling(u)' /\ attempt'[u] < MaxRetries
  BY <1>1, <1>2 DEF RetryInv
<1>9. sleeping' \subseteq Threads /\ DOMAIN slept' = Threads /\ DOMAIN calls' = Threads
  BY <1>1 DEF RetryInv
<1> QED
  BY <1>5, <1>6, <1>7, <1>8, <1>9 DEF RetryInv

LEMMA RetryInvariant == Spec => []RetryInv
<1>1. ASSUME RetryInv, [Next]_vars PROVE RetryInv'
  <2>1. CASE \E t \in Threads, model \in Requested : Route(t, model)
    <3>1. PICK t \in Threads, model \in Requested : Route(t, model)
      BY <2>1
    <3>2. DOMAIN calls' = Threads /\ \A u \in Threads : Pool!Calling(u) => Pool!Calling(u)'
      BY <1>1, <3>1 DEF Route, Pool!Route, Pool!Calling, RetryInv
    <3> QED
      BY <1>1, <3>1, <3>2, CallsKeepRetryInv DEF Route
  <2>2. CASE \E t \in Threads, l \in Latencies : PostSucceeds(t, l)
    <3>1. PICK t \in Threads, l \in Latencies : PostSucceeds(t, l)
      BY <2>2
    <3>2. DOMAIN calls' = Threads /\ \A u \in Threads \ {t} : calls'[u] = calls[u]
      BY <1>1, <3>1 DEF PostSucceeds, Pool!CallSucceeds, RetryInv
    <3> QED
      BY <1>1, <3>1, <3>2, CallOverKeepsRetryInv DEF PostSucceeds, Posting
  <2>3. CASE \E t \in Threads : PostFails(t)
    BY <1>1, <2>3, PostFailsKeepsRetryInv
  <2>4. CASE \E t \in Threads : WakeUp(t)
    BY <1>1, <2>4, WakeUpKeepsRetryInv
  <2>5. CASE \E t \in Threads : LastPostFails(t)
    <3>1. PICK t \in Threads : LastPostFails(t)
      BY <2>5
    <3>2. DOMAIN calls' = Threads /\ \A u \in Threads \ {t} : calls'[u] = calls[u]
      BY <1>1, <3>1 DEF LastPostFails, Pool!CallFails, RetryInv
    <3> QED
      BY <1>1, <3>1, <3>2, CallOverKeepsRetryInv DEF LastPostFails, Posting
  <2>6. CASE \E s \in StrategyChoices : AdminSetStrategy(s)
    <3>1. UNCHANGED calls /\ UNCHANGED retryVars
      BY <2>6 DEF AdminSetStrategy, Pool!AdminSetStrategy, Pool!threadVars
    <3> QED
      BY <1>1, <3>1, CallsKeepRetryInv DEF Pool!Calling, RetryInv
  <2>7. CASE UNCHANGED vars
    <3>1. UNCHANGED calls /\ UNCHANGED retryVars
      BY <2>7 DEF vars, poolVars
    <3> QED
      BY <1>1, <3>1, CallsKeepRetryInv DEF Pool!Calling, RetryInv
  <2> QED
    BY <1>1, <2>1, <2>2, <2>3, <2>4, <2>5, <2>6, <2>7 DEF Next
<1> QED
  BY <1>1, RetryInvInit, PTL DEF Spec

\* The time a request waits in a call that fails is known: the delays between
\* its attempts, and no delay after the last.
THEOREM RetryDelays == Spec => []SleepsAddUp
<1>1. ASSUME RetryInv PROVE SleepsAddUp
  <2> SUFFICES ASSUME NEW t \in Threads
               PROVE  /\ attempt[t] <= MaxRetries
                      /\ slept[t] = 100 * (2^(attempt[t] + (IF t \in sleeping THEN 1 ELSE 0)) - 1)
                      /\ slept[t] <= 100 * (2^MaxRetries - 1)
                      /\ ~Pool!Calling(t) => slept[t] = 0
    BY DEF SleepsAddUp
  <2>1. attempt[t] \in 0..MaxRetries
    BY <1>1 DEF RetryInv
  <2>2. slept[t] = Waited(Due(t))
    BY <1>1 DEF RetryInv
  <2>3. Due(t) \in 0..MaxRetries
    BY <1>1, <2>1, RetriesAssumption DEF RetryInv, Due
  <2>4. Waited(Due(t)) <= Waited(MaxRetries)
    BY <2>3, RetriesAssumption, WaitedGrows
  <2>5. slept[t] <= Waited(MaxRetries)
    BY <2>2, <2>4, Zenon
  <2>6. slept[t] = 100 * (2^(attempt[t] + (IF t \in sleeping THEN 1 ELSE 0)) - 1)
    BY <2>2, Zenon DEF Waited, Due
  <2>7. slept[t] <= 100 * (2^MaxRetries - 1)
    BY <2>5, Zenon DEF Waited
  <2>8. attempt[t] <= MaxRetries
    BY <2>1, RetriesAssumption
  <2>9. ~Pool!Calling(t) => slept[t] = 0
    BY <1>1 DEF RetryInv
  <2> QED
    BY <2>6, <2>7, <2>8, <2>9, Zenon
<1> QED
  BY <1>1, RetryInvariant, PTL

\* A call with its retries is one call of Failover: the last attempt is the
\* step that ends it, and the attempts and sleeps before it change nothing the
\* router or another thread can see.
THEOREM RetriesImplementCalls == Spec => Pool!Spec
<1>1. Init => Pool!Init
  BY DEF Init
<1>2. ASSUME [Next]_vars PROVE [Pool!Next]_(Pool!vars)
  <2>1. CASE \E t \in Threads, model \in Requested : Route(t, model)
    BY <2>1, Zenon DEF Route, Pool!Next
  <2>2. CASE \E t \in Threads, l \in Latencies : PostSucceeds(t, l)
    BY <2>2, Zenon DEF PostSucceeds, Pool!Next
  <2>3. CASE \E t \in Threads : PostFails(t)
    BY <2>3 DEF PostFails, poolVars, Pool!vars
  <2>4. CASE \E t \in Threads : WakeUp(t)
    BY <2>4 DEF WakeUp, poolVars, Pool!vars
  <2>5. CASE \E t \in Threads : LastPostFails(t)
    BY <2>5, Zenon DEF LastPostFails, Pool!Next
  <2>6. CASE \E s \in StrategyChoices : AdminSetStrategy(s)
    BY <2>6, Zenon DEF AdminSetStrategy, Pool!Next
  <2>7. CASE UNCHANGED vars
    BY <2>7 DEF vars, poolVars, Pool!vars
  <2> QED
    BY <1>2, <2>1, <2>2, <2>3, <2>4, <2>5, <2>6, <2>7 DEF Next
<1> QED
  BY <1>1, <1>2, PTL DEF Spec, Pool!Spec
=============================================================================
