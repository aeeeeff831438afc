--------------------------- MODULE FailoverProofs ---------------------------
(***************************************************************************)
(* Theorems about the circuit breaker of Router under the concurrent       *)
(* reports of Failover, for every set of providers and threads, every      *)
(* strategy and every scale of error rates.                                *)
(***************************************************************************)
EXTENDS Failover, FiniteSetTheorems, SequenceTheorems, WellFoundedInduction, TLAPS

\* What the reports keep true of one provider's health: the breaker is open
\* only above the threshold, and the error rate is no more than its failures
\* account for, as successes only lower it.  The second part says nothing once
\* the count has reached its cap.
SoundHealth(h) ==
    /\ h \in Health
    /\ ~h.available => BreakerOpens(h.error_rate)
    /\ h.errors < ErrorCap => h.error_rate <= h.errors * ErrorStep

BreakerInv == \A p \in DOMAIN health : SoundHealth(health[p])

\* The scale is a multiple of ten, so that a failure adds exactly a tenth.
LEMMA ErrorStepIsTenth == ErrorStep \in Nat \ {0} /\ 10 * ErrorStep = ErrorScale
  BY ErrorScaleAssumption, SMT DEF ErrorStep

LEMMA NewHealthSound == SoundHealth(NewHealth)
  BY ErrorScaleAssumption, CapsAssumption, ErrorStepIsTenth
     DEF SoundHealth, NewHealth, Health, BreakerOpens

LEMMA HealthOfSound ==
    ASSUME BreakerInv, NEW p
    PROVE  SoundHealth(HealthOf(p))
  BY NewHealthSound DEF BreakerInv, HealthOf

\* A product of a count and the step grows by a step with the count.
LEMMA StepTimes ==
    ASSUME NEW n \in Nat
    PROVE  n * ErrorStep \in Nat /\ (n + 1) * ErrorStep = n * ErrorStep + ErrorStep
  BY ErrorStepIsTenth, SMT

\* The decay of report_success.
LEMMA DecayBounded ==
    ASSUME NEW e \in 0..ErrorScale
    PROVE  (95 * e) \div 100 \in 0..ErrorScale /\ (95 * e) \div 100 <= e
  BY ErrorScaleAssumption, SMT

LEMMA AverageType ==
    ASSUME NEW a \in Nat, NEW l \in Nat
    PROVE  (9 * a + l) \div 10 \in Nat
  BY SMT

LEMMA SuccessKeepsSound ==
    ASSUME NEW h, SoundHealth(h), NEW latency \in Nat
    PROVE  SoundHealth(Succeeded(h, latency))
<1> DEFINE rate == (95 * h.error_rate) \div 100
           average == IF h.avg_latency = 0 THEN latency ELSE (9 * h.avg_latency + latency) \div 10
           s == Succeeded(h, latency)
<1>1. /\ h \in Health /\ h.error_rate \in 0..ErrorScale /\ h.avg_latency \in Nat
      /\ h.requests \in 0..RequestCap /\ h.errors \in 0..ErrorCap
  BY DEF SoundHealth, Health
<1>2. rate \in 0..ErrorScale /\ rate <= h.error_rate
  BY <1>1, DecayBounded
<1>3. average \in Nat
  BY <1>1, AverageType
<1>4. CappedInc(h.requests, RequestCap) \in 0..RequestCap
  BY <1>1, CapsAssumption DEF CappedInc
<1>5. s = [h EXCEPT !.available = TRUE, !.requests = CappedInc(h.requests, RequestCap),
                    !.avg_latency = average, !.error_rate = rate]
  BY DEF Succeeded
<1> HIDE DEF rate, average, s
<1>6. s \in Health /\ s.available /\ s.error_rate = rate /\ s.errors = h.errors
  BY <1>1, <1>2, <1>3, <1>4, <1>5 DEF Health
<1>7. h.errors < ErrorCap => h.error_rate <= h.errors * ErrorStep
  BY DEF SoundHealth
<1>8. h.errors * ErrorStep \in Nat
  BY <1>1, StepTimes, CapsAssumption
<1>9. s.errors < ErrorCap => s.error_rate <= s.errors * ErrorStep
  BY <1>1, <1>2, <1>6, <1>7, <1>8, ErrorScaleAssumption
<1>10. SoundHealth(s)
  BY <1>6, <1>9 DEF SoundHealth
<1> QED BY <1>10 DEF s

LEMMA FailureKeepsSound ==
    ASSUME NEW h, SoundHealth(h)
    PROVE  SoundHealth(Failed(h))
<1> DEFINE rate == IF h.error_rate + ErrorStep < ErrorScale
                   THEN h.error_rate + ErrorStep ELSE ErrorScale
           f == Failed(h)
<1>1. /\ h \in Health /\ h.available \in BOOLEAN /\ h.error_rate \in 0..ErrorScale
      /\ h.errors \in 0..ErrorCap
  BY DEF SoundHealth, Health
<1>2. rate \in 0..ErrorScale /\ h.error_rate <= rate /\ rate <= h.error_rate + ErrorStep
  BY <1>1, ErrorStepIsTenth, ErrorScaleAssumption
<1>3. CappedInc(h.errors, ErrorCap) \in 0..ErrorCap
  BY <1>1, CapsAssumption DEF CappedInc
<1>4. f = [h EXCEPT !.errors = CappedInc(h.errors, ErrorCap), !.error_rate = rate,
                    !.available = IF BreakerOpens(rate) THEN FALSE ELSE h.available]
  BY DEF Failed
<1> HIDE DEF rate, f
<1>5. /\ f \in Health /\ f.errors = CappedInc(h.errors, ErrorCap) /\ f.error_rate = rate
      /\ f.available = IF BreakerOpens(rate) THEN FALSE ELSE h.available
  BY <1>1, <1>2, <1>3, <1>4 DEF Health
<1>6. ~f.available => BreakerOpens(f.error_rate)
  <2>1. ~h.available => BreakerOpens(h.error_rate)
    BY DEF SoundHealth
  <2>2. BreakerOpens(h.error_rate) => BreakerOpens(rate)
    BY <1>1, <1>2, ErrorScaleAssumption DEF BreakerOpens
  <2> QED BY <1>5, <2>1, <2>2
<1>7. f.errors < ErrorCap => f.error_rate <= f.errors * ErrorStep
  <2> SUFFICES ASSUME f.errors < ErrorCap PROVE f.error_rate <= f.errors * ErrorStep
    OBVIOUS
  <2>1. h.errors < ErrorCap /\ f.errors = h.errors + 1
    BY <1>1, <1>5, CapsAssumption DEF CappedInc
  <2>2. h.error_rate <= h.errors * ErrorStep
    BY <2>1 DEF SoundHealth
  <2>3. /\ h.errors * ErrorStep \in Nat
        /\ (h.errors + 1) * ErrorStep = h.errors * ErrorStep + ErrorStep
    BY <1>1, StepTimes, CapsAssumption
  <2> QED BY <1>1, <1>2, <1>5, <2>1, <2>2, <2>3, ErrorStepIsTenth, ErrorScaleAssumption
<1>8. SoundHealth(f)
  BY <1>5, <1>6, <1>7 DEF SoundHealth
<1> QED BY <1>8 DEF f

\* A report replaces the health of one provider by a sound one.
LEMMA SetHealthSound ==
    ASSUME BreakerInv, NEW p, NEW h, SoundHealth(h), SetHealth(p, h)
    PROVE  BreakerInv'
<1>1. /\ DOMAIN health' = DOMAIN health \cup {p}
      /\ \A q \in DOMAIN health' : health'[q] = IF q = p THEN h ELSE health[q]
  BY DEF SetHealth
<1>2. \A q \in DOMAIN health' : SoundHealth(health'[q])
  BY <1>1 DEF BreakerInv
<1> QED BY <1>2 DEF BreakerInv

LEMMA BreakerInvariant == Spec => []BreakerInv
<1>1. Init => BreakerInv
  BY DEF Init, RouterInit, BreakerInv
<1>2. BreakerInv /\ [Next]_vars => BreakerInv'
  <2> SUFFICES ASSUME BreakerInv, [Next]_vars PROVE BreakerInv'
    OBVIOUS
  <2>1. ASSUME NEW t \in Threads, NEW model \in Requested, Route(t, model)
        PROVE  BreakerInv'
    BY <2>1 DEF Route, RouteEffect, BreakerInv
  <2>2. ASSUME NEW t \in Threads, NEW l \in Latencies, CallSucceeds(t, l)
        PROVE  BreakerInv'
    <3>1. SoundHealth(Succeeded(HealthOf(Called(t)), l))
      BY HealthOfSound, SuccessKeepsSound, LatenciesAssumption
    <3> QED BY <2>2, <3>1, SetHealthSound DEF CallSucceeds, ReportSuccess
  <2>3. ASSUME NEW t \in Threads, CallFails(t)
        PROVE  BreakerInv'
    <3>1. SoundHealth(Failed(HealthOf(Called(t))))
      BY HealthOfSound, FailureKeepsSound
    <3> QED BY <2>3, <3>1, SetHealthSound DEF CallFails, ReportFailure
  <2>4. ASSUME NEW s \in StrategyChoices, AdminSetStrategy(s)
        PROVE  BreakerInv'
    BY <2>4 DEF AdminSetStrategy, SetStrategy, BreakerInv
  <2>5. ASSUME UNCHANGED vars
        PROVE  BreakerInv'
    BY <2>5 DEF vars, BreakerInv
  <2> QED BY <2>1, <2>2, <2>3, <2>4, <2>5 DEF Next
<1> QED BY <1>1, <1>2, PTL DEF Spec

\* Whatever the order in which concurrent calls report, a provider is excluded
\* only while its error rate is above 0.5.
THEOREM BreakerJustified == Spec => []OpenBreakerIsJustified
<1>1. BreakerInv => OpenBreakerIsJustified
  BY DEF BreakerInv, SoundHealth, OpenBreakerIsJustified
<1> QED BY <1>1, BreakerInvariant, PTL

\* An error count that is kept beyond five shows at least six failures of every
\* excluded provider.
THEOREM SixFailuresNeeded ==
    ASSUME ErrorCap >= 6
    PROVE  Spec => []BreakerNeedsSixFailures
<1>1. BreakerInv => BreakerNeedsSixFailures
  <2> SUFFICES ASSUME BreakerInv, NEW p \in DOMAIN health, ~health[p].available
               PROVE  health[p].errors >= 6
    BY DEF BreakerNeedsSixFailures
  <2> DEFINE e == health[p].errors
             rate == health[p].error_rate
  <2>1. e \in 0..ErrorCap /\ rate \in 0..ErrorScale
    BY DEF BreakerInv, SoundHealth, Health
  <2>2. 2 * rate > ErrorScale
    BY DEF BreakerInv, SoundHealth, BreakerOpens
  <2>3. e < ErrorCap => rate <= e * ErrorStep
    BY DEF BreakerInv, SoundHealth
  <2> HIDE DEF e, rate
  <2>4. CASE e = ErrorCap
    BY <2>4 DEF e
  <2>5. CASE e < ErrorCap /\ e <= 5
    <3>1. e * ErrorStep <= 5 * ErrorStep
      BY <2>1, <2>5, ErrorStepIsTenth, SMT
    <3>2. e * ErrorStep \in Nat
      BY <2>1, StepTimes, CapsAssumption
    <3> QED BY <2>1, <2>2, <2>3, <2>5, <3>1, <3>2, ErrorStepIsTenth, ErrorScaleAssumption
  <2>6. CASE e < ErrorCap /\ ~(e <= 5)
    BY <2>1, <2>6, CapsAssumption DEF e
  <2> QED BY <2>1, <2>4, <2>5, <2>6, CapsAssumption
<1> QED BY <1>1, BreakerInvariant, PTL

----------------------------------------------------------------------------
\* A power of two is positive, as far as the width of an int goes: the provers
\* know a power of literals only.
LEMMA Powers ==
    ASSUME NEW n \in 0..32
    PROVE  2^n \in Nat \ {0}
<1>1. \/ n = 0 \/ n = 1 \/ n = 2 \/ n = 3 \/ n = 4 \/ n = 5 \/ n = 6 \/ n = 7
     \/ n = 8 \/ n = 9 \/ n = 10 \/ n = 11 \/ n = 12 \/ n = 13 \/ n = 14 \/ n = 15
     \/ n = 16 \/ n = 17 \/ n = 18 \/ n = 19 \/ n = 20 \/ n = 21 \/ n = 22 \/ n = 23
     \/ n = 24 \/ n = 25 \/ n = 26 \/ n = 27 \/ n = 28 \/ n = 29 \/ n = 30 \/ n = 31
     \/ n = 32
  OBVIOUS
<1>2. /\ 2^0 > 0 /\ 2^1 > 0 /\ 2^2 > 0 /\ 2^3 > 0 /\ 2^4 > 0 /\ 2^5 > 0
     /\ 2^6 > 0 /\ 2^7 > 0 /\ 2^8 > 0 /\ 2^9 > 0 /\ 2^10 > 0 /\ 2^11 > 0
     /\ 2^12 > 0 /\ 2^13 > 0 /\ 2^14 > 0 /\ 2^15 > 0 /\ 2^16 > 0 /\ 2^17 > 0
     /\ 2^18 > 0 /\ 2^19 > 0 /\ 2^20 > 0 /\ 2^21 > 0 /\ 2^22 > 0 /\ 2^23 > 0
     /\ 2^24 > 0 /\ 2^25 > 0 /\ 2^26 > 0 /\ 2^27 > 0 /\ 2^28 > 0 /\ 2^29 > 0
     /\ 2^30 > 0 /\ 2^31 > 0 /\ 2^32 > 0
  BY SMT
<1>3. 2^n > 0
  BY <1>1, <1>2, Zenon
<1>4. 2^n \in Int
  BY SMT
<1> QED
  BY <1>3, <1>4

\* A set of naturals has a least element, and that is what Min picks.
LEMMA LeastOf ==
    ASSUME NEW S \in SUBSET Nat, S # {}
    PROVE  Min(S) \in S /\ \A i \in S : Min(S) <= i
<1> DEFINE R == OpToRel(<, Nat)
<1>1. \A i, k \in Nat : i < k => <<i, k>> \in R
  BY DEF OpToRel
<1>2. IsWellFoundedOn(R, Nat)
  BY NatLessThanWellFounded
<1> HIDE DEF R
<1>3. PICK k \in S : \A i \in S : ~ (<<i, k>> \in R)
  BY <1>2, WFMin
<1>4. ASSUME NEW i \in S PROVE k <= i
  <2>1. i \in Nat /\ k \in Nat /\ ~ (<<i, k>> \in R)
    BY <1>3
  <2> QED
    BY <1>1, <2>1
<1>5. \E j \in S : \A i \in S : j <= i
  BY <1>4
<1> QED
  BY <1>5 DEF Min

\* Of a finite set of positions there is a k-th.
LEMMA NthMember ==
    ASSUME NEW S \in SUBSET Nat, IsFiniteSet(S), NEW k \in 1..Cardinality(S)
    PROVE  Nth(S, k) \in S
<1> DEFINE Below(c) == {d \in S : d < c}
           n == Cardinality(S)
           rank == [c \in S |-> Cardinality(Below(c))]
<1>1. n \in Nat
  BY FS_CardinalityType
<1>2. ASSUME NEW c \in S
      PROVE  IsFiniteSet(Below(c)) /\ Cardinality(Below(c)) \in 0..n - 1
  <2>1. Below(c) \subseteq S \ {c}
    OBVIOUS
  <2>2. IsFiniteSet(S \ {c}) /\ Cardinality(S \ {c}) = n - 1
    BY FS_RemoveElement
  <2> HIDE DEF Below
  <2>3. IsFiniteSet(Below(c)) /\ Cardinality(Below(c)) <= n - 1
    BY <2>1, <2>2, FS_Subset
  <2>4. Cardinality(Below(c)) \in Nat
    BY <2>3, FS_CardinalityType
  <2> QED
    BY <1>1, <2>3, <2>4
<1>3. ASSUME NEW b \in S, NEW c \in S, b < c
      PROVE  Cardinality(Below(b)) # Cardinality(Below(c))
  <2>1. b \notin Below(b) /\ Below(b) \cup {b} \subseteq Below(c)
    <3>1. b \in Nat /\ c \in Nat /\ b \in Below(c) /\ ~(b < b)
      BY <1>3
    <3>2. ASSUME NEW d \in Below(b) PROVE d \in Below(c)
      <4>1. d \in S /\ d \in Nat /\ d < b
        OBVIOUS
      <4> QED
        BY <1>3, <3>1, <4>1
    <3> QED
      BY <3>1, <3>2
  <2> HIDE DEF Below
  <2>2. Cardinality(Below(b) \cup {b}) = Cardinality(Below(b)) + 1
    BY <1>2, <2>1, FS_AddElement
  <2>3. Cardinality(Below(b) \cup {b}) <= Cardinality(Below(c))
    BY <1>2, <2>1, FS_Subset
  <2> QED
    BY <1>1, <1>2, <2>2, <2>3
<1>4. \A b, c \in S : b # c => b < c \/ c < b
  OBVIOUS
<1> HIDE DEF Below, n
<1>5. rank \in Injection(S, 0..n - 1)
  BY <1>2, <1>3, <1>4 DEF Injection, IsInjective
<1>6. IsFiniteSet(0..n - 1) /\ Cardinality(0..n - 1) = n
  <2>1. 0 \in Int /\ n - 1 \in Int
    BY <1>1
  <2>2. /\ IsFiniteSet(0..n - 1)
        /\ Cardinality(0..n - 1) = IF 0 > n - 1 THEN 0 ELSE n - 1 - 0 + 1
    BY <2>1, FS_Interval
  <2> QED
    BY <1>1, <2>2
<1>7. rank \in Surjection(S, 0..n - 1)
  <2> HIDE DEF rank
  <2> QED
    BY <1>5, <1>6, FS_Injection DEF n
<1>8. k - 1 \in 0..n - 1
  BY <1>1 DEF n
<1>9. \E c \in S : Cardinality(Below(c)) = k - 1
  BY <1>7, <1>8 DEF Surjection
<1> QED
  BY <1>9 DEF Nth, Below

LEMMA ConfigFacts ==
    /\ Configs \in SUBSET (Nat \ {0}) /\ IsFiniteSet(Configs)
    /\ \A c \in Configs : \E n \in Nat : DOMAIN ConfigOf(c).models = 1..n
<1>1. PICK l \in Nat : Configs = 1..l
  <2>1. Len(ProviderConfigs) \in Nat /\ DOMAIN ProviderConfigs = 1..Len(ProviderConfigs)
    BY ConfigsAssumption
  <2> QED
    BY <2>1 DEF Configs
<1>2. IsFiniteSet(1..l)
  BY FS_Interval
<1>3. ASSUME NEW c \in Configs PROVE \E n \in Nat : DOMAIN ConfigOf(c).models = 1..n
  <2> DEFINE Config == [name : STRING, enabled : BOOLEAN, models : Seq(STRING), weight : Nat]
  <2>1. ConfigOf(c) \in Config
    <3>1. ProviderConfigs \in Seq(Config)
      BY ConfigsAssumption
    <3> HIDE DEF Config
    <3> QED
      BY <3>1 DEF Configs, ConfigOf
  <2>2. ConfigOf(c).models \in Seq(STRING)
    BY <2>1
  <2>3. Len(ConfigOf(c).models) \in Nat /\ DOMAIN ConfigOf(c).models = 1..Len(ConfigOf(c).models)
    BY <2>2
  <2> QED
    BY <2>3
<1> QED
  BY <1>1, <1>2, <1>3

\* A strategy that takes the k-th candidate gets a provider in use.
LEMMA CandidateFacts ==
    /\ Candidates \in SUBSET Nat /\ IsFiniteSet(Candidates)
    /\ Cardinality(Candidates) \in Nat
    /\ Candidates # {} => Cardinality(Candidates) >= 1
    /\ \A k \in 1..Cardinality(Candidates) : Nth(Candidates, k) \in Candidates
    /\ \A c \in Candidates : Available(ConfigOf(c).name)
<1>1. Candidates \subseteq Configs /\ \A c \in Candidates : Available(ConfigOf(c).name)
  BY DEF Candidates, Usable
<1>2. Candidates \in SUBSET Nat /\ IsFiniteSet(Candidates)
  BY <1>1, ConfigFacts, FS_Subset
<1>3. Cardinality(Candidates) \in Nat
  BY <1>2, FS_CardinalityType
<1>4. Candidates # {} => Cardinality(Candidates) # 0
  BY <1>2, FS_EmptySet
<1>5. \A k \in 1..Cardinality(Candidates) : Nth(Candidates, k) \in Candidates
  BY <1>2, NthMember
<1> QED
  BY <1>1, <1>2, <1>3, <1>4, <1>5

LEMMA OffersFinite == IsFiniteSet(Offers)
<1> DEFINE U == {d \in Configs : Usable(d)}
           of(c) == {<<c, m>> : m \in DOMAIN ConfigOf(c).models}
           T == {of(c) : c \in U}
           g == [c \in U |-> of(c)]
<1>1. IsFiniteSet(U)
  BY ConfigFacts, FS_Subset
<1>2. IsFiniteSet(T)
  <2>1. g \in Surjection(U, T)
    BY DEF Surjection
  <2> HIDE DEF U, T, g
  <2> QED
    BY <1>1, <2>1, FS_Surjection
<1>3. ASSUME NEW c \in U PROVE IsFiniteSet(of(c))
  <2>1. PICK n \in Nat : DOMAIN ConfigOf(c).models = 1..n
    BY ConfigFacts
  <2> DEFINE h == [m \in 1..n |-> <<c, m>>]
             R == of(c)
  <2>2. h \in Surjection(1..n, R)
    BY <2>1 DEF Surjection
  <2>3. IsFiniteSet(1..n)
    BY FS_Interval
  <2> HIDE DEF h, R
  <2>4. IsFiniteSet(R)
    BY <2>2, <2>3, FS_Surjection
  <2> QED
    BY <2>4 DEF R
<1>4. \A S \in T : IsFiniteSet(S)
  BY <1>3
<1>5. Offers = UNION T
  BY DEF Offers
<1> HIDE DEF T
<1> QED
  BY <1>2, <1>4, <1>5, FS_UNION

\* An offer is one of a provider in use.
LEMMA OfferFacts ==
    ASSUME NEW o \in Offers
    PROVE  /\ o = <<o[1], o[2]>> /\ o[1] \in Nat /\ o[2] \in Nat
           /\ Available(OfferKey(o)[1])
<1>1. PICK c \in Configs : Usable(c) /\ o \in {<<c, m>> : m \in DOMAIN ConfigOf(c).models}
  BY DEF Offers
<1>2. PICK m \in DOMAIN ConfigOf(c).models : o = <<c, m>>
  BY <1>1
<1>3. c \in Nat /\ m \in Nat
  BY ConfigFacts
<1> QED
  BY <1>1, <1>2, <1>3 DEF OfferKey, Usable

\* The cost strategy finds a cheapest offer when there is a priced one.
Cheaper(o, q) ==
    \/ OfferPrice(o) < OfferPrice(q)
    \/ OfferPrice(o) = OfferPrice(q) /\ Before(o, q)

LEMMA CheapestExists ==
    ASSUME NEW P \in SUBSET Offers, P # {}, \A o \in P : Priced(o)
    PROVE  \E o \in P : \A q \in P \ {o} : Cheaper(o, q)
<1>1. \A o \in P : OfferPrice(o) \in Nat /\ o[1] \in Nat /\ o[2] \in Nat /\ o = <<o[1], o[2]>>
  BY OfferFacts, PriceAssumption DEF OfferPrice, Priced
<1> DEFINE prices == {OfferPrice(o) : o \in P}
           p == Min(prices)
           Best == {o \in P : OfferPrice(o) = p}
           configs == {o[1] : o \in Best}
           c == Min(configs)
           OfBest == {o \in Best : o[1] = c}
           models == {o[2] : o \in OfBest}
           m == Min(models)
<1>2. p \in prices /\ \A x \in prices : p <= x
  <2>1. prices \in SUBSET Nat /\ prices # {}
    BY <1>1
  <2> HIDE DEF prices
  <2> QED
    BY <2>1, LeastOf
<1>3. Best \in SUBSET P /\ Best # {} /\ \A q \in P : p <= OfferPrice(q)
  BY <1>2
<1> HIDE DEF p
<1>4. c \in configs /\ \A x \in configs : c <= x
  <2>1. configs \in SUBSET Nat /\ configs # {}
    BY <1>1, <1>3
  <2> HIDE DEF configs
  <2> QED
    BY <2>1, LeastOf
<1>5. OfBest \in SUBSET Best /\ OfBest # {} /\ \A q \in Best : c <= q[1]
  BY <1>4
<1> HIDE DEF c
<1>6. m \in models /\ \A x \in models : m <= x
  <2>1. models \in SUBSET Nat /\ models # {}
    BY <1>1, <1>3, <1>5
  <2> HIDE DEF models
  <2> QED
    BY <2>1, LeastOf
<1>7. PICK o \in OfBest : o[2] = m
  BY <1>6
<1>8. \A q \in OfBest : m <= q[2]
  BY <1>6
<1> HIDE DEF m
<1>9. o \in P /\ OfferPrice(o) = p /\ o[1] = c
  BY <1>3, <1>5
<1>10. ASSUME NEW q \in P \ {o} PROVE Cheaper(o, q)
  <2>1. CASE q \notin Best
    <3>1. p <= OfferPrice(q) /\ OfferPrice(q) # p
      BY <2>1, <1>3
    <3> QED
      BY <3>1, <1>1, <1>9 DEF Cheaper
  <2>2. CASE q \in Best /\ q \notin OfBest
    <3>1. c <= q[1] /\ q[1] # c /\ OfferPrice(q) = p
      BY <2>2, <1>5
    <3> QED
      BY <3>1, <1>1, <1>9 DEF Cheaper, Before
  <2>3. CASE q \in OfBest
    <3>1. m <= q[2] /\ q[1] = c /\ OfferPrice(q) = p
      BY <2>3, <1>8
    <3>2. q[2] # m
      BY <3>1, <1>1, <1>7, <1>9
    <3> QED
      BY <3>1, <3>2, <1>1, <1>7, <1>9 DEF Cheaper, Before
  <2> QED
    BY <2>1, <2>2, <2>3
<1> QED
  BY <1>9, <1>10

----------------------------------------------------------------------------
\* A decision of route: a chain of providers in use, and a primary that is in
\* use, or the one the client named, or the last resort of the cost strategy.
Sheds(model, d) ==
    /\ \E n \in Nat : DOMAIN d.chain = 1..n
    /\ \A i \in DOMAIN d.chain : Available(d.chain[i])
    /\ d.provider # NoProvider =>
          \/ Available(d.provider)
          \/ Direct(model) /\ Resolve(model)[1] = d.provider
          \/ strategy = "cost" /\ ~\E o \in Offers : Priced(o)

LEMMA DecisionFields ==
    ASSUME NEW p, NEW m, NEW chain
    PROVE  /\ Decision(p, m, chain).provider = p
           /\ Decision(p, m, chain).chain = chain
  BY DEF Decision

\* With no chain, only the primary matters.
LEMMA ShedsAlone ==
    ASSUME NEW model, NEW p, NEW m,
           \/ p = NoProvider \/ Available(p)
           \/ strategy = "cost" /\ ~\E o \in Offers : Priced(o)
    PROVE  Sheds(model, Decision(p, m, <<>>))
<1>1. DOMAIN <<>> = 1..0
  OBVIOUS
<1> QED
  BY <1>1, DecisionFields DEF Sheds

LEMMA NoneSheds ==
    ASSUME NEW model
    PROVE  Sheds(model, NoDecision)
  BY ShedsAlone DEF NoDecision

LEMMA DirectSheds ==
    ASSUME NEW model, Direct(model), IsFiniteSet(DOMAIN health),
           NEW d \in RouteDecisions(model)
    PROVE  Sheds(model, d)
<1> DEFINE p == Resolve(model)[1]
           S == OthersKnownAvailable(p)
<1>1. PICK chain \in SetToSeqs(S) : d = Decision(p, Resolve(model)[2], chain)
  BY DEF RouteDecisions
<1>2. IsFiniteSet(S)
  BY FS_Subset DEF OthersKnownAvailable
<1>3. chain \in [1..Cardinality(S) -> S] /\ Cardinality(S) \in Nat
  BY <1>2, FS_CardinalityType DEF SetToSeqs
<1>4. \A q \in S : Available(q)
  BY DEF OthersKnownAvailable, Available, HealthOf
<1> HIDE DEF S
<1>5. d.provider = p /\ d.chain = chain
  BY <1>1, DecisionFields
<1> QED
  BY <1>3, <1>4, <1>5 DEF Sheds

LEMMA CostSheds ==
    ASSUME NEW model, strategy = "cost"
    PROVE  Sheds(model, CostOptimized)
<1> DEFINE priced == {o \in Offers : Priced(o)}
           best == CHOOSE o \in priced : \A q \in priced \ {o} : Cheaper(o, q)
           enabled == {c \in Configs : ConfigOf(c).enabled /\ HasModels(c)}
<1>1. CASE priced # {}
  <2>1. best \in priced
    <3>1. priced \in SUBSET Offers /\ \A o \in priced : Priced(o)
      OBVIOUS
    <3> HIDE DEF priced
    <3>2. \E o \in priced : \A q \in priced \ {o} : Cheaper(o, q)
      BY <1>1, <3>1, CheapestExists
    <3> QED
      BY <3>2
  <2>2. CostOptimized = Decision(OfferKey(best)[1], OfferKey(best)[2], <<>>)
    BY <1>1 DEF CostOptimized, Cheaper
  <2> HIDE DEF best
  <2>3. Available(OfferKey(best)[1])
    BY <2>1, OfferFacts
  <2> QED
    BY <2>2, <2>3, ShedsAlone
<1>2. CASE priced = {}
  <2>1. ~\E o \in Offers : Priced(o)
    BY <1>2
  <2>2. CASE enabled # {}
    <3>1. CostOptimized = FirstModel(Min(enabled), <<>>)
      BY <1>2, <2>2 DEF CostOptimized
    <3> QED
      BY <2>1, <3>1, ShedsAlone DEF FirstModel
  <2>3. CASE enabled = {}
    <3>1. CostOptimized = NoDecision
      BY <1>2, <2>3 DEF CostOptimized
    <3> QED
      BY <3>1, NoneSheds
  <2> QED
    BY <2>2, <2>3
<1> QED
  BY <1>1, <1>2

LEMMA LatencySheds ==
    ASSUME NEW model, \A p \in DOMAIN health : health[p].avg_latency \in Nat
    PROVE  Sheds(model, LatencyOptimized)
<1> DEFINE fastest == {c \in Candidates : \A d \in Candidates : LatencyOf(c) <= LatencyOf(d)}
<1>1. CASE Candidates = {}
  BY <1>1, NoneSheds DEF LatencyOptimized
<1>2. CASE Candidates # {}
  <2> DEFINE latencies == {LatencyOf(c) : c \in Candidates}
  <2>1. latencies \in SUBSET Nat /\ latencies # {}
    BY <1>2 DEF LatencyOf
  <2>2. Min(latencies) \in latencies /\ \A l \in latencies : Min(latencies) <= l
    <3> HIDE DEF latencies
    <3> QED
      BY <2>1, LeastOf
  <2>3. fastest \in SUBSET Nat /\ fastest # {}
    <3>1. PICK c \in Candidates : LatencyOf(c) = Min(latencies)
      BY <2>2
    <3>2. \A d \in Candidates : LatencyOf(d) \in latencies
      OBVIOUS
    <3> HIDE DEF latencies
    <3>3. c \in fastest
      BY <2>2, <3>1, <3>2
    <3> QED
      BY <3>3, CandidateFacts
  <2>4. Min(fastest) \in fastest
    <3> HIDE DEF fastest
    <3> QED
      BY <2>3, LeastOf
  <2>5. LatencyOptimized = FirstModel(Min(fastest), <<>>)
    BY <1>2 DEF LatencyOptimized
  <2>6. Available(ConfigOf(Min(fastest)).name)
    BY <2>4, CandidateFacts
  <2> HIDE DEF fastest
  <2> QED
    BY <2>5, <2>6, ShedsAlone DEF FirstModel
<1> QED
  BY <1>1, <1>2

\* The index is negative once it has wrapped, but what it picks is a candidate.
LEMMA RoundRobinSheds ==
    ASSUME NEW model, round_robin_idx \in Int
    PROVE  Sheds(model, RoundRobin)
<1>1. CASE Candidates = {}
  BY <1>1, NoneSheds DEF RoundRobin
<1>2. CASE Candidates # {}
  <2> DEFINE n == Cardinality(Candidates)
             i == AsSize(round_robin_idx)
  <2>1. n \in Nat /\ n >= 1
    BY <1>2, CandidateFacts
  <2>2. i \in Nat
    <3>1. PICK b \in Nat \ {0} : b = 2^IndexBits
      <4>1. IndexBits \in 0..32
        BY IndexAssumption
      <4>2. 2^IndexBits \in Nat \ {0}
        BY <4>1, Powers
      <4> QED
        BY <4>2, Zenon
    <3>2. b * b \in Nat \ {0}
      BY SMT
    <3> QED
      BY <3>1, <3>2, SMT DEF AsSize
  <2> HIDE DEF n, i
  <2>3. (i % n) + 1 \in 1..n
    BY <2>1, <2>2, SMT
  <2>4. RoundRobinPick \in Candidates
    BY <2>3, CandidateFacts DEF RoundRobinPick, n, i
  <2> QED
    BY <1>2, <2>4, CandidateFacts, ShedsAlone DEF RoundRobin, FirstModel
<1> QED
  BY <1>1, <1>2

LEMMA FailoverSheds ==
    ASSUME NEW model
    PROVE  Sheds(model, FailoverChain)
<1>1. CASE Candidates = {}
  BY <1>1, NoneSheds DEF FailoverChain
<1>2. CASE Candidates # {}
  <2> DEFINE n == Cardinality(Candidates)
             others == [i \in 1..n - 1 |-> ConfigOf(Nth(Candidates, i + 1)).name]
  <2>1. n \in Nat /\ n >= 1
    BY <1>2, CandidateFacts
  <2>2. ASSUME NEW i \in 1..n - 1 PROVE Available(others[i])
    <3>1. i + 1 \in 1..n
      BY <2>1
    <3>2. Nth(Candidates, i + 1) \in Candidates
      BY <3>1, CandidateFacts
    <3> QED
      BY <3>2, CandidateFacts
  <2>3. Available(ConfigOf(Nth(Candidates, 1)).name)
    <3>1. 1 \in 1..n
      BY <2>1
    <3> QED
      BY <3>1, CandidateFacts
  <2>4. FailoverChain = FirstModel(Nth(Candidates, 1), others)
    BY <1>2 DEF FailoverChain
  <2>5. DOMAIN others = 1..n - 1 /\ n - 1 \in Nat
    BY <2>1
  <2> HIDE DEF others, n
  <2>6. /\ FailoverChain.provider = ConfigOf(Nth(Candidates, 1)).name
        /\ FailoverChain.chain = others
    BY <2>4, DecisionFields DEF FirstModel
  <2> QED
    BY <2>2, <2>3, <2>5, <2>6 DEF Sheds
<1> QED
  BY <1>1, <1>2

LEMMA SmartSheds ==
    ASSUME NEW model, NEW d \in Smart
    PROVE  Sheds(model, d)
<1>1. CASE Offers = {}
  BY <1>1, NoneSheds DEF Smart
<1>2. CASE Offers # {}
  <2> DEFINE n == Min({4, Cardinality(Offers)})
  <2>1. n \in Nat /\ n >= 1
    <3>1. Cardinality(Offers) \in Nat /\ Cardinality(Offers) # 0
      BY <1>2, OffersFinite, FS_CardinalityType, FS_EmptySet
    <3> DEFINE S == {4, Cardinality(Offers)}
    <3>2. S \in SUBSET Nat /\ S # {}
      BY <3>1
    <3> HIDE DEF S
    <3>3. Min(S) \in S
      BY <3>2, LeastOf
    <3> QED
      BY <3>1, <3>3 DEF S
  <2>2. PICK r \in Rankings(n) :
           d = Decision(OfferKey(r[1])[1], OfferKey(r[1])[2],
                        [i \in 1..n - 1 |-> OfferKey(r[i + 1])[1]])
    BY <1>2 DEF Smart
  <2> DEFINE chain == [i \in 1..n - 1 |-> OfferKey(r[i + 1])[1]]
  <2>3. \A i \in 1..n : r[i] \in Offers
    BY DEF Rankings
  <2>4. ASSUME NEW i \in 1..n - 1 PROVE Available(chain[i])
    <3>1. i + 1 \in 1..n
      <4> HIDE DEF n
      <4> QED
        BY <2>1
    <3> QED
      BY <2>3, <3>1, OfferFacts
  <2>5. Available(OfferKey(r[1])[1])
    <3>1. 1 \in 1..n
      <4> HIDE DEF n
      <4> QED
        BY <2>1
    <3> QED
      BY <2>3, <3>1, OfferFacts
  <2>6. d.provider = OfferKey(r[1])[1] /\ d.chain = chain
    BY <2>2, DecisionFields
  <2>7. DOMAIN chain = 1..n - 1 /\ n - 1 \in Nat
    <3> HIDE DEF n
    <3> QED
      BY <2>1
  <2> HIDE DEF n, chain
  <2> QED
    BY <2>4, <2>5, <2>6, <2>7 DEF Sheds
<1> QED
  BY <1>1, <1>2

\* Whatever the strategy and the health.
LEMMA DecisionSheds ==
    ASSUME IsFiniteSet(DOMAIN health), \A p \in DOMAIN health : health[p].avg_latency \in Nat,
           round_robin_idx \in Int, NEW model, NEW d \in RouteDecisions(model)
    PROVE  Sheds(model, d)
<1>1. CASE Direct(model)
  BY <1>1, DirectSheds
<1>2. CASE ~Direct(model)
  <2>1. \/ strategy = "cost" /\ d = CostOptimized
        \/ d = LatencyOptimized \/ d = RoundRobin \/ d = FailoverChain \/ d \in Smart
    BY <1>2 DEF RouteDecisions
  <2> QED
    BY <2>1, CostSheds, LatencySheds, RoundRobinSheds, FailoverSheds, SmartSheds
<1> QED
  BY <1>1, <1>2

\* The plan of a decision: the primary, then members of the chain, registered
\* all of them.
LEMMA PlanFacts ==
    ASSUME NEW d, IsRegistered(d.provider), NEW n \in Nat, DOMAIN d.chain = 1..n
    PROVE  /\ CallPlan(d) \in Seq(Registered)
           /\ CallPlan(d) # <<>>
           /\ CallPlan(d)[1] = d.provider
           /\ \A i \in 2..Len(CallPlan(d)) : \E j \in 1..n : CallPlan(d)[i] = d.chain[j]
<1> DEFINE registered == {i \in DOMAIN d.chain : IsRegistered(d.chain[i])}
           k == Cardinality(registered)
           first == <<d.provider>>
           rest == [i \in 1..k |-> d.chain[Nth(registered, i)]]
           plan == first \o rest
<1>1. registered \in SUBSET Nat /\ IsFiniteSet(registered)
  <2>1. IsFiniteSet(1..n)
    BY FS_Interval
  <2>2. registered \subseteq 1..n
    OBVIOUS
  <2>3. registered \in SUBSET Nat
    BY <2>2
  <2> HIDE DEF registered
  <2>4. IsFiniteSet(registered)
    BY <2>1, <2>2, FS_Subset
  <2> QED
    BY <2>3, <2>4
<1>2. k \in Nat
  BY <1>1, FS_CardinalityType
<1>3. ASSUME NEW i \in 1..k
      PROVE  Nth(registered, i) \in 1..n /\ IsRegistered(d.chain[Nth(registered, i)])
  <2> HIDE DEF registered
  <2>1. Nth(registered, i) \in registered
    BY <1>1, NthMember
  <2> QED
    BY <2>1 DEF registered
<1>4. CallPlan(d) = plan
  BY DEF CallPlan
<1> HIDE DEF k, registered
<1>5. first \in Seq(Registered) /\ Len(first) = 1 /\ first[1] = d.provider
  BY DEF IsRegistered
<1>6. rest \in Seq(Registered) /\ Len(rest) = k
  <2>1. \A i \in 1..k : rest[i] \in Registered
    BY <1>3 DEF IsRegistered
  <2>2. rest \in [1..k -> Registered]
    BY <2>1
  <2> HIDE DEF rest
  <2> QED
    BY <1>2, <2>2
<1>7. \A i \in 1..k : rest[i] \in {d.chain[j] : j \in 1..n}
  BY <1>3
<1> HIDE DEF first, rest
<1>8. /\ plan \in Seq(Registered) /\ Len(plan) = 1 + k
      /\ \A i \in 1..1 + k : plan[i] = IF i <= 1 THEN first[i] ELSE rest[i - 1]
  <2>1. /\ plan \in Seq(Registered)
        /\ Len(plan) = Len(first) + Len(rest)
        /\ \A i \in 1..Len(first) + Len(rest) :
              plan[i] = IF i <= Len(first) THEN first[i] ELSE rest[i - Len(first)]
    <3>1. first \in Seq(Registered) /\ rest \in Seq(Registered)
      BY <1>5, <1>6
    <3> QED
      BY <3>1, ConcatProperties, Zenon
  <2> HIDE DEF plan
  <2>2. Len(plan) = 1 + k
    BY <1>2, <1>5, <1>6, <2>1
  <2>3. \A i \in 1..1 + k : plan[i] = IF i <= 1 THEN first[i] ELSE rest[i - 1]
    BY <1>2, <1>5, <1>6, <2>1
  <2> QED
    BY <2>1, <2>2, <2>3
<1> HIDE DEF plan
<1>9. plan[1] = d.provider /\ plan # <<>>
  BY <1>2, <1>5, <1>8
<1>10. ASSUME NEW i \in 2..Len(plan) PROVE \E j \in 1..n : plan[i] = d.chain[j]
  <2>1. i - 1 \in 1..k /\ plan[i] = rest[i - 1]
    BY <1>2, <1>8
  <2> QED
    BY <2>1, <1>7
<1> QED
  BY <1>4, <1>8, <1>9, <1>10

LEMMA RegisteredFinite == IsFiniteSet(Registered)
<1> DEFINE enabled == {c \in Configs : ConfigOf(c).enabled}
           names == {ConfigOf(c).name : c \in enabled}
           name == [c \in enabled |-> ConfigOf(c).name]
<1>1. IsFiniteSet(enabled)
  BY ConfigFacts, FS_Subset
<1>2. name \in Surjection(enabled, names)
  BY DEF Surjection
<1>3. Registered \subseteq names
  BY RegisteredAssumption
<1> HIDE DEF enabled, names, name
<1> QED
  BY <1>1, <1>2, <1>3, FS_Surjection, FS_Subset

\* Only registered providers are planned, so only they are reported on, and
\* the health a decision reads is finite and of the right type.
PoolInv ==
    /\ BreakerInv
    /\ health \in [DOMAIN health -> Health]
    /\ strategy \in Strategies
    /\ round_robin_idx \in -(2^(IndexBits - 1))..(2^(IndexBits - 1) - 1)
    /\ DOMAIN health \subseteq Registered
    /\ calls \in [Threads -> Seq(Registered)]
    /\ outcome \in [Threads -> Outcomes]

\* What a decision needs of the health and the index.
LEMMA PoolFacts ==
    ASSUME PoolInv
    PROVE  /\ IsFiniteSet(DOMAIN health)
           /\ \A p \in DOMAIN health : health[p].avg_latency \in Nat
           /\ round_robin_idx \in Int
<1>1. IsFiniteSet(DOMAIN health)
  BY RegisteredFinite, FS_Subset DEF PoolInv
<1>2. \A p \in DOMAIN health : health[p].avg_latency \in Nat
  BY DEF PoolInv, BreakerInv, SoundHealth, Health
<1>3. PICK b \in Nat \ {0} : b = 2^(IndexBits - 1)
  <2>1. IndexBits - 1 \in 0..32
    BY IndexAssumption
  <2>2. 2^(IndexBits - 1) \in Nat \ {0}
    BY <2>1, Powers
  <2> QED
    BY <2>2, Zenon
<1>4. round_robin_idx \in -b..b - 1
  BY <1>3 DEF PoolInv
<1>5. round_robin_idx \in Int
  BY <1>4
<1> QED
  BY <1>1, <1>2, <1>5

\* The index of round robin wraps within its width.
LEMMA IndexStays ==
    ASSUME PoolInv
    PROVE  NextIndex \in -(2^(IndexBits - 1))..(2^(IndexBits - 1) - 1)
<1>1. PICK b \in Nat \ {0} : b = 2^(IndexBits - 1)
  <2>1. IndexBits - 1 \in 0..32
    BY IndexAssumption
  <2>2. 2^(IndexBits - 1) \in Nat \ {0}
    BY <2>1, Powers
  <2> QED
    BY <2>2, Zenon
<1>2. round_robin_idx \in -b..b - 1
  BY <1>1 DEF PoolInv
<1>3. NextIndex = IF round_robin_idx = b - 1 THEN -b ELSE round_robin_idx + 1
  BY <1>1 DEF NextIndex
<1>4. NextIndex \in -b..b - 1
  BY <1>2, <1>3
<1> QED
  BY <1>1, <1>4

\* A request is routed: nothing is reported, and the plan is of registered
\* providers.
LEMMA RouteStep ==
    ASSUME PoolInv, NEW t \in Threads, NEW model \in Requested, Route(t, model)
    PROVE  /\ UNCHANGED <<health, strategy>>
           /\ round_robin_idx' \in -(2^(IndexBits - 1))..(2^(IndexBits - 1) - 1)
           /\ calls' \in [Threads -> Seq(Registered)]
           /\ outcome' \in [Threads -> Outcomes]
<1>1. PICK d \in RouteDecisions(model) :
         /\ RouteEffect(model)
         /\ IF d.provider # NoProvider /\ IsRegistered(d.provider)
            THEN /\ calls' = [calls EXCEPT ![t] = CallPlan(d)]
                 /\ outcome' = [outcome EXCEPT ![t] = "none"]
            ELSE /\ outcome' = [outcome EXCEPT ![t] = "503"]
                 /\ UNCHANGED calls
  BY DEF Route
<1>2. UNCHANGED <<health, strategy>>
  BY <1>1 DEF RouteEffect
<1>3. round_robin_idx' \in -(2^(IndexBits - 1))..(2^(IndexBits - 1) - 1)
  <2>1. round_robin_idx' = NextIndex \/ round_robin_idx' = round_robin_idx
    BY <1>1 DEF RouteEffect
  <2> QED
    BY <2>1, IndexStays DEF PoolInv
<1>4. outcome' \in [Threads -> Outcomes]
  BY <1>1 DEF PoolInv, Outcomes
<1>5. calls' \in [Threads -> Seq(Registered)]
  <2>1. CASE d.provider # NoProvider /\ IsRegistered(d.provider)
    <3>1. Sheds(model, d)
      BY PoolFacts, DecisionSheds
    <3>2. PICK n \in Nat : DOMAIN d.chain = 1..n
      BY <3>1 DEF Sheds
    <3>3. CallPlan(d) \in Seq(Registered)
      BY <2>1, <3>2, PlanFacts
    <3> QED
      BY <1>1, <2>1, <3>3 DEF PoolInv
  <2>2. CASE ~(d.provider # NoProvider /\ IsRegistered(d.provider))
    BY <1>1, <2>2 DEF PoolInv
  <2> QED
    BY <2>1, <2>2
<1> QED
  BY <1>2, <1>3, <1>4, <1>5

\* A call in progress is one of a registered provider.
LEMMA CallFacts ==
    ASSUME PoolInv, NEW t \in Threads, Calling(t)
    PROVE  /\ Called(t) \in Registered
           /\ NextCalls(calls[t]) \in Seq(Registered)
<1>1. calls[t] \in Seq(Registered) /\ calls[t] # <<>>
  BY DEF PoolInv, Calling
<1> QED
  BY <1>1, HeadTailProperties DEF Called, NextCalls

\* A report about a registered provider.
LEMMA ReportStep ==
    ASSUME PoolInv, NEW p \in Registered, NEW h, SoundHealth(h), SetHealth(p, h)
    PROVE  /\ BreakerInv'
           /\ health' \in [DOMAIN health' -> Health]
           /\ DOMAIN health' \subseteq Registered
<1>1. BreakerInv'
  BY SetHealthSound DEF PoolInv
<1>2. health' = [q \in DOMAIN health \cup {p} |-> IF q = p THEN h ELSE health[q]]
  BY DEF SetHealth
<1>3. DOMAIN health' = DOMAIN health \cup {p} /\ h \in Health
  BY <1>2 DEF SoundHealth
<1>4. \A q \in DOMAIN health' : health'[q] \in Health
  BY <1>2, <1>3 DEF PoolInv
<1>5. health' = [q \in DOMAIN health' |-> health'[q]]
  BY <1>2
<1> QED
  BY <1>1, <1>3, <1>4, <1>5 DEF PoolInv

LEMMA PoolStart == Init => PoolInv
<1> SUFFICES ASSUME Init PROVE PoolInv
  OBVIOUS
<1>1. health = [p \in {} |-> NewHealth] /\ round_robin_idx = 0
  BY DEF Init, RouterInit
<1>2. health \in [DOMAIN health -> Health] /\ DOMAIN health \subseteq Registered /\ BreakerInv
  BY <1>1 DEF BreakerInv
<1>3. strategy \in Strategies
  BY StrategyAssumption DEF Init, RouterInit
<1>4. 0 \in -(2^(IndexBits - 1))..(2^(IndexBits - 1) - 1)
  <2>1. IndexBits - 1 \in 0..32
    BY IndexAssumption
  <2>2. 2^(IndexBits - 1) \in Nat \ {0}
    BY <2>1, Powers
  <2>3. PICK b \in Nat \ {0} : b = 2^(IndexBits - 1)
    BY <2>2, Zenon
  <2>4. 0 \in -b..b - 1
    OBVIOUS
  <2> QED
    BY <2>3, <2>4
<1>5. <<>> \in Seq(Registered)
  OBVIOUS
<1>6. calls \in [Threads -> Seq(Registered)] /\ outcome \in [Threads -> Outcomes]
  BY <1>5 DEF Init, Outcomes
<1> QED
  BY <1>1, <1>2, <1>3, <1>4, <1>6 DEF PoolInv

LEMMA PoolSteps == PoolInv /\ [Next]_vars => PoolInv'
<1> SUFFICES ASSUME PoolInv, [Next]_vars PROVE PoolInv'
  OBVIOUS
<1>1. ASSUME NEW t \in Threads, NEW model \in Requested, Route(t, model)
      PROVE  PoolInv'
  <2>1. UNCHANGED <<health, strategy>>
    BY <1>1, RouteStep
  <2>2. BreakerInv'
    BY <2>1 DEF BreakerInv, PoolInv
  <2> QED
    BY <1>1, <2>1, <2>2, RouteStep DEF PoolInv
<1>2. ASSUME NEW t \in Threads, NEW l \in Latencies, CallSucceeds(t, l)
      PROVE  PoolInv'
  <2> DEFINE p == Called(t)
             h == Succeeded(HealthOf(p), l)
  <2>1. p \in Registered
    BY <1>2, CallFacts DEF CallSucceeds
  <2>2. SoundHealth(h)
    BY HealthOfSound, SuccessKeepsSound, LatenciesAssumption DEF PoolInv
  <2>3. SetHealth(p, h) /\ UNCHANGED <<strategy, round_robin_idx>>
    BY <1>2 DEF CallSucceeds, ReportSuccess
  <2> HIDE DEF p, h
  <2>4. /\ BreakerInv' /\ health' \in [DOMAIN health' -> Health]
        /\ DOMAIN health' \subseteq Registered
    BY <2>1, <2>2, <2>3, ReportStep
  <2>5. <<>> \in Seq(Registered)
    OBVIOUS
  <2>6. calls' \in [Threads -> Seq(Registered)] /\ outcome' \in [Threads -> Outcomes]
    BY <1>2, <2>5 DEF CallSucceeds, PoolInv, Outcomes
  <2> QED
    BY <2>3, <2>4, <2>6 DEF PoolInv
<1>3. ASSUME NEW t \in Threads, CallFails(t)
      PROVE  PoolInv'
  <2> DEFINE p == Called(t)
             h == Failed(HealthOf(p))
  <2>1. p \in Registered /\ NextCalls(calls[t]) \in Seq(Registered)
    BY <1>3, CallFacts DEF CallFails
  <2>2. SoundHealth(h)
    BY HealthOfSound, FailureKeepsSound DEF PoolInv
  <2>3. SetHealth(p, h) /\ UNCHANGED <<strategy, round_robin_idx>>
    BY <1>3 DEF CallFails, ReportFailure
  <2> HIDE DEF p, h
  <2>4. /\ BreakerInv' /\ health' \in [DOMAIN health' -> Health]
        /\ DOMAIN health' \subseteq Registered
    BY <2>1, <2>2, <2>3, ReportStep
  <2>5. calls' \in [Threads -> Seq(Registered)]
    BY <1>3, <2>1 DEF CallFails, PoolInv
  <2>6. outcome' \in [Threads -> Outcomes]
    BY <1>3 DEF CallFails, PoolInv, Outcomes
  <2> QED
    BY <2>3, <2>4, <2>5, <2>6 DEF PoolInv
<1>4. ASSUME NEW s \in StrategyChoices, AdminSetStrategy(s)
      PROVE  PoolInv'
  <2>1. strategy' \in Strategies
    BY <1>4, StrategyAssumption DEF AdminSetStrategy, SetStrategy
  <2>2. UNCHANGED <<health, round_robin_idx, calls, outcome>>
    BY <1>4 DEF AdminSetStrategy, SetStrategy, threadVars
  <2> QED
    BY <2>1, <2>2 DEF PoolInv, BreakerInv
<1>5. ASSUME UNCHANGED vars
      PROVE  PoolInv'
  BY <1>5 DEF vars, PoolInv, BreakerInv
<1> QED BY <1>1, <1>2, <1>3, <1>4, <1>5 DEF Next

LEMMA PoolInvariant == Spec => []PoolInv
  BY PoolStart, PoolSteps, PTL DEF Spec

\* Only registered providers are planned, called and reported on, whatever the
\* configuration, the strategy and the health; the round-robin index stays
\* within an int.
THEOREM OnlyRegisteredAreCalled == Spec => []TypeOK
<1>1. PoolInv => TypeOK
  BY DEF PoolInv, TypeOK, RouterTypeOK
<1> QED BY <1>1, PoolInvariant, PTL

\* A request that comes to have a plan was routed in this step, from the health
\* the plan is judged by.
LEMMA PlannedByRoute ==
    ASSUME PoolInv, [Next]_vars, NEW t \in Threads, calls[t] = <<>>, calls'[t] # <<>>
    PROVE  \E model \in Requested : Route(t, model)
<1>1. calls \in [Threads -> Seq(Registered)]
  BY DEF PoolInv
<1>2. ASSUME NEW u \in Threads, NEW model \in Requested, Route(u, model)
      PROVE  \E m \in Requested : Route(t, m)
  <2>1. u = t
    BY <1>1, <1>2 DEF Route
  <2> QED
    BY <1>2, <2>1
<1>3. ASSUME NEW u \in Threads, NEW l \in Latencies, CallSucceeds(u, l)
      PROVE  FALSE
  BY <1>1, <1>3 DEF CallSucceeds
<1>4. ASSUME NEW u \in Threads, CallFails(u)
      PROVE  FALSE
  BY <1>1, <1>4 DEF CallFails, Calling
<1>5. ASSUME NEW s \in StrategyChoices, AdminSetStrategy(s)
      PROVE  FALSE
  BY <1>5 DEF AdminSetStrategy, threadVars
<1>6. ASSUME UNCHANGED vars
      PROVE  FALSE
  BY <1>6 DEF vars
<1> QED BY <1>2, <1>3, <1>4, <1>5, <1>6 DEF Next

LEMMA RouteSheds ==
    ASSUME PoolInv, NEW t \in Threads, NEW model \in Requested, Route(t, model),
           calls[t] = <<>>, calls'[t] # <<>>
    PROVE  /\ \A i \in 2..Len(calls'[t]) : Available(calls'[t][i])
           /\ \/ Available(calls'[t][1])
              \/ Direct(model) /\ Resolve(model)[1] = calls'[t][1]
              \/ strategy = "cost" /\ ~\E o \in Offers : Priced(o)
<1>1. calls \in [Threads -> Seq(Registered)]
  BY DEF PoolInv
<1>2. PICK d \in RouteDecisions(model) :
         /\ d.provider # NoProvider /\ IsRegistered(d.provider)
         /\ calls' = [calls EXCEPT ![t] = CallPlan(d)]
  BY DEF Route
<1>3. Sheds(model, d)
  BY PoolFacts, DecisionSheds
<1>4. PICK n \in Nat : DOMAIN d.chain = 1..n
  BY <1>3 DEF Sheds
<1>5. \A j \in 1..n : Available(d.chain[j])
  BY <1>3, <1>4 DEF Sheds
<1>6. PICK plan : plan = CallPlan(d)
  OBVIOUS
<1>7. /\ plan[1] = d.provider
      /\ \A i \in 2..Len(plan) : \E j \in 1..n : plan[i] = d.chain[j]
  BY <1>2, <1>4, <1>6, PlanFacts
<1>8. calls'[t] = plan
  BY <1>1, <1>2, <1>6
<1>9. \A i \in 2..Len(plan) : Available(plan[i])
  BY <1>5, <1>7
<1>10. \/ Available(plan[1])
       \/ Direct(model) /\ Resolve(model)[1] = plan[1]
       \/ strategy = "cost" /\ ~\E o \in Offers : Priced(o)
  BY <1>2, <1>3, <1>7 DEF Sheds
<1> QED
  BY <1>8, <1>9, <1>10

\* A provider whose breaker is open gets no new traffic, under any number of
\* threads and any configuration, but for a request that names it and for the
\* last resort of the cost strategy.
THEOREM ExcludedGetNoTraffic == Spec => OpenBreakerShedsTraffic
<1> DEFINE Shed(t) ==
        /\ \A i \in 2..Len(calls'[t]) : Available(calls'[t][i])
        /\ \/ Available(calls'[t][1])
           \/ \E model \in Requested : Direct(model) /\ Resolve(model)[1] = calls'[t][1]
           \/ strategy = "cost" /\ ~\E o \in Offers : Priced(o)
<1>1. ASSUME PoolInv, [Next]_vars
      PROVE  [\A t \in Threads : calls[t] = <<>> /\ calls'[t] # <<>> => Shed(t)]_vars
  <2> SUFFICES ASSUME NEW t \in Threads, calls[t] = <<>>, calls'[t] # <<>>
               PROVE  Shed(t)
    OBVIOUS
  <2>1. PICK model \in Requested : Route(t, model)
    BY <1>1, PlannedByRoute
  <2> QED
    BY <1>1, <2>1, RouteSheds
<1> QED BY <1>1, PoolInvariant, PTL DEF Spec, OpenBreakerShedsTraffic
=============================================================================
