---------------------------- MODULE CostProofs ----------------------------
(***************************************************************************)
(* Theorems about money in Gateway: what the handlers charge to a key is   *)
(* the cost of the provider answers it got, and the summary of its history *)
(* never says more.  They rest on facts about the sum of a function over a *)
(* finite set, each proved of a smallest set that would contradict it.     *)
(***************************************************************************)
EXTENDS GatewayProofs, WellFoundedInduction

\* The sum of f over S.
Total(f, S) == MapThenSumSet(LAMBDA x : f[x], S)

\* The recursive function behind it, on the subsets of S.
Some(s) == CHOOSE x \in s : TRUE
Solves(g, f, S) ==
    g = [s \in SUBSET S |-> IF s = {} THEN 0 ELSE f[Some(s)] + g[s \ {Some(s)}]]

LEMMA SomeOf ==
    ASSUME NEW s, s # {}
    PROVE  Some(s) \in s
BY DEF Some

\* A set of subsets of a finite set has a smallest one.
LEMMA SmallestSubset ==
    ASSUME NEW S, IsFiniteSet(S), NEW D, D \subseteq SUBSET S, D # {}
    PROVE  \E s \in D : \A u \in D : u \subseteq s => u = s
<1>1. IsWellFoundedOn(StrictSubsetOrdering(S), SUBSET S)
  BY FS_StrictSubsetOrderingWellFounded, FS_FiniteSubsetsOfFinite
<1>2. \E s \in D : \A u \in D : ~ (<<u, s>> \in StrictSubsetOrdering(S))
  BY <1>1, WFMin
<1> QED
  BY <1>2 DEF StrictSubsetOrdering

LEMMA OneSolution ==
    ASSUME NEW S, IsFiniteSet(S), NEW f, NEW g, NEW h, Solves(g, f, S), Solves(h, f, S)
    PROVE  g = h
<1> DEFINE D == {s \in SUBSET S : g[s] # h[s]}
<1>1. ASSUME D # {} PROVE FALSE
  <2>1. PICK s \in D : \A u \in D : u \subseteq s => u = s
    <3> HIDE DEF D
    <3>1. D \subseteq SUBSET S
      BY DEF D
    <3> QED
      BY <1>1, <3>1, SmallestSubset
  <2>2. /\ g[s] = IF s = {} THEN 0 ELSE f[Some(s)] + g[s \ {Some(s)}]
        /\ h[s] = IF s = {} THEN 0 ELSE f[Some(s)] + h[s \ {Some(s)}]
    BY DEF Solves
  <2>3. s # {}
    BY <2>2
  <2>4. s \ {Some(s)} \notin D
    BY <2>1, <2>3, SomeOf
  <2>5. g[s \ {Some(s)}] = h[s \ {Some(s)}]
    BY <2>4
  <2> QED
    BY <2>2, <2>5
<1>2. \A s \in SUBSET S : g[s] = h[s]
  BY <1>1
<1>3. g = [s \in SUBSET S |-> g[s]] /\ h = [s \in SUBSET S |-> h[s]]
  BY DEF Solves
<1> QED
  BY <1>2, <1>3

\* A solution on S is one on the subsets of S too.
LEMMA SolvesLess ==
    ASSUME NEW S, NEW T \in SUBSET S, NEW f, NEW g, Solves(g, f, S)
    PROVE  Solves([s \in SUBSET T |-> g[s]], f, T)
<1> DEFINE h == [s \in SUBSET T |-> g[s]]
<1>1. ASSUME NEW s \in SUBSET T
      PROVE  h[s] = IF s = {} THEN 0 ELSE f[Some(s)] + h[s \ {Some(s)}]
  <2>1. g[s] = IF s = {} THEN 0 ELSE f[Some(s)] + g[s \ {Some(s)}]
    BY DEF Solves
  <2>2. h[s] = g[s] /\ h[s \ {Some(s)}] = g[s \ {Some(s)}]
    OBVIOUS
  <2> HIDE DEF h
  <2> QED
    BY <2>1, <2>2
<1>2. h = [s \in SUBSET T |-> h[s]]
  OBVIOUS
<1> HIDE DEF h
<1>3. h = [s \in SUBSET T |-> IF s = {} THEN 0 ELSE f[Some(s)] + h[s \ {Some(s)}]]
  BY <1>1, <1>2
<1> QED
  BY <1>3 DEF Solves, h

LEMMA ASolution ==
    ASSUME NEW S, IsFiniteSet(S), NEW f
    PROVE  \E g : Solves(g, f, S)
<1> DEFINE D == {s \in SUBSET S : ~\E g : Solves(g, f, s)}
<1>1. ASSUME D # {} PROVE FALSE
  <2>1. PICK s \in D : \A u \in D : u \subseteq s => u = s
    <3> HIDE DEF D
    <3>1. D \subseteq SUBSET S
      BY DEF D
    <3> QED
      BY <1>1, <3>1, SmallestSubset
  <2> DEFINE sol(u) == CHOOSE g : Solves(g, f, u)
             less(u) == u \ {Some(u)}
  <2>2. ASSUME NEW u \in SUBSET s, u # s PROVE Solves(sol(u), f, u)
    <3>1. \E g : Solves(g, f, u)
      BY <2>1, <2>2
    <3> QED
      BY <3>1
  <2>3. ASSUME NEW u \in SUBSET s, u # {} PROVE less(u) \in SUBSET s /\ less(u) # s /\ less(u) # u
    BY <2>3, SomeOf
  <2> DEFINE G == [u \in SUBSET s |-> IF u = {} THEN 0 ELSE f[Some(u)] + sol(less(u))[less(u)]]
  <2>4. ASSUME NEW u \in SUBSET s, u # s PROVE G[u] = sol(u)[u]
    <3> DEFINE g == sol(u)
               v == less(u)
               r == [w \in SUBSET v |-> g[w]]
    <3>1. Solves(g, f, u)
      BY <2>2, <2>4
    <3>2. g[u] = IF u = {} THEN 0 ELSE f[Some(u)] + g[v]
      <4> HIDE DEF g
      <4> QED
        BY <3>1 DEF Solves
    <3>3. CASE u = {}
      BY <3>2, <3>3
    <3>4. CASE u # {}
      <4>1. v \in SUBSET s /\ v # s /\ v \in SUBSET u
        BY <2>3, <3>4
      <4>2. Solves(sol(v), f, v)
        BY <2>2, <4>1
      <4>3. Solves(r, f, v)
        <5> HIDE DEF g, v
        <5> QED
          BY <3>1, <4>1, SolvesLess
      <4>4. IsFiniteSet(v)
        BY <4>1, FS_Subset
      <4>5. r = sol(v)
        <5> HIDE DEF r, v, sol
        <5> QED
          BY <4>2, <4>3, <4>4, OneSolution
      <4>6. g[v] = sol(v)[v]
        <5>1. r[v] = g[v]
          <6> HIDE DEF g, v
          <6> QED
            OBVIOUS
        <5> HIDE DEF r, v, sol, g
        <5> QED
          BY <4>5, <5>1
      <4>7. G[u] = f[Some(u)] + sol(v)[v]
        BY <3>4
      <4> HIDE DEF G, g, v, sol
      <4> QED
        BY <3>2, <3>4, <4>6, <4>7 DEF g
    <3> QED
      BY <3>3, <3>4
  <2>5. ASSUME NEW u \in SUBSET s
        PROVE  G[u] = IF u = {} THEN 0 ELSE f[Some(u)] + G[less(u)]
    <3>1. CASE u = {}
      BY <3>1
    <3>2. CASE u # {}
      <4>1. G[less(u)] = sol(less(u))[less(u)]
        BY <2>3, <2>4, <3>2
      <4>2. G[u] = f[Some(u)] + sol(less(u))[less(u)]
        BY <3>2
      <4> HIDE DEF G, sol, less
      <4> QED
        BY <3>2, <4>1, <4>2
    <3> QED
      BY <3>1, <3>2
  <2>6. G = [u \in SUBSET s |-> G[u]]
    OBVIOUS
  <2> HIDE DEF G
  <2>7. Solves(G, f, s)
    BY <2>5, <2>6 DEF Solves
  <2> QED
    BY <2>7
<1> QED
  BY <1>1

LEMMA TotalOf ==
    ASSUME NEW S, IsFiniteSet(S), NEW f, NEW g, Solves(g, f, S)
    PROVE  Total(f, S) = g[S]
<1> DEFINE h == CHOOSE k : Solves(k, f, S)
<1>1. Total(f, S) = h[S]
  BY DEF Total, MapThenSumSet, MapThenFoldSet, Solves, Some
<1>2. Solves(h, f, S)
  <2> HIDE DEF h
  <2> QED
    BY DEF h
<1>3. h = g
  <2> HIDE DEF h
  <2> QED
    BY <1>2, OneSolution
<1> QED
  BY <1>1, <1>3

LEMMA TotalOfNone ==
    ASSUME NEW f
    PROVE  Total(f, {}) = 0
<1>1. IsFiniteSet({})
  BY FS_EmptySet
<1>2. PICK g : Solves(g, f, {})
  BY <1>1, ASolution
<1>3. g[{}] = 0
  BY <1>2 DEF Solves
<1> QED
  BY <1>1, <1>2, <1>3, TotalOf

LEMMA TotalStep ==
    ASSUME NEW S, IsFiniteSet(S), S # {}, NEW f
    PROVE  Total(f, S) = f[Some(S)] + Total(f, S \ {Some(S)})
<1> DEFINE T == S \ {Some(S)}
<1>1. PICK g : Solves(g, f, S)
  BY ASolution
<1>2. g[S] = f[Some(S)] + g[T]
  BY <1>1 DEF Solves
<1>3. T \in SUBSET S /\ IsFiniteSet(T)
  BY FS_Subset
<1> HIDE DEF T
<1>4. Solves([s \in SUBSET T |-> g[s]], f, T)
  BY <1>1, <1>3, SolvesLess
<1>5. Total(f, T) = [s \in SUBSET T |-> g[s]][T]
  BY <1>3, <1>4, TotalOf
<1>6. Total(f, T) = g[T]
  BY <1>5
<1>7. Total(f, S) = g[S]
  BY <1>1, TotalOf
<1> QED
  BY <1>2, <1>6, <1>7 DEF T

\* The sum of naturals is a natural, and any element may be taken out of it first.
LEMMA TotalType ==
    ASSUME NEW S, IsFiniteSet(S), NEW f, \A x \in S : f[x] \in Nat
    PROVE  Total(f, S) \in Nat
<1> DEFINE D == {s \in SUBSET S : Total(f, s) \notin Nat}
<1>1. ASSUME D # {} PROVE FALSE
  <2>1. PICK s \in D : \A u \in D : u \subseteq s => u = s
    <3> HIDE DEF D
    <3>1. D \subseteq SUBSET S
      BY DEF D
    <3> QED
      BY <1>1, <3>1, SmallestSubset
  <2>2. s # {} /\ IsFiniteSet(s) /\ s \subseteq S
    <3>1. Total(f, {}) = 0 /\ Total(f, s) \notin Nat /\ s \subseteq S
      BY <2>1, TotalOfNone
    <3>2. s # {}
      BY <3>1
    <3> QED
      BY <3>1, <3>2, FS_Subset
  <2>3. Some(s) \in S /\ Some(s) \in s
    BY <2>2, SomeOf
  <2>4. Total(f, s) = f[Some(s)] + Total(f, s \ {Some(s)})
    BY <2>2, TotalStep
  <2>5. Total(f, s \ {Some(s)}) \in Nat
    BY <2>1, <2>3
  <2> QED
    BY <2>3, <2>4, <2>5
<1> QED
  BY <1>1

LEMMA TotalWithout ==
    ASSUME NEW S, IsFiniteSet(S), NEW f, \A x \in S : f[x] \in Nat, NEW a \in S
    PROVE  /\ Total(f, S) = f[a] + Total(f, S \ {a})
           /\ Total(f, S \ {a}) \in Nat
<1> DEFINE Splits(s, x) == Total(f, s) = f[x] + Total(f, s \ {x})
           D == {s \in SUBSET S : \E x \in s : ~Splits(s, x)}
<1>1. \A s \in SUBSET S : Total(f, s) \in Nat
  BY FS_Subset, TotalType
<1>2. ASSUME D # {} PROVE FALSE
  <2>1. PICK s \in D : \A u \in D : u \subseteq s => u = s
    <3> HIDE DEF D
    <3>1. D \subseteq SUBSET S
      BY DEF D
    <3> QED
      BY <1>2, <3>1, SmallestSubset
  <2>2. PICK x \in s : ~Splits(s, x)
    BY <2>1
  <2> DEFINE y == Some(s)
  <2>3. s \in SUBSET S /\ IsFiniteSet(s) /\ s # {} /\ y \in s
    BY <2>1, <2>2, FS_Subset, SomeOf
  <2>4. Splits(s, y)
    BY <2>3, TotalStep
  <2>5. x # y
    BY <2>2, <2>4
  <2> HIDE DEF y
  <2>6. \A u \in SUBSET s : u # s => \A z \in u : Splits(u, z)
    <3> HIDE DEF Splits
    <3> QED
      BY <2>1, <2>3
  <2>7. Splits(s \ {y}, x) /\ Splits(s \ {x}, y)
    <3> HIDE DEF Splits
    <3> QED
      BY <2>3, <2>5, <2>6
  <2> DEFINE inner == Total(f, (s \ {x}) \ {y})
             sx == Total(f, s \ {x})
             sy == Total(f, s \ {y})
             total == Total(f, s)
  <2>8. (s \ {x}) \ {y} = (s \ {y}) \ {x}
    OBVIOUS
  <2>9. total = f[y] + sy /\ sy = f[x] + inner /\ sx = f[y] + inner
    BY <2>4, <2>7, <2>8
  <2>10. inner \in Nat /\ sx \in Nat /\ sy \in Nat /\ f[x] \in Nat /\ f[y] \in Nat
    BY <1>1, <2>3
  <2>11. total # f[x] + sx
    BY <2>2
  <2> HIDE DEF inner, sx, sy, total
  <2> QED
    BY <2>9, <2>10, <2>11
<1>3. Splits(S, a)
  <2> HIDE DEF Splits
  <2> QED
    BY <1>2
<1>4. Total(f, S \ {a}) \in Nat
  BY <1>1
<1> QED
  BY <1>3, <1>4

\* The sum does not depend on the names of what is summed.
LEMMA TotalMoved ==
    ASSUME NEW S, IsFiniteSet(S), NEW f, NEW g, NEW m,
           \A x, y \in S : m[x] = m[y] => x = y,
           \A x \in S : f[x] \in Nat /\ g[m[x]] = f[x]
    PROVE  Total(g, {m[x] : x \in S}) = Total(f, S)
<1> DEFINE Image(s) == {m[x] : x \in s}
           D == {s \in SUBSET S : Total(g, Image(s)) # Total(f, s)}
<1>1. ASSUME D # {} PROVE FALSE
  <2>1. PICK s \in D : \A u \in D : u \subseteq s => u = s
    <3> HIDE DEF D
    <3>1. D \subseteq SUBSET S
      BY DEF D
    <3> QED
      BY <1>1, <3>1, SmallestSubset
  <2>2. s \in SUBSET S /\ IsFiniteSet(s) /\ Total(g, Image(s)) # Total(f, s)
    BY <2>1, FS_Subset
  <2>3. s # {}
    <3>1. Image({}) = {}
      OBVIOUS
    <3> QED
      BY <2>2, <3>1, TotalOfNone
  <2> DEFINE y == Some(s)
             rest == s \ {y}
  <2>4. y \in s /\ y \in S /\ rest \in SUBSET S /\ rest \subseteq s /\ rest # s
    BY <2>2, <2>3, SomeOf
  <2> HIDE DEF y
  <2>5. Total(g, Image(rest)) = Total(f, rest)
    <3> HIDE DEF Image, rest
    <3> QED
      BY <2>1, <2>4
  <2>6. Image(s) \ {m[y]} = Image(rest) /\ m[y] \in Image(s)
    BY <2>2, <2>4
  <2>7. IsFiniteSet(Image(s))
    <3> DEFINE p == [x \in s |-> m[x]]
    <3>1. p \in Surjection(s, Image(s))
      BY DEF Surjection
    <3> HIDE DEF p, Image
    <3> QED
      BY <2>2, <3>1, FS_Surjection
  <2>8. \A z \in Image(s) : g[z] \in Nat
    BY <2>2
  <2>9. Total(g, Image(s)) = g[m[y]] + Total(g, Image(s) \ {m[y]})
    <3> HIDE DEF Image
    <3> QED
      BY <2>6, <2>7, <2>8, TotalWithout
  <2>10. Total(f, s) = f[y] + Total(f, rest)
    BY <2>2, <2>4, TotalWithout
  <2> HIDE DEF Image, rest
  <2> QED
    BY <2>2, <2>4, <2>5, <2>6, <2>9, <2>10
<1>2. Total(g, Image(S)) = Total(f, S)
  <2> HIDE DEF Image
  <2> QED
    BY <1>1
<1> QED
  BY <1>2

LEMMA TotalSame ==
    ASSUME NEW S, IsFiniteSet(S), NEW f, NEW g, \A x \in S : f[x] \in Nat /\ g[x] = f[x]
    PROVE  Total(g, S) = Total(f, S)
<1> DEFINE m == [x \in S |-> x]
<1>1. \A x \in S : m[x] = x
  OBVIOUS
<1>2. {m[x] : x \in S} = S
  OBVIOUS
<1> HIDE DEF m
<1>3. Total(g, {m[x] : x \in S}) = Total(f, S)
  BY <1>1, TotalMoved
<1> QED
  BY <1>2, <1>3

\* The costs of a set of answers ...
CostOfAnswers(S) == MapThenSumSet(LAMBDA a : a.cost, S)

LEMMA AnswersTotal ==
    ASSUME NEW S, IsFiniteSet(S)
    PROVE  CostOfAnswers(S) = Total([a \in S |-> a.cost], S)
<1> DEFINE f == [a \in S |-> a.cost]
           P(k) == k = [s \in SUBSET S |-> IF s = {} THEN 0 ELSE Some(s).cost + k[s \ {Some(s)}]]
           h == CHOOSE k : P(k)
<1>1. CostOfAnswers(S) = h[S]
  BY DEF CostOfAnswers, MapThenSumSet, MapThenFoldSet, Some
<1>2. \A s \in SUBSET S : s # {} => f[Some(s)] = Some(s).cost
  BY SomeOf
<1>3. PICK g : Solves(g, f, S)
  <2> HIDE DEF f
  <2> QED
    BY ASolution
<1> HIDE DEF f
<1>4. \A k : P(k) <=> Solves(k, f, S)
  <2> SUFFICES ASSUME NEW k PROVE P(k) <=> Solves(k, f, S)
    OBVIOUS
  <2>1. [s \in SUBSET S |-> IF s = {} THEN 0 ELSE Some(s).cost + k[s \ {Some(s)}]]
         = [s \in SUBSET S |-> IF s = {} THEN 0 ELSE f[Some(s)] + k[s \ {Some(s)}]]
    BY <1>2
  <2> QED
    BY <2>1 DEF Solves
<1>5. Solves(h, f, S)
  <2> HIDE DEF P
  <2>1. P(h)
    BY <1>3, <1>4
  <2> QED
    BY <1>4, <2>1
<1> HIDE DEF h
<1>6. Total(f, S) = h[S]
  BY <1>5, TotalOf
<1> QED
  BY <1>1, <1>6 DEF f

\* ... grows by the cost of one more.
LEMMA OneMoreCost ==
    ASSUME NEW S, IsFiniteSet(S), \A a \in S : a.cost \in Nat, NEW b, b \notin S, b.cost \in Nat
    PROVE  /\ CostOfAnswers(S) \in Nat
           /\ CostOfAnswers(S \cup {b}) = CostOfAnswers(S) + b.cost
<1> DEFINE T == S \cup {b}
           f == [a \in S |-> a.cost]
           g == [a \in T |-> a.cost]
<1>1. IsFiniteSet(T) /\ T \ {b} = S /\ b \in T
  BY FS_AddElement
<1>2. /\ \A a \in S : f[a] \in Nat /\ g[a] = f[a]
      /\ \A a \in T : g[a] \in Nat
      /\ g[b] = b.cost
  OBVIOUS
<1>3. CostOfAnswers(S) = Total(f, S) /\ CostOfAnswers(T) = Total(g, T)
  BY <1>1, AnswersTotal
<1> HIDE DEF T, f, g
<1>4. Total(g, T) = g[b] + Total(g, S)
  BY <1>1, <1>2, TotalWithout
<1>5. Total(g, S) = Total(f, S) /\ Total(f, S) \in Nat
  BY <1>2, TotalSame, TotalType
<1>6. b.cost \in Nat
  OBVIOUS
<1>7. CostOfAnswers(T) = CostOfAnswers(S) + b.cost
  BY <1>2, <1>3, <1>4, <1>5, <1>6
<1> QED
  BY <1>3, <1>5, <1>7 DEF T

\* The price of an answer is a natural.
LEMMA CostType ==
    ASSUME NEW r
    PROVE  Cost(r) \in Nat
<1> DEFINE p == Costs!PricingOf(r.provider, r.model)
           i == AnswerTokens.input
           o == AnswerTokens.output
<1>1. i \in Nat /\ o \in Nat
  BY CostsAssumption
<1>2. p.input \in Nat /\ p.output \in Nat
  BY CostsAssumption DEF Costs!PricingOf, Costs!DefaultPricing
<1>3. \A x, y \in Nat : x * y \in Nat
  BY SMT
<1>4. i * p.input \in Nat /\ o * p.output \in Nat
  <2> HIDE DEF p, i, o
  <2> QED
    BY <1>1, <1>2, <1>3
<1>5. Cost(r) = i * p.input + o * p.output
  BY DEF Cost, Costs!EstimateCost
<1> DEFINE x == i * p.input
           y == o * p.output
<1> HIDE DEF p, i, o
<1>6. x \in Nat /\ y \in Nat /\ Cost(r) = x + y
  BY <1>4, <1>5
<1> HIDE DEF x, y
<1> QED
  BY <1>6

\* What is proved of the money: the answer a thread is about to bill is recorded with
\* its cost, and each key has been charged for the others.
Charged(k) == {a \in V1Answers : a.api_key = k /\ a.id \notin Ids({"bill"})}
AnswerOf(t) == [id |-> request[t].id, kind |-> request[t].kind,
                api_key |-> request[t].api_key, cost |-> Cost(response[t])]

BillsInv ==
    /\ DOMAIN response = Threads
    /\ \A a \in answered : a.cost \in Nat
    /\ \A t \in Threads : stage[t] = "bill" => AnswerOf(t) \in answered

SpendInv ==
    /\ spend_by_key \in [ApiKeys -> Nat]
    /\ \A k \in ApiKeys : spend_by_key[k] = CostOfAnswers(Charged(k))

LEMMA SpendInvIsExact == SpendInv => SpendIsExact
BY DEF SpendInv, SpendIsExact, CostOfAnswers, Charged

LEMMA OwnResponse ==
    ASSUME NEW t \in Threads, HandlerStep(t), DOMAIN response = Threads
    PROVE  \A u \in Threads : u # t => response'[u] = response[u]
<1>1. ASSUME NEW r, response' = [response EXCEPT ![t] = r]
      PROVE  \A u \in Threads : u # t => response'[u] = response[u]
  BY <1>1
<1>2. CASE CallSucceedsV1(t) \/ CallSucceedsLegacy(t)
  BY <1>1, <1>2 DEF CallSucceedsV1, CallSucceedsLegacy, Answer
<1>3. CASE ~CallSucceedsV1(t) /\ ~CallSucceedsLegacy(t)
  <2>1. response' = response \/ \E r : response' = [response EXCEPT ![t] = r]
    BY <1>3 DEF HandlerStep, CheckLimit, LookupHit, LookupMiss, CountHit, CountMiss, RouteV1,
       RouteLegacy, CallFailsV1, CallFailsLegacy, CountError, Bill, RecordTokens, Observe,
       Store, Return
  <2> QED
    BY <1>1, <2>1
<1> QED
  BY <1>2, <1>3

\* Only a call of a v1 request that succeeds leads to the billing, and only that leads on.
LEMMA AroundBill ==
    ASSUME ThreadInv, NEW t \in Threads, HandlerStep(t)
    PROVE  /\ stage[t] = "bill" <=> Bill(t)
           /\ stage'[t] = "bill" <=> CallSucceedsV1(t)
<1>1. stage' = [stage EXCEPT ![t] = stage'[t]] /\ t \in DOMAIN stage
  BY HandlerStepMoves DEF HandlerMoves, Moves, Returns, GoTo, ThreadInv
<1>2. stage[t] = "bill" <=> Bill(t)
  BY DEF HandlerStep, CheckLimit, LookupHit, LookupMiss, CountHit, CountMiss, RouteV1,
     RouteLegacy, CallSucceedsV1, CallFailsV1, CallSucceedsLegacy, CallFailsLegacy,
     CountError, Bill, RecordTokens, Observe, Store, At
<1>3. CallSucceedsV1(t) => stage'[t] = "bill"
  BY <1>1 DEF CallSucceedsV1, GoTo
<1>4. ~CallSucceedsV1(t) => stage'[t] # "bill"
  BY <1>1 DEF HandlerStep, CheckLimit, LookupHit, LookupMiss, AfterMiss, CountHit, CountMiss, RouteV1,
     RouteLegacy, CallFailsV1, AfterFailure, CallSucceedsLegacy, CallFailsLegacy,
     CountError, Bill, RecordTokens, Observe, Store, At, GoTo, Return
<1> QED
  BY <1>2, <1>3, <1>4

LEMMA AnswerBilledNext ==
    ASSUME ThreadInv, NEW t \in Threads, CallSucceedsV1(t), DOMAIN response = Threads
    PROVE  /\ answered' = answered \cup {AnswerOf(t)'}
           /\ AnswerOf(t)'.id = request[t].id
           /\ AnswerOf(t)'.kind = "v1" /\ AnswerOf(t)'.cost \in Nat
<1>1. PICK model : Answer(t, model)
  BY DEF CallSucceedsV1
<1> DEFINE r == [question |-> request[t].question,
                 provider |-> Pool!Called(t), model |-> model]
<1>2. /\ response' = [response EXCEPT ![t] = r]
      /\ answered' = answered \cup {[id |-> request[t].id, kind |-> request[t].kind,
                                     api_key |-> request[t].api_key, cost |-> Cost(r)]}
  BY <1>1 DEF Answer
<1> HIDE DEF r
<1>3. response'[t] = r /\ request' = request /\ request[t].kind = "v1"
  BY <1>2 DEF CallSucceedsV1, V1
<1>4. AnswerOf(t)' = [id |-> request[t].id, kind |-> request[t].kind,
                      api_key |-> request[t].api_key, cost |-> Cost(r)]
  BY <1>3 DEF AnswerOf
<1>5. Cost(r) \in Nat
  BY CostType
<1> QED
  BY <1>2, <1>3, <1>4, <1>5

LEMMA HandlerKeepsBills ==
    ASSUME ServingInv, BillsInv, InHand', NEW t \in Threads, HandlerStep(t)
    PROVE  BillsInv'
<1>1. ThreadInv /\ DOMAIN response = Threads /\ DOMAIN response' = Threads
  BY DEF ServingInv, BillsInv, InHand
<1>2. Others(t)
  BY <1>1, HandlerStepMoves, MoveLeavesOthers
<1>3. answered \subseteq answered'
  <2>1. CASE CallSucceedsV1(t) \/ CallSucceedsLegacy(t)
    BY <2>1, CallAnswers DEF Answered
  <2> QED
    BY <2>1, OnlyCallsAnswer
<1>4. \A a \in answered' : a.cost \in Nat
  <2>1. CASE CallSucceedsV1(t) \/ CallSucceedsLegacy(t)
    <3>1. PICK model : Answer(t, model)
      BY <2>1 DEF CallSucceedsV1, CallSucceedsLegacy
    <3> DEFINE r == [question |-> request[t].question,
                     provider |-> Pool!Called(t), model |-> model]
               a == [id |-> request[t].id, kind |-> request[t].kind,
                     api_key |-> request[t].api_key, cost |-> Cost(r)]
    <3>2. answered' = answered \cup {a} /\ a.cost = Cost(r)
      BY <3>1 DEF Answer
    <3> HIDE DEF a, r
    <3>3. a.cost \in Nat
      BY <3>2, CostType
    <3> QED
      BY <3>2, <3>3 DEF BillsInv
  <2>2. CASE ~CallSucceedsV1(t) /\ ~CallSucceedsLegacy(t)
    BY <2>2, OnlyCallsAnswer DEF BillsInv
  <2> QED
    BY <2>1, <2>2
<1>5. ASSUME NEW u \in Threads, stage'[u] = "bill"
      PROVE  AnswerOf(u)' \in answered'
  <2>1. CASE u = t
    <3>1. CallSucceedsV1(t)
      BY <1>1, <1>5, <2>1, AroundBill
    <3> QED
      BY <1>1, <2>1, <3>1, AnswerBilledNext
  <2>2. CASE u # t
    <3>1. stage[u] = "bill" /\ request'[u] = request[u] /\ response'[u] = response[u]
      BY <1>1, <1>2, <1>5, <2>2, OwnResponse DEF Others
    <3>2. AnswerOf(u)' = AnswerOf(u)
      BY <3>1 DEF AnswerOf
    <3> QED
      BY <1>3, <3>1, <3>2 DEF BillsInv
  <2> QED
    BY <2>1, <2>2
<1> QED
  BY <1>1, <1>4, <1>5 DEF BillsInv

LEMMA OtherStepsKeepBills ==
    ASSUME ServingInv, BillsInv, InHand', [Next]_vars, \A t \in Threads : ~HandlerStep(t)
    PROVE  BillsInv'
<1>1. response' = response /\ answered' = answered
  BY BackgroundLeavesThreads DEF Next, Receive, ReceiveLegacy, ReceiveMalformed, threadVars, Background
<1>2. ASSUME NEW u \in Threads, stage'[u] = "bill"
      PROVE  stage[u] = "bill" /\ request'[u] = request[u]
  <2>1. ASSUME NEW t \in Threads, NEW r \in RequestRecord, NEW s \in {"lookup", "limit"},
               Begins(t, r, s)
        PROVE  stage[u] = "bill" /\ request'[u] = request[u]
    BY <1>2, <2>1 DEF Begins, ServingInv, ThreadInv
  <2> QED
    BY <1>2, <2>1, StepCases DEF ServingInv
<1>3. ASSUME NEW u \in Threads, stage'[u] = "bill"
      PROVE  AnswerOf(u)' \in answered'
  <2>1. AnswerOf(u)' = AnswerOf(u)
    BY <1>1, <1>2, <1>3 DEF AnswerOf
  <2> QED
    BY <1>1, <1>2, <1>3, <2>1 DEF BillsInv
<1> QED
  BY <1>1, <1>3 DEF BillsInv, InHand

LEMMA BillsInvariant == Spec => []BillsInv
<1>1. Init => BillsInv
  BY DEF Init, BillsInv
<1>2. HonestInv => InHand
  BY DEF HonestInv
<1>3. ServingInv /\ HonestInv' /\ BillsInv /\ [Next]_vars => BillsInv'
  BY HandlerKeepsBills, OtherStepsKeepBills DEF HonestInv
<1> QED
  BY <1>1, <1>3, ServingInvariant, HonestInvariant, PTL DEF Spec

\* Who is being billed, and what has been charged, after a step.
LEMMA SameBilled ==
    ASSUME NEW t \in Threads, Others(t), stage[t] # "bill", stage'[t] # "bill"
    PROVE  Ids({"bill"})' = Ids({"bill"})
BY DEF Others, Ids, Serving, V1

LEMMA SameCharged ==
    ASSUME NEW k, V1Answers' = V1Answers, Ids({"bill"})' = Ids({"bill"})
    PROVE  Charged(k)' = Charged(k)
BY DEF Charged

LEMMA SameSpend ==
    ASSUME SpendInv, UNCHANGED spend_by_key, \A k \in ApiKeys : Charged(k)' = Charged(k)
    PROVE  SpendInv'
<1>1. \A k \in ApiKeys : CostOfAnswers(Charged(k))' = CostOfAnswers(Charged(k))
  OBVIOUS
<1> QED
  BY <1>1 DEF SpendInv

LEMMA CallKeepsSpend ==
    ASSUME ServingInv, IdInv, BillsInv, SpendInv, NEW t \in Threads, CallSucceedsV1(t)
    PROVE  SpendInv'
<1>1. ThreadInv /\ DOMAIN response = Threads
  BY DEF ServingInv, BillsInv
<1>2. HandlerStep(t) /\ Others(t)
  BY <1>1, HandlerStepMoves, MoveLeavesOthers DEF HandlerStep
<1> DEFINE a == AnswerOf(t)'
           id == request[t].id
<1>3. answered' = answered \cup {a} /\ a.id = id
  BY <1>1, AnswerBilledNext
<1>4. stage[t] = "call" /\ V1(t) /\ stage'[t] = "bill" /\ request' = request
  BY <1>1 DEF CallSucceedsV1, At, GoTo, ThreadInv
<1>5. Ids({"bill"})' = Ids({"bill"}) \cup {id}
  BY <1>2, <1>4 DEF Others, Ids, Serving, V1
<1>6. \A b \in answered : b.id # id
  BY <1>4 DEF IdInv, Unanswered, Stages, V1Stages, Answering
<1> HIDE DEF a, id
<1>7. \A k : Charged(k)' = Charged(k)
  BY <1>3, <1>5, <1>6 DEF Charged, V1Answers
<1>8. spend_by_key' = spend_by_key
  BY DEF CallSucceedsV1, costVars
<1> QED
  BY <1>7, <1>8, SameSpend

LEMMA BillKeepsSpend ==
    ASSUME ServingInv, IdInv, BillsInv, SpendInv, NEW t \in Threads, Bill(t)
    PROVE  SpendInv'
<1>1. ThreadInv
  BY DEF ServingInv
<1>2. HandlerStep(t) /\ Others(t)
  BY <1>1, HandlerStepMoves, MoveLeavesOthers DEF HandlerStep
<1> DEFINE a == AnswerOf(t)
           id == request[t].id
           cost == Cost(response[t])
<1> PICK key : key = request[t].api_key
  OBVIOUS
<1>3. stage[t] = "bill" /\ V1(t) /\ stage'[t] # "bill" /\ request' = request /\ answered' = answered
  BY <1>1 DEF Bill, At, GoTo, ThreadInv, V1Stages, ghostVars
<1>4. a \in answered /\ a.id = id /\ a.kind = "v1" /\ a.api_key = key /\ a.cost = cost
  BY <1>3 DEF BillsInv, AnswerOf, V1
<1>5. cost \in Nat
  BY CostType
<1>6. Ids({"bill"})' = Ids({"bill"}) \ {id} /\ id \in Ids({"bill"})
  BY <1>2, <1>3 DEF Others, Ids, Serving, V1, IdInv
<1>7. \A b \in answered : b.id = id => b = a
  BY <1>4 DEF IdInv
<1>8. spend_by_key' = IF key = NoKey THEN spend_by_key
                      ELSE [spend_by_key EXCEPT ![key] = @ + cost]
  BY DEF Bill, Costs!Record
<1> HIDE DEF a, id, cost
<1>9. \A k : k # key => Charged(k)' = Charged(k)
  BY <1>3, <1>4, <1>6, <1>7 DEF Charged, V1Answers
<1>10. Charged(key)' = Charged(key) \cup {a} /\ a \notin Charged(key)
  BY <1>3, <1>4, <1>6, <1>7 DEF Charged, V1Answers
<1>11. IsFiniteSet(Charged(key)) /\ \A b \in Charged(key) : b.cost \in Nat
  BY FS_Subset DEF Charged, V1Answers, IdInv, BillsInv
<1>12. CostOfAnswers(Charged(key))' = CostOfAnswers(Charged(key)) + cost
  <2>1. CostOfAnswers(Charged(key) \cup {a}) = CostOfAnswers(Charged(key)) + a.cost
    BY <1>4, <1>5, <1>10, <1>11, OneMoreCost
  <2> QED
    BY <1>4, <1>10, <2>1
<1>13. \A k \in ApiKeys : k # key => CostOfAnswers(Charged(k))' = CostOfAnswers(Charged(k))
  BY <1>9
<1>14. spend_by_key' \in [ApiKeys -> Nat]
  <2>1. CASE key \in ApiKeys
    BY <1>5, <1>8, <2>1 DEF SpendInv
  <2>2. CASE key \notin ApiKeys
    BY <1>8, <2>2 DEF SpendInv
  <2> QED
    BY <2>1, <2>2
<1>15. \A k \in ApiKeys : k # key => spend_by_key'[k] = spend_by_key[k]
  BY <1>8 DEF SpendInv
<1>16. key \in ApiKeys => spend_by_key'[key] = spend_by_key[key] + cost
  BY <1>8, ThreadsAssumption DEF SpendInv
<1>17. ASSUME NEW k \in ApiKeys PROVE spend_by_key'[k] = CostOfAnswers(Charged(k))'
  <2>1. CASE k = key
    BY <1>12, <1>16, <2>1 DEF SpendInv
  <2>2. CASE k # key
    BY <1>13, <1>15, <2>2 DEF SpendInv
  <2> QED
    BY <2>1, <2>2
<1> QED
  BY <1>14, <1>17 DEF SpendInv

\* The other steps charge nothing and change no one's bill.
LEMMA OtherHandlerStepsKeepSpend ==
    ASSUME ServingInv, IdInv, SpendInv, NEW t \in Threads, HandlerStep(t),
           ~CallSucceedsV1(t), ~Bill(t)
    PROVE  SpendInv'
<1>1. ThreadInv /\ Others(t)
  BY HandlerStepMoves, MoveLeavesOthers DEF ServingInv
<1>2. Ids({"bill"})' = Ids({"bill"})
  BY <1>1, AroundBill, SameBilled
<1>3. V1Answers' = V1Answers
  <2>1. CASE CallSucceedsLegacy(t)
    <3>1. PICK a : a.kind = request[t].kind /\ answered' = answered \cup {a}
      BY <2>1, CallAnswers DEF Answered
    <3>2. request[t].kind # "v1"
      BY <2>1 DEF CallSucceedsLegacy, V1
    <3> QED
      BY <3>1, <3>2 DEF V1Answers
  <2>2. CASE ~CallSucceedsLegacy(t)
    BY <2>2, OnlyCallsAnswer DEF V1Answers
  <2> QED
    BY <2>1, <2>2
<1>4. spend_by_key' = spend_by_key
  BY DEF HandlerStep, CheckLimit, LookupHit, LookupMiss, CountHit, CountMiss, RouteV1, RouteLegacy,
     CallFailsV1, CallSucceedsLegacy, CallFailsLegacy, CountError, RecordTokens, Observe,
     Store, costVars
<1> QED
  BY <1>2, <1>3, <1>4, SameCharged, SameSpend

LEMMA LedgerWithoutHandlers ==
    ASSUME [Next]_vars, \A t \in Threads : ~HandlerStep(t)
    PROVE  UNCHANGED <<history, spend_by_key, answered>>
BY DEF Next, Receive, ReceiveLegacy, ReceiveMalformed, CacheForgets, AdminSetStrategy, Scrape,
       Tick, ghostVars, costVars, vars

LEMMA OtherStepsKeepSpend ==
    ASSUME ServingInv, SpendInv, [Next]_vars, \A t \in Threads : ~HandlerStep(t)
    PROVE  SpendInv'
<1>1. answered' = answered /\ spend_by_key' = spend_by_key
  BY LedgerWithoutHandlers
<1>2. Ids({"bill"})' = Ids({"bill"})
  <2>1. ASSUME NEW t \in Threads, NEW r \in RequestRecord, NEW s \in {"lookup", "limit"},
               Begins(t, r, s)
        PROVE  Ids({"bill"})' = Ids({"bill"})
    <3>1. Others(t) /\ stage[t] # "bill" /\ stage'[t] # "bill"
      BY <2>1 DEF Begins, Others, ServingInv, ThreadInv
    <3> QED
      BY <3>1, SameBilled
  <2>2. CASE UNCHANGED <<stage, request>>
    BY <2>2 DEF Ids, Serving, V1
  <2> QED
    BY <2>1, <2>2, StepCases DEF ServingInv
<1>3. V1Answers' = V1Answers
  BY <1>1 DEF V1Answers
<1> QED
  BY <1>1, <1>2, <1>3, SameCharged, SameSpend

LEMMA NoCost == CostOfAnswers({}) = 0
BY FS_EmptySet, AnswersTotal, TotalOfNone

LEMMA SpendInvariant == Spec => []SpendInv
<1>1. Init => SpendInv
  <2> SUFFICES ASSUME Init PROVE SpendInv
    OBVIOUS
  <2>1. spend_by_key = [k \in ApiKeys |-> 0] /\ \A k : Charged(k) = {}
    BY DEF Init, Costs!Init, Charged, V1Answers
  <2> QED
    BY <2>1, NoCost DEF SpendInv
<1>2. ServingInv /\ IdInv /\ BillsInv /\ SpendInv /\ [Next]_vars => SpendInv'
  BY CallKeepsSpend, BillKeepsSpend, OtherHandlerStepsKeepSpend, OtherStepsKeepSpend
<1> QED
  BY <1>1, <1>2, ServingInvariant, IdInvariant, BillsInvariant, PTL DEF Spec

\* What a key has spent is the cost of the answers its v1 requests got from providers, each
\* charged once, and the only ones not charged yet are those being billed.
THEOREM EachAnswerChargedOnce == Spec => []SpendIsExact
BY SpendInvariant, SpendInvIsExact, PTL

\* The records of a key in a history, and their cost.
Records(P) == [id : Nat, api_key : ApiKeys \cup {NoKey}, provider : P, cost : Nat]
CostIn(h, S) == MapThenSumSet(LAMBDA i : h[i].cost, S)
Of(k, h) == {i \in DOMAIN h : h[i].api_key = k}
KeyTotal(k, h) == CostIn(h, Of(k, h))

LEMMA RecordsTotal ==
    ASSUME NEW h, NEW S, IsFiniteSet(S)
    PROVE  CostIn(h, S) = Total([i \in S |-> h[i].cost], S)
<1> DEFINE f == [i \in S |-> h[i].cost]
           P(k) == k = [s \in SUBSET S |-> IF s = {} THEN 0 ELSE h[Some(s)].cost + k[s \ {Some(s)}]]
           r == CHOOSE k : P(k)
<1>1. CostIn(h, S) = r[S]
  BY DEF CostIn, MapThenSumSet, MapThenFoldSet, Some
<1>2. \A s \in SUBSET S : s # {} => f[Some(s)] = h[Some(s)].cost
  BY SomeOf
<1>3. PICK g : Solves(g, f, S)
  <2> HIDE DEF f
  <2> QED
    BY ASolution
<1> HIDE DEF f
<1>4. \A k : P(k) <=> Solves(k, f, S)
  <2> SUFFICES ASSUME NEW k PROVE P(k) <=> Solves(k, f, S)
    OBVIOUS
  <2>1. [s \in SUBSET S |-> IF s = {} THEN 0 ELSE h[Some(s)].cost + k[s \ {Some(s)}]]
         = [s \in SUBSET S |-> IF s = {} THEN 0 ELSE f[Some(s)] + k[s \ {Some(s)}]]
    BY <1>2
  <2> QED
    BY <2>1 DEF Solves
<1>5. Solves(r, f, S)
  <2> HIDE DEF P
  <2>1. P(r)
    BY <1>3, <1>4
  <2> QED
    BY <1>4, <2>1
<1> HIDE DEF r
<1>6. Total(f, S) = r[S]
  BY <1>5, TotalOf
<1> QED
  BY <1>1, <1>6 DEF f

LEMMA OfAKey ==
    ASSUME NEW P, NEW h \in Seq(Records(P)), NEW k
    PROVE  /\ IsFiniteSet(Of(k, h)) /\ \A i \in Of(k, h) : h[i].cost \in Nat
           /\ KeyTotal(k, h) = Total([i \in Of(k, h) |-> h[i].cost], Of(k, h))
           /\ KeyTotal(k, h) \in Nat
<1> DEFINE S == Of(k, h)
           f == [i \in S |-> h[i].cost]
<1>1. S \subseteq 1..Len(h) /\ Len(h) \in Nat
  BY DEF Of
<1>2. IsFiniteSet(S)
  <2>1. IsFiniteSet(1..Len(h))
    BY <1>1, FS_Interval
  <2> HIDE DEF S
  <2> QED
    BY <1>1, <2>1, FS_Subset
<1>3. \A i \in S : h[i].cost \in Nat
  <2>1. \A i \in 1..Len(h) : h[i] \in Records(P)
    OBVIOUS
  <2> HIDE DEF S
  <2> QED
    BY <1>1, <2>1 DEF Records
<1>4. \A i \in S : f[i] \in Nat
  BY <1>3
<1> HIDE DEF f, S
<1>5. Total(f, S) \in Nat
  BY <1>2, <1>4, TotalType
<1>6. KeyTotal(k, h) = Total(f, S)
  BY <1>2, RecordsTotal DEF KeyTotal, S, f
<1> QED
  BY <1>2, <1>3, <1>5, <1>6 DEF S, f

\* A record appended counts for its own key; one dropped at the front never adds.
LEMMA TotalOfAppend ==
    ASSUME NEW P, NEW h \in Seq(Records(P)), NEW e \in Records(P), NEW k
    PROVE  KeyTotal(k, Append(h, e)) = KeyTotal(k, h) + (IF e.api_key = k THEN e.cost ELSE 0)
<1> DEFINE hh == Append(h, e)
           n == Len(h) + 1
           S == Of(k, h)
           T == Of(k, hh)
           f == [i \in S |-> h[i].cost]
           g == [i \in T |-> hh[i].cost]
<1>1. /\ hh \in Seq(Records(P)) /\ Len(hh) = n /\ hh[n] = e /\ n \notin DOMAIN h
      /\ DOMAIN hh = DOMAIN h \cup {n} /\ \A i \in DOMAIN h : hh[i] = h[i]
  OBVIOUS
<1> HIDE DEF hh, n
<1>2. T = IF e.api_key = k THEN S \cup {n} ELSE S
  BY <1>1 DEF Of
<1>3. n \notin S /\ S \subseteq DOMAIN h /\ S \subseteq T
  BY <1>1, <1>2 DEF Of
<1>4. /\ IsFiniteSet(S) /\ (\A i \in S : h[i].cost \in Nat) /\ KeyTotal(k, h) = Total(f, S)
      /\ KeyTotal(k, h) \in Nat
  BY OfAKey
<1>5. /\ IsFiniteSet(T) /\ (\A i \in T : hh[i].cost \in Nat) /\ KeyTotal(k, hh) = Total(g, T)
  BY <1>1, OfAKey
<1>6. \A i \in S : f[i] \in Nat /\ g[i] = f[i]
  <2>1. \A i \in S : f[i] = h[i].cost /\ g[i] = hh[i].cost /\ hh[i] = h[i]
    BY <1>1, <1>3
  <2> HIDE DEF f, g, S
  <2> QED
    BY <1>4, <2>1
<1>7. \A i \in T : g[i] \in Nat
  BY <1>5
<1>8. n \in T => g[n] = e.cost
  BY <1>1
<1> HIDE DEF S, T, f, g
<1>9. Total(g, S) = Total(f, S)
  BY <1>4, <1>6, TotalSame
<1>10. CASE e.api_key = k
  <2>1. n \in T /\ T \ {n} = S
    BY <1>2, <1>3, <1>10
  <2>2. Total(g, T) = g[n] + Total(g, S) /\ g[n] \in Nat
    BY <1>5, <1>7, <2>1, TotalWithout
  <2> QED
    BY <1>4, <1>5, <1>8, <1>9, <1>10, <2>1, <2>2 DEF hh
<1>11. CASE e.api_key # k
  <2>1. T = S
    BY <1>2, <1>11
  <2> QED
    BY <1>4, <1>5, <1>9, <1>11, <2>1 DEF hh
<1> QED
  BY <1>10, <1>11

LEMMA TotalOfTail ==
    ASSUME NEW P, NEW h \in Seq(Records(P)), h # <<>>, NEW k
    PROVE  KeyTotal(k, Tail(h)) <= KeyTotal(k, h) /\ KeyTotal(k, Tail(h)) \in Nat
<1> DEFINE hh == Tail(h)
           n == Len(h)
           S == Of(k, hh)
           T == Of(k, h)
           f == [i \in S |-> hh[i].cost]
           g == [i \in T |-> h[i].cost]
           m == [i \in S |-> i + 1]
<1>1. /\ hh \in Seq(Records(P)) /\ n \in Nat \ {0} /\ DOMAIN h = 1..n /\ DOMAIN hh = 1..(n - 1)
      /\ \A i \in 1..(n - 1) : hh[i] = h[i + 1]
  OBVIOUS
<1> HIDE DEF hh, n
<1>2. /\ IsFiniteSet(S) /\ (\A i \in S : hh[i].cost \in Nat) /\ KeyTotal(k, hh) = Total(f, S)
      /\ KeyTotal(k, hh) \in Nat
  BY <1>1, OfAKey
<1>3. /\ IsFiniteSet(T) /\ (\A i \in T : h[i].cost \in Nat) /\ KeyTotal(k, h) = Total(g, T)
      /\ KeyTotal(k, h) \in Nat
  BY OfAKey
<1>4. \A i \in S : i \in 1..(n - 1) /\ m[i] = i + 1 /\ m[i] \in T /\ hh[i] = h[m[i]]
  BY <1>1 DEF Of
<1>5. T \ {1} = {m[i] : i \in S}
  <2>1. ASSUME NEW j \in T, j # 1 PROVE j - 1 \in S /\ m[j - 1] = j
    <3>1. j \in 2..n /\ h[j].api_key = k
      BY <1>1, <2>1 DEF Of
    <3>2. j - 1 \in 1..(n - 1) /\ (j - 1) + 1 = j
      BY <1>1, <3>1
    <3>3. hh[j - 1] = h[j]
      BY <1>1, <3>2
    <3>4. j - 1 \in S
      BY <1>1, <3>1, <3>2, <3>3 DEF Of
    <3> QED
      BY <3>2, <3>4
  <2>2. \A i \in S : m[i] \in T /\ m[i] # 1
    BY <1>1, <1>4
  <2> HIDE DEF m, S, T
  <2> QED
    BY <2>1, <2>2
<1>6. \A i, j \in S : m[i] = m[j] => i = j
  BY <1>1, <1>4
<1>7. \A i \in S : f[i] \in Nat /\ g[m[i]] = f[i]
  <2>1. \A i \in S : f[i] = hh[i].cost
    OBVIOUS
  <2>2. \A i \in T : g[i] = h[i].cost
    OBVIOUS
  <2> HIDE DEF f, g, m, S, T
  <2> QED
    BY <1>2, <1>4, <2>1, <2>2
<1>8. \A i \in T : g[i] \in Nat
  BY <1>3
<1> HIDE DEF S, T, f, g, m
<1>9. Total(g, T \ {1}) = KeyTotal(k, hh)
  BY <1>2, <1>5, <1>6, <1>7, TotalMoved
<1>10. CASE 1 \in T
  <2>1. Total(g, T) = g[1] + Total(g, T \ {1}) /\ g[1] \in Nat
    BY <1>3, <1>8, <1>10, TotalWithout
  <2> DEFINE before == KeyTotal(k, h)
             after == KeyTotal(k, hh)
             first == g[1]
  <2>2. before = first + after /\ first \in Nat /\ after \in Nat
    BY <1>2, <1>3, <1>9, <2>1
  <2> HIDE DEF before, after, first
  <2>3. after <= before
    BY <2>2
  <2> QED
    BY <1>2, <2>3 DEF hh, before, after
<1>11. CASE 1 \notin T
  <2>1. T \ {1} = T
    BY <1>11
  <2> DEFINE before == KeyTotal(k, h)
             after == KeyTotal(k, hh)
  <2>2. after = before /\ after \in Nat
    BY <1>2, <1>3, <1>9, <2>1
  <2> HIDE DEF before, after
  <2>3. after <= before
    BY <2>2
  <2> QED
    BY <1>2, <2>3 DEF hh, before, after
<1> QED
  BY <1>10, <1>11

\* What is proved of the history: it holds no more than MaxHistory records, and the cost of
\* those of a key is what it has spent, or less once records have been dropped.
HistoryInv ==
    /\ \E P : history \in Seq(Records(P))
    /\ Len(history) <= MaxHistory
    /\ \A k \in ApiKeys :
          /\ KeyTotal(k, history) <= spend_by_key[k]
          /\ Len(history) < MaxHistory => KeyTotal(k, history) = spend_by_key[k]

LEMMA HistoryInvIsSummary == HistoryInv => SummaryNeverOverstates
<1>1. ASSUME NEW k PROVE Costs!SummaryTotal(k) = KeyTotal(k, history)
  BY DEF Costs!SummaryTotal, Costs!CostOfRecords, Costs!MapThenSumSet, Costs!MapThenFoldSet,
         KeyTotal, CostIn, Of, MapThenSumSet, MapThenFoldSet
<1> QED
  BY <1>1 DEF HistoryInv, SummaryNeverOverstates

LEMMA BillKeepsHistory ==
    ASSUME ServingInv, SpendInv, HistoryInv, NEW t \in Threads, Bill(t)
    PROVE  HistoryInv'
<1>1. PICK P : history \in Seq(Records(P))
  BY DEF HistoryInv
<1>2. PICK key, cost, id, provider :
         /\ key = request[t].api_key /\ cost = Cost(response[t]) /\ id = request[t].id
         /\ provider = response[t].provider
  OBVIOUS
<1> DEFINE e == [id |-> id, api_key |-> key, provider |-> provider, cost |-> cost]
           Q == P \cup {provider}
           kept == IF Len(history) >= MaxHistory THEN Tail(history) ELSE history
<1>3. key \in ApiKeys \cup {NoKey} /\ id \in Nat /\ cost \in Nat
  BY <1>2, CostType DEF Bill, At, ServingInv, ThreadInv, RequestRecord
<1>4. e \in Records(Q) /\ e.api_key = key /\ e.cost = cost
  BY <1>3 DEF Records
<1>5. history \in Seq(Records(Q))
  <2>1. Records(P) \subseteq Records(Q)
    BY DEF Records
  <2> DEFINE A == Records(P)
             B == Records(Q)
  <2>2. A \subseteq B /\ history \in Seq(A)
    BY <1>1, <2>1
  <2> HIDE DEF A, B
  <2>3. history \in Seq(B)
    BY <2>2
  <2> QED
    BY <2>3 DEF B
<1>6. /\ history' = Append(kept, e)
      /\ spend_by_key' = IF key = NoKey THEN spend_by_key
                         ELSE [spend_by_key EXCEPT ![key] = @ + cost]
  BY <1>2 DEF Bill, Costs!Record, Costs!KeptHistory
<1>7. MaxHistory \in Nat \ {0} /\ Len(history) \in Nat /\ Len(history) <= MaxHistory
  BY <1>1, CostsAssumption DEF HistoryInv
<1>8. /\ kept \in Seq(Records(Q)) /\ Len(kept) < MaxHistory
      /\ Len(history) < MaxHistory => kept = history
      /\ Len(history) >= MaxHistory => kept = Tail(history) /\ Len(kept) = MaxHistory - 1
      /\ Len(history) >= MaxHistory => history # <<>>
  <2>1. CASE Len(history) >= MaxHistory
    BY <1>5, <1>7, <2>1
  <2>2. CASE Len(history) < MaxHistory
    BY <1>5, <1>7, <2>2
  <2> QED
    BY <1>7, <2>1, <2>2
<1> HIDE DEF e, Q, kept
<1>9. history' \in Seq(Records(Q)) /\ Len(history') = Len(kept) + 1 /\ Len(kept) \in Nat
  BY <1>4, <1>6, <1>8
<1>10. ASSUME NEW k \in ApiKeys
       PROVE  /\ KeyTotal(k, history') <= spend_by_key'[k]
              /\ Len(history') < MaxHistory => KeyTotal(k, history') = spend_by_key'[k]
  <2> DEFINE more == IF key = k THEN cost ELSE 0
             old == KeyTotal(k, history)
             mid == KeyTotal(k, kept)
             new == KeyTotal(k, history')
             spent == spend_by_key[k]
             spends == spend_by_key'[k]
  <2>1. more \in Nat
    BY <1>3
  <2>2. new = mid + more /\ mid \in Nat
    BY <1>4, <1>6, <1>8, TotalOfAppend, OfAKey
  <2>3. spends = spent + more /\ spent \in Nat
    BY <1>3, <1>6, ThreadsAssumption DEF SpendInv
  <2>4. old <= spent /\ old \in Nat /\ (Len(history) < MaxHistory => old = spent)
    BY <1>5, OfAKey DEF HistoryInv
  <2>5. mid <= old
    <3>1. CASE Len(history) >= MaxHistory
      BY <1>5, <1>8, <3>1, TotalOfTail
    <3>2. CASE Len(history) < MaxHistory
      BY <1>8, <2>4, <3>2
    <3> QED
      BY <1>7, <3>1, <3>2
  <2>6. Len(history) < MaxHistory => mid = old
    BY <1>8
  <2> HIDE DEF more, old, mid, new, spent, spends
  <2>7. new <= spends
    BY <2>1, <2>2, <2>3, <2>4, <2>5
  <2>8. ASSUME Len(history') < MaxHistory PROVE new = spends
    <3>1. Len(history) < MaxHistory
      BY <1>7, <1>8, <1>9, <2>8
    <3> QED
      BY <2>2, <2>3, <2>4, <2>6, <3>1
  <2> QED
    BY <2>7, <2>8 DEF new, spends
<1>11. Len(history') <= MaxHistory
  BY <1>7, <1>8, <1>9
<1> QED
  BY <1>9, <1>10, <1>11 DEF HistoryInv

LEMMA OnlyBillRecords ==
    ASSUME [Next]_vars, \A t \in Threads : ~Bill(t)
    PROVE  UNCHANGED <<history, spend_by_key>>
<1>1. ASSUME NEW t \in Threads, HandlerStep(t)
      PROVE  UNCHANGED <<history, spend_by_key>>
  BY <1>1 DEF HandlerStep, CheckLimit, LookupHit, LookupMiss, CountHit, CountMiss, RouteV1,
     RouteLegacy, CallSucceedsV1, CallFailsV1, CallSucceedsLegacy, CallFailsLegacy, CountError,
     RecordTokens, Observe, Store, costVars
<1> QED
  BY <1>1, LedgerWithoutHandlers

LEMMA NoRecords == \A k : KeyTotal(k, <<>>) = 0
<1>1. \A k : Of(k, <<>>) = {}
  BY DEF Of
<1>2. \A h : CostIn(h, {}) = 0
  BY FS_EmptySet, RecordsTotal, TotalOfNone
<1> QED
  BY <1>1, <1>2 DEF KeyTotal

LEMMA HistoryInvariant == Spec => []HistoryInv
<1>1. Init => HistoryInv
  <2> SUFFICES ASSUME Init PROVE HistoryInv
    OBVIOUS
  <2>1. history = <<>> /\ \A k \in ApiKeys : spend_by_key[k] = 0
    BY DEF Init, Costs!Init
  <2>2. MaxHistory \in Nat \ {0}
    BY CostsAssumption
  <2>3. history \in Seq(Records({})) /\ Len(history) = 0
    BY <2>1
  <2> QED
    BY <2>1, <2>2, <2>3, NoRecords DEF HistoryInv
<1>2. ServingInv /\ SpendInv /\ HistoryInv /\ [Next]_vars => HistoryInv'
  <2> SUFFICES ASSUME ServingInv, SpendInv, HistoryInv, [Next]_vars PROVE HistoryInv'
    OBVIOUS
  <2>1. CASE UNCHANGED <<history, spend_by_key>>
    BY <2>1 DEF HistoryInv
  <2> QED
    BY <2>1, BillKeepsHistory, OnlyBillRecords
<1> QED
  BY <1>1, <1>2, ServingInvariant, SpendInvariant, PTL DEF Spec

\* The summary of a key is what it has spent until the history is full, and never more.
THEOREM SummaryIsBounded == Spec => []SummaryNeverOverstates
BY HistoryInvariant, HistoryInvIsSummary, PTL
=============================================================================
