--------------------------- MODULE GatewayProofs ---------------------------
(***************************************************************************)
(* Theorems about the chat handlers of Gateway over the shared components, *)
(* for every number of threads, keys, providers and requests.              *)
(***************************************************************************)
EXTENDS Gateway, FiniteSetTheorems, WellFoundedInduction, TLAPS

\* The stages only a v1 request goes through, and those in which a thread has
\* a provider's answer, or any response, in hand.
V1Stages   == {"limit", "hit", "miss", "error", "bill", "tokens", "observe"}
Answering  == {"bill", "tokens", "observe", "store"}
Responding == Answering \cup {"hit"}
Stages     == V1Stages \cup {"idle", "lookup", "route", "call", "store"}

RequestRecord == [kind : {"v1", "legacy"}, id : Nat, question : AllQuestions,
                  api_key : ApiKeys \cup {NoKey}]

\* A thread has a request while it is in a handler, and one that fits its stage.
ThreadInv ==
    /\ stage \in [Threads -> Stages]
    /\ request \in [Threads -> RequestRecord \cup {NoRequest}]
    /\ \A t \in Threads :
          /\ stage[t] # "idle" => request[t] \in RequestRecord
          /\ stage[t] \in V1Stages => V1(t)

\* How a step of a thread moves it: it goes on with its request, or returns.
Moves(t, s) == GoTo(t, s) /\ request' = request
Returns(t) ==
    /\ stage' = [stage EXCEPT ![t] = "idle"]
    /\ request' = [request EXCEPT ![t] = NoRequest]

LEMMA ReturnReturns ==
    ASSUME NEW t, Return(t)
    PROVE  Returns(t)
BY DEF Return, Returns

LEMMA MoveKeepsThreads ==
    ASSUME ThreadInv, NEW t \in Threads, NEW s \in Stages, Moves(t, s),
           stage[t] # "idle", s \in V1Stages => V1(t)
    PROVE  ThreadInv'
BY DEF ThreadInv, Moves, GoTo, V1

LEMMA ReturnKeepsThreads ==
    ASSUME ThreadInv, NEW t \in Threads, Returns(t)
    PROVE  ThreadInv'
BY DEF ThreadInv, Returns, V1, Stages, V1Stages

\* Each step of a handler is one of these moves.
HandlerMoves(t) ==
    \/ stage[t] = "limit"   /\ (Moves(t, "lookup") \/ Returns(t))
    \/ stage[t] = "lookup"  /\ V1(t) /\ Moves(t, "hit")
    \/ stage[t] = "lookup"  /\ V1(t) /\ Moves(t, "miss")
    \/ stage[t] = "lookup"  /\ ~V1(t) /\ (Moves(t, "route") \/ Returns(t))
    \/ stage[t] = "hit"     /\ Returns(t)
    \/ stage[t] = "miss"    /\ Moves(t, "route")
    \/ stage[t] = "route"   /\ V1(t) /\ (Moves(t, "call") \/ Moves(t, "error"))
    \/ stage[t] = "route"   /\ ~V1(t) /\ (Moves(t, "call") \/ Returns(t))
    \/ stage[t] = "call"    /\ V1(t) /\ (Moves(t, "bill") \/ Moves(t, "call") \/ Moves(t, "error"))
    \/ stage[t] = "call"    /\ ~V1(t) /\ (Moves(t, "store") \/ Returns(t))
    \/ stage[t] = "error"   /\ Returns(t)
    \/ stage[t] = "bill"    /\ (Moves(t, "observe") \/ Moves(t, "tokens"))
    \/ stage[t] = "tokens"  /\ Moves(t, "observe")
    \/ stage[t] = "observe" /\ Moves(t, "store")
    \/ stage[t] = "store"   /\ Returns(t)

LEMMA HandlerStepMoves ==
    ASSUME NEW t \in Threads, HandlerStep(t)
    PROVE  HandlerMoves(t)
<1> USE DEF HandlerMoves, At, Moves
<1>1. CASE CheckLimit(t)
  BY <1>1 DEF CheckLimit, Returns, GoTo
<1>2. CASE LookupHit(t)
  BY <1>2, ReturnReturns DEF LookupHit
<1>3. CASE LookupMiss(t)
  BY <1>3 DEF LookupMiss, AfterMiss
<1>4. CASE CountHit(t) \/ CountError(t) \/ Store(t)
  BY <1>4, ReturnReturns DEF CountHit, CountError, Store
<1>5. CASE CountMiss(t) \/ RecordTokens(t) \/ Observe(t)
  BY <1>5 DEF CountMiss, RecordTokens, Observe
<1>6. CASE RouteV1(t)
  BY <1>6 DEF RouteV1
<1>7. CASE RouteLegacy(t)
  BY <1>7, ReturnReturns DEF RouteLegacy
<1>8. CASE CallSucceedsV1(t) \/ CallSucceedsLegacy(t)
  BY <1>8 DEF CallSucceedsV1, CallSucceedsLegacy
<1>9. CASE CallFailsV1(t)
  BY <1>9 DEF CallFailsV1, AfterFailure
<1>10. CASE CallFailsLegacy(t)
  BY <1>10, ReturnReturns DEF CallFailsLegacy
<1>11. CASE Bill(t)
  BY <1>11 DEF Bill
<1> QED
  BY <1>1, <1>2, <1>3, <1>4, <1>5, <1>6, <1>7, <1>8, <1>9, <1>10, <1>11 DEF HandlerStep

LEMMA HandlerKeepsThreads ==
    ASSUME ThreadInv, NEW t \in Threads, HandlerMoves(t)
    PROVE  ThreadInv'
<1>1. CASE Returns(t)
  BY <1>1, ReturnKeepsThreads
<1>2. CASE \E s \in Stages : Moves(t, s) /\ stage[t] # "idle" /\ (s \in V1Stages => V1(t))
  BY <1>2, MoveKeepsThreads
<1>3. stage[t] \in V1Stages => V1(t)
  BY DEF ThreadInv
<1> QED
  BY <1>1, <1>2, <1>3 DEF HandlerMoves, Stages, V1Stages

\* A request is received by an idle thread, with the next id.
Begins(t, r, s) ==
    /\ stage[t] = "idle"
    /\ stage' = [stage EXCEPT ![t] = s]
    /\ request' = [request EXCEPT ![t] = r]
    /\ r.id = received /\ received' = received + 1

LEMMA ReceiveBegins ==
    ASSUME NEW t \in Threads, NEW q \in Questions,
           NEW k \in ApiKeys \cup {NoKey}, received \in Nat, Receive(t, q, k)
    PROVE  \E r \in RequestRecord, s \in {"lookup", "limit"} : r.kind = "v1" /\ Begins(t, r, s)
<1> DEFINE r == [kind |-> "v1", id |-> received, question |-> q, api_key |-> k]
           s == IF k = NoKey THEN "lookup" ELSE "limit"
<1>1. r \in RequestRecord /\ r.kind = "v1" /\ s \in {"lookup", "limit"}
  BY DEF RequestRecord, AllQuestions
<1>2. Begins(t, r, s)
  BY DEF Receive, CanReceive, At, GoTo, Begins
<1> QED
  BY <1>1, <1>2

LEMMA ReceiveLegacyBegins ==
    ASSUME NEW t \in Threads, NEW p \in Prompts, received \in Nat, ReceiveLegacy(t, p)
    PROVE  \E r \in RequestRecord : r.kind = "legacy" /\ Begins(t, r, "lookup")
<1> DEFINE r == [kind |-> "legacy", id |-> received, question |-> LegacyQuestion(p),
                 api_key |-> NoKey]
<1>1. r \in RequestRecord /\ r.kind = "legacy"
  BY DEF RequestRecord, AllQuestions
<1>2. Begins(t, r, "lookup")
  BY DEF ReceiveLegacy, CanReceive, At, GoTo, Begins
<1> QED
  BY <1>1, <1>2

LEMMA BeginKeepsThreads ==
    ASSUME ThreadInv, NEW t \in Threads, NEW r \in RequestRecord,
           NEW s \in {"lookup", "limit"}, s = "limit" => r.kind = "v1", Begins(t, r, s)
    PROVE  ThreadInv'
BY DEF ThreadInv, Begins, V1, Stages, V1Stages

\* The steps that concern no thread.
Background == CacheForgets \/ AdminSetStrategy \/ Scrape \/ Tick \/ UNCHANGED vars

LEMMA BackgroundLeavesThreads ==
    ASSUME Background
    PROVE  UNCHANGED <<stage, request, response, received, refused, answered>>
BY DEF Background, CacheForgets, AdminSetStrategy, Scrape, Tick, threadVars, ghostVars, vars

\* What threads serve, and which ids have been given out.
ServingInv == ThreadInv /\ received \in Nat

LEMMA OnlyReceivingCounts ==
    ASSUME NEW t \in Threads, HandlerStep(t)
    PROVE  received' = received
BY DEF HandlerStep, CheckLimit, LookupHit, LookupMiss, CountHit, CountMiss, RouteV1,
       RouteLegacy, CallSucceedsV1, CallFailsV1, CallSucceedsLegacy, CallFailsLegacy,
       CountError, Bill, RecordTokens, Observe, Store, ghostVars

\* The four ways a step concerns threads.
LEMMA StepCases ==
    ASSUME received \in Nat, [Next]_vars
    PROVE  \/ \E t \in Threads, r \in RequestRecord, s \in {"lookup", "limit"} :
                 (s = "limit" => r.kind = "v1") /\ Begins(t, r, s) /\ UNCHANGED answered
           \/ /\ UNCHANGED <<stage, request, answered>>
              /\ received' \in {received, received + 1}
           \/ \E t \in Threads : HandlerStep(t)
<1>1. ASSUME NEW t \in Threads, NEW q \in Questions,
             NEW k \in ApiKeys \cup {NoKey}, Receive(t, q, k)
      PROVE  \E r \in RequestRecord, s \in {"lookup", "limit"} :
                (s = "limit" => r.kind = "v1") /\ Begins(t, r, s) /\ UNCHANGED answered
  BY <1>1, ReceiveBegins DEF Receive
<1>2. ASSUME NEW t \in Threads, NEW p \in Prompts, ReceiveLegacy(t, p)
      PROVE  \E r \in RequestRecord : Begins(t, r, "lookup") /\ UNCHANGED answered
  BY <1>2, ReceiveLegacyBegins DEF ReceiveLegacy
<1>3. ASSUME NEW t \in Threads, ReceiveMalformed(t)
      PROVE  UNCHANGED <<stage, request, answered>> /\ received' = received + 1
  BY <1>3 DEF ReceiveMalformed, threadVars
<1>4. CASE Background
  BY <1>4, BackgroundLeavesThreads
<1> QED
  BY <1>1, <1>2, <1>3, <1>4 DEF Next, Background

LEMMA ServingInvariant == Spec => []ServingInv
<1>1. Init => ServingInv
  BY DEF Init, ServingInv, ThreadInv, Stages, V1Stages, NoRequest
<1>2. ServingInv /\ [Next]_vars => ServingInv'
  <2> SUFFICES ASSUME ServingInv, [Next]_vars PROVE ServingInv'
    OBVIOUS
  <2>1. ThreadInv /\ received \in Nat
    BY DEF ServingInv
  <2>2. ASSUME NEW t \in Threads, HandlerStep(t)
        PROVE  ServingInv'
    BY <2>1, <2>2, HandlerStepMoves, HandlerKeepsThreads, OnlyReceivingCounts DEF ServingInv
  <2>3. ASSUME NEW t \in Threads, NEW r \in RequestRecord, NEW s \in {"lookup", "limit"},
               s = "limit" => r.kind = "v1", Begins(t, r, s)
        PROVE  ServingInv'
    <3>1. ThreadInv'
      BY <2>1, <2>3, BeginKeepsThreads
    <3> QED
      BY <2>1, <2>3, <3>1 DEF Begins, ServingInv
  <2>4. ASSUME UNCHANGED <<stage, request>>, received' \in {received, received + 1}
        PROVE  ServingInv'
    <3>1. ThreadInv'
      BY <2>1, <2>4 DEF ThreadInv, V1
    <3> QED
      BY <2>1, <2>4, <3>1 DEF ServingInv
  <2> QED
    BY <2>1, <2>2, <2>3, <2>4, StepCases
<1> QED
  BY <1>1, <1>2, PTL DEF Spec

\* A provider's answer is recorded once, under the request it was given to.
Answered(t) == \E a : a.id = request[t].id /\ a.kind = request[t].kind /\ answered' = answered \cup {a}

LEMMA CallAnswers ==
    ASSUME NEW t \in Threads, CallSucceedsV1(t) \/ CallSucceedsLegacy(t)
    PROVE  Answered(t)
<1>1. PICK model : Answer(t, model)
  BY DEF CallSucceedsV1, CallSucceedsLegacy
<1> DEFINE r == [question |-> request[t].question,
                 provider |-> Pool!Called(t), model |-> model]
           a == [id |-> request[t].id, kind |-> request[t].kind,
                 api_key |-> request[t].api_key, cost |-> Cost(r)]
<1>2. answered' = answered \cup {a}
  BY <1>1 DEF Answer
<1>3. a.id = request[t].id /\ a.kind = request[t].kind
  OBVIOUS
<1> QED
  BY <1>2, <1>3 DEF Answered

LEMMA OnlyCallsAnswer ==
    ASSUME NEW t \in Threads, HandlerStep(t), ~CallSucceedsV1(t), ~CallSucceedsLegacy(t)
    PROVE  answered' = answered
BY DEF HandlerStep, CheckLimit, LookupHit, LookupMiss, CountHit, CountMiss, RouteV1,
       RouteLegacy, CallFailsV1, CallFailsLegacy,
       CountError, Bill, RecordTokens, Observe, Store, ghostVars

\* Ids are not reused: no two requests under way have the same one, no two
\* answers, and no answer has that of a request that still waits for it.
Unanswered == Stages \ ({"idle"} \cup Answering)

IdInv ==
    /\ \A t \in Threads : stage[t] # "idle" => request[t].id < received
    /\ \A t, u \in Threads :
          t # u /\ stage[t] # "idle" /\ stage[u] # "idle" => request[t].id # request[u].id
    /\ \A a \in answered : a.id \in Nat /\ a.id < received
    /\ \A a \in answered, t \in Threads : stage[t] \in Unanswered => a.id # request[t].id
    /\ \A a, b \in answered : a.id = b.id => a = b
    /\ IsFiniteSet(answered)

LEMMA BeginKeepsIds ==
    ASSUME ServingInv, IdInv, NEW t \in Threads, NEW r \in RequestRecord, NEW s \in Stages,
           Begins(t, r, s), UNCHANGED answered
    PROVE  IdInv'
<1>1. \A u \in Threads : stage[u] # "idle" => request[u].id \in Nat
  BY DEF ServingInv, ThreadInv, RequestRecord
<1>2. \A u \in Threads : u # t => stage'[u] = stage[u] /\ request'[u] = request[u]
  BY DEF Begins, ServingInv, ThreadInv
<1>3. request'[t].id = received /\ received' = received + 1 /\ received \in Nat
  BY DEF Begins, ServingInv, ThreadInv
<1>4. \A u \in Threads : stage'[u] # "idle" => request'[u].id < received'
  BY <1>1, <1>2, <1>3 DEF IdInv
<1>5. \A u, v \in Threads :
         u # v /\ stage'[u] # "idle" /\ stage'[v] # "idle" => request'[u].id # request'[v].id
  BY <1>1, <1>2, <1>3 DEF IdInv
<1>6. \A a \in answered' : a.id \in Nat /\ a.id < received'
  BY <1>3 DEF IdInv
<1>7. \A a \in answered', u \in Threads : stage'[u] \in Unanswered => a.id # request'[u].id
  BY <1>2, <1>3 DEF IdInv
<1> QED
  BY <1>4, <1>5, <1>6, <1>7 DEF IdInv

LEMMA ReturnKeepsIds ==
    ASSUME ServingInv, IdInv, NEW t \in Threads, Returns(t), UNCHANGED <<received, answered>>
    PROVE  IdInv'
<1>1. \A u \in Threads : u # t => stage'[u] = stage[u] /\ request'[u] = request[u]
  BY DEF Returns, ServingInv, ThreadInv
<1>2. stage'[t] = "idle"
  BY DEF Returns, ServingInv, ThreadInv
<1> QED
  BY <1>1, <1>2 DEF IdInv, Unanswered

LEMMA MoveKeepsIds ==
    ASSUME ServingInv, IdInv, NEW t \in Threads, NEW s, Moves(t, s), stage[t] # "idle",
           s \in Unanswered => stage[t] \in Unanswered, UNCHANGED <<received, answered>>
    PROVE  IdInv'
<1>1. \A u \in Threads : stage'[u] = IF u = t THEN s ELSE stage[u]
  BY DEF Moves, GoTo, ServingInv, ThreadInv
<1> QED
  BY <1>1 DEF IdInv, Moves

LEMMA AnswerKeepsIds ==
    ASSUME ServingInv, IdInv, NEW t \in Threads, NEW s \in Answering, Moves(t, s),
           stage[t] \in Unanswered, Answered(t), UNCHANGED received
    PROVE  IdInv'
<1>1. PICK a : a.id = request[t].id /\ answered' = answered \cup {a}
  BY DEF Answered
<1>2. request' = request /\ \A u \in Threads : stage'[u] = IF u = t THEN s ELSE stage[u]
  BY DEF Moves, GoTo, ServingInv, ThreadInv
<1>3. stage[t] # "idle" /\ s # "idle" /\ s \notin Unanswered
  BY DEF Unanswered, Answering
<1>4. a.id \in Nat /\ a.id < received
  BY <1>1, <1>3 DEF IdInv, ServingInv, ThreadInv, RequestRecord
<1>5. \A b \in answered : b.id # a.id
  BY <1>1 DEF IdInv
<1>6. IsFiniteSet(answered')
  BY <1>1, FS_AddElement DEF IdInv
<1>7. \A u \in Threads : stage'[u] # "idle" => request'[u].id < received'
  BY <1>2, <1>3 DEF IdInv
<1>8. \A u, v \in Threads :
         u # v /\ stage'[u] # "idle" /\ stage'[v] # "idle" => request'[u].id # request'[v].id
  BY <1>2, <1>3 DEF IdInv
<1>9. \A b \in answered', u \in Threads : stage'[u] \in Unanswered => b.id # request'[u].id
  <2>1. \A u \in Threads : stage'[u] \in Unanswered => u # t /\ stage[u] \in Unanswered
    BY <1>2, <1>3
  <2>2. \A u \in Threads : stage[u] \in Unanswered => stage[u] # "idle"
    BY DEF Unanswered
  <2>3. \A u \in Threads : stage'[u] \in Unanswered => request[u].id # request[t].id
    BY <1>3, <2>1, <2>2 DEF IdInv
  <2> QED
    BY <1>1, <1>2, <2>1, <2>3 DEF IdInv
<1>10. \A b, c \in answered' : b.id = c.id => b = c
  BY <1>1, <1>5 DEF IdInv
<1>11. \A b \in answered' : b.id \in Nat /\ b.id < received'
  BY <1>1, <1>4 DEF IdInv
<1> QED
  BY <1>6, <1>7, <1>8, <1>9, <1>10, <1>11 DEF IdInv

LEMMA IdInvariant == Spec => []IdInv
<1>1. Init => IdInv
  BY FS_EmptySet DEF Init, IdInv, Unanswered
<1>2. ServingInv /\ IdInv /\ [Next]_vars => IdInv'
  <2> SUFFICES ASSUME ServingInv, IdInv, [Next]_vars PROVE IdInv'
    OBVIOUS
  <2>1. ASSUME NEW t \in Threads, HandlerStep(t)
        PROVE  IdInv'
    <3>1. HandlerMoves(t) /\ received' = received
      BY <2>1, HandlerStepMoves, OnlyReceivingCounts
    <3>2. CASE CallSucceedsV1(t) \/ CallSucceedsLegacy(t)
      <4>1. stage[t] \in Unanswered /\ \E s \in Answering : Moves(t, s)
        BY <3>2 DEF CallSucceedsV1, CallSucceedsLegacy, At, Moves, Unanswered, Answering,
                    Stages, V1Stages
      <4> QED
        BY <3>1, <3>2, <4>1, CallAnswers, AnswerKeepsIds
    <3>3. CASE ~CallSucceedsV1(t) /\ ~CallSucceedsLegacy(t)
      <4>1. answered' = answered
        BY <2>1, <3>3, OnlyCallsAnswer
      <4>2. \/ Returns(t)
            \/ \E s : /\ Moves(t, s) /\ stage[t] # "idle"
                      /\ s \in Unanswered => stage[t] \in Unanswered
        BY <3>1 DEF HandlerMoves, Unanswered, Answering, Stages, V1Stages
      <4> QED
        BY <3>1, <4>1, <4>2, ReturnKeepsIds, MoveKeepsIds
    <3> QED
      BY <3>2, <3>3
  <2>2. ASSUME NEW t \in Threads, NEW r \in RequestRecord, NEW s \in {"lookup", "limit"},
               Begins(t, r, s), UNCHANGED answered
        PROVE  IdInv'
    <3>1. s \in Stages
      BY DEF Stages, V1Stages
    <3> QED
      BY <2>2, <3>1, BeginKeepsIds
  <2>3. ASSUME UNCHANGED <<stage, request, answered>>, received' \in {received, received + 1}
        PROVE  IdInv'
    <3>1. \A u \in Threads : stage[u] # "idle" => request[u].id \in Nat
      BY DEF ServingInv, ThreadInv, RequestRecord
    <3>2. received \in Nat /\ received <= received'
      BY <2>3 DEF ServingInv
    <3>3. \A u \in Threads : stage[u] # "idle" => request[u].id < received'
      BY <2>3, <3>1, <3>2 DEF IdInv, ServingInv
    <3>4. \A a \in answered : a.id \in Nat /\ a.id < received'
      BY <2>3, <3>2 DEF IdInv, ServingInv
    <3> QED
      BY <2>3, <3>3, <3>4 DEF IdInv
  <2> QED
    BY <2>1, <2>2, <2>3, StepCases DEF ServingInv
<1> QED
  BY <1>1, <1>2, ServingInvariant, PTL DEF Spec

\* How the number of v1 requests in some stages changes when one thread moves.
InStages(t, S) == IF V1(t) /\ stage[t] \in S THEN 1 ELSE 0

LEMMA ServingCount ==
    ASSUME NEW S
    PROVE  IsFiniteSet(Serving(S)) /\ Cardinality(Serving(S)) \in Nat
<1>1. IsFiniteSet(Serving(S))
  BY ThreadsAssumption, FS_Subset DEF Serving
<1> QED
  BY <1>1, FS_CardinalityType

\* Only thread t may be elsewhere, or have another request, after a step.
Others(t) == \A u \in Threads : u # t => stage'[u] = stage[u] /\ request'[u] = request[u]

LEMMA ServingMoved ==
    ASSUME NEW t \in Threads, Others(t), NEW S
    PROVE  /\ Cardinality(Serving(S)) \in Nat /\ Cardinality(Serving(S)') \in Nat
           /\ Cardinality(Serving(S)') = Cardinality(Serving(S)) - InStages(t, S) + InStages(t, S)'
<1> DEFINE before == Serving(S)
           after  == Serving(S)'
<1>1. IsFiniteSet(before) /\ Cardinality(before) \in Nat
  BY ServingCount
<1>2. IsFiniteSet(after) /\ Cardinality(after) \in Nat
  <2>1. IsFiniteSet(after)
    BY ThreadsAssumption, FS_Subset DEF Serving
  <2> QED
    BY <2>1, FS_CardinalityType
<1>3. before \ {t} = after \ {t}
  BY DEF Serving, Others, V1
<1>4. Cardinality(before) = Cardinality(before \ {t}) + InStages(t, S)
  <2>1. Cardinality(before \ {t}) = IF t \in before THEN Cardinality(before) - 1 ELSE Cardinality(before)
    BY <1>1, FS_RemoveElement
  <2>2. t \in before <=> V1(t) /\ stage[t] \in S
    BY DEF Serving
  <2> HIDE DEF before
  <2> QED
    BY <1>1, <2>1, <2>2 DEF InStages
<1>5. Cardinality(after) = Cardinality(after \ {t}) + InStages(t, S)'
  <2>1. Cardinality(after \ {t}) = IF t \in after THEN Cardinality(after) - 1 ELSE Cardinality(after)
    BY <1>2, FS_RemoveElement
  <2>2. t \in after <=> V1(t)' /\ stage'[t] \in S
    BY DEF Serving
  <2>3. InStages(t, S)' = IF t \in after THEN 1 ELSE 0
    BY <2>2 DEF InStages
  <2> HIDE DEF after
  <2> QED
    BY <1>2, <2>1, <2>3
<1>6. Cardinality(before \ {t}) \in Nat
  BY <1>1, FS_RemoveElement, FS_CardinalityType
<1>7. InStages(t, S) \in {0, 1} /\ InStages(t, S)' \in {0, 1}
  BY DEF InStages
<1> HIDE DEF before, after
<1>8. Cardinality(after) = Cardinality(before) - InStages(t, S) + InStages(t, S)'
  BY <1>1, <1>2, <1>3, <1>4, <1>5, <1>6, <1>7
<1> QED
  BY <1>1, <1>2, <1>8 DEF before, after

LEMMA SameServing ==
    ASSUME UNCHANGED <<stage, request>>, NEW S
    PROVE  Serving(S)' = Serving(S)
BY DEF Serving, V1

\* The answers to v1 requests: one more with each, none with other steps.
LEMMA V1AnswersCount ==
    ASSUME IdInv
    PROVE  IsFiniteSet(V1Answers) /\ Cardinality(V1Answers) \in Nat
<1>1. IsFiniteSet(V1Answers)
  BY FS_Subset DEF V1Answers, IdInv
<1> QED
  BY <1>1, FS_CardinalityType

LEMMA OneMoreAnswer ==
    ASSUME IdInv, NEW t \in Threads, stage[t] \in Unanswered, Answered(t)
    PROVE  Cardinality(V1Answers') = Cardinality(V1Answers) + (IF V1(t) THEN 1 ELSE 0)
<1>1. PICK a : a.id = request[t].id /\ a.kind = request[t].kind /\ answered' = answered \cup {a}
  BY DEF Answered
<1>2. a \notin answered
  BY <1>1 DEF IdInv
<1>3. CASE V1(t)
  <2>1. V1Answers' = V1Answers \cup {a} /\ a \notin V1Answers
    BY <1>1, <1>2, <1>3 DEF V1Answers, V1
  <2> QED
    BY <1>3, <2>1, V1AnswersCount, FS_AddElement
<1>4. CASE ~V1(t)
  <2>1. V1Answers' = V1Answers
    BY <1>1, <1>4 DEF V1Answers, V1
  <2> QED
    BY <1>4, <2>1, V1AnswersCount
<1> QED
  BY <1>3, <1>4

\* The three groups of stages the counters differ by.
Waiting    == {"limit", "lookup", "hit", "miss"}
Missed     == {"route", "call", "error"}
Unmetered  == {"bill", "tokens", "observe"}

CountersInv ==
    /\ counters \in [Metrics!CounterNames -> Nat]
    /\ refused \in Nat

LEMMA TotalTokensType == TotalTokens \in Nat
BY CostsAssumption DEF TotalTokens

LEMMA TokensTimes ==
    ASSUME NEW d \in Int, NEW n \in Int
    PROVE  /\ TotalTokens * (d + n) = TotalTokens * d + TotalTokens * n
           /\ TotalTokens * d \in Int
<1> DEFINE T == TotalTokens
<1>1. T \in Int
  BY TotalTokensType
<1> HIDE DEF T
<1>2. T * (d + n) = T * d + T * n /\ T * d \in Int
  BY <1>1, SMT
<1> QED
  BY <1>2 DEF T

\* The counters still balance after a step of one thread that changes both
\* sides of the balance by the same.
LEMMA RequestsStillAccounted ==
    ASSUME CountersInv, RequestsAccounted, IdInv, NEW t \in Threads, Others(t), CountersInv',
           NEW more \in {0, 1}, Cardinality(V1Answers') = Cardinality(V1Answers) + more,
           counters'["requests"] - counters["requests"] =
               (refused' - refused) + (counters'["hits"] - counters["hits"])
                 + (counters'["misses"] - counters["misses"])
                 + InStages(t, Waiting)' - InStages(t, Waiting),
           counters'["misses"] - counters["misses"] =
               (counters'["errors"] - counters["errors"]) + more
                 + InStages(t, Missed)' - InStages(t, Missed)
    PROVE  RequestsAccounted'
<1> DEFINE c == counters
           d == counters'
           answers == Cardinality(V1Answers)
<1>1. /\ c["requests"] \in Nat /\ c["hits"] \in Nat /\ c["misses"] \in Nat
      /\ c["errors"] \in Nat /\ refused \in Nat
      /\ d["requests"] \in Nat /\ d["hits"] \in Nat /\ d["misses"] \in Nat
      /\ d["errors"] \in Nat /\ refused' \in Nat
  BY DEF CountersInv, Metrics!CounterNames
<1>2. answers \in Nat
  BY V1AnswersCount
<1>3. /\ InStages(t, Waiting) \in {0, 1} /\ InStages(t, Waiting)' \in {0, 1}
      /\ InStages(t, Missed) \in {0, 1} /\ InStages(t, Missed)' \in {0, 1}
  BY DEF InStages
<1> HIDE DEF c, d, answers
<1>4. d["requests"] = refused' + d["hits"] + d["misses"] + Cardinality(Serving(Waiting)')
  <2> DEFINE w == Cardinality(Serving(Waiting))
             ww == Cardinality(Serving(Waiting)')
             i == InStages(t, Waiting)
             ii == InStages(t, Waiting)'
  <2>1. w \in Nat /\ ww \in Nat /\ ww = w - i + ii
    BY ServingMoved
  <2>2. i \in Nat /\ ii \in Nat
    BY <1>3
  <2>3. c["requests"] = refused + c["hits"] + c["misses"] + w
    BY DEF RequestsAccounted, c, Waiting
  <2>4. d["requests"] - c["requests"] =
           (refused' - refused) + (d["hits"] - c["hits"]) + (d["misses"] - c["misses"]) + ii - i
    BY DEF c, d
  <2> HIDE DEF w, ww, i, ii
  <2>5. d["requests"] = refused' + d["hits"] + d["misses"] + ww
    <3>1. d["requests"] = c["requests"] + (refused' - refused) + (d["hits"] - c["hits"])
             + (d["misses"] - c["misses"]) + (ii - i)
      BY <1>1, <2>2, <2>4
    <3>2. ww - w = ii - i
      BY <2>1, <2>2
    <3> QED
      BY <1>1, <2>1, <2>3, <3>1, <3>2
  <2> QED
    BY <2>5 DEF ww
<1>5. d["misses"] = d["errors"] + Cardinality(V1Answers') + Cardinality(Serving(Missed)')
  <2> DEFINE m == Cardinality(Serving(Missed))
             mm == Cardinality(Serving(Missed)')
             i == InStages(t, Missed)
             ii == InStages(t, Missed)'
  <2>1. m \in Nat /\ mm \in Nat /\ mm = m - i + ii
    BY ServingMoved
  <2>2. i \in Nat /\ ii \in Nat
    BY <1>3
  <2>3. c["misses"] = c["errors"] + answers + m
    BY DEF RequestsAccounted, c, Missed, answers
  <2>4. d["misses"] - c["misses"] = (d["errors"] - c["errors"]) + more + ii - i
    BY DEF c, d
  <2> HIDE DEF m, mm, i, ii
  <2>5. d["misses"] = d["errors"] + (answers + more) + mm
    BY <1>1, <1>2, <2>1, <2>2, <2>3, <2>4
  <2> QED
    BY <2>5 DEF mm, answers
<1> QED
  BY <1>4, <1>5 DEF RequestsAccounted, d, Waiting, Missed

LEMMA TokensStillAccounted ==
    ASSUME CountersInv, TokensAccounted, IdInv, NEW t \in Threads, Others(t), CountersInv',
           NEW more \in {0, 1}, Cardinality(V1Answers') = Cardinality(V1Answers) + more,
           NEW n \in Int, n = more - InStages(t, Unmetered)' + InStages(t, Unmetered),
           counters'["tokens"] = counters["tokens"] + TotalTokens * n
    PROVE  TokensAccounted'
<1> DEFINE a == Cardinality(V1Answers)
           aa == Cardinality(V1Answers')
           u == Cardinality(Serving(Unmetered))
           uu == Cardinality(Serving(Unmetered)')
           i == InStages(t, Unmetered)
           ii == InStages(t, Unmetered)'
<1>1. a \in Nat /\ aa = a + more /\ n = more - ii + i
  BY V1AnswersCount
<1>2. u \in Nat /\ uu \in Nat /\ uu = u - i + ii
  BY ServingMoved
<1>3. i \in {0, 1} /\ ii \in {0, 1}
  BY DEF InStages
<1>4. counters["tokens"] = TotalTokens * (a - u)
  BY DEF TokensAccounted, Unmetered
<1>5. (aa - uu = (a - u) + n) /\ a - u \in Int
  <2> HIDE DEF a, aa, u, uu, i, ii
  <2> QED
    BY <1>1, <1>2, <1>3
<1> HIDE DEF a, aa, u, uu, i, ii
<1>6. TotalTokens * (aa - uu) = TotalTokens * (a - u) + TotalTokens * n
  BY <1>5, TokensTimes, Zenon
<1>7. counters'["tokens"] = TotalTokens * (aa - uu)
  BY <1>4, <1>6, Zenon
<1>8. counters'["tokens"] = TotalTokens * (Cardinality(V1Answers') - Cardinality(Serving(Unmetered)'))
  BY <1>7 DEF aa, uu
<1> QED
  BY <1>8 DEF TokensAccounted, Unmetered

LEMMA MoveLeavesOthers ==
    ASSUME ThreadInv, NEW t \in Threads, HandlerMoves(t)
    PROVE  Others(t)
BY DEF ThreadInv, HandlerMoves, Moves, Returns, GoTo, Others

\* Where a thread is after a move.
LEMMA AfterMove ==
    ASSUME ThreadInv, NEW t \in Threads, NEW s, Moves(t, s), NEW S
    PROVE  InStages(t, S)' = IF V1(t) /\ s \in S THEN 1 ELSE 0
BY DEF ThreadInv, Moves, GoTo, InStages, V1

LEMMA AfterReturn ==
    ASSUME ThreadInv, NEW t \in Threads, Returns(t), NEW S
    PROVE  InStages(t, S)' = 0
<1>1. request'[t] = NoRequest
  BY DEF ThreadInv, Returns
<1>2. ~V1(t)'
  BY <1>1 DEF V1, NoRequest
<1> QED
  BY <1>2 DEF InStages

\* One counter added to.
LEMMA AddOne ==
    ASSUME CountersInv, NEW c \in Metrics!CounterNames, NEW n \in Nat, Metrics!Add(c, n),
           refused' \in Nat
    PROVE  /\ CountersInv'
           /\ \A d \in Metrics!CounterNames :
                 counters'[d] = IF d = c THEN counters[d] + n ELSE counters[d]
BY DEF CountersInv, Metrics!Add

LEMMA CounterTypes ==
    ASSUME CountersInv
    PROVE  /\ counters["requests"] \in Nat /\ counters["hits"] \in Nat
           /\ counters["misses"] \in Nat /\ counters["errors"] \in Nat
           /\ counters["tokens"] \in Nat /\ refused \in Nat
BY DEF CountersInv, Metrics!CounterNames

LEMMA NoTokens == TotalTokens * 0 = 0
<1>1. TotalTokens \in Int
  BY TotalTokensType
<1>2. \A x \in Int : x * 0 = 0
  BY SMT
<1> QED
  BY <1>1, <1>2

BalanceInv == CountersInv /\ RequestsAccounted /\ TokensAccounted

\* Steps that add to no counter, refuse nothing and get no answer to a v1 request.
LEMMA QuietKeepsBalance ==
    ASSUME BalanceInv, IdInv, NEW t \in Threads, Others(t),
           UNCHANGED <<counters, refused>>, Cardinality(V1Answers') = Cardinality(V1Answers),
           InStages(t, Waiting)' = InStages(t, Waiting),
           InStages(t, Missed)' = InStages(t, Missed),
           InStages(t, Unmetered)' = InStages(t, Unmetered)
    PROVE  BalanceInv'
<1>1. CountersInv /\ RequestsAccounted /\ TokensAccounted
  BY DEF BalanceInv
<1>2. CountersInv'
  BY <1>1 DEF CountersInv
<1>3. InStages(t, Waiting) \in {0, 1} /\ InStages(t, Missed) \in {0, 1} /\ InStages(t, Unmetered) \in {0, 1}
  BY DEF InStages
<1>4. Cardinality(V1Answers') = Cardinality(V1Answers) + 0
  BY V1AnswersCount
<1>5. RequestsAccounted'
  BY <1>1, <1>2, <1>3, <1>4, CounterTypes, RequestsStillAccounted
<1>6. counters'["tokens"] = counters["tokens"] + TotalTokens * 0
  BY <1>1, CounterTypes, NoTokens
<1>7. TokensAccounted'
  BY <1>1, <1>2, <1>3, <1>4, <1>6, TokensStillAccounted
<1> QED
  BY <1>2, <1>5, <1>7 DEF BalanceInv

LEMMA SameAnswersCount ==
    ASSUME UNCHANGED answered
    PROVE  Cardinality(V1Answers') = Cardinality(V1Answers)
BY DEF V1Answers

\* One step of a handler that adds n to one of the counters, apart from tokens,
\* refuses or answers: what is left to show is the balance of small numbers.
LEMMA CountKeepsBalance ==
    ASSUME BalanceInv, IdInv, NEW t \in Threads, Others(t),
           NEW c \in Metrics!CounterNames \ {"tokens"}, Metrics!Add(c, 1), refused' = refused,
           UNCHANGED answered,
           InStages(t, Waiting)' - InStages(t, Waiting) =
               (IF c = "requests" THEN 1 ELSE 0) - (IF c \in {"hits", "misses"} THEN 1 ELSE 0),
           InStages(t, Missed)' - InStages(t, Missed) =
               (IF c = "misses" THEN 1 ELSE 0) - (IF c = "errors" THEN 1 ELSE 0),
           InStages(t, Unmetered)' = InStages(t, Unmetered)
    PROVE  BalanceInv'
<1>1. CountersInv /\ RequestsAccounted /\ TokensAccounted
  BY DEF BalanceInv
<1>2. refused' \in Nat
  BY <1>1 DEF CountersInv
<1>3. /\ CountersInv'
      /\ \A d \in Metrics!CounterNames :
            counters'[d] = IF d = c THEN counters[d] + 1 ELSE counters[d]
  BY <1>1, <1>2, AddOne
<1>4. /\ counters'["requests"] - counters["requests"] = IF c = "requests" THEN 1 ELSE 0
      /\ counters'["hits"] - counters["hits"] = IF c = "hits" THEN 1 ELSE 0
      /\ counters'["misses"] - counters["misses"] = IF c = "misses" THEN 1 ELSE 0
      /\ counters'["errors"] - counters["errors"] = IF c = "errors" THEN 1 ELSE 0
      /\ counters'["tokens"] = counters["tokens"] /\ refused' - refused = 0
  BY <1>1, <1>3, CounterTypes DEF Metrics!CounterNames
<1>5. /\ InStages(t, Waiting) \in {0, 1} /\ InStages(t, Waiting)' \in {0, 1}
      /\ InStages(t, Missed) \in {0, 1} /\ InStages(t, Missed)' \in {0, 1}
      /\ InStages(t, Unmetered) \in {0, 1}
  BY DEF InStages
<1>6. Cardinality(V1Answers') = Cardinality(V1Answers) + 0
  BY SameAnswersCount, V1AnswersCount
<1> DEFINE d(x) == counters'[x] - counters[x]
           w == InStages(t, Waiting)
           ww == InStages(t, Waiting)'
           m == InStages(t, Missed)
           mm == InStages(t, Missed)'
           r == refused' - refused
<1> HIDE DEF d, w, ww, m, mm, r
<1>7. d("requests") = r + d("hits") + d("misses") + ww - w /\ d("misses") = d("errors") + 0 + mm - m
  <2>1. /\ d("requests") = IF c = "requests" THEN 1 ELSE 0
        /\ d("hits") = IF c = "hits" THEN 1 ELSE 0
        /\ d("misses") = IF c = "misses" THEN 1 ELSE 0
        /\ d("errors") = IF c = "errors" THEN 1 ELSE 0
        /\ r = 0
    BY <1>4 DEF d, r
  <2>2. w \in {0, 1} /\ ww \in {0, 1} /\ m \in {0, 1} /\ mm \in {0, 1}
    BY <1>5 DEF w, ww, m, mm
  <2>3. ww - w = (IF c = "requests" THEN 1 ELSE 0) - (IF c \in {"hits", "misses"} THEN 1 ELSE 0)
    BY DEF w, ww
  <2>4. mm - m = (IF c = "misses" THEN 1 ELSE 0) - (IF c = "errors" THEN 1 ELSE 0)
    BY DEF m, mm
  <2>5. c \in {"requests", "hits", "misses", "errors"}
    BY DEF Metrics!CounterNames
  <2>6. CASE c = "requests"
    BY <2>1, <2>2, <2>3, <2>4, <2>6
  <2>7. CASE c = "hits"
    BY <2>1, <2>2, <2>3, <2>4, <2>7
  <2>8. CASE c = "misses"
    BY <2>1, <2>2, <2>3, <2>4, <2>8
  <2>9. CASE c = "errors"
    BY <2>1, <2>2, <2>3, <2>4, <2>9
  <2> QED
    BY <2>5, <2>6, <2>7, <2>8, <2>9
<1>8. /\ counters'["requests"] - counters["requests"] =
           (refused' - refused) + (counters'["hits"] - counters["hits"])
             + (counters'["misses"] - counters["misses"])
             + InStages(t, Waiting)' - InStages(t, Waiting)
      /\ counters'["misses"] - counters["misses"] =
           (counters'["errors"] - counters["errors"]) + 0
             + InStages(t, Missed)' - InStages(t, Missed)
  BY <1>7, Zenon DEF d, w, ww, m, mm, r
<1>9. RequestsAccounted'
  BY <1>1, <1>3, <1>6, <1>8, RequestsStillAccounted
<1>10. counters'["tokens"] = counters["tokens"] + TotalTokens * 0
  BY <1>1, <1>4, CounterTypes, NoTokens
<1>11. TokensAccounted'
  BY <1>1, <1>3, <1>5, <1>6, <1>10, TokensStillAccounted
<1> QED
  BY <1>3, <1>9, <1>11 DEF BalanceInv

\* A move that crosses no border between the groups of stages.
QuietMove(t) ==
    \/ Returns(t) /\ (~V1(t) \/ stage[t] = "store")
    \/ \E s : /\ Moves(t, s)
              /\ \/ ~V1(t)
                 \/ /\ stage[t] \in Waiting <=> s \in Waiting
                    /\ stage[t] \in Missed <=> s \in Missed
                    /\ stage[t] \in Unmetered <=> s \in Unmetered

LEMMA QuietMoveKeepsBalance ==
    ASSUME BalanceInv, IdInv, ThreadInv, NEW t \in Threads, HandlerMoves(t), QuietMove(t),
           UNCHANGED <<counters, refused>>, Cardinality(V1Answers') = Cardinality(V1Answers)
    PROVE  BalanceInv'
<1>1. /\ InStages(t, Waiting)' = InStages(t, Waiting)
      /\ InStages(t, Missed)' = InStages(t, Missed)
      /\ InStages(t, Unmetered)' = InStages(t, Unmetered)
  <2>1. CASE Returns(t) /\ (~V1(t) \/ stage[t] = "store")
    BY <2>1, AfterReturn DEF InStages, Waiting, Missed, Unmetered
  <2>2. ASSUME NEW s, Moves(t, s),
               \/ ~V1(t)
               \/ /\ stage[t] \in Waiting <=> s \in Waiting
                  /\ stage[t] \in Missed <=> s \in Missed
                  /\ stage[t] \in Unmetered <=> s \in Unmetered
        PROVE  <1>1!1 /\ <1>1!2 /\ <1>1!3
    <3>1. \A S : InStages(t, S)' = IF V1(t) /\ s \in S THEN 1 ELSE 0
      BY <2>2, AfterMove
    <3> QED
      BY <2>2, <3>1 DEF InStages
  <2> QED
    BY <2>1, <2>2 DEF QuietMove
<1> QED
  BY <1>1, MoveLeavesOthers, QuietKeepsBalance

\* The steps of a handler that count, refuse, or answer a v1 request; the others
\* leave the balance as it is.
Loud(t) ==
    \/ CheckLimit(t) \/ CountHit(t) \/ CountMiss(t) \/ CountError(t)
    \/ CallSucceedsV1(t) \/ Observe(t)

LEMMA QuietSteps ==
    ASSUME BalanceInv, IdInv, ThreadInv, NEW t \in Threads, HandlerStep(t), ~Loud(t)
    PROVE  BalanceInv'
<1>1. HandlerMoves(t)
  BY HandlerStepMoves
<1>2. QuietMove(t)
  <2> USE DEF QuietMove, At, Waiting, Missed, Unmetered
  <2>1. CASE LookupHit(t) \/ LookupMiss(t)
    BY <2>1, ReturnReturns DEF LookupHit, LookupMiss, AfterMiss, Moves
  <2>2. CASE RouteV1(t) \/ RouteLegacy(t)
    BY <2>2, ReturnReturns DEF RouteV1, RouteLegacy, Moves
  <2>3. CASE CallFailsV1(t) \/ CallSucceedsLegacy(t) \/ CallFailsLegacy(t)
    BY <2>3, ReturnReturns DEF CallFailsV1, AfterFailure, CallSucceedsLegacy, CallFailsLegacy, Moves
  <2>4. CASE Bill(t) \/ RecordTokens(t) \/ Store(t)
    BY <2>4, ReturnReturns DEF Bill, RecordTokens, Store, Moves
  <2> QED
    BY <2>1, <2>2, <2>3, <2>4 DEF HandlerStep, Loud
<1>3. UNCHANGED <<counters, refused>>
  BY DEF HandlerStep, Loud, LookupHit, LookupMiss, RouteV1, RouteLegacy, CallFailsV1,
         CallSucceedsLegacy, CallFailsLegacy, Bill, RecordTokens, Store, metricsVars, ghostVars
<1>4. Cardinality(V1Answers') = Cardinality(V1Answers)
  <2>1. CASE CallSucceedsLegacy(t)
    <3>1. ~V1(t) /\ stage[t] \in Unanswered /\ Answered(t)
      BY <2>1, CallAnswers DEF CallSucceedsLegacy, At, Unanswered, Stages, V1Stages, Answering
    <3> QED
      BY <3>1, OneMoreAnswer, V1AnswersCount
  <2>2. CASE ~CallSucceedsLegacy(t)
    BY <2>2, OnlyCallsAnswer, SameAnswersCount DEF Loud
  <2> QED
    BY <2>1, <2>2
<1> QED
  BY <1>1, <1>2, <1>3, <1>4, QuietMoveKeepsBalance

\* Each of the others, in turn.
LEMMA RejectKeepsBalance ==
    ASSUME BalanceInv, IdInv, NEW t \in Threads, Others(t), UNCHANGED <<counters, answered>>,
           refused' = refused + 1, InStages(t, Waiting) = 1, InStages(t, Waiting)' = 0,
           InStages(t, Missed)' = InStages(t, Missed),
           InStages(t, Unmetered)' = InStages(t, Unmetered)
    PROVE  BalanceInv'
<1>1. CountersInv /\ RequestsAccounted /\ TokensAccounted
  BY DEF BalanceInv
<1>2. CountersInv'
  BY <1>1 DEF CountersInv
<1>3. /\ InStages(t, Missed) \in {0, 1} /\ InStages(t, Unmetered) \in {0, 1}
      /\ refused' - refused = 1
  BY <1>1 DEF InStages, CountersInv
<1>4. Cardinality(V1Answers') = Cardinality(V1Answers) + 0
  BY SameAnswersCount, V1AnswersCount
<1>5. RequestsAccounted'
  BY <1>1, <1>2, <1>3, <1>4, CounterTypes, RequestsStillAccounted
<1>6. counters'["tokens"] = counters["tokens"] + TotalTokens * 0
  BY <1>1, CounterTypes, NoTokens
<1>7. TokensAccounted'
  BY <1>1, <1>2, <1>3, <1>4, <1>6, TokensStillAccounted
<1> QED
  BY <1>2, <1>5, <1>7 DEF BalanceInv

LEMMA CheckLimitKeepsBalance ==
    ASSUME BalanceInv, IdInv, ThreadInv, NEW t \in Threads, CheckLimit(t)
    PROVE  BalanceInv'
<1>1. HandlerMoves(t) /\ Others(t)
  BY HandlerStepMoves, MoveLeavesOthers DEF HandlerStep
<1>2. stage[t] = "limit" /\ V1(t) /\ UNCHANGED <<counters, answered>>
  BY DEF CheckLimit, At, ThreadInv, V1Stages, metricsVars
<1>3. CASE Moves(t, "lookup") /\ refused' = refused
  <2>1. QuietMove(t)
    BY <1>2, <1>3 DEF QuietMove, Waiting, Missed, Unmetered
  <2> QED
    BY <1>1, <1>2, <1>3, <2>1, SameAnswersCount, QuietMoveKeepsBalance
<1>4. CASE Returns(t) /\ refused' = refused + 1
  <2>1. InStages(t, Waiting) = 1 /\ InStages(t, Missed) = 0 /\ InStages(t, Unmetered) = 0
    BY <1>2 DEF InStages, Waiting, Missed, Unmetered
  <2> QED
    BY <1>1, <1>2, <1>4, <2>1, AfterReturn, RejectKeepsBalance
<1> QED
  BY <1>2, <1>3, <1>4 DEF CheckLimit, Moves, Returns, GoTo

LEMMA CountStepsKeepBalance ==
    ASSUME BalanceInv, IdInv, ThreadInv, NEW t \in Threads,
           CountHit(t) \/ CountMiss(t) \/ CountError(t)
    PROVE  BalanceInv'
<1>1. HandlerMoves(t) /\ Others(t)
  BY HandlerStepMoves, MoveLeavesOthers DEF HandlerStep
<1>2. UNCHANGED <<refused, answered>> /\ stage[t] \in V1Stages
  BY DEF CountHit, CountMiss, CountError, At, V1Stages, ghostVars
<1>3. V1(t)
  BY <1>2 DEF ThreadInv
<1> USE DEF Waiting, Missed, Unmetered
<1>4. CASE CountHit(t)
  <2>1. Metrics!Add("hits", 1) /\ Returns(t) /\ stage[t] = "hit"
    BY <1>4, ReturnReturns DEF CountHit, At
  <2>2. /\ InStages(t, Waiting)' = 0 /\ InStages(t, Missed)' = 0 /\ InStages(t, Unmetered)' = 0
        /\ InStages(t, Waiting) = 1 /\ InStages(t, Missed) = 0 /\ InStages(t, Unmetered) = 0
    BY <1>3, <2>1, AfterReturn DEF InStages
  <2>3. "hits" \in Metrics!CounterNames \ {"tokens"}
    BY DEF Metrics!CounterNames
  <2> QED
    BY <1>1, <1>2, <2>1, <2>2, <2>3, CountKeepsBalance
<1>5. CASE CountMiss(t)
  <2>1. Metrics!Add("misses", 1) /\ Moves(t, "route") /\ stage[t] = "miss"
    BY <1>5 DEF CountMiss, At, Moves
  <2>2. /\ InStages(t, Waiting)' = 0 /\ InStages(t, Missed)' = 1 /\ InStages(t, Unmetered)' = 0
        /\ InStages(t, Waiting) = 1 /\ InStages(t, Missed) = 0 /\ InStages(t, Unmetered) = 0
    <3>1. \A S : InStages(t, S)' = IF V1(t) /\ "route" \in S THEN 1 ELSE 0
      BY <2>1, AfterMove
    <3> QED
      BY <1>3, <2>1, <3>1 DEF InStages
  <2>3. "misses" \in Metrics!CounterNames \ {"tokens"}
    BY DEF Metrics!CounterNames
  <2> QED
    BY <1>1, <1>2, <2>1, <2>2, <2>3, CountKeepsBalance
<1>6. CASE CountError(t)
  <2>1. Metrics!Add("errors", 1) /\ Returns(t) /\ stage[t] = "error"
    BY <1>6, ReturnReturns DEF CountError, At
  <2>2. /\ InStages(t, Waiting)' = 0 /\ InStages(t, Missed)' = 0 /\ InStages(t, Unmetered)' = 0
        /\ InStages(t, Waiting) = 0 /\ InStages(t, Missed) = 1 /\ InStages(t, Unmetered) = 0
    BY <1>3, <2>1, AfterReturn DEF InStages
  <2>3. "errors" \in Metrics!CounterNames \ {"tokens"}
    BY DEF Metrics!CounterNames
  <2> QED
    BY <1>1, <1>2, <2>1, <2>2, <2>3, CountKeepsBalance
<1> QED
  BY <1>4, <1>5, <1>6

LEMMA CallSucceedsV1KeepsBalance ==
    ASSUME BalanceInv, IdInv, ThreadInv, NEW t \in Threads, CallSucceedsV1(t)
    PROVE  BalanceInv'
<1>1. HandlerMoves(t) /\ Others(t) /\ Answered(t)
  BY HandlerStepMoves, MoveLeavesOthers, CallAnswers DEF HandlerStep
<1>2. V1(t) /\ stage[t] = "call" /\ Moves(t, "bill") /\ UNCHANGED <<counters, refused>>
  BY DEF CallSucceedsV1, At, Moves, metricsVars
<1>3. CountersInv /\ RequestsAccounted /\ TokensAccounted
  BY DEF BalanceInv
<1>4. CountersInv'
  BY <1>2, <1>3 DEF CountersInv
<1>5. /\ InStages(t, Waiting)' = 0 /\ InStages(t, Missed)' = 0 /\ InStages(t, Unmetered)' = 1
      /\ InStages(t, Waiting) = 0 /\ InStages(t, Missed) = 1 /\ InStages(t, Unmetered) = 0
  <2>1. \A S : InStages(t, S)' = IF V1(t) /\ "bill" \in S THEN 1 ELSE 0
    BY <1>2, AfterMove
  <2> QED
    BY <1>2, <2>1 DEF InStages, Waiting, Missed, Unmetered
<1>6. Cardinality(V1Answers') = Cardinality(V1Answers) + 1
  BY <1>1, <1>2, OneMoreAnswer DEF Unanswered, Stages, V1Stages, Answering
<1>7. RequestsAccounted'
  BY <1>1, <1>2, <1>3, <1>4, <1>5, <1>6, CounterTypes, RequestsStillAccounted
<1>8. counters'["tokens"] = counters["tokens"] + TotalTokens * 0
  BY <1>2, <1>3, CounterTypes, NoTokens
<1>9. TokensAccounted'
  BY <1>1, <1>3, <1>4, <1>5, <1>6, <1>8, TokensStillAccounted
<1> QED
  BY <1>4, <1>7, <1>9 DEF BalanceInv

LEMMA OneAnswerOfTokens == TotalTokens * 1 = TotalTokens
<1>1. \A x \in Int : x * 1 = x
  BY SMT
<1> QED
  BY <1>1, TotalTokensType

LEMMA ObserveKeepsBalance ==
    ASSUME BalanceInv, IdInv, ThreadInv, NEW t \in Threads, Observe(t)
    PROVE  BalanceInv'
<1>1. HandlerMoves(t) /\ Others(t)
  BY HandlerStepMoves, MoveLeavesOthers DEF HandlerStep
<1>2. /\ stage[t] = "observe" /\ Moves(t, "store") /\ UNCHANGED <<refused, answered>>
      /\ Metrics!Add("tokens", TotalTokens)
  BY DEF Observe, At, Moves, ghostVars, MeteredTokens
<1>3. V1(t)
  BY <1>2 DEF ThreadInv, V1Stages
<1>4. CountersInv /\ RequestsAccounted /\ TokensAccounted
  BY DEF BalanceInv
<1>5. /\ CountersInv'
      /\ \A d \in Metrics!CounterNames :
            counters'[d] = IF d = "tokens" THEN counters[d] + TotalTokens ELSE counters[d]
  <2>1. "tokens" \in Metrics!CounterNames
    BY DEF Metrics!CounterNames
  <2> QED
    BY <1>2, <1>4, <2>1, AddOne, TotalTokensType DEF CountersInv
<1>6. /\ InStages(t, Waiting)' = 0 /\ InStages(t, Missed)' = 0 /\ InStages(t, Unmetered)' = 0
      /\ InStages(t, Waiting) = 0 /\ InStages(t, Missed) = 0 /\ InStages(t, Unmetered) = 1
  <2>1. \A S : InStages(t, S)' = IF V1(t) /\ "store" \in S THEN 1 ELSE 0
    BY <1>2, AfterMove
  <2> QED
    BY <1>2, <1>3, <2>1 DEF InStages, Waiting, Missed, Unmetered
<1>7. Cardinality(V1Answers') = Cardinality(V1Answers) + 0
  BY <1>2, SameAnswersCount, V1AnswersCount
<1>8. /\ counters'["requests"] = counters["requests"] /\ counters'["hits"] = counters["hits"]
      /\ counters'["misses"] = counters["misses"] /\ counters'["errors"] = counters["errors"]
  BY <1>5 DEF Metrics!CounterNames
<1>9. RequestsAccounted'
  BY <1>1, <1>2, <1>4, <1>5, <1>6, <1>7, <1>8, CounterTypes, RequestsStillAccounted
<1>10. counters'["tokens"] = counters["tokens"] + TotalTokens * 1
  BY <1>5, OneAnswerOfTokens DEF Metrics!CounterNames
<1>11. TokensAccounted'
  BY <1>1, <1>4, <1>5, <1>6, <1>7, <1>10, TokensStillAccounted
<1> QED
  BY <1>5, <1>9, <1>11 DEF BalanceInv

LEMMA ReceiveKeepsBalance ==
    ASSUME BalanceInv, IdInv, ThreadInv, received \in Nat, NEW t \in Threads,
           NEW q \in Questions, NEW k \in ApiKeys \cup {NoKey}, Receive(t, q, k)
    PROVE  BalanceInv'
<1>1. PICK r \in RequestRecord, s \in {"lookup", "limit"} : r.kind = "v1" /\ Begins(t, r, s)
  BY ReceiveBegins
<1>2. Others(t) /\ stage[t] = "idle" /\ stage'[t] = s /\ request'[t] = r
  BY <1>1 DEF Begins, Others, ThreadInv
<1>3. UNCHANGED <<refused, answered>> /\ Metrics!Add("requests", 1)
  BY DEF Receive
<1>4. /\ InStages(t, Waiting)' = 1 /\ InStages(t, Missed)' = 0 /\ InStages(t, Unmetered)' = 0
      /\ InStages(t, Waiting) = 0 /\ InStages(t, Missed) = 0 /\ InStages(t, Unmetered) = 0
  BY <1>1, <1>2 DEF InStages, Waiting, Missed, Unmetered, V1
<1>5. "requests" \in Metrics!CounterNames \ {"tokens"}
  BY DEF Metrics!CounterNames
<1> QED
  BY <1>2, <1>3, <1>4, <1>5, CountKeepsBalance

LEMMA ReceiveLegacyKeepsBalance ==
    ASSUME BalanceInv, IdInv, ThreadInv, received \in Nat, NEW t \in Threads,
           NEW p \in Prompts, ReceiveLegacy(t, p)
    PROVE  BalanceInv'
<1>1. PICK r \in RequestRecord : r.kind = "legacy" /\ Begins(t, r, "lookup")
  BY ReceiveLegacyBegins
<1>2. Others(t) /\ stage[t] = "idle" /\ request'[t] = r
  BY <1>1 DEF Begins, Others, ThreadInv
<1>3. UNCHANGED <<counters, refused, answered>>
  BY DEF ReceiveLegacy, metricsVars
<1>4. /\ InStages(t, Waiting)' = 0 /\ InStages(t, Missed)' = 0 /\ InStages(t, Unmetered)' = 0
      /\ InStages(t, Waiting) = 0 /\ InStages(t, Missed) = 0 /\ InStages(t, Unmetered) = 0
  BY <1>1, <1>2 DEF InStages, Waiting, Missed, Unmetered, V1
<1> QED
  BY <1>2, <1>3, <1>4, SameAnswersCount, QuietKeepsBalance

\* A malformed body, and steps that concern no thread.
LEMMA MalformedKeepsBalance ==
    ASSUME BalanceInv, IdInv, ThreadInv, NEW t \in Threads, ReceiveMalformed(t)
    PROVE  BalanceInv'
<1>1. /\ UNCHANGED <<stage, request, answered>> /\ refused' = refused + 1
      /\ Metrics!Add("requests", 1)
  BY DEF ReceiveMalformed, threadVars
<1>2. CountersInv /\ RequestsAccounted /\ TokensAccounted
  BY DEF BalanceInv
<1>3. /\ CountersInv'
      /\ \A d \in Metrics!CounterNames :
            counters'[d] = IF d = "requests" THEN counters[d] + 1 ELSE counters[d]
  <2>1. "requests" \in Metrics!CounterNames
    BY DEF Metrics!CounterNames
  <2> QED
    BY <1>1, <1>2, <2>1, AddOne DEF CountersInv
<1>4. Others(t)
  BY <1>1 DEF Others
<1>5. /\ InStages(t, Waiting)' = InStages(t, Waiting) /\ InStages(t, Missed)' = InStages(t, Missed)
      /\ InStages(t, Unmetered)' = InStages(t, Unmetered)
  BY <1>1 DEF InStages, V1
<1>6. InStages(t, Waiting) \in {0, 1} /\ InStages(t, Missed) \in {0, 1} /\ InStages(t, Unmetered) \in {0, 1}
  BY DEF InStages
<1>7. Cardinality(V1Answers') = Cardinality(V1Answers) + 0
  BY <1>1, SameAnswersCount, V1AnswersCount
<1>8. /\ counters'["requests"] - counters["requests"] = 1 /\ counters'["hits"] = counters["hits"]
      /\ counters'["misses"] = counters["misses"] /\ counters'["errors"] = counters["errors"]
      /\ counters'["tokens"] = counters["tokens"] /\ refused' - refused = 1
  BY <1>1, <1>2, <1>3, CounterTypes DEF Metrics!CounterNames
<1>9. RequestsAccounted'
  BY <1>2, <1>3, <1>4, <1>5, <1>6, <1>7, <1>8, CounterTypes, RequestsStillAccounted
<1>10. counters'["tokens"] = counters["tokens"] + TotalTokens * 0
  BY <1>2, <1>8, CounterTypes, NoTokens
<1>11. TokensAccounted'
  BY <1>2, <1>3, <1>4, <1>5, <1>6, <1>7, <1>10, TokensStillAccounted
<1> QED
  BY <1>3, <1>9, <1>11 DEF BalanceInv

LEMMA BackgroundCountsNothing ==
    ASSUME Background
    PROVE  UNCHANGED counters
BY DEF Background, CacheForgets, AdminSetStrategy, Scrape, Tick, metricsVars, Metrics!ReadNext, vars

LEMMA BackgroundKeepsBalance ==
    ASSUME BalanceInv, Background
    PROVE  BalanceInv'
<1>1. UNCHANGED <<stage, request, refused, answered, counters>>
  BY BackgroundLeavesThreads, BackgroundCountsNothing
<1> QED
  BY <1>1 DEF BalanceInv, CountersInv, RequestsAccounted, TokensAccounted, V1Answers, Serving, V1

LEMMA BalanceInvariant == Spec => []BalanceInv
<1>1. Init => BalanceInv
  <2> SUFFICES ASSUME Init PROVE BalanceInv
    OBVIOUS
  <2>1. counters = [c \in Metrics!CounterNames |-> 0] /\ refused = 0 /\ answered = {}
    BY DEF Init, Metrics!Init
  <2>2. \A S : Serving(S) = {}
    BY DEF Init, Serving, V1, NoRequest
  <2>3. V1Answers = {}
    BY <2>1 DEF V1Answers
  <2>4. CountersInv
    BY <2>1 DEF CountersInv
  <2>5. RequestsAccounted
    BY <2>1, <2>2, <2>3, FS_EmptySet DEF RequestsAccounted, Metrics!CounterNames
  <2>6. TokensAccounted
    BY <2>1, <2>2, <2>3, FS_EmptySet, NoTokens DEF TokensAccounted, Metrics!CounterNames
  <2> QED
    BY <2>4, <2>5, <2>6 DEF BalanceInv
<1>2. ServingInv /\ IdInv /\ BalanceInv /\ [Next]_vars => BalanceInv'
  <2> SUFFICES ASSUME ServingInv, IdInv, BalanceInv, [Next]_vars PROVE BalanceInv'
    OBVIOUS
  <2>1. ThreadInv /\ received \in Nat
    BY DEF ServingInv
  <2>2. ASSUME NEW t \in Threads, HandlerStep(t) PROVE BalanceInv'
    BY <2>1, <2>2, QuietSteps, CheckLimitKeepsBalance, CountStepsKeepBalance,
       CallSucceedsV1KeepsBalance, ObserveKeepsBalance DEF Loud
  <2>3. CASE Background
    BY <2>3, BackgroundKeepsBalance
  <2> QED
    BY <2>1, <2>2, <2>3, ReceiveKeepsBalance, ReceiveLegacyKeepsBalance, MalformedKeepsBalance
       DEF Next, Background
<1> QED
  BY <1>1, <1>2, ServingInvariant, IdInvariant, PTL DEF Spec

\* The counters of the metrics balance at every moment, whatever the threads do: each
\* request counted is refused, a hit or a miss, and each miss an error or an answer.
THEOREM RequestsAreAccounted == Spec => []RequestsAccounted
<1>1. BalanceInv => RequestsAccounted
  BY DEF BalanceInv
<1> QED
  BY <1>1, BalanceInvariant, PTL

\* The token counter is the tokens of the answers whose requests have got past
\* observe_tokens.
THEOREM TokensAreAccounted == Spec => []TokensAccounted
<1>1. BalanceInv => TokensAccounted
  BY DEF BalanceInv
<1> QED
  BY <1>1, BalanceInvariant, PTL

\* The metrics change by additions to one counter and by a scrape that goes on.
LEMMA MetricsSteps ==
    ASSUME [Next]_vars
    PROVE  \/ UNCHANGED <<counters, snapshot>>
           \/ \E c \in Metrics!CounterNames, n \in Nat : Metrics!Add(c, n)
           \/ Metrics!ReadNext
<1>1. ASSUME NEW t \in Threads, HandlerStep(t)
      PROVE  \/ UNCHANGED <<counters, snapshot>>
             \/ \E c \in Metrics!CounterNames, n \in Nat : Metrics!Add(c, n)
  <2>1. CASE CountHit(t) \/ CountMiss(t) \/ CountError(t)
    BY <2>1 DEF CountHit, CountMiss, CountError, Metrics!CounterNames
  <2>2. CASE Observe(t)
    BY <2>2, TotalTokensType DEF Observe, MeteredTokens, Metrics!CounterNames
  <2>3. CASE ~CountHit(t) /\ ~CountMiss(t) /\ ~CountError(t) /\ ~Observe(t)
    BY <1>1, <2>3 DEF HandlerStep, CheckLimit, LookupHit, LookupMiss, RouteV1, RouteLegacy,
       CallSucceedsV1, CallFailsV1, CallSucceedsLegacy, CallFailsLegacy, Bill, RecordTokens,
       Store, metricsVars
  <2> QED
    BY <2>1, <2>2, <2>3
<1>2. ASSUME NEW t \in Threads,
             \/ ReceiveMalformed(t)
             \/ \E q \in Questions, k \in ApiKeys \cup {NoKey} : Receive(t, q, k)
             \/ \E p \in Prompts : ReceiveLegacy(t, p)
      PROVE  \/ UNCHANGED <<counters, snapshot>>
             \/ \E c \in Metrics!CounterNames, n \in Nat : Metrics!Add(c, n)
  BY <1>2 DEF Receive, ReceiveMalformed, ReceiveLegacy, metricsVars, Metrics!CounterNames
<1>3. CASE CacheForgets \/ AdminSetStrategy \/ Tick \/ UNCHANGED vars
  BY <1>3 DEF CacheForgets, AdminSetStrategy, Tick, metricsVars, vars
<1>4. CASE Scrape
  BY <1>4 DEF Scrape
<1> QED
  BY <1>1, <1>2, <1>3, <1>4 DEF Next

\* The errors a snapshot has read never exceed the misses, counted now or read after them.
SnapshotInv ==
    /\ snapshot \in Seq(Nat) /\ Len(snapshot) <= 4
    /\ Len(snapshot) >= 2 => snapshot[2] <= counters["misses"]
    /\ Len(snapshot) >= 4 => snapshot[2] <= snapshot[4]

LEMMA ErrorsAreMisses ==
    ASSUME BalanceInv, IdInv
    PROVE  counters["errors"] <= counters["misses"]
<1> DEFINE answers == Cardinality(V1Answers)
           missed == Cardinality(Serving(Missed))
<1>1. /\ counters["errors"] \in Nat /\ counters["misses"] \in Nat
      /\ counters["misses"] = counters["errors"] + answers + missed
  BY CounterTypes DEF BalanceInv, RequestsAccounted, Missed
<1>2. missed \in Nat
  BY ServingCount
<1>3. answers \in Nat
  BY V1AnswersCount
<1> HIDE DEF answers, missed
<1> QED
  BY <1>1, <1>2, <1>3

LEMMA ReadKeepsSnapshot ==
    ASSUME BalanceInv, IdInv, SnapshotInv, Metrics!ReadNext
    PROVE  SnapshotInv'
<1> DEFINE n == Len(snapshot) + 1
           names == <<"requests", "errors", "hits", "misses", "tokens">>
           v == counters[names[n]]
<1>1. /\ n \in 1..5 /\ counters' = counters
      /\ snapshot' = IF Len(Append(snapshot, v)) = 5 THEN <<>> ELSE Append(snapshot, v)
  BY DEF SnapshotInv, Metrics!ReadNext, Metrics!ReadOrder
<1>10. CASE n = 5
  <2>1. v \in Nat
    BY <1>1, <1>10 DEF BalanceInv, CountersInv, Metrics!CounterNames
  <2> HIDE DEF v
  <2>2. snapshot' = <<>>
    BY <1>1, <1>10, <2>1 DEF SnapshotInv
  <2> QED
    BY <2>2 DEF SnapshotInv
<1> SUFFICES ASSUME n # 5 PROVE SnapshotInv'
  BY <1>10
<1>2. names[n] \in Metrics!CounterNames
  BY <1>1 DEF Metrics!CounterNames
<1>3. v \in Nat
  BY <1>2 DEF BalanceInv, CountersInv
<1>4. n = 2 => v = counters["errors"]
  OBVIOUS
<1>5. n = 4 => v = counters["misses"]
  OBVIOUS
<1>6. counters["errors"] <= counters["misses"]
  BY ErrorsAreMisses
<1> HIDE DEF v
<1>7. /\ snapshot' \in Seq(Nat) /\ Len(snapshot') = n /\ snapshot'[n] = v
      /\ \A i \in 1..(n - 1) : snapshot'[i] = snapshot[i]
  BY <1>1, <1>3 DEF SnapshotInv
<1>8. n >= 2 => snapshot'[2] <= counters'["misses"]
  <2>1. CASE n = 2
    BY <1>1, <1>4, <1>6, <1>7, <2>1
  <2>2. CASE n > 2
    <3>1. snapshot[2] <= counters["misses"] /\ snapshot'[2] = snapshot[2]
      BY <1>1, <1>7, <2>2 DEF SnapshotInv
    <3> QED
      BY <1>1, <3>1
  <2> QED
    BY <1>1, <2>1, <2>2
<1>9. n = 4 => snapshot'[2] <= snapshot'[4]
  <2> SUFFICES ASSUME n = 4 PROVE snapshot'[2] <= snapshot'[4]
    OBVIOUS
  <2>1. snapshot[2] <= counters["misses"] /\ snapshot'[2] = snapshot[2]
    BY <1>1, <1>7 DEF SnapshotInv
  <2>2. snapshot'[4] = counters["misses"]
    BY <1>5, <1>7
  <2> QED
    BY <2>1, <2>2
<1> QED
  BY <1>1, <1>7, <1>8, <1>9 DEF SnapshotInv

LEMMA SnapshotInvariant == Spec => []SnapshotInv
<1>1. Init => SnapshotInv
  BY DEF Init, Metrics!Init, SnapshotInv
<1>2. BalanceInv /\ IdInv /\ SnapshotInv /\ [Next]_vars => SnapshotInv'
  <2> SUFFICES ASSUME BalanceInv, IdInv, SnapshotInv, [Next]_vars PROVE SnapshotInv'
    OBVIOUS
  <2>1. CASE UNCHANGED <<counters, snapshot>>
    BY <2>1 DEF SnapshotInv
  <2>2. ASSUME NEW c \in Metrics!CounterNames, NEW n \in Nat, Metrics!Add(c, n)
        PROVE  SnapshotInv'
    <3>1. counters'["misses"] >= counters["misses"] /\ snapshot' = snapshot
      BY <2>2, CounterTypes DEF BalanceInv, CountersInv, Metrics!Add, Metrics!CounterNames
    <3>2. counters["misses"] \in Nat /\ counters'["misses"] \in Nat
      BY <2>2, CounterTypes DEF BalanceInv, CountersInv, Metrics!Add, Metrics!CounterNames
    <3>3. Len(snapshot) >= 2 => snapshot[2] \in Nat
      BY DEF SnapshotInv
    <3>4. Len(snapshot) >= 2 => snapshot[2] <= counters'["misses"]
      BY <3>1, <3>2, <3>3 DEF SnapshotInv
    <3> QED
      BY <3>1, <3>4 DEF SnapshotInv
  <2>3. CASE Metrics!ReadNext
    BY <2>3, ReadKeepsSnapshot
  <2> QED
    BY <2>1, <2>2, <2>3, MetricsSteps
<1> QED
  BY <1>1, <1>2, BalanceInvariant, IdInvariant, PTL DEF Spec

LEMMA SnapshotReads ==
    ASSUME SnapshotInv, NEW k \in 1..5, Metrics!Snapped(Metrics!ReadOrder[k])
    PROVE  Len(snapshot) >= k /\ Metrics!Read(Metrics!ReadOrder[k]) = snapshot[k]
<1>1. \A i \in 1..5 : Metrics!ReadOrder[i] = Metrics!ReadOrder[k] => i = k
  BY DEF Metrics!ReadOrder
<1>2. DOMAIN snapshot = 1..Len(snapshot) /\ Len(snapshot) \in Nat
  <2>1. snapshot \in Seq(Nat) /\ Len(snapshot) <= 5
    BY DEF SnapshotInv
  <2> QED
    BY <2>1
<1>3. \A i \in DOMAIN snapshot : Metrics!ReadOrder[i] = Metrics!ReadOrder[k] <=> i = k
  <2>1. \A i \in DOMAIN snapshot : i \in 1..5
    BY <1>2 DEF SnapshotInv
  <2> QED
    BY <1>1, <2>1
<1>4. k \in DOMAIN snapshot
  BY <1>3 DEF Metrics!Snapped
<1>5. (CHOOSE i \in DOMAIN snapshot : Metrics!ReadOrder[i] = Metrics!ReadOrder[k]) = k
  BY <1>3, <1>4, Zenon
<1>6. Metrics!Read(Metrics!ReadOrder[k]) = snapshot[k]
  BY <1>5, Zenon DEF Metrics!Read
<1> QED
  BY <1>2, <1>4, <1>6

\* A snapshot that reads one counter after the other, while requests go on, never
\* shows more errors than misses.
THEOREM ErrorsNeverExceedMisses == Spec => []SnapshotErrorsAreMisses
<1>1. SnapshotInv => SnapshotErrorsAreMisses
  <2> SUFFICES ASSUME SnapshotInv, Metrics!Snapped("errors"), Metrics!Snapped("misses")
               PROVE  Metrics!Read("errors") <= Metrics!Read("misses")
    BY DEF SnapshotErrorsAreMisses
  <2>1. Metrics!ReadOrder[2] = "errors" /\ Metrics!ReadOrder[4] = "misses"
    BY DEF Metrics!ReadOrder
  <2>2. Metrics!Read("errors") = snapshot[2]
    BY <2>1, SnapshotReads
  <2>3. Metrics!Read("misses") = snapshot[4] /\ Len(snapshot) >= 4
    BY <2>1, SnapshotReads
  <2> QED
    BY <2>2, <2>3 DEF SnapshotInv
<1> QED
  BY <1>1, SnapshotInvariant, PTL

----------------------------------------------------------------------------
\* What a key tells apart.

\* A set of naturals has a least element.
LEMMA LeastIn ==
    ASSUME NEW D, D \subseteq Nat, D # {}
    PROVE  \E n \in D : \A m \in D : n <= m
<1>1. IsWellFoundedOn(OpToRel(<, Nat), Nat)
  BY NatLessThanWellFounded
<1>2. \E n \in D : \A m \in D : ~ (<<m, n>> \in OpToRel(<, Nat))
  BY <1>1, WFMin
<1>3. ASSUME NEW n \in D, NEW m \in D, ~ (<<m, n>> \in OpToRel(<, Nat)) PROVE n <= m
  BY <1>3 DEF OpToRel
<1> QED
  BY <1>2, <1>3

\* The recursive function behind JoinedUpTo, on the first n messages.
Joins(key, messages, n) ==
    key = [i \in 0..n |-> IF i = 0 THEN <<>> ELSE key[i - 1] \o Printed(messages[i])]

\* One more message is joined to the text so far.
LEMMA JoinsNext ==
    ASSUME NEW messages, NEW n \in Nat, n # 0, NEW key, Joins(key, messages, n - 1)
    PROVE  \E k : Joins(k, messages, n)
<1> DEFINE k == [i \in 0..n |-> IF i < n THEN key[i] ELSE key[n - 1] \o Printed(messages[n])]
<1>1. ASSUME NEW i \in 0..n
      PROVE  k[i] = IF i = 0 THEN <<>> ELSE k[i - 1] \o Printed(messages[i])
  <2>1. ASSUME NEW j \in 0..(n - 1)
        PROVE  key[j] = IF j = 0 THEN <<>> ELSE key[j - 1] \o Printed(messages[j])
    BY DEF Joins
  <2>2. CASE i = 0
    <3>1. k[i] = key[0] /\ 0 \in 0..(n - 1)
      BY <2>2
    <3> QED
      BY <3>1, <2>1, <2>2
  <2>3. CASE i # 0 /\ i < n
    <3>1. k[i] = key[i] /\ k[i - 1] = key[i - 1] /\ i \in 0..(n - 1)
      BY <2>3
    <3> QED
      BY <3>1, <2>1, <2>3
  <2>4. CASE i = n
    <3>1. k[i] = key[n - 1] \o Printed(messages[n]) /\ k[i - 1] = key[n - 1]
      BY <2>4
    <3> QED
      BY <3>1, <2>4
  <2> QED
    BY <2>2, <2>3, <2>4
<1>2. k = [i \in 0..n |-> k[i]]
  OBVIOUS
<1> HIDE DEF k
<1>3. k = [i \in 0..n |-> IF i = 0 THEN <<>> ELSE k[i - 1] \o Printed(messages[i])]
  BY <1>1, <1>2
<1> QED
  BY <1>3 DEF Joins

\* The recursive function exists, for any number of messages.
LEMMA JoinsExists ==
    ASSUME NEW messages, NEW n \in Nat
    PROVE  \E key : Joins(key, messages, n)
<1> DEFINE D == {i \in Nat : ~ \E key : Joins(key, messages, i)}
<1>1. ASSUME D # {} PROVE FALSE
  <2>1. PICK i \in D : \A j \in D : i <= j
    <3>1. D \subseteq Nat
      OBVIOUS
    <3> HIDE DEF D
    <3> QED
      BY <1>1, <3>1, LeastIn
  <2>2. i # 0
    <3> DEFINE key == [j \in 0..0 |-> <<>>]
    <3>1. Joins(key, messages, 0)
      BY DEF Joins
    <3> QED
      BY <3>1
  <2>3. i - 1 \in Nat /\ i - 1 \notin D
    BY <2>1, <2>2
  <2>4. \E key : Joins(key, messages, i - 1)
    BY <2>3
  <2> QED
    BY <2>1, <2>2, <2>4, JoinsNext
<1> QED
  BY <1>1

\* What the loop has joined before it, and after each message.
LEMMA JoinedSteps ==
    ASSUME NEW messages, Len(messages) \in Nat
    PROVE  /\ JoinedUpTo(messages)[0] = <<>>
           /\ \A n \in 1..Len(messages) :
                 JoinedUpTo(messages)[n] = JoinedUpTo(messages)[n - 1] \o Printed(messages[n])
<1> DEFINE key == CHOOSE k : Joins(k, messages, Len(messages))
<1>1. JoinedUpTo(messages) = key
  BY DEF JoinedUpTo, Joins
<1>2. Joins(key, messages, Len(messages))
  BY JoinsExists
<1> HIDE DEF key
<1>3. ASSUME NEW n \in 0..Len(messages)
      PROVE  key[n] = IF n = 0 THEN <<>> ELSE key[n - 1] \o Printed(messages[n])
  BY <1>2 DEF Joins
<1>4. key[0] = <<>>
  BY <1>3
<1>5. ASSUME NEW n \in 1..Len(messages)
      PROVE  key[n] = key[n - 1] \o Printed(messages[n])
  <2>1. n \in 0..Len(messages) /\ n # 0
    OBVIOUS
  <2> QED
    BY <1>3, <2>1
<1> QED
  BY <1>1, <1>4, <1>5

PlainMessage(m) ==
    /\ m \in Message
    /\ ~Holds(m.role, ":") /\ ~Holds(m.role, "|") /\ ~Holds(m.content, "|")

\* text is a and then b, piece by piece.
Chained(S, a, b, text) ==
    /\ a \in Seq(S) /\ b \in Seq(S) /\ text \in Seq(S)
    /\ Len(a) \in Nat /\ Len(b) \in Nat /\ Len(text) = Len(a) + Len(b)
    /\ \A i \in 1..Len(a) : text[i] = a[i]
    /\ \A i \in 1..Len(b) : text[Len(a) + i] = b[i]

LEMMA Appended ==
    ASSUME NEW S, NEW a \in Seq(S), NEW b \in Seq(S)
    PROVE  Chained(S, a, b, a \o b)
BY DEF Chained

\* Two sequences, with x between and y behind them, piece by piece.
LEMMA Spelled ==
    ASSUME NEW S, NEW a \in Seq(S), NEW b \in Seq(S), NEW x \in S, NEW y \in S
    PROVE  LET text == a \o <<x>> \o b \o <<y>>
           IN  /\ text \in Seq(S) /\ Len(a) \in Nat /\ Len(b) \in Nat
               /\ Len(text) = Len(a) + Len(b) + 2
               /\ \A i \in 1..Len(a) : text[i] = a[i]
               /\ text[Len(a) + 1] = x
               /\ \A i \in 1..Len(b) : text[Len(a) + 1 + i] = b[i]
               /\ text[Len(text)] = y
<1> DEFINE xs == <<x>>
           ys == <<y>>
           head == a \o xs
           body == head \o b
           text == body \o ys
<1>1. /\ xs \in Seq(S) /\ Len(xs) = 1 /\ xs[1] = x
      /\ ys \in Seq(S) /\ Len(ys) = 1 /\ ys[1] = y
  OBVIOUS
<1> HIDE DEF xs, ys
<1>2. Chained(S, a, xs, head)
  BY <1>1, Appended
<1>3. Chained(S, head, b, body)
  <2>1. head \in Seq(S)
    BY <1>2 DEF Chained
  <2> HIDE DEF head
  <2> QED
    BY <2>1, Appended
<1>4. Chained(S, body, ys, text)
  <2>1. body \in Seq(S)
    BY <1>3 DEF Chained
  <2> HIDE DEF body
  <2> QED
    BY <1>1, <2>1, Appended
<1> HIDE DEF head, body, text
<1>5. /\ text \in Seq(S) /\ Len(a) \in Nat /\ Len(b) \in Nat
      /\ Len(text) = Len(a) + Len(b) + 2
      /\ \A i \in 1..Len(a) : text[i] = a[i]
      /\ text[Len(a) + 1] = x
      /\ \A i \in 1..Len(b) : text[Len(a) + 1 + i] = b[i]
      /\ text[Len(text)] = y
  <2>1. ASSUME NEW i \in 1..Len(a) PROVE text[i] = a[i]
    BY <1>1, <1>2, <1>3, <1>4 DEF Chained
  <2>2. text[Len(a) + 1] = x
    BY <1>1, <1>2, <1>3, <1>4 DEF Chained
  <2>3. ASSUME NEW i \in 1..Len(b) PROVE text[Len(a) + 1 + i] = b[i]
    BY <1>1, <1>2, <1>3, <1>4 DEF Chained
  <2> QED
    BY <1>1, <1>2, <1>3, <1>4, <2>1, <2>2, <2>3 DEF Chained
<1> QED
  BY <1>5 DEF text, body, head, xs, ys

\* A printed message, piece by piece.
LEMMA PrintedPieces ==
    ASSUME NEW m \in Message
    PROVE  LET text == Printed(m)
               r == Len(m.role)
           IN  /\ text \in Seq(Pieces)
               /\ r \in Nat /\ Len(m.content) \in Nat
               /\ Len(text) = r + Len(m.content) + 2
               /\ \A i \in 1..r : text[i] = m.role[i]
               /\ text[r + 1] = ":"
               /\ \A i \in 1..Len(m.content) : text[r + 1 + i] = m.content[i]
               /\ text[Len(text)] = "|"
<1>1. m.role \in Seq(Pieces) /\ m.content \in Seq(Pieces)
  BY DEF Message
<1>2. ":" \in Pieces /\ "|" \in Pieces
  BY PiecesAssumption
<1>3. Printed(m) = m.role \o <<":">> \o m.content \o <<"|">>
  BY DEF Printed
<1> DEFINE r == m.role
           c == m.content
<1>4. r \in Seq(Pieces) /\ c \in Seq(Pieces)
  BY <1>1
<1> HIDE DEF r, c
<1>5. LET text == r \o <<":">> \o c \o <<"|">>
      IN  /\ text \in Seq(Pieces) /\ Len(r) \in Nat /\ Len(c) \in Nat
          /\ Len(text) = Len(r) + Len(c) + 2
          /\ \A i \in 1..Len(r) : text[i] = r[i]
          /\ text[Len(r) + 1] = ":"
          /\ \A i \in 1..Len(c) : text[Len(r) + 1 + i] = c[i]
          /\ text[Len(text)] = "|"
  BY <1>2, <1>4, Spelled
<1> QED
  BY <1>3, <1>5 DEF r, c

\* It holds a "|" at its end only.
LEMMA PrintedEnds ==
    ASSUME NEW m, PlainMessage(m)
    PROVE  /\ Printed(m) \in Seq(Pieces) /\ Len(Printed(m)) > 0
           /\ \A i \in 1..Len(Printed(m)) : Printed(m)[i] = "|" <=> i = Len(Printed(m))
<1>1. m \in Message /\ m.role \in Seq(Pieces) /\ m.content \in Seq(Pieces)
  BY DEF PlainMessage, Message
<1>2. /\ \A i \in 1..Len(m.role) : m.role[i] # "|"
      /\ \A i \in 1..Len(m.content) : m.content[i] # "|"
  BY <1>1 DEF PlainMessage, Holds
<1> DEFINE text == Printed(m)
           r == Len(m.role)
           c == Len(m.content)
<1>3. /\ text \in Seq(Pieces) /\ r \in Nat /\ c \in Nat /\ Len(text) = r + c + 2
      /\ \A i \in 1..r : text[i] = m.role[i]
      /\ text[r + 1] = ":"
      /\ \A i \in 1..c : text[r + 1 + i] = m.content[i]
      /\ text[Len(text)] = "|"
  BY <1>1, PrintedPieces
<1> HIDE DEF text, r, c
<1>4. ASSUME NEW i \in 1..Len(text), i # Len(text) PROVE text[i] # "|"
  <2>1. CASE i <= r
    BY <1>2, <1>3, <2>1 DEF r
  <2>2. CASE i = r + 1
    BY <1>3, <2>2
  <2>3. CASE i > r + 1
    <3>1. PICK j : j = i - r - 1
      OBVIOUS
    <3>2. j \in 1..c /\ i = r + 1 + j
      BY <1>3, <1>4, <2>3, <3>1
    <3> QED
      BY <1>2, <1>3, <3>2 DEF c
  <2> QED
    BY <1>3, <2>1, <2>2, <2>3
<1> QED
  BY <1>3, <1>4 DEF text

\* Sequences that agree piece by piece are one.
LEMMA PiecewiseEqual ==
    ASSUME NEW S, NEW a \in Seq(S), NEW b \in Seq(S), Len(a) = Len(b),
           \A i \in 1..Len(a) : a[i] = b[i]
    PROVE  a = b
OBVIOUS

\* It says which message was printed: its first ":" ends the role.
LEMMA PrintedOnce ==
    ASSUME NEW m, NEW n, PlainMessage(m), PlainMessage(n), Printed(m) = Printed(n)
    PROVE  m = n
<1>1. /\ m \in Message /\ m.role \in Seq(Pieces) /\ m.content \in Seq(Pieces)
      /\ n \in Message /\ n.role \in Seq(Pieces) /\ n.content \in Seq(Pieces)
  BY DEF PlainMessage, Message
<1>2. /\ \A i \in 1..Len(m.role) : m.role[i] # ":"
      /\ \A i \in 1..Len(n.role) : n.role[i] # ":"
  BY <1>1 DEF PlainMessage, Holds
<1> DEFINE text == Printed(m)
<1>3. /\ Len(m.role) \in Nat /\ Len(m.content) \in Nat
      /\ Len(text) = Len(m.role) + Len(m.content) + 2
      /\ \A i \in 1..Len(m.role) : text[i] = m.role[i]
      /\ text[Len(m.role) + 1] = ":"
      /\ \A i \in 1..Len(m.content) : text[Len(m.role) + 1 + i] = m.content[i]
  BY <1>1, PrintedPieces
<1>4. /\ Len(n.role) \in Nat /\ Len(n.content) \in Nat
      /\ Len(text) = Len(n.role) + Len(n.content) + 2
      /\ \A i \in 1..Len(n.role) : text[i] = n.role[i]
      /\ text[Len(n.role) + 1] = ":"
      /\ \A i \in 1..Len(n.content) : text[Len(n.role) + 1 + i] = n.content[i]
  BY <1>1, PrintedPieces
<1> HIDE DEF text
<1>5. PICK r, c, v, d : r = Len(m.role) /\ c = Len(m.content) /\ v = Len(n.role) /\ d = Len(n.content)
  OBVIOUS
<1>6. r \in Nat /\ c \in Nat /\ v \in Nat /\ d \in Nat /\ r + c + 2 = v + d + 2
  BY <1>3, <1>4, <1>5
<1>10. ~(r < v)
  <2> SUFFICES ASSUME r < v PROVE FALSE
    OBVIOUS
  <2>1. r + 1 \in 1..v
    BY <1>6
  <2> QED
    BY <1>2, <1>3, <1>4, <1>5, <2>1
<1>11. ~(v < r)
  <2> SUFFICES ASSUME v < r PROVE FALSE
    OBVIOUS
  <2>1. v + 1 \in 1..r
    BY <1>6
  <2> QED
    BY <1>2, <1>3, <1>4, <1>5, <2>1
<1>12. r = v /\ c = d
  BY <1>6, <1>10, <1>11
<1>7. Len(m.role) = Len(n.role) /\ Len(m.content) = Len(n.content)
  BY <1>5, <1>12
<1>8. m.role = n.role
  <2>1. \A i \in 1..Len(m.role) : m.role[i] = n.role[i]
    BY <1>3, <1>4, <1>7
  <2> QED
    BY <1>1, <1>7, <2>1, PiecewiseEqual
<1>9. m.content = n.content
  <2>1. \A i \in 1..Len(m.content) : m.content[i] = n.content[i]
    BY <1>3, <1>4, <1>7
  <2> QED
    BY <1>1, <1>7, <2>1, PiecewiseEqual
<1> QED
  BY <1>1, <1>8, <1>9 DEF Message

\* A text of whole messages.
Whole(text) == text \in Seq(Pieces) /\ (Len(text) > 0 => text[Len(text)] = "|")

\* A printed message is told from what was joined before it.
LEMMA NotLonger ==
    ASSUME NEW a, NEW b, Whole(a), Whole(b), NEW m, NEW n, PlainMessage(m), PlainMessage(n),
           a \o Printed(m) = b \o Printed(n)
    PROVE  Len(a) >= Len(b)
<1> SUFFICES ASSUME Len(a) < Len(b) PROVE FALSE
  BY DEF Whole
<1> DEFINE p == Printed(m)
           q == Printed(n)
<1>1. /\ p \in Seq(Pieces) /\ q \in Seq(Pieces) /\ Len(p) > 0 /\ Len(q) > 0
      /\ \A i \in 1..Len(p) : p[i] = "|" <=> i = Len(p)
  BY PrintedEnds
<1> HIDE DEF p, q
<1>2. a \in Seq(Pieces) /\ b \in Seq(Pieces) /\ b[Len(b)] = "|"
  BY DEF Whole
<1>3. a \o p = b \o q
  BY DEF p, q
<1>4. (b \o q)[Len(b)] = "|"
  BY <1>1, <1>2
<1>5. Len(a) + Len(p) = Len(b) + Len(q)
  BY <1>1, <1>2, <1>3
<1>6. PICK j : j = Len(b) - Len(a)
  OBVIOUS
<1>7. j \in 1..Len(p) /\ j # Len(p) /\ Len(b) = Len(a) + j
  BY <1>1, <1>2, <1>5, <1>6
<1>8. (a \o p)[Len(b)] = p[j]
  BY <1>1, <1>2, <1>7
<1> QED
  BY <1>1, <1>3, <1>4, <1>7, <1>8

\* Texts that end with a printed message end with the same one.
LEMMA LastMessage ==
    ASSUME NEW a, NEW b, Whole(a), Whole(b), NEW m, NEW n, PlainMessage(m), PlainMessage(n),
           a \o Printed(m) = b \o Printed(n)
    PROVE  a = b /\ m = n
<1> DEFINE p == Printed(m)
           q == Printed(n)
<1>1. p \in Seq(Pieces) /\ q \in Seq(Pieces)
  BY PrintedEnds
<1>2. a \in Seq(Pieces) /\ b \in Seq(Pieces)
  BY DEF Whole
<1>3. Len(a) >= Len(b) /\ Len(b) >= Len(a)
  <2>1. Len(a) >= Len(b)
    BY NotLonger
  <2>2. Len(b) >= Len(a)
    BY NotLonger
  <2> QED
    BY <2>1, <2>2
<1>4. Len(a) = Len(b)
  BY <1>2, <1>3
<1> HIDE DEF p, q
<1>5. a \o p = b \o q
  BY DEF p, q
<1>6. Len(p) = Len(q)
  BY <1>1, <1>2, <1>4, <1>5
<1>7. a = b
  <2>1. ASSUME NEW i \in 1..Len(a) PROVE a[i] = b[i]
    <3>1. (a \o p)[i] = a[i] /\ (b \o q)[i] = b[i]
      BY <1>1, <1>2, <1>4
    <3> QED
      BY <1>5, <3>1
  <2> QED
    BY <1>2, <1>4, <2>1
<1>8. p = q
  <2>1. ASSUME NEW i \in 1..Len(p) PROVE p[i] = q[i]
    <3>1. (a \o p)[Len(a) + i] = p[i] /\ (b \o q)[Len(b) + i] = q[i]
      BY <1>1, <1>2, <1>6
    <3> QED
      BY <1>4, <1>5, <3>1
  <2> QED
    BY <1>1, <1>6, <2>1
<1> QED
  BY <1>7, <1>8, PrintedOnce DEF p, q

\* Messages without the separators.
PlainMessages(messages) ==
    /\ messages \in Seq(Message)
    /\ \A i \in 1..Len(messages) : PlainMessage(messages[i])

\* What the loop has joined is empty before the first message only.
LEMMA JoinedWhole ==
    ASSUME NEW messages, PlainMessages(messages)
    PROVE  \A n \in 0..Len(messages) :
              /\ Whole(JoinedUpTo(messages)[n])
              /\ JoinedUpTo(messages)[n] = <<>> <=> n = 0
<1> DEFINE key == JoinedUpTo(messages)
           Good(n) == Whole(key[n]) /\ (key[n] = <<>> <=> n = 0)
           D == {n \in 0..Len(messages) : ~Good(n)}
<1>1. Len(messages) \in Nat
  BY DEF PlainMessages
<1>2. /\ key[0] = <<>>
      /\ \A n \in 1..Len(messages) : key[n] = key[n - 1] \o Printed(messages[n])
  BY <1>1, JoinedSteps
<1> HIDE DEF key
<1>3. ASSUME D # {} PROVE FALSE
  <2>1. PICK n \in D : \A j \in D : n <= j
    <3>1. D \subseteq Nat
      BY <1>1
    <3> HIDE DEF D
    <3> QED
      BY <1>3, <3>1, LeastIn
  <2>2. n \in 0..Len(messages) /\ ~Good(n)
    OBVIOUS
  <2>3. n # 0
    <3>1. Good(0)
      BY <1>2 DEF Whole
    <3> QED
      BY <2>2, <3>1
  <2>4. n \in 1..Len(messages) /\ n - 1 \in 0..Len(messages) /\ n - 1 \notin D
    BY <1>1, <2>1, <2>2, <2>3
  <2>5. Whole(key[n - 1])
    BY <2>4
  <2>6. PlainMessage(messages[n])
    BY <2>4 DEF PlainMessages
  <2> DEFINE a == key[n - 1]
             p == Printed(messages[n])
  <2>7. key[n] = a \o p
    BY <1>2, <2>4
  <2>8. /\ p \in Seq(Pieces) /\ Len(p) > 0
        /\ \A i \in 1..Len(p) : p[i] = "|" <=> i = Len(p)
    BY <2>6, PrintedEnds
  <2>9. a \in Seq(Pieces)
    BY <2>5 DEF Whole
  <2> HIDE DEF a, p
  <2>10. Chained(Pieces, a, p, key[n])
    BY <2>7, <2>8, <2>9, Appended
  <2>11. /\ key[n] \in Seq(Pieces) /\ Len(key[n]) > 0
         /\ key[n][Len(key[n])] = "|"
    BY <2>8, <2>10 DEF Chained
  <2>12. Good(n)
    BY <2>3, <2>11 DEF Whole
  <2> QED
    BY <2>2, <2>12
<1>4. ASSUME NEW n \in 0..Len(messages) PROVE Good(n)
  BY <1>3
<1> QED
  BY <1>4 DEF key

\* Plain messages can be told from what make_key joins.
Alike(a, b, n, m) == n = m /\ \A i \in 1..n : a[i] = b[i]

LEMMA JoinedApart ==
    ASSUME NEW a, NEW b, PlainMessages(a), PlainMessages(b),
           Joined(a) = Joined(b)
    PROVE  a = b
<1> DEFINE ka == JoinedUpTo(a)
           kb == JoinedUpTo(b)
           D == {n \in 0..Len(a) : \E m \in 0..Len(b) : ka[n] = kb[m] /\ ~Alike(a, b, n, m)}
<1>1. Len(a) \in Nat /\ Len(b) \in Nat /\ a \in Seq(Message) /\ b \in Seq(Message)
  BY DEF PlainMessages
<1>2. /\ \A n \in 1..Len(a) : ka[n] = ka[n - 1] \o Printed(a[n])
      /\ \A n \in 1..Len(b) : kb[n] = kb[n - 1] \o Printed(b[n])
  BY <1>1, JoinedSteps
<1>3. /\ \A n \in 0..Len(a) : Whole(ka[n]) /\ (ka[n] = <<>> <=> n = 0)
      /\ \A n \in 0..Len(b) : Whole(kb[n]) /\ (kb[n] = <<>> <=> n = 0)
  BY JoinedWhole
<1>4. ka[Len(a)] = kb[Len(b)]
  BY DEF Joined
<1> HIDE DEF ka, kb
<1>5. ASSUME D # {} PROVE FALSE
  <2>1. PICK n \in D : \A j \in D : n <= j
    <3>1. D \subseteq Nat
      BY <1>1
    <3> HIDE DEF D
    <3> QED
      BY <1>5, <3>1, LeastIn
  <2>2. PICK m \in 0..Len(b) : ka[n] = kb[m] /\ ~Alike(a, b, n, m)
    OBVIOUS
  <2>3. n \in 0..Len(a)
    OBVIOUS
  <2>4. n # 0 /\ m # 0
    <3>1. n = 0 <=> m = 0
      BY <1>3, <2>2, <2>3
    <3>2. n = 0 /\ m = 0 => Alike(a, b, n, m)
      BY DEF Alike
    <3> QED
      BY <2>2, <3>1, <3>2
  <2>5. /\ n \in 1..Len(a) /\ n - 1 \in 0..Len(a)
        /\ m \in 1..Len(b) /\ m - 1 \in 0..Len(b)
    BY <1>1, <2>2, <2>3, <2>4
  <2>6. ka[n - 1] \o Printed(a[n]) = kb[m - 1] \o Printed(b[m])
    BY <1>2, <2>2, <2>5
  <2>7. Whole(ka[n - 1]) /\ Whole(kb[m - 1]) /\ PlainMessage(a[n]) /\ PlainMessage(b[m])
    BY <1>3, <2>5 DEF PlainMessages
  <2>8. ka[n - 1] = kb[m - 1] /\ a[n] = b[m]
    <3> DEFINE x == ka[n - 1]
               y == kb[m - 1]
    <3>1. PICK c : c = a[n]
      OBVIOUS
    <3>2. PICK d : d = b[m]
      OBVIOUS
    <3>3. /\ Whole(x) /\ Whole(y) /\ PlainMessage(c) /\ PlainMessage(d)
          /\ x \o Printed(c) = y \o Printed(d)
      BY <2>6, <2>7, <3>1, <3>2
    <3> HIDE DEF x, y
    <3>4. x = y /\ c = d
      BY <3>3, LastMessage, Zenon
    <3> QED
      BY <3>1, <3>2, <3>4 DEF x, y
  <2>9. n - 1 \notin D
    BY <1>1, <2>1, <2>3, <2>4
  <2>10. Alike(a, b, n - 1, m - 1)
    BY <2>5, <2>8, <2>9
  <2>11. Alike(a, b, n, m)
    BY <2>5, <2>8, <2>10 DEF Alike
  <2> QED
    BY <2>2, <2>11
<1>6. Alike(a, b, Len(a), Len(b))
  BY <1>1, <1>4, <1>5
<1> QED
  BY <1>1, <1>6 DEF Alike

Behind(model, text) == model \o <<"|">> \o text
Unbarred(text) == text \in Seq(Pieces) /\ ~Holds(text, "|")

\* A text behind a model name, piece by piece.
LEMMA BehindPieces ==
    ASSUME NEW a \in Seq(Pieces), NEW x \in Seq(Pieces)
    PROVE  LET text == Behind(a, x)
               n == Len(a)
           IN  /\ n \in Nat /\ Len(x) \in Nat /\ Len(text) = n + 1 + Len(x)
               /\ text[n + 1] = "|" /\ \A i \in 1..n : text[i] = a[i]
               /\ \A i \in 1..Len(x) : text[n + 1 + i] = x[i]
<1> DEFINE bar == <<"|">>
           left == a \o bar
           text == left \o x
<1>1. bar \in Seq(Pieces) /\ Len(bar) = 1 /\ bar[1] = "|"
  BY PiecesAssumption
<1> HIDE DEF bar
<1>2. Chained(Pieces, a, bar, left)
  BY <1>1, Appended
<1>3. Chained(Pieces, left, x, text)
  <2>1. left \in Seq(Pieces)
    BY <1>2 DEF Chained
  <2> HIDE DEF left
  <2> QED
    BY <2>1, Appended
<1> HIDE DEF left, text
<1>4. PICK n : n = Len(a)
  OBVIOUS
<1>5. /\ n \in Nat /\ Len(x) \in Nat /\ Len(text) = n + 1 + Len(x)
      /\ text[n + 1] = "|" /\ \A i \in 1..n : text[i] = a[i]
      /\ \A i \in 1..Len(x) : text[n + 1 + i] = x[i]
  BY <1>1, <1>2, <1>3, <1>4 DEF Chained
<1> QED
  BY <1>4, <1>5 DEF Behind, text, left, bar

\* A model name without a "|" can be told from what is joined behind it.
LEMMA ModelApart ==
    ASSUME NEW a, NEW b, Unbarred(a), Unbarred(b),
           NEW x \in Seq(Pieces), NEW y \in Seq(Pieces), Behind(a, x) = Behind(b, y)
    PROVE  a = b /\ x = y
<1> DEFINE text == Behind(a, x)
<1>2. /\ a \in Seq(Pieces) /\ \A i \in 1..Len(a) : a[i] # "|"
      /\ b \in Seq(Pieces) /\ \A i \in 1..Len(b) : b[i] # "|"
  BY DEF Unbarred, Holds
<1>3. /\ Len(a) \in Nat /\ Len(x) \in Nat /\ Len(text) = Len(a) + 1 + Len(x)
      /\ text[Len(a) + 1] = "|" /\ \A i \in 1..Len(a) : text[i] = a[i]
      /\ \A i \in 1..Len(x) : text[Len(a) + 1 + i] = x[i]
  BY <1>2, BehindPieces
<1>4. /\ Len(b) \in Nat /\ Len(y) \in Nat /\ Len(text) = Len(b) + 1 + Len(y)
      /\ text[Len(b) + 1] = "|" /\ \A i \in 1..Len(b) : text[i] = b[i]
      /\ \A i \in 1..Len(y) : text[Len(b) + 1 + i] = y[i]
  <2> DEFINE other == Behind(b, y)
  <2>1. /\ Len(b) \in Nat /\ Len(y) \in Nat /\ Len(other) = Len(b) + 1 + Len(y)
        /\ other[Len(b) + 1] = "|" /\ \A i \in 1..Len(b) : other[i] = b[i]
        /\ \A i \in 1..Len(y) : other[Len(b) + 1 + i] = y[i]
    BY <1>2, BehindPieces
  <2>2. text = other
    OBVIOUS
  <2> HIDE DEF text, other
  <2> QED
    BY <2>1, <2>2
<1> HIDE DEF text
<1>6. PICK n, m : n = Len(a) /\ m = Len(b)
  OBVIOUS
<1>7. /\ n \in Nat /\ m \in Nat /\ Len(x) \in Nat /\ Len(y) \in Nat
      /\ Len(text) = n + 1 + Len(x) /\ Len(text) = m + 1 + Len(y)
      /\ text[n + 1] = "|" /\ \A i \in 1..n : text[i] = a[i]
      /\ text[m + 1] = "|" /\ \A i \in 1..m : text[i] = b[i]
      /\ \A i \in 1..Len(x) : text[n + 1 + i] = x[i]
      /\ \A i \in 1..Len(y) : text[m + 1 + i] = y[i]
  BY <1>3, <1>4, <1>6
<1>8. ~(n < m) /\ ~(m < n)
  <2>1. ASSUME n < m PROVE FALSE
    <3>1. n + 1 \in 1..m
      BY <1>7, <2>1
    <3> QED
      BY <1>2, <1>6, <1>7, <3>1
  <2>2. ASSUME m < n PROVE FALSE
    <3>1. m + 1 \in 1..n
      BY <1>7, <2>2
    <3> QED
      BY <1>2, <1>6, <1>7, <3>1
  <2> QED
    BY <2>1, <2>2
<1>9. n = m /\ Len(x) = Len(y)
  BY <1>7, <1>8
<1>10. a = b
  <2>1. Len(a) = Len(b) /\ \A i \in 1..Len(a) : a[i] = b[i]
    BY <1>6, <1>7, <1>9
  <2> QED
    BY <1>2, <2>1, PiecewiseEqual
<1>11. x = y
  <2>1. \A i \in 1..Len(x) : x[i] = y[i]
    BY <1>7, <1>9
  <2> QED
    BY <1>9, <2>1, PiecewiseEqual
<1> QED
  BY <1>10, <1>11

\* Plain questions that make_key joins alike are the same question.
LEMMA PlainTextsDiffer ==
    ASSUME NEW q \in Question, NEW r \in Question, Plain(q), Plain(r), Text(q) = Text(r)
    PROVE  SameQuestion(q, r)
<1> DEFINE jq == Joined(q.messages)
           jr == Joined(r.messages)
<1>1. Behind(q.model, jq) = Behind(r.model, jr) /\ Params(q) = Params(r)
  BY DEF Text, Behind
<1>2. PlainMessages(q.messages) /\ PlainMessages(r.messages)
  BY DEF Question, Plain, PlainMessages, PlainMessage
<1>3. jq \in Seq(Pieces) /\ jr \in Seq(Pieces)
  <2>1. Len(q.messages) \in 0..Len(q.messages) /\ Len(r.messages) \in 0..Len(r.messages)
    BY <1>2 DEF PlainMessages
  <2> QED
    BY <1>2, <2>1, JoinedWhole DEF Joined, Whole
<1>4. Unbarred(q.model) /\ Unbarred(r.model)
  BY DEF Question, Plain, Unbarred
<1> HIDE DEF jq, jr
<1>5. q.model = r.model /\ jq = jr
  BY <1>1, <1>3, <1>4, ModelApart
<1>6. q.messages = r.messages
  BY <1>2, <1>5, JoinedApart DEF jq, jr
<1> QED
  BY <1>1, <1>5, <1>6 DEF SameQuestion, Asked

----------------------------------------------------------------------------
\* A stored response answers a question with the key it is stored under, and a response
\* in hand one with the key of its thread's; the other threads have none.
Answers(r, key) == r.question \in AllQuestions /\ MakeKey(r.question) = key

CacheHonest ==
    /\ stored = [k \in CacheKeys |-> stored[k]]
    /\ \A k \in CacheKeys : stored[k] # NoResponse => Answers(stored[k].response, k)

InHand ==
    /\ DOMAIN response = Threads
    /\ \A t \in Threads :
          IF stage[t] \in Responding THEN Answers(response[t], MakeKey(request[t].question))
          ELSE response[t] = NoResponse

LEMMA KeyOfARequest ==
    ASSUME NEW r \in RequestRecord
    PROVE  MakeKey(r.question) \in CacheKeys
BY DEF CacheKeys, RequestRecord

LEMMA StoreKeepsCache ==
    ASSUME ThreadInv, CacheHonest, InHand, NEW t \in Threads, Store(t)
    PROVE  CacheHonest'
<1> DEFINE key == MakeKey(request[t].question)
           e == [response |-> response[t], expires_at |-> now + Ttl]
<1>1. stage[t] = "store" /\ stored' = [stored EXCEPT ![key] = e]
  BY DEF Store, At, Cache!Put
<1>2. key \in CacheKeys
  BY <1>1, KeyOfARequest DEF ThreadInv
<1>3. Answers(e.response, key)
  BY <1>1 DEF InHand, Responding, Answering
<1> HIDE DEF key, e
<1> QED
  BY <1>1, <1>2, <1>3 DEF CacheHonest

LEMMA MissKeepsCache ==
    ASSUME CacheHonest, NEW t \in Threads, LookupMiss(t)
    PROVE  CacheHonest'
<1> DEFINE key == MakeKey(request[t].question)
<1>1. stored' = stored \/ stored' = [stored EXCEPT ![key] = NoResponse]
  BY DEF LookupMiss, Cache!MissOn
<1> HIDE DEF key
<1> QED
  BY <1>1 DEF CacheHonest

LEMMA ForgetKeepsCache ==
    ASSUME CacheHonest, CacheForgets
    PROVE  CacheHonest'
<1>1. PICK S : stored' = [k \in CacheKeys |-> IF k \in S THEN NoResponse ELSE stored[k]]
  BY DEF CacheForgets, Cache!Forget
<1> QED
  BY <1>1 DEF CacheHonest

LEMMA OnlyTheseStore ==
    ASSUME [Next]_vars, ~CacheForgets, \A t \in Threads : ~Store(t) /\ ~LookupMiss(t)
    PROVE  UNCHANGED stored
<1>1. ASSUME NEW t \in Threads, HandlerStep(t)
      PROVE  UNCHANGED stored
  BY <1>1 DEF HandlerStep, CheckLimit, LookupHit, Cache!Hit, Cache!storeVars, CountHit,
     CountMiss, RouteV1, RouteLegacy, CallSucceedsV1, CallFailsV1, CallSucceedsLegacy,
     CallFailsLegacy, CountError, Bill, RecordTokens, Observe, cacheVars
<1> QED
  BY <1>1 DEF Next, Receive, ReceiveMalformed, ReceiveLegacy, AdminSetStrategy, Scrape, Tick,
     Cache!Tick, cacheVars, vars

LEMMA CacheStaysHonest ==
    ASSUME ThreadInv, CacheHonest, InHand, [Next]_vars
    PROVE  CacheHonest'
<1>1. CASE UNCHANGED stored
  BY <1>1 DEF CacheHonest
<1> QED
  BY <1>1, OnlyTheseStore, StoreKeepsCache, MissKeepsCache, ForgetKeepsCache

\* How a step of thread t leaves the responses.
LEMMA NewResponse ==
    ASSUME ThreadInv, InHand, NEW t \in Threads, NEW s, Moves(t, s), NEW r,
           response' = [response EXCEPT ![t] = r], Answers(r, MakeKey(request[t].question)),
           s \in Responding
    PROVE  InHand'
<1>1. \A u \in Threads : stage'[u] = IF u = t THEN s ELSE stage[u]
  BY DEF ThreadInv, Moves, GoTo
<1>2. \A u \in Threads : response'[u] = IF u = t THEN r ELSE response[u]
  BY DEF InHand
<1> QED
  BY <1>1, <1>2 DEF InHand, Moves

LEMMA SameResponse ==
    ASSUME ThreadInv, InHand, NEW t \in Threads, NEW s, Moves(t, s), response' = response,
           s \in Responding <=> stage[t] \in Responding
    PROVE  InHand'
<1>1. \A u \in Threads : stage'[u] = IF u = t THEN s ELSE stage[u]
  BY DEF ThreadInv, Moves, GoTo
<1> QED
  BY <1>1 DEF InHand, Moves

LEMMA NoMoreResponse ==
    ASSUME ThreadInv, InHand, NEW t \in Threads, Returns(t),
           \/ response' = [response EXCEPT ![t] = NoResponse]
           \/ response' = response /\ stage[t] \notin Responding
    PROVE  InHand'
<1>1. \A u \in Threads : /\ stage'[u] = IF u = t THEN "idle" ELSE stage[u]
                         /\ request'[u] = IF u = t THEN NoRequest ELSE request[u]
  BY DEF ThreadInv, Returns
<1>2. \A u \in Threads : response'[u] = IF u = t THEN NoResponse ELSE response[u]
  BY DEF InHand
<1>3. DOMAIN response' = Threads
  BY DEF InHand
<1> QED
  BY <1>1, <1>2, <1>3 DEF InHand, Responding, Answering

LEMMA HandlerKeepsInHand ==
    ASSUME ThreadInv, CacheHonest, InHand, NEW t \in Threads, HandlerStep(t)
    PROVE  InHand'
<1> USE DEF At, Responding, Answering
<1>1. CASE \/ CountHit(t) \/ CountError(t) \/ Store(t) \/ CallFailsLegacy(t)
           \/ (RouteLegacy(t) /\ Return(t)) \/ (LookupHit(t) /\ ~V1(t))
  <2>1. Return(t)
    BY <1>1 DEF CountHit, CountError, Store, CallFailsLegacy, LookupHit
  <2> QED
    BY <2>1, ReturnReturns, NoMoreResponse DEF Return
<1>2. CASE CheckLimit(t)
  <2>1. stage[t] = "limit" /\ response' = response /\ (Moves(t, "lookup") \/ Returns(t))
    BY <1>2 DEF CheckLimit, Moves, Returns, GoTo
  <2> QED
    BY <2>1, SameResponse, NoMoreResponse
<1>3. CASE LookupHit(t) /\ V1(t)
  <2> DEFINE key == MakeKey(request[t].question)
  <2>1. /\ stage[t] = "lookup" /\ Moves(t, "hit") /\ stored[key] # NoResponse
        /\ response' = [response EXCEPT ![t] = stored[key].response]
    BY <1>3 DEF LookupHit, Moves, Cache!Hit, Cache!Fresh, Cache!Found
  <2>2. key \in CacheKeys
    BY <2>1, KeyOfARequest DEF ThreadInv
  <2>3. Answers(stored[key].response, key)
    BY <2>1, <2>2 DEF CacheHonest
  <2> HIDE DEF key
  <2> QED
    BY <2>1, <2>3, NewResponse DEF key
<1>4. CASE CallSucceedsV1(t) \/ CallSucceedsLegacy(t)
  <2>1. PICK model : Answer(t, model)
    BY <1>4 DEF CallSucceedsV1, CallSucceedsLegacy
  <2> DEFINE r == [question |-> request[t].question,
                   provider |-> Pool!Called(t), model |-> model]
  <2>2. response' = [response EXCEPT ![t] = r]
    BY <2>1 DEF Answer
  <2>3. Answers(r, MakeKey(request[t].question))
    BY <1>4 DEF Answers, ThreadInv, RequestRecord, CallSucceedsV1, CallSucceedsLegacy
  <2>4. Moves(t, "bill") \/ Moves(t, "store")
    BY <1>4 DEF CallSucceedsV1, CallSucceedsLegacy, Moves
  <2> HIDE DEF r
  <2> QED
    BY <2>2, <2>3, <2>4, NewResponse
<1>5. CASE \/ LookupMiss(t) \/ CountMiss(t) \/ RouteV1(t) \/ (RouteLegacy(t) /\ ~Return(t))
           \/ CallFailsV1(t) \/ Bill(t) \/ RecordTokens(t) \/ Observe(t)
  <2>1. /\ response' = response
        /\ \E s : Moves(t, s) /\ (s \in Responding <=> stage[t] \in Responding)
    BY <1>5 DEF LookupMiss, AfterMiss, CountMiss, RouteV1, RouteLegacy, CallFailsV1,
       AfterFailure, Bill, RecordTokens, Observe, Moves
  <2> QED
    BY <2>1, SameResponse
<1>6. CASE RouteLegacy(t)
  BY <1>1, <1>5, <1>6
<1>7. CASE LookupHit(t)
  BY <1>1, <1>3, <1>7
<1> QED
  BY <1>1, <1>2, <1>4, <1>5, <1>6, <1>7, Zenon DEF HandlerStep

LEMMA BeginKeepsInHand ==
    ASSUME ThreadInv, InHand, NEW t \in Threads, NEW r \in RequestRecord,
           NEW s \in {"lookup", "limit"}, Begins(t, r, s), response' = response
    PROVE  InHand'
BY DEF ThreadInv, InHand, Begins, Responding, Answering

HonestInv == CacheHonest /\ InHand

LEMMA HonestInvariant == Spec => []HonestInv
<1>1. Init => HonestInv
  BY DEF Init, Cache!StoreInit, HonestInv, CacheHonest, InHand, Responding, Answering
<1>2. ServingInv /\ HonestInv /\ [Next]_vars => HonestInv'
  <2> SUFFICES ASSUME ServingInv, HonestInv, [Next]_vars PROVE HonestInv'
    OBVIOUS
  <2>1. ThreadInv /\ received \in Nat /\ CacheHonest /\ InHand
    BY DEF ServingInv, HonestInv
  <2>2. ASSUME NEW t \in Threads, HandlerStep(t) PROVE InHand'
    BY <2>1, <2>2, HandlerKeepsInHand
  <2>3. ASSUME NEW t \in Threads, NEW q \in Questions,
               NEW k \in ApiKeys \cup {NoKey}, Receive(t, q, k)
        PROVE  InHand'
    BY <2>1, <2>3, ReceiveBegins, BeginKeepsInHand DEF Receive
  <2>4. ASSUME NEW t \in Threads, NEW p \in Prompts, ReceiveLegacy(t, p)
        PROVE  InHand'
    BY <2>1, <2>4, ReceiveLegacyBegins, BeginKeepsInHand DEF ReceiveLegacy
  <2>5. ASSUME UNCHANGED <<stage, request, response>>
        PROVE  InHand'
    BY <2>1, <2>5 DEF InHand
  <2>6. InHand'
    BY <2>2, <2>3, <2>4, <2>5, BackgroundLeavesThreads
       DEF Next, ReceiveMalformed, threadVars, Background
  <2> QED
    BY <2>1, <2>6, CacheStaysHonest DEF HonestInv
<1> QED
  BY <1>1, <1>2, ServingInvariant, PTL DEF Spec

\* The questions asked are questions.
LEMMA AsksAreQuestions == AllQuestions \subseteq Question
<1>1. ASSUME NEW prompt \in Prompts PROVE LegacyQuestion(prompt) \in Question
  <2>1. prompt \in Seq(Pieces) /\ "user" \in Pieces /\ LegacyModel \in Seq(Pieces)
    BY QuestionsAssumption
  <2>2. [role |-> <<"user">>, content |-> prompt] \in Message
    BY <2>1 DEF Message
  <2> HIDE DEF Message
  <2> QED
    BY <2>1, <2>2 DEF LegacyQuestion, Question
<1> QED
  BY <1>1, QuestionsAssumption DEF AllQuestions

\* A response about to be sent, whether a provider gave it to this thread or another
\* thread stored it, answers the model, the messages and the parameters its own client
\* asked about: make_key writes the same text for two plain questions only if they are
\* the same.
THEOREM ResponsesAnswer == Spec => []ResponsesAnswerTheirRequest
<1>1. ThreadInv /\ HonestInv => ResponsesAnswerTheirRequest
  <2> SUFFICES ASSUME ThreadInv, HonestInv, NEW t \in Threads, response[t] # NoResponse,
                      NEW own, own = request[t].question,
                      NEW other, other = response[t].question,
                      ~Collide(own, other), Plain(own), Plain(other)
               PROVE  SameQuestion(own, other)
    BY DEF ResponsesAnswerTheirRequest
  <2>1. stage[t] \in Responding /\ Answers(response[t], MakeKey(own))
    BY DEF HonestInv, InHand
  <2>2. own \in Question /\ other \in Question
    BY <2>1, AsksAreQuestions DEF Answers, ThreadInv, RequestRecord, Responding, Answering
  <2>3. Text(own) = Text(other)
    BY <2>1 DEF Answers, Collide
  <2> QED
    BY <2>2, <2>3, PlainTextsDiffer
<1> QED
  BY <1>1, HonestInvariant, ServingInvariant, PTL DEF ServingInv
=============================================================================
