------------------------------ MODULE Gateway ------------------------------
(***************************************************************************)
(* The two chat handlers of src/api/chat_completions.cpp, run by           *)
(* concurrent threads over the shared components: the rate limiter, the    *)
(* cache (through the contract of CacheStore, which LruCache implements),  *)
(* the router and the provider calls, the cost ledger and the metrics.     *)
(*                                                                         *)
(* A handler is a thread that goes through stages, one shared operation    *)
(* per stage, in the order of the code; other threads, the clock, an       *)
(* administrator and a scrape of the metrics act in between.               *)
(*                                                                         *)
(*   v1:      [received] -> limit -> lookup -> hit                         *)
(*                                          -> miss -> route -> call       *)
(*                                             call -> bill -> tokens ->   *)
(*                                             observe -> store            *)
(*                                             route, call -> error        *)
(*   legacy:  lookup -> route -> call -> store                             *)
(***************************************************************************)
EXTENDS CacheKey, FiniteSets, FiniteSetsExt

CONSTANTS
    ProviderConfigs, Price, Aliases, ErrorScale, RequestCap, ErrorCap, IndexBits,
    Threads, Registered, Latencies, StrategyChoices,
    ApiKeys, NoKey, Rpm, Tpm, Window, TicksPerSec, Estimates, MaxTok, MaxStall,
    MaxTime, Ttl, NoResponse, Pricing, MaxHistory,
    Questions,     \* what clients ask the v1 handler
    Prompts,       \* what clients ask the legacy handler
    LegacyModel,   \* the model name the legacy handler fills in
    AnswerTokens,  \* the tokens of an answer: [input, output, total]
    MaxRequests,   \* bound on the requests received
    MaxScrapes     \* 0 when the metrics are not scraped

ASSUME ThreadsAssumption == IsFiniteSet(Threads) /\ NoKey \notin ApiKeys
ASSUME CostsAssumption ==
    /\ AnswerTokens \in [input : Nat, output : Nat, total : Nat]
    /\ Pricing \in [DOMAIN Pricing -> [input : Nat, output : Nat]]
    /\ MaxHistory \in Nat \ {0}
ASSUME QuestionsAssumption ==
    /\ Questions \subseteq Question
    /\ Prompts \subseteq Seq(Pieces) /\ LegacyModel \in Seq(Pieces) /\ "user" \in Pieces

VARIABLES
    health, strategy, round_robin_idx, calls, outcome,
    buckets, inflight, now, admitted, promises,
    stored,
    history, spend_by_key,
    counters, snapshot,
    stage,      \* where each thread is in its handler
    request,    \* the request each thread serves
    response,   \* the response each thread has got, from cache or provider
    received,   \* history: requests received so far, also the next id
    refused,    \* history: requests refused before the cache lookup
    answered    \* history: provider answers: [id, kind, api_key, cost]

\* The one message of a legacy request, and the parameters of ChatRequest.
LegacyQuestion(prompt) ==
    [model |-> LegacyModel, messages |-> <<[role |-> <<"user">>, content |-> prompt]>>,
     temperature |-> 7000000, max_tokens |-> 1024]

AllQuestions == Questions \cup {LegacyQuestion(p) : p \in Prompts}
CacheKeys == {MakeKey(q) : q \in AllQuestions}

\* The models the v1 handler is asked for.
Requested == {q.model : q \in Questions}

\* A provider's answer: the question it answers, who gave it, and the model it
\* says it used.
ModelNames == UNION {{ProviderConfigs[c].models[m] : m \in DOMAIN ProviderConfigs[c].models} :
                        c \in DOMAIN ProviderConfigs}
Response == [question : AllQuestions, provider : Registered, model : ModelNames]

Pool    == INSTANCE Failover
Limiter == INSTANCE RateLimiter WITH Keys <- ApiKeys
Cache   == INSTANCE CacheStore WITH Keys <- CacheKeys, Responses <- Response
Costs   == INSTANCE CostTracker
Metrics == INSTANCE Metrics

poolVars    == <<health, strategy, round_robin_idx, calls, outcome>>
limiterVars == <<buckets, inflight, admitted, promises>>
cacheVars   == stored
costVars    == <<history, spend_by_key>>
metricsVars == <<counters, snapshot>>
threadVars  == <<stage, request, response>>
ghostVars   == <<received, refused, answered>>
vars == <<poolVars, limiterVars, now, cacheVars, costVars, metricsVars, threadVars,
          ghostVars>>

V1(t) == request[t].kind = "v1"
At(t, s) == stage[t] = s
GoTo(t, s) == stage' = [stage EXCEPT ![t] = s]
NoRequest == [kind |-> "none"]

\* What the provider reports as the total, which need not be the sum of the two.
TotalTokens == AnswerTokens.total

----------------------------------------------------------------------------
Init ==
    /\ Pool!Init /\ Limiter!Init /\ Cache!StoreInit /\ Costs!Init /\ Metrics!Init
    /\ stage = [t \in Threads |-> "idle"]
    /\ request = [t \in Threads |-> NoRequest]
    /\ response = [t \in Threads |-> NoResponse]
    /\ received = 0 /\ refused = 0 /\ answered = {}

\* The handler returns; an admitted request that used no tokens ends.
Return(t) ==
    /\ stage' = [stage EXCEPT ![t] = "idle"]
    /\ request' = [request EXCEPT ![t] = NoRequest]
    /\ response' = [response EXCEPT ![t] = NoResponse]
    /\ IF inflight[t] # NoKey THEN Limiter!Finish(t) ELSE UNCHANGED limiterVars

CanReceive(t) == At(t, "idle") /\ received < MaxRequests

\* The v1 handler counts the request before it looks at it ...
Receive(t, question, api_key) ==
    /\ CanReceive(t)
    /\ Metrics!Add("requests", 1)
    /\ received' = received + 1
    /\ request' = [request EXCEPT ![t] =
            [kind |-> "v1", id |-> received, question |-> question, api_key |-> api_key]]
    /\ GoTo(t, IF api_key = NoKey THEN "lookup" ELSE "limit")
    /\ UNCHANGED <<poolVars, limiterVars, now, cacheVars, costVars, response, refused,
                   answered>>

\* ... so a body that is not a request is counted too, and answered 400.
ReceiveMalformed(t) ==
    /\ CanReceive(t)
    /\ Metrics!Add("requests", 1)
    /\ received' = received + 1
    /\ refused' = refused + 1
    /\ UNCHANGED <<poolVars, limiterVars, now, cacheVars, costVars, threadVars, answered>>

\* The legacy handler: no counter, no key, no limit.
ReceiveLegacy(t, prompt) ==
    /\ CanReceive(t)
    /\ received' = received + 1
    /\ request' = [request EXCEPT ![t] =
            [kind |-> "legacy", id |-> received, question |-> LegacyQuestion(prompt),
             api_key |-> NoKey]]
    /\ GoTo(t, "lookup")
    /\ UNCHANGED <<poolVars, limiterVars, now, cacheVars, costVars, metricsVars,
                   response, refused, answered>>

\* check_request, which answers 429 or lets the request go on.
CheckLimit(t) ==
    /\ At(t, "limit")
    /\ \E est \in Estimates :
          \/ /\ Limiter!Admit(t, request[t].api_key, est)
             /\ GoTo(t, "lookup")
             /\ UNCHANGED <<request, response, refused>>
          \/ /\ \E d \in 0..MaxStall : Limiter!Reject(t, request[t].api_key, est, d)
             /\ GoTo(t, "idle")
             /\ request' = [request EXCEPT ![t] = NoRequest]
             /\ refused' = refused + 1
             /\ UNCHANGED response
    /\ UNCHANGED <<poolVars, cacheVars, costVars, metricsVars, received, answered>>

\* Cache::get hits: the legacy handler returns at once.
LookupHit(t) ==
    /\ At(t, "lookup")
    /\ Cache!Hit(MakeKey(request[t].question))
    /\ IF V1(t)
       THEN /\ response' = [response EXCEPT ![t] = Cache!Found(MakeKey(request[t].question))]
            /\ GoTo(t, "hit")
            /\ UNCHANGED <<request, limiterVars>>
       ELSE Return(t)
    /\ UNCHANGED <<poolVars, costVars, metricsVars, ghostVars>>

\* Plausible fault: the miss of a v1 request is not counted.
AfterMissUncounted(t) == "route"

\* The legacy handler counts no misses.
AfterMiss(t) == IF V1(t) THEN "miss" ELSE "route"

LookupMiss(t) ==
    /\ At(t, "lookup")
    /\ Cache!MissOn(MakeKey(request[t].question))
    /\ GoTo(t, AfterMiss(t))
    /\ UNCHANGED <<poolVars, limiterVars, costVars, metricsVars, request, response,
                   ghostVars>>

CountHit(t) ==
    /\ At(t, "hit")
    /\ Metrics!Add("hits", 1)
    /\ Return(t)
    /\ UNCHANGED <<poolVars, now, cacheVars, costVars, ghostVars>>

CountMiss(t) ==
    /\ At(t, "miss")
    /\ Metrics!Add("misses", 1)
    /\ GoTo(t, "route")
    /\ UNCHANGED <<poolVars, limiterVars, now, cacheVars, costVars, request, response,
                   ghostVars>>

\* Router::route; the legacy handler calls the primary only, whatever chain
\* the decision has, and answers 503 without counting an error.
RouteV1(t) ==
    /\ At(t, "route") /\ V1(t)
    /\ Pool!Route(t, request[t].question.model)
    /\ GoTo(t, IF calls'[t] = <<>> THEN "error" ELSE "call")
    /\ UNCHANGED <<limiterVars, now, cacheVars, costVars, metricsVars, request, response,
                   ghostVars>>

RouteLegacy(t) ==
    /\ At(t, "route") /\ ~V1(t)
    /\ Pool!RouteEffect(request[t].question.model)
    /\ \E d \in Pool!RouteDecisions(request[t].question.model) :
          IF Pool!IsRegistered(d.provider)
          THEN /\ calls' = [calls EXCEPT ![t] = <<d.provider>>]
               /\ GoTo(t, "call")
               /\ UNCHANGED <<request, response, limiterVars>>
          ELSE UNCHANGED calls /\ Return(t)
    /\ UNCHANGED <<outcome, now, cacheVars, costVars, metricsVars, ghostVars>>

\* The costs of an answer: the provider may name any of its models in it.
ModelsOf(p) ==
    UNION {{ProviderConfigs[c].models[m] : m \in DOMAIN ProviderConfigs[c].models} :
              c \in {d \in DOMAIN ProviderConfigs : ProviderConfigs[d].name = p}}
Cost(r) == Costs!EstimateCost(r.provider, r.model, AnswerTokens.input, AnswerTokens.output)

Answer(t, model) ==
    LET r == [question |-> request[t].question,
              provider |-> Pool!Called(t), model |-> model]
    IN  /\ response' = [response EXCEPT ![t] = r]
        /\ answered' = answered \cup
              {[id |-> request[t].id, kind |-> request[t].kind,
                api_key |-> request[t].api_key, cost |-> Cost(r)]}

CallSucceedsV1(t) ==
    /\ At(t, "call") /\ V1(t)
    /\ \E l \in Latencies : Pool!CallSucceeds(t, l)
    /\ \E model \in ModelsOf(Pool!Called(t)) : Answer(t, model)
    /\ GoTo(t, "bill")
    /\ UNCHANGED <<limiterVars, now, cacheVars, costVars, metricsVars, request, received,
                   refused>>

\* Plausible fault: the loop over the chain has no end.
AfterFailureAgain(t) == "call"

\* After the last of the chain has failed, the request is an error.
AfterFailure(t) == IF calls'[t] = <<>> THEN "error" ELSE "call"

CallFailsV1(t) ==
    /\ At(t, "call") /\ V1(t)
    /\ Pool!CallFails(t)
    /\ GoTo(t, AfterFailure(t))
    /\ UNCHANGED <<limiterVars, now, cacheVars, costVars, metricsVars, request, response,
                   ghostVars>>

\* The legacy handler reports nothing to the router, and skips the billing.
CallSucceedsLegacy(t) ==
    /\ At(t, "call") /\ ~V1(t)
    /\ \E model \in ModelsOf(Pool!Called(t)) : Answer(t, model)
    /\ calls' = [calls EXCEPT ![t] = <<>>]
    /\ GoTo(t, "store")
    /\ UNCHANGED <<health, strategy, round_robin_idx, outcome, limiterVars, now, cacheVars,
                   costVars, metricsVars, request, received, refused>>

CallFailsLegacy(t) ==
    /\ At(t, "call") /\ ~V1(t)
    /\ calls' = [calls EXCEPT ![t] = <<>>]
    /\ Return(t)
    /\ UNCHANGED <<health, strategy, round_robin_idx, outcome, now, cacheVars, costVars,
                   metricsVars, ghostVars>>

\* inc_errors, on the way to a 502 or a 503.
CountError(t) ==
    /\ At(t, "error")
    /\ Metrics!Add("errors", 1)
    /\ Return(t)
    /\ UNCHANGED <<poolVars, now, cacheVars, costVars, ghostVars>>

\* estimate_cost and record, with the price table constant in between.
Bill(t) ==
    /\ At(t, "bill")
    /\ Costs!Record(request[t].id, request[t].api_key, response[t].provider,
                    Cost(response[t]))
    /\ GoTo(t, IF request[t].api_key = NoKey THEN "observe" ELSE "tokens")
    /\ UNCHANGED <<poolVars, limiterVars, now, cacheVars, metricsVars, request, response,
                   ghostVars>>

RecordTokens(t) ==
    /\ At(t, "tokens")
    /\ Limiter!RecordTokens(t, TotalTokens)
    /\ GoTo(t, "observe")
    /\ UNCHANGED <<poolVars, cacheVars, costVars, metricsVars, request, response, ghostVars>>

\* Plausible fault: the tokens of the prompt left out of the metrics.
OutputTokensOnly == AnswerTokens.output

MeteredTokens == TotalTokens

\* observe_tokens; observe_latency before it is left out with the latencies.
Observe(t) ==
    /\ At(t, "observe")
    /\ Metrics!Add("tokens", MeteredTokens)
    /\ GoTo(t, "store")
    /\ UNCHANGED <<poolVars, limiterVars, now, cacheVars, costVars, request, response,
                   ghostVars>>

\* Cache::put under the key of the client's request, and the handler returns.
\* A request that streams is not stored: that is a response forgotten at once.
Store(t) ==
    /\ At(t, "store")
    /\ Cache!Put(MakeKey(request[t].question), response[t])
    /\ Return(t)
    /\ UNCHANGED <<poolVars, costVars, metricsVars, ghostVars>>

\* Evictions, and DELETE /admin/cache.
CacheForgets ==
    /\ \E S \in SUBSET CacheKeys : Cache!Forget(S)
    /\ UNCHANGED <<poolVars, limiterVars, costVars, metricsVars, threadVars, ghostVars>>

AdminSetStrategy ==
    /\ \E s \in StrategyChoices : Pool!AdminSetStrategy(s)
    /\ UNCHANGED <<limiterVars, now, cacheVars, costVars, metricsVars, threadVars, ghostVars>>

Scrape ==
    /\ MaxScrapes > 0
    /\ Metrics!ReadNext
    /\ UNCHANGED <<poolVars, limiterVars, now, cacheVars, costVars, threadVars, ghostVars>>

Tick ==
    /\ Limiter!Tick /\ Cache!Tick
    /\ UNCHANGED <<poolVars, costVars, metricsVars, threadVars, ghostVars>>

\* What a handler does once it has begun.
HandlerStep(t) ==
    \/ CheckLimit(t)
    \/ LookupHit(t) \/ LookupMiss(t) \/ CountHit(t) \/ CountMiss(t)
    \/ RouteV1(t) \/ RouteLegacy(t)
    \/ CallSucceedsV1(t) \/ CallFailsV1(t)
    \/ CallSucceedsLegacy(t) \/ CallFailsLegacy(t)
    \/ CountError(t) \/ Bill(t) \/ RecordTokens(t) \/ Observe(t) \/ Store(t)

Next ==
    \/ \E t \in Threads, q \in Questions, k \in ApiKeys \cup {NoKey} : Receive(t, q, k)
    \/ \E t \in Threads : ReceiveMalformed(t)
    \/ \E t \in Threads, p \in Prompts : ReceiveLegacy(t, p)
    \/ \E t \in Threads : HandlerStep(t)
    \/ CacheForgets
    \/ AdminSetStrategy
    \/ Scrape
    \/ Tick

Spec == Init /\ [][Next]_vars

\* A handler runs until it returns: it waits only for mutexes held for a
\* moment, and for provider calls, which have timeouts.
FairSpec == Spec /\ \A t \in Threads : WF_vars(HandlerStep(t))

----------------------------------------------------------------------------
V1Answers == {a \in answered : a.kind = "v1"}
Serving(S) == {t \in Threads : V1(t) /\ stage[t] \in S}
Ids(S) == {request[t].id : t \in Serving(S)}

\* The counters of the metrics balance at every moment, up to what the threads
\* in flight have still to count: each request counted is refused, a hit or a
\* miss, and each miss ends as an error or as a provider's answer, once.
RequestsAccounted ==
    /\ counters["requests"] = refused + counters["hits"] + counters["misses"]
          + Cardinality(Serving({"limit", "lookup", "hit", "miss"}))
    /\ counters["misses"] = counters["errors"] + Cardinality(V1Answers)
          + Cardinality(Serving({"route", "call", "error"}))

\* What a key has spent is the cost of the answers its v1 requests got from
\* providers, each charged once and at once: nothing for cache hits, failed
\* calls and refused requests, and nothing of one key on another.
SpendIsExact ==
    \A k \in ApiKeys :
        spend_by_key[k] = MapThenSumSet(LAMBDA a : a.cost,
            {a \in V1Answers : a.api_key = k /\ a.id \notin Ids({"bill"})})

\* The summary of a key is its spending until the history is full; then
\* records have been dropped from it, and it never says more than was spent.
SummaryNeverOverstates ==
    \A k \in ApiKeys :
        /\ Costs!SummaryTotal(k) <= spend_by_key[k]
        /\ Len(history) < MaxHistory => Costs!SummaryTotal(k) = spend_by_key[k]

\* The tokens counted are those of the answers billed, except for the requests
\* between their billing and their counting.
TokensAccounted ==
    counters["tokens"] = TotalTokens *
        (Cardinality(V1Answers) - Cardinality(Serving({"bill", "tokens", "observe"})))

\* A response a thread is about to send, from the cache or from a provider,
\* answers what its own client asked, except when the texts of two questions
\* have one hash, or a separator in what a client wrote makes them one text.
ResponsesAnswerTheirRequest ==
    \A t \in Threads : response[t] # NoResponse =>
        LET own == request[t].question
            other == response[t].question
        IN  \/ SameQuestion(own, other)
            \/ Collide(own, other)
            \/ ~Plain(own) \/ ~Plain(other)

\* The documents want a hit for the same question only: DESIGN.md makes the key
\* of model, messages and parameters, README.md asks for no "false hits".
HitsAnswerTheirRequest ==
    \A t \in Threads : response[t] # NoResponse =>
        SameQuestion(request[t].question, response[t].question)

\* A snapshot taken while requests go on never shows more errors than misses:
\* each error comes after its miss, and snapshot loads the misses later.
SnapshotErrorsAreMisses ==
    Metrics!Snapped("errors") /\ Metrics!Snapped("misses") =>
        Metrics!Read("errors") <= Metrics!Read("misses")

\* Every request that reaches a handler is answered, whatever fails.
EveryRequestReturns == \A t \in Threads : stage[t] # "idle" ~> stage[t] = "idle"

\* DESIGN.md: "Every request tracks its dollar cost".  Once its thread is done,
\* a request a provider answered is in the history (while that is not full).
EveryAnswerIsBilled ==
    \A a \in answered :
        \/ \E t \in Threads : stage[t] # "idle" /\ request[t].id = a.id
        \/ \E i \in DOMAIN history : history[i].id = a.id
        \/ Len(history) = MaxHistory
=============================================================================
