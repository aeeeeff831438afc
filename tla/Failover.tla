------------------------------ MODULE Failover ------------------------------
(***************************************************************************)
(* Steps 5 and 6 of the chat-completions handler of                        *)
(* src/api/chat_completions.cpp, run by concurrent threads against one     *)
(* router: route the request, call the primary, then each fallback in      *)
(* turn, reporting every result.  The registry does not change after       *)
(* start-up; a provider call takes any time and succeeds or throws.        *)
(***************************************************************************)
EXTENDS Router

CONSTANTS
    Threads,      \* the server's worker threads
    Registered,   \* providers_ of the registry: enabled and given an API key
    Requested,    \* the model names clients ask for
    Latencies,    \* the latencies, in milliseconds, of successful calls
    StrategyChoices  \* the strategies configured, or set by an administrator

ASSUME RegisteredAssumption ==
    Registered \subseteq {ConfigOf(c).name : c \in {d \in Configs : ConfigOf(d).enabled}}
ASSUME LatenciesAssumption == Latencies \subseteq Nat
ASSUME StrategyAssumption == StrategyChoices \subseteq Strategies

VARIABLES
    calls,     \* the providers a thread has yet to call, the called one first
    outcome    \* how the thread's last request ended: see Outcomes

threadVars == <<calls, outcome>>
vars == <<health, strategy, round_robin_idx, calls, outcome>>

Outcomes == {"none", "ok", "502", "503"}

Calling(t) == calls[t] # <<>>
Called(t) == Head(calls[t])

----------------------------------------------------------------------------
\* Plausible fault: a registry that holds what is configured, not what was
\* created.
IsConfigured(p) == p \in ProviderNames

\* registry.get: fallbacks that are not registered are skipped.  A registered
\* one always has a model to be called with: the provider classes list theirs.
IsRegistered(p) == p \in Registered
CallPlan(d) ==
    LET registered == {i \in DOMAIN d.chain : IsRegistered(d.chain[i])}
    IN  <<d.provider>> \o [i \in 1..Cardinality(registered) |-> d.chain[Nth(registered, i)]]

\* A request that misses the cache is routed.  No provider, or a primary that
\* is not registered, is a 503: nothing is called and nothing reported.
Route(t, model) ==
    \E d \in RouteDecisions(model) :
        /\ ~Calling(t)
        /\ RouteEffect(model)
        /\ IF d.provider # NoProvider /\ IsRegistered(d.provider)
           THEN /\ calls' = [calls EXCEPT ![t] = CallPlan(d)]
                /\ outcome' = [outcome EXCEPT ![t] = "none"]
           ELSE /\ outcome' = [outcome EXCEPT ![t] = "503"]
                /\ UNCHANGED calls

\* The call returns: report_success, and the request has its answer.
CallSucceeds(t, latency) ==
    /\ Calling(t)
    /\ ReportSuccess(Called(t), latency)
    /\ outcome' = [outcome EXCEPT ![t] = "ok"]
    /\ calls' = [calls EXCEPT ![t] = <<>>]

\* Plausible fault: a provider that failed goes back behind the rest of its chain.
NextCallsRotated(plan) ==
    IF Len(plan) = 1 THEN <<>> ELSE Append(Tail(plan), Head(plan))

\* What is left of a plan when its first call has failed.
NextCalls(plan) == Tail(plan)

\* The call throws: report_failure, then the next of the chain, or a 502.
CallFails(t) ==
    /\ Calling(t)
    /\ ReportFailure(Called(t))
    /\ calls' = [calls EXCEPT ![t] = NextCalls(@)]
    /\ outcome' = [outcome EXCEPT ![t] = IF calls'[t] = <<>> THEN "502" ELSE "none"]

AdminSetStrategy(s) == SetStrategy(s) /\ UNCHANGED threadVars

Init ==
    /\ \E s \in StrategyChoices : RouterInit(s)
    /\ calls = [t \in Threads |-> <<>>]
    /\ outcome = [t \in Threads |-> "none"]

CallReturns(t) == CallFails(t) \/ \E l \in Latencies : CallSucceeds(t, l)

Next ==
    \/ \E t \in Threads, model \in Requested : Route(t, model)
    \/ \E t \in Threads, l \in Latencies : CallSucceeds(t, l)
    \/ \E t \in Threads : CallFails(t)
    \/ \E s \in StrategyChoices : AdminSetStrategy(s)

Spec == Init /\ [][Next]_vars

\* A call always returns: the HTTP client has connection and read timeouts.
FairSpec == Spec /\ \A t \in Threads : WF_vars(CallReturns(t))

\* Clients keep asking.
BusySpec ==
    FairSpec /\ \A t \in Threads : WF_vars(\E model \in Requested : Route(t, model))

\* Clients keep asking of providers that work: a thread that calls again and
\* again succeeds again and again.
HealthySpec ==
    BusySpec /\ \A t \in Threads : SF_vars(\E l \in Latencies : CallSucceeds(t, l))

----------------------------------------------------------------------------
\* Types, and who is called: only registered providers, and only they are
\* ever reported on, so health_ never holds a provider that cannot be called.
TypeOK ==
    /\ RouterTypeOK
    /\ DOMAIN health \subseteq Registered
    /\ calls \in [Threads -> Seq(Registered)]
    /\ outcome \in [Threads -> Outcomes]

\* The breaker of report_failure is open only while the error rate justifies
\* it: no order of late successes and failures of concurrent calls leaves a
\* provider excluded with an error rate of 0.5 or less.
OpenBreakerIsJustified ==
    \A p \in DOMAIN health :
        ~health[p].available => BreakerOpens(health[p].error_rate)

\* Opening the breaker takes six failures of the provider, in any order and
\* from any threads: fewer never exclude it.
BreakerNeedsSixFailures ==
    \A p \in DOMAIN health : ~health[p].available => health[p].errors >= 6

\* A provider whose breaker is open gets no new traffic: route plans a call of
\* it only as the primary of a request that names it ("p:model"), or as the
\* last resort of the cost strategy when no usable provider has a price.
OpenBreakerShedsTraffic ==
    [][\A t \in Threads : calls[t] = <<>> /\ calls'[t] # <<>> =>
          /\ \A i \in 2..Len(calls'[t]) : Available(calls'[t][i])
          /\ \/ Available(calls'[t][1])
             \/ \E model \in Requested :
                    Direct(model) /\ Resolve(model)[1] = calls'[t][1]
             \/ strategy = "cost" /\ ~\E o \in Offers : Priced(o)]_vars

\* Every request that reaches a provider is answered: each failed call shortens
\* the plan, also while other threads change the health it was made from, and
\* none goes round the providers again.
RequestAnswered ==
    \A t \in Threads : Calling(t) ~> ~Calling(t)

\* Round robin starves nobody: once the strategy settles on it and no breaker
\* opens any more, requests of all threads together keep reaching every
\* registered provider, over the wrap of the index and past providers that have
\* no key.
RoundRobinReachesAll ==
    (<>[](strategy = "round_robin" /\ \A p \in Registered : Available(p))) =>
        \A p \in Registered :
            []<>(\E t \in Threads : Calling(t) /\ Called(t) = p)

\* What DESIGN.md says of an excluded provider: "Health recovers".
HealthRecovers ==
    \A p \in Registered : ~Available(p) ~> Available(p)

\* What DESIGN.md promises: a gateway in which one provider has a key answers
\* requests for plain model names, as long as that provider is available.
WorkingProviderIsUsed ==
    [][\A t \in Threads :
          outcome'[t] = "503" /\ outcome[t] # "503" =>
              \A p \in Registered : ~Available(p)]_vars
=============================================================================
