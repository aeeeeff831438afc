------------------------------- MODULE Router -------------------------------
(***************************************************************************)
(* The router of src/router.cpp: the health it keeps of each provider, the *)
(* decision it takes for a request, and how call reports change health.    *)
(* Every operation holds mu_, so each one reads or writes health in one    *)
(* step; set_strategy is a single unlocked write of an enum.               *)
(*                                                                         *)
(* A model name is written split at its first colon: <<m>> is a plain      *)
(* name, <<p, m>> is "p:m".  A decision is [provider, model, chain], chain *)
(* being its fallback_chain.  health_ is an unordered_map and std::sort is *)
(* not stable, so route has a set of possible decisions.                   *)
(*                                                                         *)
(* Numbers are scaled to integers: an error rate counts ErrorScale units   *)
(* to 1.0, a latency is in milliseconds, a price in 1e-5 USD per 1K tokens,*)
(* a score in units of 1/(1000 * ErrorScale).                              *)
(***************************************************************************)
EXTENDS Integers, Sequences, FiniteSets, SequencesExt, FiniteSetsExt

CONSTANTS
    ProviderConfigs, \* providers: a sequence of [name, enabled, models, weight]
    Price,           \* pricing: <<provider, model>> |-> input + output price
    Aliases,         \* model_aliases: model name |-> model name
    ErrorScale,      \* units of error rate in 1.0
    RequestCap,      \* requests_last_minute is counted up to here
    ErrorCap,        \* errors_last_minute is counted up to here
    IndexBits        \* width of the round-robin index, 32 in the code

ASSUME ErrorScaleAssumption == ErrorScale \in Nat \ {0} /\ ErrorScale % 10 = 0
ASSUME CapsAssumption == RequestCap \in Nat /\ ErrorCap \in Nat
\* An int has at most 32 bits.
ASSUME IndexAssumption == IndexBits \in 1..32
ASSUME ConfigsAssumption ==
    ProviderConfigs \in Seq([name : STRING, enabled : BOOLEAN,
                             models : Seq(STRING), weight : Nat])
ASSUME PriceAssumption == \A offer \in DOMAIN Price : Price[offer] \in Nat

VARIABLES
    health,           \* health_: the providers reported on and their health
    strategy,         \* strategy_
    round_robin_idx   \* round_robin_idx_

routerVars == <<health, strategy, round_robin_idx>>

Strategies == {"cost", "latency", "round_robin", "failover", "smart"}
NoProvider == ""

Configs == DOMAIN ProviderConfigs
ConfigOf(c) == ProviderConfigs[c]
ProviderNames == {ConfigOf(c).name : c \in Configs}

Health == [available : BOOLEAN, avg_latency : Nat, error_rate : 0..ErrorScale,
           requests : 0..RequestCap, errors : 0..ErrorCap]

\* The value-initialised ProviderHealth that health_[provider] creates.
NewHealth == [available |-> TRUE, avg_latency |-> 0, error_rate |-> 0,
              requests |-> 0, errors |-> 0]

HealthOf(p) == IF p \in DOMAIN health THEN health[p] ELSE NewHealth

\* A provider never reported on counts as available everywhere.
Available(p) == HealthOf(p).available

Usable(c) == ConfigOf(c).enabled /\ Available(ConfigOf(c).name)

----------------------------------------------------------------------------
\* The strategies.  An offer <<c, m>> is model number m of configuration c.

Decision(p, m, chain) == [provider |-> p, model |-> m, chain |-> chain]
FirstModel(c, chain) == Decision(ConfigOf(c).name, ConfigOf(c).models[1], chain)
NoDecision == Decision(NoProvider, NoProvider, <<>>)

Offers == UNION {{<<c, m>> : m \in DOMAIN ConfigOf(c).models} :
                    c \in {d \in Configs : Usable(d)}}
OfferKey(o) == <<ConfigOf(o[1]).name, ConfigOf(o[1]).models[o[2]]>>
Priced(o) == OfferKey(o) \in DOMAIN Price
OfferPrice(o) == IF Priced(o) THEN Price[OfferKey(o)] ELSE 0

Before(o, q) == o[1] < q[1] \/ (o[1] = q[1] /\ o[2] < q[2])

HasModels(c) == ConfigOf(c).models # <<>>

\* route_cost_optimized: the first of the cheapest priced offers; failing
\* that, the first enabled provider, whatever its health.
CostOptimized ==
    LET priced == {o \in Offers : Priced(o)}
        cheapest == CHOOSE o \in priced : \A q \in priced \ {o} :
            \/ OfferPrice(o) < OfferPrice(q)
            \/ OfferPrice(o) = OfferPrice(q) /\ Before(o, q)
        enabled == {c \in Configs : ConfigOf(c).enabled /\ HasModels(c)}
    IN  IF priced # {} THEN Decision(OfferKey(cheapest)[1], OfferKey(cheapest)[2], <<>>)
        ELSE IF enabled # {} THEN FirstModel(Min(enabled), <<>>)
        ELSE NoDecision

\* route_latency_optimized: the first of the fastest; 500 ms if unknown.
LatencyOf(c) == IF ConfigOf(c).name \in DOMAIN health
                THEN health[ConfigOf(c).name].avg_latency ELSE 500

\* A loop over the configurations meets those of S in their order: the k-th.
Nth(S, k) == CHOOSE c \in S : Cardinality({d \in S : d < c}) = k - 1

Candidates == {c \in Configs : Usable(c) /\ HasModels(c)}

LatencyOptimized ==
    LET fastest == {c \in Candidates : \A d \in Candidates : LatencyOf(c) <= LatencyOf(d)}
    IN  IF Candidates = {} THEN NoDecision ELSE FirstModel(Min(fastest), <<>>)

\* route_round_robin: the int index is widened to an unsigned size_t, of twice
\* the bits.
AsSize(n) == n % (2^IndexBits * 2^IndexBits)
RoundRobinPick == Nth(Candidates, (AsSize(round_robin_idx) % Cardinality(Candidates)) + 1)
RoundRobin ==
    IF Candidates = {} THEN NoDecision ELSE FirstModel(RoundRobinPick, <<>>)

\* Plausible fault: an index that stops at the end of its range.
NextIndexSaturating == IF round_robin_idx = 2^(IndexBits - 1) - 1
                       THEN round_robin_idx ELSE round_robin_idx + 1

NextIndex == IF round_robin_idx = 2^(IndexBits - 1) - 1
             THEN -(2^(IndexBits - 1)) ELSE round_robin_idx + 1

\* route_failover: the usable providers in the order of the configuration.
FailoverChain ==
    LET others == [i \in 1..Cardinality(Candidates) - 1 |->
                       ConfigOf(Nth(Candidates, i + 1)).name]
    IN  IF Candidates = {} THEN NoDecision ELSE FirstModel(Nth(Candidates, 1), others)

\* score_provider and the price penalty of route_smart.
ProviderScore(c) ==
    LET h == HealthOf(ConfigOf(c).name)
        slow == IF h.avg_latency < 3000 THEN 10 * h.avg_latency ELSE 30000
    IN  ErrorScale * (100000 - slow + 10000 * ConfigOf(c).weight)
          - 50000 * h.error_rate
          - (IF h.available THEN 0 ELSE 1000000 * ErrorScale)
OfferScore(o) == ProviderScore(o[1]) - ErrorScale * OfferPrice(o)

\* The n first offers of each way to sort them, equal scores in any order.
Rankings(n) ==
    LET score == [o \in Offers |-> OfferScore(o)]
    IN  {r \in [1..n -> DOMAIN score] :
            /\ \A i \in 1..n : \A o \in DOMAIN score :
                  score[o] > score[r[i]] => \E j \in 1..i - 1 : r[j] = o
            /\ IsInjective(r)}

\* route_smart: the best offer, and the providers of the next three: the
\* chain may repeat a provider, the primary included.
Smart ==
    LET n == Min({4, Cardinality(Offers)})
        decide(r) == Decision(OfferKey(r[1])[1], OfferKey(r[1])[2],
                              [i \in 1..n - 1 |-> OfferKey(r[i + 1])[1]])
    IN  IF Offers = {} THEN {NoDecision} ELSE {decide(r) : r \in Rankings(n)}

----------------------------------------------------------------------------
\* resolve_model_alias
Resolve(model) == IF model \in DOMAIN Aliases THEN Aliases[model] ELSE model
Direct(model) == Len(Resolve(model)) = 2

\* Plausible fault: the chain built from every provider health_ knows.
OthersKnown(p) == DOMAIN health \ {p}

\* The chain of a direct route: the other providers known to be available.
OthersKnownAvailable(p) == {q \in DOMAIN health \ {p} : health[q].available}

\* route: the decisions it may return for a request that names model.
RouteDecisions(model) ==
    IF Direct(model)
    THEN {Decision(Resolve(model)[1], Resolve(model)[2], chain) :
             chain \in SetToSeqs(OthersKnownAvailable(Resolve(model)[1]))}
    ELSE CASE strategy = "cost"        -> {CostOptimized}
           [] strategy = "latency"     -> {LatencyOptimized}
           [] strategy = "round_robin" -> {RoundRobin}
           [] strategy = "failover"    -> {FailoverChain}
           [] OTHER                    -> Smart

\* What route leaves behind: only the round-robin index moves.
RouteEffect(model) ==
    /\ round_robin_idx' = IF /\ ~Direct(model)
                             /\ strategy = "round_robin"
                             /\ Candidates # {}
                          THEN NextIndex ELSE round_robin_idx
    /\ UNCHANGED <<health, strategy>>

CappedInc(n, cap) == IF n < cap THEN n + 1 ELSE n

SetHealth(p, h) ==
    health' = [q \in DOMAIN health \cup {p} |-> IF q = p THEN h ELSE health[q]]

\* Plausible fault: a success lowers the error rate, but the breaker stays as
\* the failures left it.
SucceededStaysOut(h, latency) ==
    [h EXCEPT !.requests    = CappedInc(@, RequestCap),
              !.avg_latency = IF @ = 0 THEN latency ELSE (9 * @ + latency) \div 10,
              !.error_rate  = (95 * @) \div 100]

\* report_success
Succeeded(h, latency) ==
    [h EXCEPT !.available   = TRUE,
              !.requests    = CappedInc(@, RequestCap),
              !.avg_latency = IF @ = 0 THEN latency ELSE (9 * @ + latency) \div 10,
              !.error_rate  = (95 * @) \div 100]

ReportSuccess(p, latency) ==
    /\ SetHealth(p, Succeeded(HealthOf(p), latency))
    /\ UNCHANGED <<strategy, round_robin_idx>>

\* report_failure: 0.1 more, at most 1.0; above 0.5 the breaker opens.
ErrorStep == ErrorScale \div 10

\* Plausible fault: the threshold compared with >= instead of >.
BreakerOpensAtHalf(error_rate) == 2 * error_rate >= ErrorScale

BreakerOpens(error_rate) == 2 * error_rate > ErrorScale

Failed(h) ==
    LET rate == IF h.error_rate + ErrorStep < ErrorScale
                THEN h.error_rate + ErrorStep ELSE ErrorScale
    IN  [h EXCEPT !.errors     = CappedInc(@, ErrorCap),
                  !.error_rate = rate,
                  !.available  = IF BreakerOpens(rate) THEN FALSE ELSE @]

ReportFailure(p) ==
    /\ SetHealth(p, Failed(HealthOf(p)))
    /\ UNCHANGED <<strategy, round_robin_idx>>

\* set_strategy, from POST /admin/routing.
SetStrategy(s) ==
    /\ strategy' = s
    /\ UNCHANGED <<health, round_robin_idx>>

RouterInit(s) ==
    /\ health = [p \in {} |-> NewHealth]
    /\ strategy = s
    /\ round_robin_idx = 0

RouterTypeOK ==
    /\ health \in [DOMAIN health -> Health]
    /\ strategy \in Strategies
    /\ round_robin_idx \in -(2^(IndexBits - 1))..(2^(IndexBits - 1) - 1)
=============================================================================
