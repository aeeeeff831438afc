# A verification project for the LLM gateway

The gateway (`src/`) is a C++ reverse proxy in front of several LLM providers.
Crow serves requests on a pool of threads; every handler uses the same process-wide
singletons, each with a mutex of its own. Nothing is persisted. What can go wrong
lies in the interleaving of the handlers, in the state that calls leave behind, and
in the edges of windows, limits and expiry. This directory models that with TLA+,
checks small instances with TLC and proves the safety properties with TLAPS.

## Inventory

| component | state | operations | what makes it correct |
|---|---|---|---|
| Rate limiter (`middleware/rate_limiter.cpp`) | a bucket per key: requests, tokens, window start | check_request, record_tokens, reset | admissions per window are exact and bounded; late token records overshoot only by what is in flight; Retry-After is honest |
| Response cache (`cache.cpp`) | list of entries in order of use, index, statistics | make_key, get, put, clear, evict_expired, evict_lru | list and index agree; size is capped; eviction is least recently used; a hit is the last response put, within its time to live; two questions share a key only where the key says they do |
| Router (`router.cpp`) | health per provider, strategy, round-robin index | route (five strategies), report_success, report_failure, set_strategy | the breaker opens only when justified and sheds traffic; no available provider is starved; health recovers |
| Registry (`providers/provider_registry.cpp`) | the providers that have a key | initialize, get | fixed after start-up |
| Handlers (`api/chat_completions.cpp`) | where each thread is in its request | POST /v1/chat/completions, POST /chat | every request is answered, counted, billed and metered once |
| Cost tracker (`cost_tracker.cpp`) | bounded history, spending per key, price table | estimate_cost, record, get_summary | spending is the cost of what was answered |
| Metrics (`utils/metrics.cpp`) | atomic counters, a latency window | inc_*, observe_*, snapshot | counters balance; a snapshot is meaningful although it is not atomic |
| Authentication (`middleware/auth.cpp`) | virtual keys by hash | create_key, revoke_key, authenticate, is_admin | a revoked key stays refused; a revocation costs at most one key, of the id that was named; a key keeps its tier |
| Providers (`providers/*.cpp`) | the attempt each call is at | chat, with_retry | bounded attempts, pauses between them only, then one failure and one report |
| Configuration, start-up (`config.cpp`, `main.cpp`) | the configuration | load_from_file, load_from_env, initialize | defaults < file < environment, also when the file breaks off; the gateway comes up, or the process ends, for a known reason |
| Admin and health endpoints (`api/admin.cpp`, `api/health.cpp`) | none | routing strategy, cache, keys, costs | only an administrator changes anything |
| Token counter (`utils/token_counter.cpp`) | none | count_messages | no word lost or counted twice; the estimate is in proportion to the text |
| Logger | none | log | output |

The handlers call the components in a fixed order: limiter, cache, router, provider
(outside every lock, up to the timeout of the HTTP client), router again with the
result, next provider of the chain, cost tracker, limiter again, metrics, cache.
Components never call each other, except that all read the configuration. An
administrator changes the routing strategy and clears the cache meanwhile, and a
scrape reads the metrics.

What is hard to test: reports of calls that began before a breaker changed;
decisions used after the state they were taken from has moved on; tokens that
arrive in another window than their request; two clock reads in one check; a
snapshot taken while counters move; sums over all ways out of a handler; loops
whose end depends on the configuration; retries inside a call while the health moves on;
keys that share an id; questions that share a cache key; a configuration of which half was applied. `PROJECT.json` lists these under
"hazards", each with its line and the properties that cover it.

## Modules

```
RateLimiter <- MCRateLimiter, RateLimiterProofs
CacheStore <- CacheContract <~ LruCache <- MCLruCache, LruCacheProofs   (<~ implements)
Router <- Failover <- MCFailover, FailoverProofs
          Failover <~ ProviderCalls <- MCProviderCalls, ProviderCallsProofs
CacheKey <- Gateway <- MCGateway, GatewayProofs <- CostProofs
           with instances of Failover, RateLimiter, CacheStore, CostTracker, Metrics
Startup, Auth <- AdminServer <- MCAdminServer, AdminProofs
TokenCounter <- TokenCounterProofs
```

**RateLimiter.** `buckets` is `buckets_`, `now` the clock in ticks, `TicksPerSec` of
them to a second, because the code truncates to whole seconds. `inflight` is the
key whose admitted request a thread is serving. Each operation holds `mu_`, so each is one
action: `Admit` and `Reject` are the two ends of check_request (`Reject` moves the
clock by up to `MaxStall` before its second clock read), `RecordTokens` and `Finish`
end a request with and without tokens, `Reset` is reset. `admitted` and `promises`
are histories for the properties. The limits of a bucket are left out of it: they
are always the defaults of the configuration, `Rpm` and `Tpm`.

**CacheStore, CacheContract.** What a caller may rely on: a lookup finds the response
last stored under its key, fresh, or misses; the cache may forget at any time.
`CacheStore` holds the operations, for the gateway to compose; `CacheContract` makes
a specification of them.

**LruCache.** `entries` is the list, front first; `index` maps a key to the name of a
list node. A put is taken apart at its clock reads and loops (`PutBegin`, `EvictLru`
once for each turn of the loop, `StopEvicting` with the clock read of evict_expired,
`EraseExpired` once for each turn of its loop and `NothingExpired` at its end, `PutInsert`);
`putting` is the put that holds the mutex, and no other operation starts before it ends.
`recency`, `puts` and `dropped` are histories for the properties. `Contract` maps the list and
index to what each key stands for, and `ImplementsContract` says that every
behaviour of the cache is one of the contract.

**CacheKey.** `make_key` as an algorithm: `Printed` is what the loop appends for a message, `Joined` the
whole, `Text` what is hashed. A text is a sequence of pieces, of which ":" and "|" are two; clients
write the others and these too, and nothing is escaped. The parameters are kept beside the text: where
`match_params` is set they are its last two fields and hold numbers, so that they can be told from what
comes before. A temperature is printed with six decimals (`Millionths`). `Hash` is a constant, any function.
`SameQuestion` says what a key is to tell apart; `Plain` questions hold no separator where it could be
misread; `Collide` is a collision of the hash.

**Router, Failover.** `health`, `strategy` and `round_robin_idx` are the members of
`Router`. `RouteDecisions(model)` is the set of decisions `route` may return: a set,
because `health_` is an unordered map and the sort of the smart strategy is not
stable. The candidates of a strategy are a set of positions in the configuration, and `Nth` finds
the one that a loop over it meets k-th; `Rankings` says what a sort by score may leave in front
without naming a sort. `AsSize` is the conversion of the int index to size_t. Numbers are integers: error rates in `ErrorScale` units to 1.0, milliseconds,
prices in 1e-5 USD. `Failover` adds the threads: `calls[t]` is what is left of the
plan of a thread, the provider being called first. A call may take any time, and its result
is reported to whatever the health has become.

**ProviderCalls.** A call of Failover taken apart into what `with_retry` does: POSTs that end at
any time, sleeps between them, and the exception of the last attempt. `attempt` and `sleeping`
are the loop variable and the sleep of each thread, `slept` a history. Failover is instantiated
with the variables of the same name, so that `ImplementsFailover` says that retries change
nothing for the router and the handlers: no attempt but the last is reported, and every call
returns. The second half is what the fairness of Failover takes for granted, and here
follows from the fairness of POSTs and sleeps.

**Startup.** main up to the running server. `file` and `env` are what a start finds; a file
that parses is the sequence of reads that load_from_file makes of it, and a read of a value of
the wrong type throws there. `phase` is what main does next: the overrides after the file,
those of load_from_env, the registry (`InitializeRegistry`), the router (`ConstructRouter`), and
run (`RunServer`). Crow is external: it is taken to listen if the host is an address
of the machine (`Addresses`) and the port, which it takes as 16 bits, is free (`FreePorts`); otherwise it fails
where nothing catches it. `dead` is the end of the process in either way. `settings` and `providers` are `config_`.
`Layered` says what a setting should come to without the order of the steps.

**Auth, AdminServer.** `keys` is `keys_`, from the hash of a raw key to its record. `HashOf` is taken as
injective, `IdOf` is not: an id keeps two random characters, and revoke_key takes any key
with the id, since it walks an unordered map. `issued`, `revoked` and `cut_off` are histories. AdminServer
puts the handlers of `api/admin.cpp` over the gateway that Startup has brought up: what
is_admin lets in depends on the admin key that came through the layers. `let_in` is the
history of the headers that changed something.

**TokenCounter.** count_messages with one character per step; `current` is the length of the
pending word, and of a character only its class matters. `Reference` counts where
tokens begin in the finished text, without a scan.

**CostTracker, Metrics.** Operators and state of the two, used by the gateway.
`snapshot` in Metrics is the snapshot being taken, one atomic load per step.

**Gateway.** Both handlers as threads that go through `stage`s, one shared operation per step in
the order of the code. The fallback loop is `Failover`'s, the limiter is `RateLimiter`'s,
the cache is the contract. `answered` records every provider answer with its cost;
`received` and `refused` count requests. A request asks a
`Question` of CacheKey, and the cache is looked up under its key. The legacy handler has its own actions:
no counters, no limit, primary only, no report, no bill.

Abstracted throughout: JSON, logging, HTTP; a request is a question (model, messages, temperature,
max_tokens) in pieces of text, a response the question it answers, its provider and its model.

## Runs

| run | checks | shows |
|---|---|---|
| rate_limiter | type, AtMostTwoWindowsOfRequests, RequestsCountIsExact, TokenOvershootBounded, RetryAfterSuffices | holds |
| lru_cache | type, SizeCapped, IndexMatchesEntries, RecentKeysAreKept, EvictionsExact, ImplementsContract, PutReturns | holds |
| cache_zero | PutReturns with `max_entries` 0 | violated: put loops for ever holding the mutex |
| failover | type, OpenBreakerIsJustified, BreakerNeedsSixFailures, OpenBreakerShedsTraffic | holds |
| round_robin | SleepsAddUp, ImplementsFailover, RequestAnswered, RoundRobinReachesAll, with retries | holds |
| outage | HealthRecovers | violated: the smart strategy never picks an excluded provider again |
| one_key | WorkingProviderIsUsed | violated: a plain model is routed to a provider without a key, 503 |
| gateway | RequestsAccounted, SpendIsExact, SummaryNeverOverstates, TokensAccounted, ResponsesAnswerTheirRequest, SnapshotErrorsAreMisses, EveryRequestReturns | holds |
| shared_key | HitsAnswerTheirRequest | violated: a message that holds the separators gets the answer to two others |
| admin_server | type, LayersApplied, RegisteredAsConfigured, GatewayStarts, RevokedStaysRefused, OnlyRevokedAreRefused, KeysKeepTheirTier, OnlyAdminsAdminister | holds |
| token_counter | CountIsExact, EstimateInProportion | holds |
| unbilled | EveryAnswerIsBilled | violated: the legacy handler bills nothing |

Bounds, and why they are enough:

- *rate_limiter*: two threads, one key (keys share nothing but the clock), limits of
  2 requests and 3 tokens, windows of 4 ticks, 9 ticks: two full windows and a third
  begun, so that bursts on both sides of an edge and late records in the next window occur. The
  proofs remove these bounds.
- *lru_cache*: four keys for three entries, time to live 1, four puts, one lookup, three clock values:
  the purge of expired entries only runs while the list is more than half full after an
  eviction, which a list of two never is; eviction, purge, expiry and clear all meet.
- *failover*: three configured providers of which one has no key, two threads, the error
  count kept up to 6, where the breaker opens.
- *round_robin*: two strategies, between which an administrator switches at any time: `failover` gives
  plans of two providers, which shorten at each failed call while the other thread moves the
  health and the strategy; `round_robin` has no chain, and an index of 2 bits, so that it wraps within a few
  requests. Two attempts in each call instead of the default three: one sleep between them is what
  the order of the steps needs, and `SleepsAddUp` is proved for any number. The error count is not kept
  here (`ErrorCap = 0`) and latency is 0, which leaves the average alone: no property of the run and neither strategy
  reads them.
- *gateway*: two requests on two threads; each is malformed, a v1 question with a system
  message, with or without a key, or the legacy prompt that makes the same question without the system message; a
  limit of one request per window, two providers, a history of one record, which a second answer drops, one
  scrape, one tick. The proofs remove these
  bounds; three requests take longer than a run should.
- *shared_key*, *unbilled*: the same gateway with the two questions that share a text, and with room in
  the history.
- *admin_server*: seven files (whole, broken off at three places, with an unknown strategy, missing,
  malformed), seven environments (none, keys only, a key that is set to nothing, a
  number that is none, a host that is no address, a port that is taken; one port is beyond 16 bits), three raw keys of which two share an id, and bounds on the keys created and
  the revocations answered. Each file and environment stands for a branch of the code.
- *token_counter*: texts of up to eight characters and message ends, all of them: words
  shorter than, equal to and longer than a chunk, before a blank, a mark and a message end. The
  proofs remove the bound.

Symmetry over threads is used in *rate_limiter* and *failover*, which have no liveness properties; no
action names a thread. CHECK_DEADLOCK is off only where a
behaviour may end: where requests, puts, keys or the clock reach their bounds, or where a start ended in a
dead process or in a gateway without an admin key.

Fairness. `LruCache!FairSpec`: the thread inside a put goes on, as it waits for
nothing. `Failover!FairSpec`: a call returns, because the HTTP client has connection
and read timeouts and the retries are counted. `BusySpec` adds that clients keep
asking. `HealthySpec` adds that a thread that calls again and again succeeds again and
again; it is assumed only to show that even then health does not recover.
`ProviderCalls!BusySpec`: a POST ends, by the timeouts of its client, and
sleep_for ends; from that and clients that keep asking, the run derives the fairness Failover assumes.
`AdminServer!FairSpec`: main goes on, since it waits for nothing until the server runs, and run either
listens or fails; nothing is assumed of administrators.
`Gateway!FairSpec`: a handler goes on, since its locks are held for a moment only
and its calls return.

## What the violations say

- `cache.cpp:98`: with `max_entries` 0 the loop of put never ends.
- `router.cpp:230`: after six failures a provider is excluded; only a success reopens it, and
  the smart strategy, the default, never picks it again (a request that names it still reaches it, and so does
  the last resort of the cost strategy).
- `cache.cpp:24`: make_key joins role and content with ":" and "|" unescaped. One message
  "a|user:b" and the two messages "a" and "b" have one key, and the second client is given the answer of the first.
- `chat_completions.cpp:151`: the router does not know which providers have a key. With the
  shipped configuration and only a groq key, the default model is answered 503.
- `chat_completions.cpp:311`: answers of `/chat` have no cost.

One disagreement has no run of its own. `tests/test_auth.cpp:35-40` expects a key to be refused once its id
is revoked. The id keeps two random characters of the key, so that ids collide, and revoke_key takes the first
match (`auth.cpp:91`), which may be another client's key or one that is out of force already: then it answers yes
and the key that was meant stays in force. What is checked, and proved, bounds this: a key alone
under its id is refused (RevokedStaysRefused), and each yes costs at most one key of the id (OnlyRevokedAreRefused).

## Proofs

Every safety invariant that a run checks is a theorem, and so are the one action property and the
safety half of both refinements: for all values of the constants that satisfy the named assumptions,
with no bound on threads, keys, providers or requests. Each proof follows one pattern: an inductive
invariant (in brackets below), one lemma or step per action, and a last step that combines them.

| module | theorems | inductive invariant |
|---|---|---|
| RateLimiterProofs | type, TokenOvershootBounded, RequestsCountIsExact, AtMostTwoWindowsOfRequests, RetryAfterSuffices | `KeyInv`, `PromisesInv` |
| LruCacheProofs | type, SizeCapped, IndexMatchesEntries, EvictionsExact, RecentKeysAreKept, ImplementsContract | `CacheInv`, `RecencyInv` |
| FailoverProofs | type, OpenBreakerIsJustified, BreakerNeedsSixFailures, OpenBreakerShedsTraffic | `BreakerInv`, `PoolInv` |
| ProviderCallsProofs | SleepsAddUp; every behaviour with retries is one of Failover's `Spec` | `RetryInv` |
| GatewayProofs | RequestsAccounted, TokensAccounted, ResponsesAnswerTheirRequest, SnapshotErrorsAreMisses | `ServingInv`, `IdInv`, `BalanceInv`, `SnapshotInv`, `HonestInv` |
| CostProofs | SpendIsExact, SummaryNeverOverstates | `BillsInv`, `SpendInv`, `HistoryInv` |
| AdminProofs | type, RevokedStaysRefused, OnlyRevokedAreRefused, KeysKeepTheirTier, LayersApplied, RegisteredAsConfigured, OnlyAdminsAdminister | `AuthInv`, `SettingsInv`, `ProvidersInv`, `AdminInv` |
| TokenCounterProofs | CountIsExact, EstimateInProportion | `ExactInv` |

**RateLimiterProofs.** The token bound is inductive by itself: an admission
happens at `Tpm` or below, and a record trades one request in flight for at most
`MaxTok` tokens. The request properties need a strengthening, `KeyInv`: admissions lie
in their windows, windows of a key are at least a window apart, the bucket's window is
the last one, and its count is the number of admissions there, each with a number of
its own. `TwoWindows` then shows that what happens within a window's length of an admission
lies in two windows. The truncation to seconds enters by one lemma,
`ElapsedSeconds`: truncating does not move the end of a window. `PromisesInv` does the same for Retry-After: a
promise is due at the end of its window or later, and at most a window ahead.

**LruCacheProofs.** `CacheInv` has three parts. `ListInv`: keys and nodes of the list are distinct and the
index is the list turned round. `RoomInv`: what each stage of a put needs, above all that the key put is
out of the list and that there is room once the evictions have stopped; it is what makes
`PutInsert` keep the cap. `CountInv` adds the counters. That eviction is least recently used needs
`RecencyInv`: every entry is among the uses, the list is in the order of the uses, and a key that
lost its entry before its time lies behind `MaxEntries` others (`FarBack`) - during a put, behind one less,
when the key being put is not yet among the uses before it. `LastIsFarBack` is the heart of it: the last
of a full list of distinct keys has been used before all others. Removing an entry and using a key are
described by how the new sequence embeds in the old (`Embeds`). For the refinement, `Store` is what
list and index stand for; the steps inside a put forget or change nothing.

**FailoverProofs.** `BreakerInv`: an open breaker has a rate above the threshold, and a rate is at
most a tenth for each failure counted, because successes only lower it.
`SixFailuresNeeded` assumes that the count is kept up to six at least; the code keeps
it without a bound. `Sheds` says of a decision what OpenBreakerShedsTraffic says of a plan, and has a lemma
for each strategy. They rest on existence: of a finite set of positions there is a k-th (`NthMember`), a cheapest
offer exists whenever one is priced (`CheapestExists`), and the index modulo the number of candidates
picks one although it is negative once it has wrapped. `PoolInv` closes the circle: only registered providers are
planned, hence reported on, hence the health a decision reads is that of finitely many providers and of the
right type.

**ProviderCallsProofs.** `RetryInv`: a thread sleeps only inside a call that has an attempt left, and has
slept `100 * (2^n - 1)` ms before attempt n. With it each step maps to one of Failover or to a stutter.

**GatewayProofs, CostProofs.** `ThreadInv` says which kind of request each stage serves, `IdInv` that ids
are not reused, so that a recorded answer belongs to one request. `BalanceInv` is then inductive:
each step moves one thread from one group of stages to another and adds to at most one counter.
A snapshot compares errors with misses that are read later, and misses never fall (`SnapshotInv`). `HonestInv` follows a
response through the cache: what is stored under a key answers a question with that key. What is left is when two
questions have one key. `PlainTextsDiffer` says that the texts of plain questions with different model, messages
or parameters differ: the model ends at the first "|" (`ModelApart`); each printed message has its only "|" at its
end, so that the joined text can be taken apart from there, message by message (`JoinedApart`, by a smallest counterexample);
and the first ":" ends the role. So a response that answers something else comes from a collision of the hash
or from a question with separators in it, and the run *shared_key* shows that the second does happen. The sum of costs is a recursive
function inside a library operator; CostProofs derives what a sum over a finite set does when an element is
added, removed or changed from the definition, each fact of a smallest set that would contradict it. `HistoryInv` ties the
records of a key to its spending until the history is full.

**AdminProofs.** `AuthInv` ties a record to the tier its key was given out with; from
it follow RevokedStaysRefused, KeysKeepTheirTier and the type. OnlyRevokedAreRefused counts: each
yes of revoke_key takes at most one key of the id out of force, also when its first match was no longer in force.
`SettingsInv` says for each phase of the start which reads and which variables have had their way; the step that
matters is `KeptAtError`: where a read throws, what was applied is what precedes it. `ProvidersInv` says the same
of the list of providers, whose entries variables give keys to. With these,
`AdminInv` shows that only the admin key in force lets anyone in.

**TokenCounterProofs.** For messages of any number and length,
`ExactInv` says that the tokens so far and those the pending word will give are those
the text read so far holds; `PendingStart` finds the beginning of the pending word in the text.

Assumptions on constants, beyond types, and why the code meets them: threads are finitely many (a pool;
`ThreadsAssumption`); the limit of requests is one at least, the default being 60 in windows of 60 s (a limit of 0,
which nothing forbids, is left out), a window and a tick are positive
(`LimitsAssumption`), and an estimate is one token at least (`TokensAssumption`), since count_messages adds 2; no two
raw keys have one hash (`HashAssumption`: std::hash has 64 bits, and create_key would overwrite a record on a collision,
which is left out); ":" and "|" are pieces of text, as is "user", the role of the legacy handler (`PiecesAssumption`,
`QuestionsAssumption`); the key of a request is not the mark for having none; prices and tokens are naturals and the history
holds a record at least (`CostsAssumption`); a response is not the mark for a miss (`MissAssumption`,
`NoResponseAssumption`); a list node can always be allocated (`NodesAssumption`); retries stay below 26, since the
delay in milliseconds would leave the int (`RetriesAssumption`; see the hazard at `base_provider.cpp:64`); the index is an int of at most 32
bits (`IndexAssumption`); the configuration is a finite list (`ConfigsAssumption`); prices are naturals
(`PriceAssumption`); a tenth is a whole number of error units (`ErrorScaleAssumption`); an entry of the file's providers has the
fields the parser gives defaults to (`EntriesAssumption`). TLC evaluates each of them in the runs.

Powers of two (the width of the index, the delays) are known to the provers for literals
only, so that `Powers` and `Doubling` list them; sums and least elements go through a smallest counterexample,
since induction over data is out of reach.

Only model-checked, because fairness and ENABLED are out of the prover's reach: the liveness properties
(RequestAnswered, RoundRobinReachesAll, PutReturns, GatewayStarts, EveryRequestReturns), and of
ImplementsFailover the half that derives the fairness Failover assumes. The violated properties are
counterexamples of TLC.

## Not modelled

The latency window, `savings_usd`, the disabled cache and the listings are read by nothing that
decides anything; the logger is output; the formats of the four providers are data, their
`chat_stream` and `health_check` are called by nothing. Of a key, owner and budget are read by nothing and
`expires_at` is set by nothing. The chat handlers drop the result of authenticate, so that
keys and chat requests do not meet. The signal handler acts below the level of the models. Nothing is
persisted, so that a restart is a new start. The value of a hash is left open. Integer counters of the code are not given a
width, except the round-robin index, whose wrap matters.

## Plan

1. Done: limiter, cache, router and failover, gateway; keys, start-up and administration; retries;
   the token estimate; the cache key as an algorithm, with the questions it tells apart; a theorem for every safety property the runs check and for the safety of both
   refinements.
2. Next: what the calls of Gateway inherit from FailoverProofs and RateLimiterProofs, so that the bounds on
   admissions, tokens and breakers are theorems of the gateway as well; a measure that
   falls with each step of a request, as the safety half of RequestAnswered and EveryRequestReturns.
