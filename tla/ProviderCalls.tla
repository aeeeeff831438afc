--------------------------- MODULE ProviderCalls ---------------------------
(***************************************************************************)
(* What a provider call is made of: with_retry of                          *)
(* src/providers/base_provider.cpp, which the chat of every provider wraps *)
(* around one POST.  A POST that throws is tried again after a sleep that  *)
(* doubles each time; only the exception of the last attempt leaves chat,  *)
(* and only then does the handler of Failover learn of a failure.          *)
(*                                                                         *)
(* Other threads change the health while a thread posts or sleeps.  The    *)
(* HTTP library is external: a POST takes any time and answers or throws.  *)
(***************************************************************************)
EXTENDS Integers, Sequences, FiniteSets

CONSTANTS
    ProviderConfigs, Price, Aliases, ErrorScale, RequestCap, ErrorCap, IndexBits,
    Threads, Registered, Requested, Latencies, StrategyChoices,
    MaxRetries   \* max_retries, the same for every provider

\* A negative count ends in rethrowing no exception, and the delay of a larger
\* one does not fit an int: both undefined, and neither kept out by config.cpp.
ASSUME RetriesAssumption == MaxRetries \in 0..25

VARIABLES
    health, strategy, round_robin_idx, calls, outcome,
    attempt,    \* the loop variable of with_retry, in each thread
    sleeping,   \* the threads in sleep_for
    slept       \* history: milliseconds slept in the call under way

Pool == INSTANCE Failover

poolVars == <<health, strategy, round_robin_idx, calls, outcome>>
retryVars == <<attempt, sleeping, slept>>
vars == <<poolVars, retryVars>>

Posting(t) == Pool!Calling(t) /\ t \notin sleeping

----------------------------------------------------------------------------
Init ==
    /\ Pool!Init
    /\ attempt = [t \in Threads |-> 0]
    /\ sleeping = {}
    /\ slept = [t \in Threads |-> 0]

\* chat returns or throws; the next call starts from attempt 0.
CallOver(t) ==
    /\ attempt' = [attempt EXCEPT ![t] = 0]
    /\ slept' = [slept EXCEPT ![t] = 0]
    /\ UNCHANGED sleeping

Route(t, model) ==
    /\ Pool!Route(t, model)
    /\ UNCHANGED retryVars

\* latency_ms is the time of this POST alone: start is read inside the lambda.
PostSucceeds(t, latency) ==
    /\ Posting(t)
    /\ Pool!CallSucceeds(t, latency)
    /\ CallOver(t)

\* 100 * (1 << attempt)
DelayMs(n) == 100 * 2^n

\* Plausible fault: the loop sleeps after its last attempt too.
RetriesLeftAlways(t) == attempt[t] <= MaxRetries

\* attempt < max_retries_
RetriesLeft(t) == attempt[t] < MaxRetries

\* Plausible fault: the router is told of every attempt that fails.
PostFailsReported(t) ==
    /\ Posting(t) /\ RetriesLeft(t)
    /\ sleeping' = sleeping \cup {t}
    /\ slept' = [slept EXCEPT ![t] = @ + DelayMs(attempt[t])]
    /\ Pool!ReportFailure(Pool!Called(t))
    /\ UNCHANGED <<calls, outcome, attempt>>

\* The catch block, when there is another attempt to come.
PostFails(t) ==
    /\ Posting(t) /\ RetriesLeft(t)
    /\ sleeping' = sleeping \cup {t}
    /\ slept' = [slept EXCEPT ![t] = @ + DelayMs(attempt[t])]
    /\ UNCHANGED <<poolVars, attempt>>

WakeUp(t) ==
    /\ t \in sleeping
    /\ sleeping' = sleeping \ {t}
    /\ attempt' = [attempt EXCEPT ![t] = @ + 1]
    /\ UNCHANGED <<poolVars, slept>>

\* rethrow_exception(last_ex): the handler's catch reports the failure.
LastPostFails(t) ==
    /\ Posting(t) /\ ~RetriesLeft(t)
    /\ Pool!CallFails(t)
    /\ CallOver(t)

AdminSetStrategy(s) ==
    /\ Pool!AdminSetStrategy(s)
    /\ UNCHANGED retryVars

PostEnds(t) ==
    \/ \E l \in Latencies : PostSucceeds(t, l)
    \/ PostFails(t)
    \/ LastPostFails(t)

Next ==
    \/ \E t \in Threads, model \in Requested : Route(t, model)
    \/ \E t \in Threads, l \in Latencies : PostSucceeds(t, l)
    \/ \E t \in Threads : PostFails(t)
    \/ \E t \in Threads : WakeUp(t)
    \/ \E t \in Threads : LastPostFails(t)
    \/ \E s \in StrategyChoices : AdminSetStrategy(s)

Spec == Init /\ [][Next]_vars

\* A POST ends, as its client has a connection and a read timeout, and a sleep
\* ends; clients keep asking.
BusySpec ==
    /\ Spec
    /\ \A t \in Threads : /\ WF_vars(PostEnds(t))
                          /\ WF_vars(WakeUp(t))
                          /\ WF_vars(\E model \in Requested : Route(t, model))

----------------------------------------------------------------------------
\* A call makes at most MaxRetries + 1 attempts, and sleeps between any two of
\* them, each time twice as long as before, but not after the last: so the time
\* a request waits in a call that fails is known, and none of it is in vain.
SleepsAddUp ==
    \A t \in Threads :
        /\ attempt[t] <= MaxRetries
        /\ slept[t] = 100 * (2^(attempt[t] + (IF t \in sleeping THEN 1 ELSE 0)) - 1)
        /\ slept[t] <= 100 * (2^MaxRetries - 1)
        /\ ~Pool!Calling(t) => slept[t] = 0

\* Calls with retries are the calls of Failover, which succeed or fail in one
\* step: no attempt but the last reaches the router, no sleeping thread is
\* reported on, and every call returns, as Failover's fairness takes for granted.
ImplementsFailover == Pool!FairSpec

\* Every request that reaches a provider is answered, through all the retries
\* of all the calls of its plan.
RequestAnswered == Pool!RequestAnswered

\* Round robin still starves nobody when calls are held up by retries.
RoundRobinReachesAll == Pool!RoundRobinReachesAll
=============================================================================
