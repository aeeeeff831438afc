---------------------------- MODULE RateLimiter ----------------------------
(***************************************************************************)
(* The per-key fixed-window limiter of src/middleware/rate_limiter.cpp,    *)
(* driven by the request handlers as src/api/chat_completions.cpp drives   *)
(* it: a request is checked before it is served, and the tokens it used    *)
(* are recorded after the provider has answered, possibly in a later       *)
(* window.  Every operation holds mu_, so each one is a single action.     *)
(*                                                                         *)
(* Time is counted in ticks, TicksPerSec of them in a second: the code     *)
(* truncates durations to whole seconds.  check_request reads the clock    *)
(* a second time when it rejects, up to MaxStall ticks after the first.    *)
(***************************************************************************)
EXTENDS Integers, FiniteSets

CONSTANTS
    Keys,         \* Authorization header values
    Threads,      \* requests served concurrently
    NoKey,        \* a thread that serves no admitted request
    Rpm, Tpm,     \* default_rpm and default_tpm of the configuration
    Window,       \* the length of a window in seconds, 60 in the code
    TicksPerSec,
    Estimates,    \* what TokenCounter::count_messages returns
    MaxTok,       \* bound on the tokens of one provider answer
    MaxStall,     \* bound on the ticks between two clock reads of a check
    MaxTime       \* bound on the clock

ASSUME ThreadsAssumption == IsFiniteSet(Threads) /\ NoKey \notin Keys
ASSUME LimitsAssumption == /\ Rpm \in Nat \ {0} /\ Tpm \in Nat
                           /\ Window \in Nat \ {0} /\ TicksPerSec \in Nat \ {0}
\* count_messages adds 2 to its sum, so an estimate is never 0 on this path.
ASSUME TokensAssumption == Estimates \subseteq Nat \ {0} /\ MaxTok \in Nat
ASSUME TimeAssumption == MaxStall \in Nat /\ MaxTime \in Nat

VARIABLES
    buckets,    \* buckets_: the keys seen so far and their bucket
    inflight,   \* the key of the admitted request a thread serves, or NoKey
    now,        \* the clock
    admitted,   \* history: the admissions of each key
    promises    \* history: the last Retry-After each key was given

vars == <<buckets, inflight, now, admitted, promises>>

WindowTicks == Window * TicksPerSec

Bucket == [requests_count : Nat, tokens_count : Nat, window_start : Nat]

\* An admission: the window it was counted in, its number there, its time.
Admission == [window : Nat, nth : Nat \ {0}, at : Nat]

Serving(k) == {t \in Threads : inflight[t] = k}

----------------------------------------------------------------------------
\* get_bucket: a key's bucket is created the first time it is used.
GetBucket(k) ==
    IF k \in DOMAIN buckets THEN buckets[k]
    ELSE [requests_count |-> 0, tokens_count |-> 0, window_start |-> now]

\* Plausible fault: a window that closes one second early.
ResetIfExpiredEarly(b) ==
    IF (now - b.window_start) \div TicksPerSec >= Window - 1
    THEN [requests_count |-> 0, tokens_count |-> 0, window_start |-> now]
    ELSE b

\* reset_if_expired
ResetIfExpired(b) ==
    IF (now - b.window_start) \div TicksPerSec >= Window
    THEN [requests_count |-> 0, tokens_count |-> 0, window_start |-> now]
    ELSE b

CurrentBucket(k) == ResetIfExpired(GetBucket(k))

SetBucket(k, b) ==
    buckets' = [j \in DOMAIN buckets \cup {k} |-> IF j = k THEN b ELSE buckets[j]]

\* Plausible fault: the limit compared with > instead of >=.
OverRpmOffByOne(b) == b.requests_count > Rpm

\* The two reasons for which check_request refuses a request.
OverRpm(b) == b.requests_count >= Rpm

\* Plausible fault: the estimate checked without the tokens already used.
OverTpmIgnoringUsage(b, est) == est > Tpm

OverTpm(b, est) == est > 0 /\ b.tokens_count + est > Tpm

\* Plausible fault: elapsed time rounded up instead of truncated.
RetryAfterRounded(b, second_now) ==
    LET left == Window - (second_now - b.window_start + TicksPerSec - 1)
                            \div TicksPerSec
    IN  IF left > 1 THEN left ELSE 1

RetryAfter(b, second_now) ==
    LET left == Window - (second_now - b.window_start) \div TicksPerSec
    IN  IF left > 1 THEN left ELSE 1

----------------------------------------------------------------------------
Init ==
    /\ buckets = [k \in {} |-> 0]
    /\ inflight = [t \in Threads |-> NoKey]
    /\ now = 0
    /\ admitted = [k \in Keys |-> {}]
    /\ promises = [k \in {} |-> 0]

\* check_request lets the request through and the handler goes on serving it.
Admit(t, k, est) ==
    LET b == CurrentBucket(k)
    IN  /\ inflight[t] = NoKey
        /\ ~OverRpm(b) /\ ~OverTpm(b, est)
        /\ SetBucket(k, [b EXCEPT !.requests_count = @ + 1])
        /\ inflight' = [inflight EXCEPT ![t] = k]
        /\ admitted' = [admitted EXCEPT ![k] = @ \cup
                {[window |-> b.window_start, nth |-> b.requests_count + 1,
                  at |-> now]}]
        /\ UNCHANGED <<now, promises>>

\* check_request refuses it: the handler answers 429 with Retry-After.
Reject(t, k, est, stall) ==
    LET b == CurrentBucket(k)
        second_now == now + stall
    IN  /\ inflight[t] = NoKey
        /\ OverRpm(b) \/ OverTpm(b, est)
        /\ second_now <= MaxTime
        /\ now' = second_now
        /\ SetBucket(k, b)
        /\ promises' = [j \in DOMAIN promises \cup {k} |->
                IF j = k
                THEN [window |-> b.window_start,
                      due |-> second_now + RetryAfter(b, second_now) * TicksPerSec]
                ELSE promises[j]]
        /\ UNCHANGED <<inflight, admitted>>

\* Plausible fault: the counter kept as what remains of the limit.
RecordTokensAsRemaining(t, tokens) ==
    LET k == inflight[t]
        b == GetBucket(k)
    IN  /\ k # NoKey
        /\ SetBucket(k, [b EXCEPT !.tokens_count = @ - tokens])
        /\ inflight' = [inflight EXCEPT ![t] = NoKey]
        /\ UNCHANGED <<now, admitted, promises>>

\* record_tokens, after a provider has answered.  It does not look at the
\* window: late tokens count in whatever window the bucket holds.
RecordTokens(t, tokens) ==
    LET k == inflight[t]
        b == GetBucket(k)
    IN  /\ k # NoKey
        /\ SetBucket(k, [b EXCEPT !.tokens_count = @ + tokens])
        /\ inflight' = [inflight EXCEPT ![t] = NoKey]
        /\ UNCHANGED <<now, admitted, promises>>

\* A request that used no tokens: a cache hit, a 502 or a 503.
Finish(t) ==
    /\ inflight[t] # NoKey
    /\ inflight' = [inflight EXCEPT ![t] = NoKey]
    /\ UNCHANGED <<buckets, now, admitted, promises>>

\* reset: the bucket is forgotten, and with it what the key was granted.
Reset(k) ==
    /\ k \in DOMAIN buckets
    /\ buckets' = [j \in DOMAIN buckets \ {k} |-> buckets[j]]
    /\ admitted' = [admitted EXCEPT ![k] = {}]
    /\ promises' = [j \in DOMAIN promises \ {k} |-> promises[j]]
    /\ UNCHANGED <<inflight, now>>

Tick ==
    /\ now < MaxTime
    /\ now' = now + 1
    /\ UNCHANGED <<buckets, inflight, admitted, promises>>

Next ==
    \/ \E t \in Threads, k \in Keys, est \in Estimates : Admit(t, k, est)
    \/ \E t \in Threads, k \in Keys, est \in Estimates, d \in 0..MaxStall :
          Reject(t, k, est, d)
    \/ \E t \in Threads, tokens \in 0..MaxTok : RecordTokens(t, tokens)
    \/ \E t \in Threads : Finish(t)
    \/ \E k \in Keys : Reset(k)
    \/ Tick

Spec == Init /\ [][Next]_vars

----------------------------------------------------------------------------
\* The types of the variables; buckets and promises are partial functions,
\* as buckets_ is a map that holds the keys seen so far.
TypeOK ==
    /\ DOMAIN buckets \subseteq Keys
    /\ buckets \in [DOMAIN buckets -> Bucket]
    /\ inflight \in [Threads -> Keys \cup {NoKey}]
    /\ now \in Nat
    /\ admitted \in [Keys -> SUBSET Admission]
    /\ DOMAIN promises \subseteq DOMAIN buckets
    /\ promises \in [DOMAIN promises -> [window : Nat, due : Nat]]

\* Between two calls of reset, no stretch of time as long as a window ever
\* sees more than twice Rpm admissions of a key: the price of fixed windows
\* is a burst on each side of an edge, and no sequence of checks, late clock
\* reads and window resets of check_request makes it worse.
AtMostTwoWindowsOfRequests ==
    \A k \in Keys : \A a \in admitted[k] :
        Cardinality({b \in admitted[k] :
            a.at <= b.at /\ b.at < a.at + WindowTicks}) <= 2 * Rpm

\* A window holds at most Rpm admissions, however many threads check at once,
\* and requests_count is their number: none is lost and none counted twice.
RequestsCountIsExact ==
    \A k \in DOMAIN buckets :
        Cardinality({a \in admitted[k] : a.window = buckets[k].window_start})
            = buckets[k].requests_count
        /\ buckets[k].requests_count <= Rpm

\* Tokens are recorded after the fact, so tokens_count may pass Tpm, but only
\* by what the requests in flight when the limit was reached still add: a key
\* never holds more than Tpm plus one answer per thread.
TokenOvershootBounded ==
    \A k \in DOMAIN buckets :
        buckets[k].tokens_count + MaxTok * Cardinality(Serving(k))
            <= Tpm + MaxTok * Cardinality(Threads)

\* A client that waits for the Retry-After it was given is never refused on
\* account of the window that refused it: by then that window has been
\* replaced, or the next check will replace it.  Retry-After never exceeds
\* a whole window after the clock read it is computed from.
RetryAfterSuffices ==
    \A k \in DOMAIN promises :
        /\ now >= promises[k].due =>
              \/ buckets[k].window_start > promises[k].window
              \/ now - buckets[k].window_start >= WindowTicks
        /\ promises[k].due <= now + WindowTicks
=============================================================================
