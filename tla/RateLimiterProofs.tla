------------------------- MODULE RateLimiterProofs -------------------------
(***************************************************************************)
(* Theorems about RateLimiter, for every number of keys and threads, every *)
(* limit, window and clock resolution.                                     *)
(***************************************************************************)
EXTENDS RateLimiter, FiniteSetTheorems, TLAPS

\* Truncating to whole seconds does not move the end of a window.
LEMMA ElapsedSeconds ==
    ASSUME NEW x \in Int, NEW d \in Nat \ {0}, NEW n \in Int
    PROVE  ((x \div d) >= n) <=> (x >= n * d)
  BY SMT

LEMMA WindowTicksType == WindowTicks \in Nat \ {0}
  BY LimitsAssumption DEF WindowTicks

\* What check_request and record_tokens find in a key's bucket.
LEMMA BucketTypes ==
    ASSUME TypeOK, NEW k \in Keys
    PROVE  /\ GetBucket(k) \in Bucket
           /\ CurrentBucket(k) \in Bucket
  BY DEF TypeOK, GetBucket, CurrentBucket, ResetIfExpired, Bucket

\* A bucket put back leaves the other keys' buckets alone.
LEMMA SetBucketTypes ==
    ASSUME TypeOK, NEW k \in Keys, NEW b \in Bucket, SetBucket(k, b)
    PROVE  /\ DOMAIN buckets' = DOMAIN buckets \cup {k}
           /\ DOMAIN buckets' \subseteq Keys
           /\ buckets' \in [DOMAIN buckets' -> Bucket]
           /\ buckets'[k] = b
           /\ \A j \in DOMAIN buckets \ {k} : buckets'[j] = buckets[j]
  BY DEF TypeOK, SetBucket

LEMMA RetryAfterType ==
    ASSUME NEW b \in Bucket, NEW n \in Nat
    PROVE  RetryAfter(b, n) \in Nat
<1> DEFINE left == Window - (n - b.window_start) \div TicksPerSec
<1>1. (n - b.window_start) \div TicksPerSec \in Int
  BY LimitsAssumption DEF Bucket
<1>2. left \in Int
  BY <1>1, LimitsAssumption
<1>3. RetryAfter(b, n) = IF left > 1 THEN left ELSE 1
  BY DEF RetryAfter
<1> HIDE DEF left
<1> QED BY <1>2, <1>3

\* Type correctness: no operation ever leaves a bucket, a promise or an
\* admission malformed, a negative count included.
THEOREM TypeCorrect == Spec => []TypeOK
<1>1. Init => TypeOK
  BY DEF Init, TypeOK
<1>2. TypeOK /\ [Next]_vars => TypeOK'
  <2> SUFFICES ASSUME TypeOK, [Next]_vars PROVE TypeOK'
    OBVIOUS
  <2> USE ThreadsAssumption, LimitsAssumption, TokensAssumption, TimeAssumption
  <2>1. ASSUME NEW t \in Threads, NEW k \in Keys, NEW est \in Estimates, Admit(t, k, est)
        PROVE  TypeOK'
    <3> DEFINE b == CurrentBucket(k)
               c == [b EXCEPT !.requests_count = @ + 1]
               a == [window |-> b.window_start, nth |-> b.requests_count + 1, at |-> now]
    <3>1. b \in Bucket
      BY BucketTypes
    <3>2. c \in Bucket /\ a \in Admission
      BY <3>1 DEF Bucket, Admission, TypeOK
    <3>3. SetBucket(k, c)
      BY <2>1 DEF Admit
    <3>4. admitted' = [admitted EXCEPT ![k] = @ \cup {a}]
      BY <2>1 DEF Admit
    <3>5. inflight' = [inflight EXCEPT ![t] = k] /\ UNCHANGED <<now, promises>>
      BY <2>1 DEF Admit
    <3> HIDE DEF a, b, c
    <3>6. admitted' \in [Keys -> SUBSET Admission]
      BY <3>2, <3>4 DEF TypeOK
    <3> QED BY <3>2, <3>3, <3>5, <3>6, SetBucketTypes DEF TypeOK
  <2>2. ASSUME NEW t \in Threads, NEW k \in Keys, NEW est \in Estimates,
               NEW d \in 0..MaxStall, Reject(t, k, est, d)
        PROVE  TypeOK'
    <3> DEFINE b == CurrentBucket(k)
               n == now + d
               p == [window |-> b.window_start,
                     due |-> n + RetryAfter(b, n) * TicksPerSec]
    <3>1. b \in Bucket /\ n \in Nat
      BY BucketTypes DEF TypeOK
    <3>2. RetryAfter(b, n) \in Nat
      BY <3>1, RetryAfterType
    <3>3. p \in [window : Nat, due : Nat]
      BY <3>1, <3>2 DEF Bucket
    <3>4. /\ SetBucket(k, b) /\ now' = n
          /\ promises' = [j \in DOMAIN promises \cup {k} |-> IF j = k THEN p ELSE promises[j]]
          /\ UNCHANGED <<inflight, admitted>>
      BY <2>2 DEF Reject
    <3> HIDE DEF b, n, p
    <3>5. /\ DOMAIN buckets' = DOMAIN buckets \cup {k}
          /\ DOMAIN buckets' \subseteq Keys
          /\ buckets' \in [DOMAIN buckets' -> Bucket]
      BY <3>1, <3>4, SetBucketTypes
    <3>6. DOMAIN promises' \subseteq DOMAIN buckets'
      BY <3>4, <3>5 DEF TypeOK
    <3>7. promises' \in [DOMAIN promises' -> [window : Nat, due : Nat]]
      BY <3>3, <3>4 DEF TypeOK
    <3>8. now' \in Nat /\ UNCHANGED <<inflight, admitted>>
      BY <3>1, <3>4
    <3> QED BY <3>5, <3>6, <3>7, <3>8 DEF TypeOK
  <2>3. ASSUME NEW t \in Threads, NEW tokens \in 0..MaxTok, RecordTokens(t, tokens)
        PROVE  TypeOK'
    <3> DEFINE k == inflight[t]
               b == GetBucket(k)
               c == [b EXCEPT !.tokens_count = @ + tokens]
    <3>1. k \in Keys
      BY <2>3 DEF RecordTokens, TypeOK
    <3>2. b \in Bucket
      BY <3>1, BucketTypes
    <3>3. c \in Bucket
      BY <3>2 DEF Bucket
    <3>4. /\ SetBucket(k, c) /\ inflight' = [inflight EXCEPT ![t] = NoKey]
          /\ UNCHANGED <<now, admitted, promises>>
      BY <2>3 DEF RecordTokens
    <3> HIDE DEF k, b, c
    <3> QED BY <3>1, <3>3, <3>4, SetBucketTypes DEF TypeOK
  <2>4. ASSUME NEW t \in Threads, Finish(t) PROVE TypeOK'
    BY <2>4 DEF Finish, TypeOK
  <2>5. ASSUME NEW k \in Keys, Reset(k) PROVE TypeOK'
    BY <2>5 DEF Reset, TypeOK
  <2>6. ASSUME Tick PROVE TypeOK'
    BY <2>6 DEF Tick, TypeOK
  <2>7. ASSUME UNCHANGED vars PROVE TypeOK'
    BY <2>7 DEF vars, TypeOK
  <2> QED BY <2>1, <2>2, <2>3, <2>4, <2>5, <2>6, <2>7 DEF Next
<1> QED BY <1>1, <1>2, PTL DEF Spec

----------------------------------------------------------------------------
(* Tokens.  The bound is inductive: an admission happens at most at Tpm, and  *)
(* from there each recording trades one request in flight for its tokens.     *)

LEMMA ProductMonotonic ==
    ASSUME NEW m \in Nat, NEW x \in Nat, NEW y \in Nat, x <= y
    PROVE  m * x \in Nat /\ m * y \in Nat /\ m * x <= m * y
  BY Z3

LEMMA ProductOneLess ==
    ASSUME NEW m \in Nat, NEW x \in Nat \ {0}
    PROVE  m * (x - 1) = m * x - m
  BY Z3

\* No key has more requests in flight than there are threads.
LEMMA ServingBound ==
    ASSUME NEW k \in Keys
    PROVE  /\ IsFiniteSet(Serving(k)) /\ Cardinality(Serving(k)) \in Nat
           /\ Cardinality(Threads) \in Nat
           /\ MaxTok * Cardinality(Serving(k)) \in Nat
           /\ MaxTok * Cardinality(Threads) \in Nat
           /\ MaxTok * Cardinality(Serving(k)) <= MaxTok * Cardinality(Threads)
<1>1. Serving(k) \in SUBSET Threads
  BY DEF Serving
<1>2. /\ IsFiniteSet(Serving(k)) /\ Cardinality(Serving(k)) \in Nat
      /\ Cardinality(Threads) \in Nat /\ Cardinality(Serving(k)) <= Cardinality(Threads)
  BY <1>1, ThreadsAssumption, FS_Subset, FS_CardinalityType
<1> QED BY <1>2, ProductMonotonic, TokensAssumption

\* The bound also holds of a bucket about to be created or reset.
LEMMA TokensOfBucket ==
    ASSUME TypeOK, TokenOvershootBounded, NEW k \in Keys
    PROVE  /\ GetBucket(k).tokens_count + MaxTok * Cardinality(Serving(k))
                  <= Tpm + MaxTok * Cardinality(Threads)
           /\ CurrentBucket(k).tokens_count + MaxTok * Cardinality(Serving(k))
                  <= Tpm + MaxTok * Cardinality(Threads)
<1>1. 0 + MaxTok * Cardinality(Serving(k)) <= Tpm + MaxTok * Cardinality(Threads)
  BY ServingBound, LimitsAssumption
<1>2. GetBucket(k).tokens_count = 0 \/ (k \in DOMAIN buckets /\ GetBucket(k) = buckets[k])
  BY DEF GetBucket
<1>3. GetBucket(k).tokens_count + MaxTok * Cardinality(Serving(k))
          <= Tpm + MaxTok * Cardinality(Threads)
  BY <1>1, <1>2 DEF TokenOvershootBounded
<1>4. CurrentBucket(k).tokens_count = 0 \/ CurrentBucket(k) = GetBucket(k)
  BY DEF CurrentBucket, ResetIfExpired
<1> QED BY <1>1, <1>3, <1>4

\* However many threads serve a key, and however late they record what they
\* used, its window holds at most Tpm tokens and one answer per thread.
THEOREM TokensBounded == Spec => []TokenOvershootBounded
<1>1. Init => TokenOvershootBounded
  BY DEF Init, TokenOvershootBounded
<1>2. TypeOK /\ TokenOvershootBounded /\ [Next]_vars => TokenOvershootBounded'
  <2> SUFFICES ASSUME TypeOK, TokenOvershootBounded, [Next]_vars,
                      NEW j \in DOMAIN buckets'
               PROVE  buckets'[j].tokens_count + MaxTok * Cardinality(Serving(j)')
                          <= Tpm + MaxTok * Cardinality(Threads)
    BY DEF TokenOvershootBounded
  <2> DEFINE Bounded(n, S) == n + MaxTok * Cardinality(S) <= Tpm + MaxTok * Cardinality(Threads)
  <2>0. j \in DOMAIN buckets => j \in Keys /\ Bounded(buckets[j].tokens_count, Serving(j))
    BY DEF TokenOvershootBounded, TypeOK
  <2>1. ASSUME NEW t \in Threads, NEW k \in Keys, NEW est \in Estimates, Admit(t, k, est)
        PROVE  Bounded(buckets'[j].tokens_count, Serving(j)')
    <3> DEFINE b == CurrentBucket(k)
               c == [b EXCEPT !.requests_count = @ + 1]
    <3>1. b \in Bucket
      BY BucketTypes
    <3>2. c \in Bucket /\ c.tokens_count = b.tokens_count
      BY <3>1 DEF Bucket
    <3>3. SetBucket(k, c) /\ ~OverTpm(b, est) /\ inflight' = [inflight EXCEPT ![t] = k]
          /\ inflight[t] = NoKey
      BY <2>1 DEF Admit
    <3>4. b.tokens_count <= Tpm /\ b.tokens_count \in Nat
      BY <3>1, <3>3, TokensAssumption, LimitsAssumption DEF OverTpm, Bucket
    <3> HIDE DEF b, c
    <3>5. CASE j = k
      <4>1. buckets'[j].tokens_count = b.tokens_count
        BY <3>2, <3>3, <3>5, SetBucketTypes
      <4>2. Serving(j)' \in SUBSET Threads
        BY DEF Serving
      <4>3. Cardinality(Serving(j)') \in Nat /\ Cardinality(Threads) \in Nat
            /\ Cardinality(Serving(j)') <= Cardinality(Threads)
        BY <4>2, ThreadsAssumption, FS_Subset, FS_CardinalityType
      <4>4. /\ MaxTok * Cardinality(Serving(j)') \in Nat
            /\ MaxTok * Cardinality(Threads) \in Nat
            /\ MaxTok * Cardinality(Serving(j)') <= MaxTok * Cardinality(Threads)
        BY <4>3, ProductMonotonic, TokensAssumption
      <4> QED BY <3>4, <4>1, <4>4, LimitsAssumption
    <3>6. CASE j # k
      <4>1. j \in DOMAIN buckets /\ buckets'[j] = buckets[j]
        BY <3>2, <3>3, <3>6, SetBucketTypes
      <4>2. Serving(j)' = Serving(j)
        BY <2>0, <3>3, <3>6, <4>1, ThreadsAssumption DEF Serving, TypeOK
      <4> QED BY <2>0, <4>1, <4>2
    <3> QED BY <3>5, <3>6
  <2>2. ASSUME NEW t \in Threads, NEW k \in Keys, NEW est \in Estimates,
               NEW d \in 0..MaxStall, Reject(t, k, est, d)
        PROVE  Bounded(buckets'[j].tokens_count, Serving(j)')
    <3> DEFINE b == CurrentBucket(k)
    <3>1. SetBucket(k, b)
      BY <2>2 DEF Reject
    <3>2. b \in Bucket
      BY BucketTypes
    <3>3. Bounded(b.tokens_count, Serving(k)) /\ Serving(j)' = Serving(j)
      BY <2>2, TokensOfBucket DEF Reject, Serving
    <3> HIDE DEF b
    <3>4. /\ DOMAIN buckets' = DOMAIN buckets \cup {k}
          /\ buckets'[k] = b
          /\ \A i \in DOMAIN buckets \ {k} : buckets'[i] = buckets[i]
      BY <3>1, <3>2, SetBucketTypes
    <3>5. CASE j = k
      BY <3>3, <3>4, <3>5
    <3>6. CASE j # k
      <4>1. j \in DOMAIN buckets /\ buckets'[j] = buckets[j]
        BY <3>4, <3>6
      <4> QED BY <2>0, <3>3, <4>1
    <3> QED BY <3>5, <3>6
  <2>3. ASSUME NEW t \in Threads, NEW tokens \in 0..MaxTok, RecordTokens(t, tokens)
        PROVE  Bounded(buckets'[j].tokens_count, Serving(j)')
    <3> DEFINE k == inflight[t]
               b == GetBucket(k)
               c == [b EXCEPT !.tokens_count = @ + tokens]
    <3>1. k \in Keys /\ t \in Serving(k)
      BY <2>3 DEF RecordTokens, TypeOK, Serving
    <3>2. b \in Bucket
      BY <3>1, BucketTypes
    <3>3. c \in Bucket /\ c.tokens_count = b.tokens_count + tokens
      BY <3>2, TokensAssumption DEF Bucket
    <3>4. SetBucket(k, c) /\ inflight' = [inflight EXCEPT ![t] = NoKey]
      BY <2>3 DEF RecordTokens
    <3>5. Bounded(b.tokens_count, Serving(k))
      BY <3>1, TokensOfBucket
    <3>6. b.tokens_count \in Nat
      BY <3>2 DEF Bucket
    <3>7. \A i \in Keys : Serving(i)' = IF i = k THEN Serving(i) \ {t} ELSE Serving(i)
      BY <3>1, <3>4, ThreadsAssumption DEF Serving, TypeOK
    <3> HIDE DEF b, c, k
    <3>8. CASE j = k
      <4>1. buckets'[j].tokens_count = b.tokens_count + tokens
        BY <3>1, <3>3, <3>4, <3>8, SetBucketTypes
      <4>2. /\ Cardinality(Serving(j)') = Cardinality(Serving(k)) - 1
            /\ Cardinality(Serving(k)) \in Nat \ {0}
        BY <3>1, <3>7, <3>8, ServingBound, FS_RemoveElement, FS_EmptySet
      <4>3. MaxTok * Cardinality(Serving(j)') = MaxTok * Cardinality(Serving(k)) - MaxTok
        BY <4>2, ProductOneLess, TokensAssumption
      <4>4. MaxTok * Cardinality(Serving(k)) \in Nat /\ MaxTok * Cardinality(Threads) \in Nat
        BY <3>1, ServingBound
      <4> QED BY <3>5, <3>6, <4>1, <4>3, <4>4, TokensAssumption, LimitsAssumption
    <3>9. CASE j # k
      <4>1. j \in DOMAIN buckets /\ buckets'[j] = buckets[j]
        BY <3>1, <3>3, <3>4, <3>9, SetBucketTypes
      <4> QED BY <2>0, <3>7, <3>9, <4>1
    <3> QED BY <3>8, <3>9
  <2>4. ASSUME NEW t \in Threads, Finish(t)
        PROVE  Bounded(buckets'[j].tokens_count, Serving(j)')
    <3>1. j \in Keys /\ buckets'[j] = buckets[j] /\ j \in DOMAIN buckets
      BY <2>0, <2>4 DEF Finish
    <3>2. Serving(j)' \in SUBSET Serving(j)
      BY <2>4, <3>1, ThreadsAssumption DEF Finish, Serving, TypeOK
    <3>3. Cardinality(Serving(j)') \in Nat /\ Cardinality(Serving(j)') <= Cardinality(Serving(j))
      BY <3>1, <3>2, ServingBound, FS_Subset, FS_CardinalityType
    <3>4. /\ MaxTok * Cardinality(Serving(j)') \in Nat
          /\ MaxTok * Cardinality(Serving(j)') <= MaxTok * Cardinality(Serving(j))
      BY <3>1, <3>3, ServingBound, ProductMonotonic, TokensAssumption
    <3>5. /\ MaxTok * Cardinality(Serving(j)) \in Nat /\ MaxTok * Cardinality(Threads) \in Nat
          /\ buckets[j].tokens_count \in Nat
      BY <3>1, ServingBound DEF TypeOK, Bucket
    <3> QED BY <2>0, <3>1, <3>4, <3>5, LimitsAssumption
  <2>5. ASSUME NEW k \in Keys, Reset(k)
        PROVE  Bounded(buckets'[j].tokens_count, Serving(j)')
    BY <2>0, <2>5 DEF Reset, Serving
  <2>6. ASSUME Tick \/ UNCHANGED vars
        PROVE  Bounded(buckets'[j].tokens_count, Serving(j)')
    BY <2>0, <2>6 DEF Tick, vars, Serving
  <2> QED BY <2>1, <2>2, <2>3, <2>4, <2>5, <2>6 DEF Next
<1> QED BY <1>1, <1>2, TypeCorrect, PTL DEF Spec

----------------------------------------------------------------------------
(* Requests.  requests_count is the number of admissions of the bucket's      *)
(* window; windows of a key are at least WindowTicks apart, and admissions lie*)
(* inside their window.  Then no stretch of WindowTicks meets three windows.  *)

\* The admissions of a key in one window.
Counted(k, w) == {a \in admitted[k] : a.window = w}

\* Admissions lie in their windows, and the windows do not overlap.
InWindows(A) ==
    /\ \A a \in A : a.window <= a.at /\ a.at < a.window + WindowTicks
    /\ \A a, b \in A : a.window < b.window => a.window + WindowTicks <= b.window

\* The bucket agrees with the admissions, all of this window or an earlier one.
AgreesWith(b, k) ==
    /\ b.window_start <= now
    /\ \A a \in admitted[k] : \/ a.window = b.window_start
                              \/ a.window + WindowTicks <= b.window_start
    /\ \A a \in admitted[k] : a.window = b.window_start => a.nth <= b.requests_count
    /\ Cardinality(Counted(k, b.window_start)) = b.requests_count
    /\ b.requests_count <= Rpm

KeyInv(k) ==
    /\ IsFiniteSet(admitted[k])
    /\ k \notin DOMAIN buckets => admitted[k] = {}
    /\ InWindows(admitted[k])
    /\ \A w \in Nat : Cardinality(Counted(k, w)) <= Rpm
    /\ k \in DOMAIN buckets => AgreesWith(buckets[k], k)

WindowInv == \A k \in Keys : KeyInv(k)

\* After get_bucket and reset_if_expired, the bucket is the one of a window
\* that is still open.
LEMMA CurrentBucketAgrees ==
    ASSUME TypeOK, NEW k \in Keys, KeyInv(k)
    PROVE  /\ AgreesWith(CurrentBucket(k), k)
           /\ now < CurrentBucket(k).window_start + WindowTicks
<1> DEFINE g == GetBucket(k)
           b == CurrentBucket(k)
<1>1. now \in Nat /\ WindowTicks \in Nat \ {0} /\ g \in Bucket /\ Rpm \in Nat
  BY WindowTicksType, BucketTypes, LimitsAssumption DEF TypeOK
<1>2. \A a \in admitted[k] : a.window \in Nat
  BY DEF TypeOK, Admission
<1>3. (now - g.window_start) \div TicksPerSec >= Window
         <=> now - g.window_start >= WindowTicks
  BY <1>1, ElapsedSeconds, LimitsAssumption DEF WindowTicks, Bucket
<1>4. CASE k \notin DOMAIN buckets
  <2>1. g = [requests_count |-> 0, tokens_count |-> 0, window_start |-> now]
    BY <1>4 DEF GetBucket
  <2>2. b = g
    BY <2>1 DEF CurrentBucket, ResetIfExpired
  <2>3. admitted[k] = {}
    BY <1>4 DEF KeyInv
  <2>4. Counted(k, now) = {}
    BY <2>3 DEF Counted
  <2>5. Cardinality(Counted(k, now)) = 0
    BY <2>4, FS_EmptySet
  <2>6. b.window_start = now /\ b.requests_count = 0
    BY <2>1, <2>2
  <2> HIDE DEF b, g
  <2>7. AgreesWith(b, k)
    BY <1>1, <2>3, <2>5, <2>6 DEF AgreesWith
  <2>8. now < b.window_start + WindowTicks
    BY <1>1, <2>6
  <2> QED BY <2>7, <2>8 DEF b
<1>5. CASE k \in DOMAIN buckets /\ now - g.window_start >= WindowTicks
  <2>1. b = [requests_count |-> 0, tokens_count |-> 0, window_start |-> now]
    BY <1>3, <1>5 DEF CurrentBucket, ResetIfExpired
  <2>2. g = buckets[k] /\ AgreesWith(g, k)
    BY <1>5 DEF GetBucket, KeyInv
  <2>3. \A a \in admitted[k] : a.window + WindowTicks <= now
    BY <1>1, <1>2, <1>5, <2>2 DEF AgreesWith, Bucket
  <2>4. Counted(k, now) = {}
    BY <1>1, <1>2, <2>3 DEF Counted
  <2>5. Cardinality(Counted(k, now)) = 0
    BY <2>4, FS_EmptySet
  <2>6. b.window_start = now /\ b.requests_count = 0
    BY <2>1
  <2>7. \A a \in admitted[k] : a.window # now
    BY <1>1, <1>2, <2>3
  <2> HIDE DEF b, g
  <2>8. AgreesWith(b, k)
    BY <1>1, <2>3, <2>5, <2>6, <2>7 DEF AgreesWith
  <2>9. now < b.window_start + WindowTicks
    BY <1>1, <2>6
  <2> QED BY <2>8, <2>9 DEF b
<1>6. CASE k \in DOMAIN buckets /\ ~(now - g.window_start >= WindowTicks)
  <2>1. g = buckets[k] /\ b = g
    BY <1>3, <1>6 DEF CurrentBucket, ResetIfExpired, GetBucket
  <2>2. AgreesWith(g, k)
    BY <1>6, <2>1 DEF KeyInv
  <2>3. now < g.window_start + WindowTicks
    BY <1>1, <1>6 DEF Bucket
  <2> QED BY <2>1, <2>2, <2>3
<1> QED BY <1>4, <1>5, <1>6

\* A key whose bucket and admissions stay is not disturbed by time.
LEMMA KeyUndisturbed ==
    ASSUME TypeOK, NEW k \in Keys, KeyInv(k), now' \in Nat, now <= now',
           admitted'[k] = admitted[k],
           k \in DOMAIN buckets' <=> k \in DOMAIN buckets,
           k \in DOMAIN buckets => /\ buckets'[k].window_start = buckets[k].window_start
                                   /\ buckets'[k].requests_count = buckets[k].requests_count
    PROVE  KeyInv(k)'
<1>1. \A w : Counted(k, w)' = Counted(k, w)
  BY DEF Counted
<1>2. k \in DOMAIN buckets => buckets[k] \in Bucket
  BY DEF TypeOK
<1>3. k \in DOMAIN buckets => AgreesWith(buckets[k], k)'
  BY <1>1, <1>2 DEF KeyInv, AgreesWith, TypeOK, Bucket
<1> QED BY <1>1, <1>3 DEF KeyInv, InWindows

\* Replacing a key's bucket by its current one, as every check does.
LEMMA KeyBrought ==
    ASSUME TypeOK, NEW k \in Keys, KeyInv(k), SetBucket(k, CurrentBucket(k)),
           now' \in Nat, now <= now', admitted'[k] = admitted[k]
    PROVE  KeyInv(k)'
<1> DEFINE b == CurrentBucket(k)
<1>1. AgreesWith(b, k) /\ b \in Bucket
  BY CurrentBucketAgrees, BucketTypes
<1>2. buckets'[k] = b /\ k \in DOMAIN buckets'
  BY <1>1, SetBucketTypes
<1>3. \A w : Counted(k, w)' = Counted(k, w)
  BY DEF Counted
<1> HIDE DEF b
<1>4. AgreesWith(buckets[k], k)'
  BY <1>1, <1>2, <1>3 DEF AgreesWith, TypeOK, Bucket
<1> QED BY <1>2, <1>3, <1>4 DEF KeyInv, InWindows

\* An admission joins the window of the current bucket, under a number that
\* no earlier admission of that window has.
LEMMA KeyAdmitted ==
    ASSUME TypeOK, NEW k \in Keys, KeyInv(k),
           NEW b, b = CurrentBucket(k), ~OverRpm(b),
           NEW a, a = [window |-> b.window_start, nth |-> b.requests_count + 1, at |-> now],
           SetBucket(k, [b EXCEPT !.requests_count = @ + 1]),
           admitted'[k] = admitted[k] \cup {a}, UNCHANGED now
    PROVE  KeyInv(k)'
<1> DEFINE w0 == b.window_start
           c == [b EXCEPT !.requests_count = @ + 1]
<1>1. AgreesWith(b, k) /\ now < w0 + WindowTicks /\ b \in Bucket
  BY CurrentBucketAgrees, BucketTypes
<1>2. /\ c \in Bucket /\ c.window_start = w0 /\ c.requests_count = b.requests_count + 1
      /\ b.requests_count \in Nat /\ w0 \in Nat /\ now \in Nat
  BY <1>1 DEF Bucket, TypeOK
<1>3. Rpm \in Nat /\ WindowTicks \in Nat \ {0} /\ b.requests_count < Rpm
  BY <1>2, LimitsAssumption, WindowTicksType DEF OverRpm
<1>4. a.window = w0 /\ a.at = now /\ a.nth = b.requests_count + 1
  OBVIOUS
<1>5. SetBucket(k, c)
  OBVIOUS
<1> HIDE DEF c, w0
<1>6. buckets'[k] = c /\ k \in DOMAIN buckets'
  BY <1>2, <1>5, SetBucketTypes
<1>7. \A e \in admitted[k] : e.window \in Nat /\ e.at \in Nat /\ e.nth \in Nat
  BY DEF TypeOK, Admission
<1>8. /\ w0 <= now
      /\ \A e \in admitted[k] : e.window = w0 \/ e.window + WindowTicks <= w0
      /\ \A e \in admitted[k] : e.window = w0 => e.nth <= b.requests_count
      /\ Cardinality(Counted(k, w0)) = b.requests_count
  BY <1>1 DEF AgreesWith, w0
<1>9. a \notin Counted(k, w0)
  BY <1>2, <1>4, <1>7, <1>8 DEF Counted
<1>10. /\ Counted(k, w0)' = Counted(k, w0) \cup {a}
       /\ \A w : w # w0 => Counted(k, w)' = Counted(k, w)
  BY <1>4 DEF Counted
<1>11. IsFiniteSet(admitted[k]) /\ IsFiniteSet(Counted(k, w0))
  BY FS_Subset DEF KeyInv, Counted
<1>12. Cardinality(Counted(k, w0)') = b.requests_count + 1
  <2>1. Cardinality(Counted(k, w0) \cup {a}) = Cardinality(Counted(k, w0)) + 1
    BY <1>9, <1>11, FS_AddElement
  <2> QED BY <1>8, <1>10, <2>1
<1>13. IsFiniteSet(admitted'[k])
  <2>1. IsFiniteSet(admitted[k] \cup {a})
    BY <1>11, FS_AddElement
  <2> QED BY <2>1
<1>14. InWindows(admitted'[k])
  BY <1>1, <1>2, <1>3, <1>4, <1>7, <1>8 DEF KeyInv, InWindows
<1>15. \A w \in Nat : Cardinality(Counted(k, w)') <= Rpm
  <2> SUFFICES ASSUME NEW w \in Nat PROVE Cardinality(Counted(k, w)') <= Rpm
    OBVIOUS
  <2>1. CASE w = w0
    BY <1>2, <1>3, <1>12, <2>1
  <2>2. CASE w # w0
    BY <1>10, <2>2 DEF KeyInv
  <2> QED BY <2>1, <2>2
<1>16. AgreesWith(buckets[k], k)'
  <2>1. \A e \in admitted'[k] : e.window = w0 \/ e.window + WindowTicks <= w0
    BY <1>4, <1>8
  <2>2. \A e \in admitted'[k] : e.window = w0 => e.nth <= b.requests_count + 1
    BY <1>2, <1>4, <1>7, <1>8
  <2> QED BY <1>2, <1>3, <1>6, <1>8, <1>12, <2>1, <2>2 DEF AgreesWith
<1> QED BY <1>6, <1>13, <1>14, <1>15, <1>16 DEF KeyInv, InWindows

\* The window invariant is inductive: one case for each operation.
LEMMA WindowInductive ==
    ASSUME TypeOK, TypeOK', WindowInv, [Next]_vars
    PROVE  WindowInv'
<1> SUFFICES ASSUME NEW j \in Keys PROVE KeyInv(j)'
  BY DEF WindowInv
<1>0. KeyInv(j) /\ now \in Nat /\ now' \in Nat
  BY DEF WindowInv, TypeOK
<1>1. ASSUME NEW t \in Threads, NEW k \in Keys, NEW est \in Estimates, Admit(t, k, est)
      PROVE  KeyInv(j)'
  <2> DEFINE b == CurrentBucket(k)
             c == [b EXCEPT !.requests_count = @ + 1]
             a == [window |-> b.window_start, nth |-> b.requests_count + 1, at |-> now]
  <2>1. ~OverRpm(b) /\ SetBucket(k, c) /\ UNCHANGED now
        /\ admitted' = [admitted EXCEPT ![k] = @ \cup {a}]
    BY <1>1 DEF Admit
  <2>2. c \in Bucket
    <3>1. b \in Bucket
      BY BucketTypes
    <3> QED BY <3>1 DEF Bucket
  <2>3. CASE j = k
    <3>1. admitted'[k] = admitted[k] \cup {a}
      BY <2>1 DEF TypeOK
    <3> QED BY <1>0, <2>1, <2>3, <3>1, KeyAdmitted
  <2>4. CASE j # k
    <3> HIDE DEF a, b, c
    <3>1. /\ DOMAIN buckets' = DOMAIN buckets \cup {k}
          /\ \A i \in DOMAIN buckets \ {k} : buckets'[i] = buckets[i]
      BY <2>1, <2>2, SetBucketTypes
    <3>2. admitted'[j] = admitted[j]
      BY <2>1, <2>4 DEF TypeOK
    <3> QED BY <1>0, <2>1, <2>4, <3>1, <3>2, KeyUndisturbed
  <2> QED BY <2>3, <2>4
<1>2. ASSUME NEW t \in Threads, NEW k \in Keys, NEW est \in Estimates,
             NEW d \in 0..MaxStall, Reject(t, k, est, d)
      PROVE  KeyInv(j)'
  <2> DEFINE b == CurrentBucket(k)
  <2>1. SetBucket(k, b) /\ now' = now + d /\ admitted' = admitted
    BY <1>2 DEF Reject
  <2>2. now <= now'
    BY <1>0, <2>1
  <2>3. CASE j = k
    BY <1>0, <2>1, <2>2, <2>3, KeyBrought
  <2>4. CASE j # k
    <3>1. b \in Bucket
      BY BucketTypes
    <3> HIDE DEF b
    <3>2. /\ DOMAIN buckets' = DOMAIN buckets \cup {k}
          /\ \A i \in DOMAIN buckets \ {k} : buckets'[i] = buckets[i]
      BY <2>1, <3>1, SetBucketTypes
    <3> QED BY <1>0, <2>1, <2>2, <2>4, <3>2, KeyUndisturbed
  <2> QED BY <2>3, <2>4
<1>3. ASSUME NEW t \in Threads, NEW tokens \in 0..MaxTok, RecordTokens(t, tokens)
      PROVE  KeyInv(j)'
  <2> DEFINE k == inflight[t]
             b == GetBucket(k)
             c == [b EXCEPT !.tokens_count = @ + tokens]
  <2>1. k \in Keys /\ SetBucket(k, c) /\ UNCHANGED <<now, admitted>>
    BY <1>3 DEF RecordTokens, TypeOK
  <2>2. b \in Bucket
    BY <2>1, BucketTypes
  <2>3. c \in Bucket /\ c.window_start = b.window_start
        /\ c.requests_count = b.requests_count
    BY <2>2 DEF Bucket
  <2>4. k \in DOMAIN buckets => b = buckets[k]
    BY DEF GetBucket
  <2>5. k \notin DOMAIN buckets => b.requests_count = 0 /\ b.window_start = now
    BY DEF GetBucket
  <2> HIDE DEF b, c, k
  <2>6. /\ DOMAIN buckets' = DOMAIN buckets \cup {k} /\ buckets'[k] = c
        /\ \A i \in DOMAIN buckets \ {k} : buckets'[i] = buckets[i]
    BY <2>1, <2>3, SetBucketTypes
  <2>7. CASE j # k \/ k \in DOMAIN buckets
    <3>1. j \in DOMAIN buckets' <=> j \in DOMAIN buckets
      BY <2>6, <2>7
    <3>2. j \in DOMAIN buckets => /\ buckets'[j].window_start = buckets[j].window_start
                                  /\ buckets'[j].requests_count = buckets[j].requests_count
      BY <2>3, <2>4, <2>6, <2>7
    <3>3. now <= now' /\ admitted'[j] = admitted[j]
      BY <1>0, <2>1
    <3> QED BY <1>0, <3>1, <3>2, <3>3, KeyUndisturbed
  <2>8. CASE j = k /\ k \notin DOMAIN buckets
    <3>1. admitted[j] = {} /\ admitted'[j] = {}
      BY <1>0, <2>1, <2>8 DEF KeyInv
    <3>2. \A w : Counted(j, w)' = {}
      BY <3>1 DEF Counted
    <3>3. AgreesWith(buckets[j], j)'
      BY <1>0, <2>1, <2>3, <2>5, <2>6, <2>8, <3>1, <3>2, FS_EmptySet, LimitsAssumption
         DEF AgreesWith
    <3> QED BY <3>1, <3>2, <3>3, <2>6, <2>8, FS_EmptySet, LimitsAssumption
            DEF KeyInv, InWindows
  <2> QED BY <2>7, <2>8
<1>4. ASSUME NEW t \in Threads, Finish(t) PROVE KeyInv(j)'
  BY <1>0, <1>4, KeyUndisturbed DEF Finish
<1>5. ASSUME NEW k \in Keys, Reset(k) PROVE KeyInv(j)'
  <2>1. CASE j = k
    <3>1. admitted'[j] = {} /\ j \notin DOMAIN buckets'
      BY <1>5, <2>1 DEF Reset, TypeOK
    <3>2. \A w : Counted(j, w)' = {}
      BY <3>1 DEF Counted
    <3> QED BY <3>1, <3>2, FS_EmptySet, LimitsAssumption DEF KeyInv, InWindows
  <2>2. CASE j # k
    <3>1. /\ j \in DOMAIN buckets' <=> j \in DOMAIN buckets
          /\ j \in DOMAIN buckets => buckets'[j] = buckets[j]
          /\ admitted'[j] = admitted[j] /\ now' = now
      BY <1>5, <2>2 DEF Reset, TypeOK
    <3> QED BY <1>0, <2>2, <3>1, KeyUndisturbed
  <2> QED BY <2>1, <2>2
<1>6. ASSUME Tick \/ UNCHANGED vars PROVE KeyInv(j)'
  BY <1>0, <1>6, KeyUndisturbed DEF Tick, vars
<1> QED BY <1>1, <1>2, <1>3, <1>4, <1>5, <1>6 DEF Next

LEMMA WindowInvariant == Spec => [](TypeOK /\ WindowInv)
<1>1. Init => WindowInv
  BY FS_EmptySet, LimitsAssumption DEF Init, WindowInv, KeyInv, InWindows, Counted
<1>2. TypeOK /\ TypeOK' /\ WindowInv /\ [Next]_vars => WindowInv'
  BY WindowInductive
<1> QED BY <1>1, <1>2, TypeCorrect, PTL DEF Spec

\* No admission of a key is lost or counted twice, and a window never holds
\* more than Rpm of them, whatever the threads and the clock do.
THEOREM RequestsExact == Spec => []RequestsCountIsExact
<1>1. TypeOK /\ WindowInv => RequestsCountIsExact
  BY DEF TypeOK, WindowInv, KeyInv, AgreesWith, Counted, RequestsCountIsExact
<1> QED BY <1>1, WindowInvariant, PTL

\* The admissions less than a window after a given one lie in its own window
\* and in at most one later window.
LEMMA TwoWindows ==
    ASSUME TypeOK, NEW k \in Keys, KeyInv(k), NEW a \in admitted[k]
    PROVE  Cardinality({b \in admitted[k] : a.at <= b.at /\ b.at < a.at + WindowTicks})
               <= 2 * Rpm
<1> DEFINE S == {b \in admitted[k] : a.at <= b.at /\ b.at < a.at + WindowTicks}
<1>1. \A e \in admitted[k] : e.window \in Nat /\ e.at \in Nat
  BY DEF TypeOK, Admission
<1>2. WindowTicks \in Nat \ {0} /\ Rpm \in Nat
  BY WindowTicksType, LimitsAssumption
<1>3. /\ \A e \in admitted[k] : e.window <= e.at /\ e.at < e.window + WindowTicks
      /\ \A e, f \in admitted[k] : e.window < f.window => e.window + WindowTicks <= f.window
  BY DEF KeyInv, InWindows
<1>4. \A w \in Nat : /\ IsFiniteSet(Counted(k, w))
                     /\ Cardinality(Counted(k, w)) \in Nat
                     /\ Cardinality(Counted(k, w)) <= Rpm
  <2> TAKE w \in Nat
  <2>1. Counted(k, w) \in SUBSET admitted[k] /\ IsFiniteSet(admitted[k])
    BY DEF Counted, KeyInv
  <2>2. IsFiniteSet(Counted(k, w))
    BY <2>1, FS_Subset
  <2>3. Cardinality(Counted(k, w)) \in Nat
    BY <2>2, FS_CardinalityType
  <2> QED BY <2>2, <2>3 DEF KeyInv
<1>5. \A e \in S : e.window = a.window \/ a.window + WindowTicks <= e.window
  BY <1>1, <1>2, <1>3
<1>6. \A e, f \in S : e.window # a.window /\ f.window # a.window => e.window = f.window
  BY <1>1, <1>2, <1>3, <1>5
<1>7. \E w : w \in Nat /\ S \in SUBSET (Counted(k, a.window) \cup Counted(k, w))
  <2>1. CASE \A e \in S : e.window = a.window
    BY <1>1, <2>1 DEF Counted
  <2>2. ASSUME NEW d \in S, d.window # a.window
        PROVE  \E w : w \in Nat /\ S \in SUBSET (Counted(k, a.window) \cup Counted(k, w))
    <3>1. \A e \in S : e.window = a.window \/ e.window = d.window
      BY <1>6, <2>2
    <3>2. d.window \in Nat
      BY <1>1
    <3> WITNESS d.window
    <3> QED BY <3>1, <3>2 DEF Counted
  <2> QED BY <2>1, <2>2
<1>8. PICK w : w \in Nat /\ S \in SUBSET (Counted(k, a.window) \cup Counted(k, w))
  BY <1>7
<1> DEFINE A == Counted(k, a.window)
           B == Counted(k, w)
<1> HIDE DEF S
<1>9. /\ IsFiniteSet(A) /\ Cardinality(A) \in Nat /\ Cardinality(A) <= Rpm
      /\ IsFiniteSet(B) /\ Cardinality(B) \in Nat /\ Cardinality(B) <= Rpm
  BY <1>1, <1>4, <1>8
<1> HIDE DEF A, B
<1>10. /\ IsFiniteSet(A \cup B)
       /\ Cardinality(A \cup B) = Cardinality(A) + Cardinality(B) - Cardinality(A \cap B)
  BY <1>9, FS_Union
<1>11. A \cap B \in SUBSET A
  OBVIOUS
<1>12. Cardinality(A \cap B) \in Nat
  BY <1>9, <1>11, FS_Subset, FS_CardinalityType
<1>13. S \in SUBSET (A \cup B)
  BY <1>8 DEF A, B
<1>14. IsFiniteSet(S) /\ Cardinality(S) <= Cardinality(A \cup B)
  BY <1>10, <1>13, FS_Subset
<1>15. Cardinality(S) \in Nat /\ Cardinality(A \cup B) \in Nat
  BY <1>10, <1>14, FS_CardinalityType
<1>16. Cardinality(S) <= 2 * Rpm
  BY <1>2, <1>9, <1>10, <1>12, <1>14, <1>15
<1> QED BY <1>16 DEF S

\* The price of fixed windows, and no more: twice Rpm admissions of a key in
\* any stretch of time as long as a window.
THEOREM BurstBounded == Spec => []AtMostTwoWindowsOfRequests
<1>1. TypeOK /\ WindowInv => AtMostTwoWindowsOfRequests
  BY TwoWindows DEF WindowInv, AtMostTwoWindowsOfRequests
<1> QED BY <1>1, WindowInvariant, PTL

----------------------------------------------------------------------------
(* Retry-After.  A promise is due at the end of the window that refused, or   *)
(* later, and at most a window from the clock read it is computed from.       *)

PromiseInv(k) ==
    k \in DOMAIN promises =>
        /\ promises[k].window <= buckets[k].window_start
        /\ promises[k].window + WindowTicks <= promises[k].due
        /\ promises[k].due <= now + WindowTicks

PromisesInv == \A k \in Keys : PromiseInv(k)

LEMMA PromiseDue ==
    ASSUME NEW b \in Bucket, NEW n \in Nat, b.window_start <= n
    PROVE  /\ b.window_start + WindowTicks <= n + RetryAfter(b, n) * TicksPerSec
           /\ n + RetryAfter(b, n) * TicksPerSec <= n + WindowTicks
<1> DEFINE e == n - b.window_start
           q == e \div TicksPerSec
           left == Window - q
<1>1. e \in Nat /\ b.window_start \in Nat
  BY DEF Bucket
<1>2. RetryAfter(b, n) = IF left > 1 THEN left ELSE 1
  BY DEF RetryAfter
<1> HIDE DEF e
<1>3. q \in Nat /\ q * TicksPerSec <= e
  BY <1>1, LimitsAssumption, SMT
<1> HIDE DEF q
<1>4. left \in Int /\ left * TicksPerSec = WindowTicks - q * TicksPerSec
  BY <1>3, LimitsAssumption, SMT DEF WindowTicks
<1>5. q * TicksPerSec \in Nat /\ TicksPerSec \in Nat /\ WindowTicks \in Nat
      /\ TicksPerSec <= WindowTicks
  BY <1>3, LimitsAssumption, SMT DEF WindowTicks
<1>6. n = b.window_start + e
  BY <1>1 DEF e
<1>7. CASE left > 1
  BY <1>1, <1>2, <1>3, <1>4, <1>5, <1>6, <1>7
<1>8. CASE ~(left > 1)
  <2>1. left * TicksPerSec <= 1 * TicksPerSec
    BY <1>4, <1>8, LimitsAssumption, SMT
  <2> QED BY <1>1, <1>2, <1>3, <1>4, <1>5, <1>6, <1>8, <2>1
<1> QED BY <1>7, <1>8

\* A check that looks at a bucket again finds the same window or a later one.
LEMMA CurrentBucketLater ==
    ASSUME TypeOK, NEW k \in DOMAIN buckets, buckets[k].window_start <= now
    PROVE  /\ buckets[k].window_start <= CurrentBucket(k).window_start
           /\ CurrentBucket(k).window_start <= now
  BY DEF TypeOK, Bucket, CurrentBucket, GetBucket, ResetIfExpired

LEMMA PromisesInductive ==
    ASSUME TypeOK, TypeOK', WindowInv, PromisesInv, [Next]_vars
    PROVE  PromisesInv'
<1> SUFFICES ASSUME NEW j \in Keys, j \in DOMAIN promises' PROVE PromiseInv(j)'
  BY DEF PromisesInv, PromiseInv
<1> USE WindowTicksType
<1>0. PromiseInv(j) /\ now \in Nat /\ now' \in Nat
  BY DEF PromisesInv, TypeOK
<1>1. j \in DOMAIN promises =>
          /\ j \in DOMAIN buckets
          /\ buckets[j] \in Bucket /\ buckets[j].window_start <= now
          /\ promises[j].window \in Nat /\ promises[j].due \in Nat
  BY DEF TypeOK, WindowInv, KeyInv, AgreesWith
<1>2. j \in DOMAIN buckets' /\ buckets'[j] \in Bucket
  BY DEF TypeOK
<1>3. ASSUME j \in DOMAIN promises, promises'[j] = promises[j], now <= now',
             buckets[j].window_start <= buckets'[j].window_start
      PROVE  PromiseInv(j)'
  BY <1>0, <1>1, <1>2, <1>3 DEF PromiseInv, Bucket
<1>4. ASSUME NEW t \in Threads, NEW k \in Keys, NEW est \in Estimates, Admit(t, k, est)
      PROVE  PromiseInv(j)'
  <2> DEFINE b == CurrentBucket(k)
             c == [b EXCEPT !.requests_count = @ + 1]
  <2>1. SetBucket(k, c) /\ UNCHANGED <<now, promises>>
    BY <1>4 DEF Admit
  <2>2. b \in Bucket
    BY BucketTypes
  <2>3. c \in Bucket /\ c.window_start = b.window_start
    BY <2>2 DEF Bucket
  <2>4. j = k => buckets[j].window_start <= b.window_start
    BY <1>1, <2>1, CurrentBucketLater
  <2> HIDE DEF b, c
  <2>5. buckets'[k] = c /\ \A i \in DOMAIN buckets \ {k} : buckets'[i] = buckets[i]
    BY <2>1, <2>3, SetBucketTypes
  <2>6. buckets[j].window_start <= buckets'[j].window_start
    BY <1>1, <2>1, <2>3, <2>4, <2>5 DEF Bucket
  <2> QED BY <1>0, <1>3, <2>1, <2>6
<1>5. ASSUME NEW t \in Threads, NEW k \in Keys, NEW est \in Estimates,
             NEW d \in 0..MaxStall, Reject(t, k, est, d)
      PROVE  PromiseInv(j)'
  <2> DEFINE b == CurrentBucket(k)
             due == now + d + RetryAfter(b, now + d) * TicksPerSec
             p == [window |-> b.window_start, due |-> due]
  <2>1. /\ SetBucket(k, b) /\ now' = now + d
        /\ promises' = [i \in DOMAIN promises \cup {k} |-> IF i = k THEN p ELSE promises[i]]
    BY <1>5 DEF Reject
  <2>2. b \in Bucket /\ b.window_start <= now
    BY BucketTypes, CurrentBucketAgrees DEF WindowInv, AgreesWith
  <2>3. b.window_start <= now + d /\ now + d \in Nat /\ now <= now'
    BY <1>0, <2>1, <2>2, TimeAssumption DEF Bucket
  <2>4. b.window_start + WindowTicks <= due /\ due <= now' + WindowTicks
    BY <2>1, <2>2, <2>3, PromiseDue
  <2>5. j = k /\ j \in DOMAIN buckets => buckets[j].window_start <= b.window_start
    <3>1. j \in DOMAIN buckets => buckets[j].window_start <= now
      BY DEF WindowInv, KeyInv, AgreesWith
    <3> QED BY <3>1, CurrentBucketLater
  <2>6. p.window = b.window_start /\ p.due = due
    OBVIOUS
  <2> HIDE DEF b, due, p
  <2>7. buckets'[k] = b /\ \A i \in DOMAIN buckets \ {k} : buckets'[i] = buckets[i]
    BY <2>1, <2>2, SetBucketTypes
  <2>8. CASE j = k
    BY <2>1, <2>2, <2>4, <2>6, <2>7, <2>8 DEF PromiseInv, Bucket
  <2>9. CASE j # k
    <3>1. /\ j \in DOMAIN promises /\ promises'[j] = promises[j]
          /\ buckets'[j] = buckets[j]
      BY <1>1, <2>1, <2>7, <2>9
    <3> QED BY <1>1, <1>3, <2>3, <3>1 DEF Bucket
  <2> QED BY <2>8, <2>9
<1>6. ASSUME NEW t \in Threads, NEW tokens \in 0..MaxTok, RecordTokens(t, tokens)
      PROVE  PromiseInv(j)'
  <2> DEFINE k == inflight[t]
             b == GetBucket(k)
             c == [b EXCEPT !.tokens_count = @ + tokens]
  <2>1. k \in Keys /\ SetBucket(k, c) /\ UNCHANGED <<now, promises>>
    BY <1>6 DEF RecordTokens, TypeOK
  <2>2. b \in Bucket
    BY <2>1, BucketTypes
  <2>3. c \in Bucket /\ c.window_start = b.window_start
    BY <2>2 DEF Bucket
  <2>4. k \in DOMAIN buckets => b = buckets[k]
    BY DEF GetBucket
  <2> HIDE DEF b, c, k
  <2>5. buckets'[k] = c /\ \A i \in DOMAIN buckets \ {k} : buckets'[i] = buckets[i]
    BY <2>1, <2>3, SetBucketTypes
  <2>6. buckets[j].window_start <= buckets'[j].window_start
    BY <1>1, <2>1, <2>3, <2>4, <2>5 DEF Bucket
  <2> QED BY <1>0, <1>3, <2>1, <2>6
<1>7. ASSUME NEW k \in Keys, Reset(k) PROVE PromiseInv(j)'
  <2>1. /\ j \in DOMAIN promises /\ j # k /\ promises'[j] = promises[j]
        /\ buckets'[j] = buckets[j] /\ now' = now
    BY <1>1, <1>7 DEF Reset
  <2> QED BY <1>0, <1>1, <1>3, <2>1 DEF Bucket
<1>8. ASSUME Tick \/ UNCHANGED vars \/ \E t \in Threads : Finish(t)
      PROVE  PromiseInv(j)'
  <2>1. promises' = promises /\ buckets' = buckets /\ now <= now'
    BY <1>0, <1>8 DEF Tick, vars, Finish
  <2> QED BY <1>1, <1>3, <2>1 DEF Bucket
<1> QED BY <1>4, <1>5, <1>6, <1>7, <1>8 DEF Next

\* A client that waits as long as Retry-After told it to is never refused on
\* account of the window that refused it, and is never told to wait longer
\* than a window.
THEOREM RetryAfterSound == Spec => []RetryAfterSuffices
<1>1. Init => PromisesInv
  BY DEF Init, PromisesInv, PromiseInv
<1>2. TypeOK /\ TypeOK' /\ WindowInv /\ PromisesInv /\ [Next]_vars => PromisesInv'
  BY PromisesInductive
<1>3. TypeOK /\ PromisesInv => RetryAfterSuffices
  <2> SUFFICES ASSUME TypeOK, PromisesInv, NEW k \in DOMAIN promises
               PROVE  /\ now >= promises[k].due =>
                            \/ buckets[k].window_start > promises[k].window
                            \/ now - buckets[k].window_start >= WindowTicks
                      /\ promises[k].due <= now + WindowTicks
    BY DEF RetryAfterSuffices
  <2>1. /\ k \in Keys /\ now \in Nat /\ buckets[k].window_start \in Nat
        /\ promises[k].window \in Nat /\ promises[k].due \in Nat
    BY DEF TypeOK, Bucket
  <2>2. PromiseInv(k)
    BY <2>1 DEF PromisesInv
  <2> QED BY <2>1, <2>2, WindowTicksType DEF PromiseInv
<1> QED BY <1>1, <1>2, <1>3, WindowInvariant, PTL DEF Spec
=============================================================================
