----------------------------- MODULE CacheStore -----------------------------
(***************************************************************************)
(* What a caller of the response cache may rely on, whatever the cache     *)
(* does inside: a lookup misses, or finds the response last stored under   *)
(* that key, no later than its time to live.  The cache may forget a       *)
(* response at any time.                                                   *)
(***************************************************************************)
EXTENDS Integers

CONSTANTS
    Keys,         \* cache keys
    Responses,    \* provider responses
    NoResponse,   \* what is stored under a key that has none
    Ttl           \* ttl_seconds

VARIABLES
    stored,   \* what each key stands for: [response, expires_at], or NoResponse
    now       \* the clock

storeVars == <<stored, now>>

Fresh(k) == stored[k] # NoResponse /\ now <= stored[k].expires_at
Found(k) == stored[k].response

StoreInit ==
    /\ stored = [k \in Keys |-> NoResponse]
    /\ now = 0

Put(k, r) ==
    /\ stored' = [stored EXCEPT ![k] = [response |-> r, expires_at |-> now + Ttl]]
    /\ UNCHANGED now

Forget(S) ==
    /\ stored' = [k \in Keys |-> IF k \in S THEN NoResponse ELSE stored[k]]
    /\ UNCHANGED now

Hit(k) ==
    /\ Fresh(k)
    /\ UNCHANGED storeVars

\* A lookup may miss what was forgotten, and drops what it finds expired.
MissOn(k) ==
    /\ ~Fresh(k)
    /\ \/ UNCHANGED stored
       \/ stored' = [stored EXCEPT ![k] = NoResponse]
    /\ UNCHANGED now

Tick ==
    /\ now' = now + 1
    /\ UNCHANGED stored
=============================================================================
