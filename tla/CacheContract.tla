--------------------------- MODULE CacheContract ---------------------------
(***************************************************************************)
(* The contract of CacheStore as a specification of its own, with the      *)
(* reply of the last lookup as the visible result: what Cache::get of      *)
(* src/cache.cpp may return after any history of put, get and clear.       *)
(***************************************************************************)
EXTENDS CacheStore

CONSTANT Miss    \* the reply of a lookup that finds nothing

VARIABLE reply   \* the reply of the last lookup

contractVars == <<stored, now, reply>>

Init == StoreInit /\ reply = Miss

LookupHit(k)  == Hit(k) /\ reply' = Found(k)
LookupMiss(k) == MissOn(k) /\ reply' = Miss

Next ==
    \/ \E k \in Keys, r \in Responses : Put(k, r) /\ UNCHANGED reply
    \/ \E S \in SUBSET Keys : Forget(S) /\ UNCHANGED reply
    \/ \E k \in Keys : LookupHit(k) \/ LookupMiss(k)
    \/ Tick /\ UNCHANGED reply

Spec == Init /\ [][Next]_contractVars
=============================================================================
