------------------------------ MODULE LruCache ------------------------------
(***************************************************************************)
(* The response cache of src/cache.cpp: a list of entries, most recently   *)
(* used first, and an index from keys to list nodes.                       *)
(*                                                                         *)
(* Every operation holds mu_.  get, clear and the statistics are one step  *)
(* each; put is taken apart into the steps between which it reads the      *)
(* clock or loops, while no other operation can start: erase the old       *)
(* entry, evict until there is room, erase expired entries, insert.  The   *)
(* configuration (enabled, max_entries, ttl_seconds) is constant; requests *)
(* that stream never reach the list, and are left out.                     *)
(***************************************************************************)
EXTENDS Integers, Sequences, FiniteSets, SequencesExt

CONSTANTS
    Keys,         \* results of make_key
    Responses, NoResponse, Miss,
    Ttl,          \* ttl_seconds
    MaxEntries,   \* max_entries
    Nodes,        \* names of list nodes
    MaxPuts, MaxGets, MaxTime   \* bounds on the operations and the clock

ASSUME BoundsAssumption == /\ Ttl \in Nat /\ MaxEntries \in Nat
                           /\ MaxPuts \in Nat /\ MaxGets \in Nat /\ MaxTime \in Nat
ASSUME MissAssumption == Miss \notin Responses
ASSUME NoResponseAssumption == NoResponse \notin [response : Responses, expires_at : Nat]
\* There is a name for every node the list has room for.
ASSUME NodesAssumption == IsFiniteSet(Nodes) => Cardinality(Nodes) >= MaxEntries

VARIABLES
    entries,   \* entries_: list of [node, key, response, expires_at]
    index,     \* index_: the node of each key that has one
    putting,   \* the put that holds mu_: [stage, key, response, clock]
    stats,     \* hits_, misses_, evictions_
    reply,     \* what the last get returned
    now,       \* the clock
    recency,   \* history: [key, expires_at] by the last put or hit of the key
    puts,      \* history: completed inserts
    dropped    \* history: entries replaced, cleared, or found expired by get

vars == <<entries, index, putting, stats, reply, now, recency, puts, dropped>>

NotPutting == [stage |-> "idle"]
Idle == putting = NotPutting

PositionOf(node) == CHOOSE i \in DOMAIN entries : entries[i].node = node
EntryOf(k) == entries[PositionOf(index[k])]
Without(i) == RemoveAt(entries, i)
Unindexed(S) == [k \in DOMAIN index \ S |-> index[k]]

FreeNode == CHOOSE n \in Nodes : \A i \in DOMAIN entries : entries[i].node # n

\* Plausible fault: entries that live one second longer than promised.
ExpiredLate(e, t) == t > e.expires_at + 1

\* What Clock::now() returned, compared with expires_at.
Expired(e, t) == t > e.expires_at

NotRecent(k) ==
    IF \E i \in DOMAIN recency : recency[i].key = k
    THEN RemoveAt(recency, CHOOSE i \in DOMAIN recency : recency[i].key = k)
    ELSE recency
UsedNow(k, expires_at) == <<[key |-> k, expires_at |-> expires_at]>> \o NotRecent(k)

----------------------------------------------------------------------------
Init ==
    /\ entries = <<>>
    /\ index = [k \in {} |-> 0]
    /\ putting = NotPutting
    /\ stats = [hits |-> 0, misses |-> 0, evictions |-> 0]
    /\ reply = Miss
    /\ now = 0
    /\ recency = <<>>
    /\ puts = 0
    /\ dropped = 0

CanGet == Idle /\ stats.hits + stats.misses < MaxGets

GetMiss(k) ==
    /\ CanGet
    /\ k \notin DOMAIN index
    /\ stats' = [stats EXCEPT !.misses = @ + 1]
    /\ reply' = Miss
    /\ UNCHANGED <<entries, index, putting, now, recency, puts, dropped>>

\* An entry past its time to live is erased from the list and the index.
GetExpired(k) ==
    /\ CanGet
    /\ k \in DOMAIN index
    /\ Expired(EntryOf(k), now)
    /\ entries' = Without(PositionOf(index[k]))
    /\ index' = Unindexed({k})
    /\ stats' = [stats EXCEPT !.misses = @ + 1]
    /\ reply' = Miss
    /\ dropped' = dropped + 1
    /\ UNCHANGED <<putting, now, recency, puts>>

\* Plausible fault: a hit that leaves the entry where it is in the list.
MovedToFrontNever(i) == entries

\* splice: the node moves to the front, and stays the same node.
MovedToFront(i) == <<entries[i]>> \o Without(i)

GetHit(k) ==
    /\ CanGet
    /\ k \in DOMAIN index
    /\ ~Expired(EntryOf(k), now)
    /\ entries' = MovedToFront(PositionOf(index[k]))
    /\ stats' = [stats EXCEPT !.hits = @ + 1]
    /\ reply' = EntryOf(k).response
    /\ recency' = UsedNow(k, EntryOf(k).expires_at)
    /\ UNCHANGED <<index, putting, now, puts, dropped>>

\* put takes the lock and erases what the key had.
PutBegin(k, r) ==
    /\ Idle /\ puts < MaxPuts
    /\ putting' = [stage |-> "evict", key |-> k, response |-> r, clock |-> 0]
    /\ IF k \in DOMAIN index
       THEN /\ entries' = Without(PositionOf(index[k]))
            /\ index' = Unindexed({k})
            /\ dropped' = dropped + 1
       ELSE UNCHANGED <<entries, index, dropped>>
    /\ UNCHANGED <<stats, reply, now, recency, puts>>

\* Plausible fault: room is made only once the list is over its limit.
FullOffByOne == Len(entries) > MaxEntries

\* Plausible fault: the room left computed in an unsigned type.
FullUnsigned == (MaxEntries - Len(entries)) % 256 >= 0

Full == Len(entries) >= MaxEntries

\* Plausible fault: evict_lru pops the list and leaves the index alone.
EvictLruUnindexed ==
    /\ putting.stage = "evict" /\ Full
    /\ entries' = Front(entries)
    /\ stats' = [stats EXCEPT !.evictions = @ + 1]
    /\ UNCHANGED <<index, putting, reply, now, recency, puts, dropped>>

\* evict_lru, once around the loop of put: nothing happens on an empty list.
EvictLru ==
    /\ putting.stage = "evict" /\ Full
    /\ IF entries = <<>> THEN UNCHANGED <<entries, index, stats>>
       ELSE /\ entries' = Front(entries)
            /\ index' = Unindexed({Last(entries).key})
            /\ stats' = [stats EXCEPT !.evictions = @ + 1]
    /\ UNCHANGED <<putting, reply, now, recency, puts, dropped>>

\* There is room; with the list more than half full, evict_expired reads the
\* clock, once.
StopEvicting ==
    /\ putting.stage = "evict" /\ ~Full
    /\ putting' = IF Len(entries) > MaxEntries \div 2
                  THEN [putting EXCEPT !.stage = "purge", !.clock = now]
                  ELSE [putting EXCEPT !.stage = "insert"]
    /\ UNCHANGED <<entries, index, stats, reply, now, recency, puts, dropped>>

\* The entry that the loop of evict_expired erases next: it goes from the back.
LastExpired(i) ==
    /\ Expired(entries[i], putting.clock)
    /\ \A j \in i + 1..Len(entries) : ~Expired(entries[j], putting.clock)

\* Plausible fault: the loop of evict_expired does not count.
EraseExpiredUncounted ==
    /\ putting.stage = "purge"
    /\ \E i \in DOMAIN entries :
          /\ LastExpired(i)
          /\ entries' = Without(i)
          /\ index' = Unindexed({entries[i].key})
    /\ UNCHANGED <<stats, putting, reply, now, recency, puts, dropped>>

EraseExpired ==
    /\ putting.stage = "purge"
    /\ \E i \in DOMAIN entries :
          /\ LastExpired(i)
          /\ entries' = Without(i)
          /\ index' = Unindexed({entries[i].key})
          /\ stats' = [stats EXCEPT !.evictions = @ + 1]
    /\ UNCHANGED <<putting, reply, now, recency, puts, dropped>>

NothingExpired ==
    /\ putting.stage = "purge"
    /\ \A i \in DOMAIN entries : ~Expired(entries[i], putting.clock)
    /\ putting' = [putting EXCEPT !.stage = "insert"]
    /\ UNCHANGED <<entries, index, stats, reply, now, recency, puts, dropped>>

\* Plausible fault: the time to live taken off instead of added.
ExpiryTimeBackwards == now - Ttl

ExpiryTime == now + Ttl

\* push_front and index_[key], then the lock is released.
PutInsert ==
    /\ putting.stage = "insert"
    /\ entries' = <<[node |-> FreeNode, key |-> putting.key,
                     response |-> putting.response,
                     expires_at |-> ExpiryTime]>> \o entries
    /\ index' = [k \in DOMAIN index \cup {putting.key} |->
                    IF k = putting.key THEN FreeNode ELSE index[k]]
    /\ recency' = UsedNow(putting.key, ExpiryTime)
    /\ puts' = puts + 1
    /\ putting' = NotPutting
    /\ UNCHANGED <<stats, reply, now, dropped>>

\* clear, from DELETE /admin/cache.
Clear ==
    /\ Idle /\ entries # <<>>
    /\ dropped' = dropped + Len(entries)
    /\ entries' = <<>>
    /\ index' = Unindexed(Keys)
    /\ recency' = <<>>
    /\ UNCHANGED <<putting, stats, reply, now, puts>>

Tick ==
    /\ now < MaxTime
    /\ now' = now + 1
    /\ UNCHANGED <<entries, index, putting, stats, reply, recency, puts, dropped>>

PutStep == EvictLru \/ StopEvicting \/ EraseExpired \/ NothingExpired \/ PutInsert

Next ==
    \/ \E k \in Keys : GetMiss(k)
    \/ \E k \in Keys : GetExpired(k)
    \/ \E k \in Keys : GetHit(k)
    \/ \E k \in Keys, r \in Responses : PutBegin(k, r)
    \/ EvictLru
    \/ StopEvicting
    \/ EraseExpired
    \/ NothingExpired
    \/ PutInsert
    \/ Clear
    \/ Tick

Spec == Init /\ [][Next]_vars

\* The thread in put keeps running: it waits for nothing while it holds mu_.
FairSpec == Spec /\ WF_vars(PutStep)

----------------------------------------------------------------------------
Entry == [node : Nodes, key : Keys, response : Responses, expires_at : Nat]

TypeOK ==
    /\ entries \in Seq(Entry)
    /\ DOMAIN index \subseteq Keys /\ index \in [DOMAIN index -> Nodes]
    /\ Idle \/ putting \in [stage : {"evict", "purge", "insert"}, key : Keys,
                            response : Responses, clock : Nat]
    /\ stats \in [hits : Nat, misses : Nat, evictions : Nat]
    /\ reply \in Responses \cup {Miss}
    /\ now \in Nat /\ puts \in Nat /\ dropped \in Nat
    /\ recency \in Seq([key : Keys, expires_at : Nat])

\* The index and the list agree at every moment, also between the steps of a
\* put: each entry is the one its key is indexed to, no key has two entries,
\* and no index entry is left to dangle when an entry is erased.
IndexMatchesEntries ==
    /\ \A i \in DOMAIN entries :
          /\ entries[i].key \in DOMAIN index
          /\ index[entries[i].key] = entries[i].node
    /\ Cardinality(DOMAIN index) = Len(entries)

\* The limit of the cache holds whenever no put is under way, and during it.
SizeCapped == Len(entries) <= MaxEntries

\* The eviction order is least recently used: the MaxEntries keys used last
\* since a clear are all still cached, unless their time to live is over.
\* Replacements, hits, lookups of expired entries and periodic purges in any
\* order never cost one of them its entry.
RecentKeysAreKept ==
    Idle => \A i \in 1..Len(recency) :
        i <= MaxEntries => \/ recency[i].key \in DOMAIN index
                           \/ now > recency[i].expires_at

\* Every entry ever inserted is accounted for: it is in the list, counted in
\* evictions_, or was replaced, cleared or found expired; none is counted
\* twice, whatever order evict_lru, evict_expired and get remove them in.
EvictionsExact == puts = Len(entries) + stats.evictions + dropped

\* The cache keeps the contract of CacheContract: a reply is a miss or the
\* response last put under that key, within its time to live.
Contract == INSTANCE CacheContract WITH
    stored <- [k \in Keys |->
        IF k \in DOMAIN index
        THEN [response |-> EntryOf(k).response, expires_at |-> EntryOf(k).expires_at]
        ELSE NoResponse]
ImplementsContract == Contract!Spec

\* A put that has taken the lock inserts its response and releases the lock.
PutReturns == ~Idle ~> Idle
=============================================================================
