----------------------------- MODULE LruCacheProofs -----------------------------
(***************************************************************************)
(* Theorems about the response cache of LruCache, for every set of keys,   *)
(* every limit and every time to live: the list and the index agree, the   *)
(* counters are exact, eviction is least recently used, and the cache      *)
(* keeps its contract.                                                     *)
(***************************************************************************)
EXTENDS LruCache, FiniteSetTheorems, SequenceTheorems, TLAPS

\* Removal closes the gap.
LEMMA Removal ==
    ASSUME NEW S, NEW s \in Seq(S), NEW i \in DOMAIN s
    PROVE  /\ RemoveAt(s, i) \in Seq(S)
           /\ Len(RemoveAt(s, i)) = Len(s) - 1
           /\ \A j \in 1..Len(s) - 1 : RemoveAt(s, i)[j] = s[IF j < i THEN j ELSE j + 1]
<1> DEFINE a == SubSeq(s, 1, i - 1)
           b == SubSeq(s, i + 1, Len(s))
<1>1. Len(s) \in Nat /\ DOMAIN s = 1..Len(s) /\ i \in 1..Len(s) /\ \A j \in 1..Len(s) : s[j] \in S
  OBVIOUS
<1>2. a \in Seq(S) /\ Len(a) = i - 1 /\ \A j \in 1..i - 1 : a[j] = s[j]
  <2>1. 1 \in Int /\ i - 1 \in Int /\ \A j \in 1..i - 1 : s[j] \in S
    BY <1>1
  <2>2. /\ a \in Seq(S) /\ Len(a) = IF 1 <= i - 1 THEN i - 1 - 1 + 1 ELSE 0
        /\ \A j \in 1..i - 1 - 1 + 1 : a[j] = s[1 + j - 1]
    BY <2>1, SubSeqProperties
  <2> HIDE DEF a
  <2> QED
    BY <1>1, <2>2
<1>3. b \in Seq(S) /\ Len(b) = Len(s) - i /\ \A j \in 1..Len(s) - i : b[j] = s[j + i]
  <2>1. i + 1 \in Int /\ Len(s) \in Int /\ \A j \in i + 1..Len(s) : s[j] \in S
    BY <1>1
  <2>2. /\ b \in Seq(S) /\ Len(b) = IF i + 1 <= Len(s) THEN Len(s) - (i + 1) + 1 ELSE 0
        /\ \A j \in 1..Len(s) - (i + 1) + 1 : b[j] = s[i + 1 + j - 1]
    BY <2>1, SubSeqProperties
  <2> HIDE DEF b
  <2>3. Len(b) = Len(s) - i
    BY <1>1, <2>2
  <2>4. ASSUME NEW j \in 1..Len(s) - i PROVE b[j] = s[j + i]
    <3>1. j \in 1..Len(s) - (i + 1) + 1 /\ i + 1 + j - 1 = j + i
      BY <1>1
    <3> QED
      BY <2>2, <3>1
  <2> QED
    BY <2>2, <2>3, <2>4
<1>4. RemoveAt(s, i) = a \o b
  BY DEF RemoveAt
<1> HIDE DEF a, b
<1>5. /\ a \o b \in Seq(S) /\ Len(a \o b) = Len(a) + Len(b)
      /\ \A j \in 1..Len(a) + Len(b) : (a \o b)[j] = IF j <= Len(a) THEN a[j] ELSE b[j - Len(a)]
  BY <1>2, <1>3, ConcatProperties
<1>6. Len(a \o b) = Len(s) - 1
  BY <1>1, <1>2, <1>3, <1>5
<1>7. ASSUME NEW j \in 1..Len(s) - 1
      PROVE  (a \o b)[j] = s[IF j < i THEN j ELSE j + 1]
  <2>1. (a \o b)[j] = IF j <= i - 1 THEN a[j] ELSE b[j - (i - 1)]
    BY <1>1, <1>2, <1>3, <1>5
  <2>2. CASE j < i
    BY <2>1, <2>2, <1>1, <1>2
  <2>3. CASE ~(j < i)
    <3>1. j - (i - 1) \in 1..Len(s) - i /\ j - (i - 1) + i = j + 1
      BY <2>3, <1>1
    <3> QED
      BY <2>1, <2>3, <3>1, <1>1, <1>3
  <2> QED
    BY <2>2, <2>3
<1> QED
  BY <1>4, <1>5, <1>6, <1>7

\* So does the removal of the last element.
LEMMA RemovalOfLast ==
    ASSUME NEW S, NEW s \in Seq(S), s # <<>>
    PROVE  /\ Len(s) \in Nat \ {0}
           /\ Front(s) \in Seq(S)
           /\ Len(Front(s)) = Len(s) - 1
           /\ \A j \in 1..Len(s) - 1 : Front(s)[j] = s[j]
<1>1. Len(s) \in Nat \ {0} /\ \A j \in 1..Len(s) - 1 : s[j] \in S
  OBVIOUS
<1>2. Front(s) = SubSeq(s, 1, Len(s) - 1)
  BY DEF Front
<1>3. 1 \in Int /\ Len(s) - 1 \in Int
  BY <1>1
<1> DEFINE m == Len(s) - 1
           a == SubSeq(s, 1, m)
<1>4. /\ a \in Seq(S) /\ Len(a) = IF 1 <= m THEN m - 1 + 1 ELSE 0
      /\ \A j \in 1..m - 1 + 1 : a[j] = s[1 + j - 1]
  BY <1>1, <1>3, SubSeqProperties
<1>5. m \in Nat
  BY <1>1
<1> HIDE DEF a, m
<1>6. Len(a) = m
  BY <1>4, <1>5
<1>7. ASSUME NEW j \in 1..m PROVE a[j] = s[j]
  <2>1. j \in 1..m - 1 + 1 /\ 1 + j - 1 = j
    BY <1>5
  <2> QED
    BY <1>4, <2>1
<1> QED
  BY <1>1, <1>2, <1>4, <1>6, <1>7 DEF a, m

\* An element put in front.
LEMMA InFront ==
    ASSUME NEW S, NEW s \in Seq(S), NEW e \in S
    PROVE  /\ <<e>> \o s \in Seq(S)
           /\ Len(<<e>> \o s) = Len(s) + 1
           /\ (<<e>> \o s)[1] = e
           /\ \A j \in 2..Len(s) + 1 : (<<e>> \o s)[j] = s[j - 1]
<1>1. <<e>> \in Seq(S) /\ Len(<<e>>) = 1 /\ <<e>>[1] = e /\ Len(s) \in Nat
  OBVIOUS
<1> DEFINE a == <<e>>
<1>2. /\ a \o s \in Seq(S) /\ Len(a \o s) = Len(a) + Len(s)
      /\ \A j \in 1..Len(a) + Len(s) : (a \o s)[j] = IF j <= Len(a) THEN a[j] ELSE s[j - Len(a)]
  BY <1>1, ConcatProperties
<1>3. Len(a) = 1 /\ a[1] = e
  BY <1>1
<1> HIDE DEF a
<1>4. /\ Len(a \o s) = Len(s) + 1 /\ (a \o s)[1] = e
      /\ \A j \in 2..Len(s) + 1 : (a \o s)[j] = s[j - 1]
  BY <1>1, <1>2, <1>3
<1> QED
  BY <1>2, <1>4 DEF a

\* At most n things are seen at n positions, and just n if no two are alike.
LEMMA SeenAt ==
    ASSUME NEW n \in Nat, NEW f, DOMAIN f = 1..n
    PROVE  /\ IsFiniteSet({f[i] : i \in 1..n})
           /\ Cardinality({f[i] : i \in 1..n}) <= n
<1> DEFINE T == {f[i] : i \in 1..n}
           g == [i \in 1..n |-> f[i]]
<1>1. IsFiniteSet(1..n) /\ Cardinality(1..n) = n
  <2>1. /\ IsFiniteSet(1..n)
        /\ Cardinality(1..n) = IF 1 > n THEN 0 ELSE n - 1 + 1
    BY FS_Interval
  <2> QED
    BY <2>1
<1>2. g \in Surjection(1..n, T)
  BY DEF Surjection
<1>3. IsFiniteSet(T) /\ Cardinality(T) <= Cardinality(1..n)
  <2> HIDE DEF T, g
  <2> QED
    BY <1>1, <1>2, FS_Surjection
<1> QED
  BY <1>1, <1>3

NoneAlike(f, n) == \A i, j \in 1..n : f[i] = f[j] => i = j

LEMMA SeenOnce ==
    ASSUME NEW n \in Nat, NEW f, DOMAIN f = 1..n, NoneAlike(f, n)
    PROVE  /\ IsFiniteSet({f[i] : i \in 1..n})
           /\ Cardinality({f[i] : i \in 1..n}) = n
<1> DEFINE T == {f[i] : i \in 1..n}
           g == [i \in 1..n |-> f[i]]
<1>1. g \in Bijection(1..n, T)
  BY DEF Bijection, Injection, Surjection, IsInjective, NoneAlike
<1>2. ExistsBijection(1..n, T)
  <2> HIDE DEF g, T
  <2> QED
    BY <1>1 DEF ExistsBijection
<1>3. IsFiniteSet(T) /\ Cardinality(T) = n
  <2> HIDE DEF T
  <2> QED
    BY <1>2, FS_NatBijection, FS_CountingElements
<1> QED
  BY <1>3

----------------------------------------------------------------------------
\* The list and the index are two views of one set of entries.
ListTyped ==
    /\ entries \in Seq(Entry)
    /\ DOMAIN index \subseteq Keys /\ index \in [DOMAIN index -> Nodes]

ListInv ==
    /\ ListTyped
    /\ \A i, j \in DOMAIN entries : entries[i].key = entries[j].key => i = j
    /\ \A i, j \in DOMAIN entries : entries[i].node = entries[j].node => i = j
    /\ DOMAIN index = {entries[i].key : i \in DOMAIN entries}
    /\ \A i \in DOMAIN entries : index[entries[i].key] = entries[i].node

LEMMA EntryFields ==
    ASSUME ListTyped, NEW i \in DOMAIN entries
    PROVE  /\ entries[i] \in Entry /\ i \in 1..Len(entries) /\ Len(entries) \in Nat
           /\ DOMAIN entries = 1..Len(entries)
           /\ entries[i].node \in Nodes /\ entries[i].key \in Keys
           /\ entries[i].response \in Responses /\ entries[i].expires_at \in Nat
<1>1. entries \in Seq(Entry)
  BY DEF ListTyped
<1>2. /\ entries[i] \in Entry /\ i \in 1..Len(entries) /\ Len(entries) \in Nat
      /\ DOMAIN entries = 1..Len(entries)
  BY <1>1
<1> QED
  BY <1>2 DEF Entry

\* The index finds the one entry of a key.
LEMMA FoundIn ==
    ASSUME NEW es, NEW ix, NEW i \in DOMAIN es,
           \A j, k \in DOMAIN es : es[j].node = es[k].node => j = k,
           ix[es[i].key] = es[i].node
    PROVE  (CHOOSE j \in DOMAIN es : es[j].node = ix[es[i].key]) = i
<1> DEFINE n == ix[es[i].key]
           p == CHOOSE j \in DOMAIN es : es[j].node = n
<1>1. p \in DOMAIN es /\ es[p].node = n
  OBVIOUS
<1>2. p = i
  <2> HIDE DEF p
  <2> QED
    BY <1>1
<1> QED
  BY <1>2

LEMMA FoundAt ==
    ASSUME ListInv, NEW i \in DOMAIN entries
    PROVE  /\ entries[i].key \in DOMAIN index
           /\ PositionOf(index[entries[i].key]) = i
           /\ EntryOf(entries[i].key) = entries[i]
<1>1. entries[i].key \in DOMAIN index /\ index[entries[i].key] = entries[i].node
  BY DEF ListInv
<1>2. PositionOf(index[entries[i].key]) = i
  BY <1>1, FoundIn DEF PositionOf, ListInv
<1> QED
  BY <1>1, <1>2 DEF EntryOf

LEMMA Indexed ==
    ASSUME ListInv, NEW k \in DOMAIN index
    PROVE  /\ PositionOf(index[k]) \in DOMAIN entries
           /\ entries[PositionOf(index[k])].key = k
           /\ EntryOf(k) = entries[PositionOf(index[k])]
<1>1. PICK i \in DOMAIN entries : entries[i].key = k
  BY DEF ListInv
<1> QED
  BY <1>1, FoundAt

\* The entry of a key that is indexed is the entry at its position.
LEMMA OneEntry ==
    ASSUME ListInv, NEW i \in DOMAIN entries, NEW k \in DOMAIN index,
           entries[i].key = k
    PROVE  EntryOf(k) = entries[i] /\ PositionOf(index[k]) = i
  BY FoundAt

\* An entry that leaves the list leaves the index, and the others stay.
LEMMA Thinned ==
    ASSUME ListInv, NEW i \in DOMAIN entries,
           entries' = Without(i), index' = Unindexed({entries[i].key})
    PROVE  /\ ListInv'
           /\ Len(entries) \in Nat \ {0} /\ Len(entries') = Len(entries) - 1
           /\ \A j \in 1..Len(entries) - 1 : entries'[j] = entries[IF j < i THEN j ELSE j + 1]
           /\ DOMAIN index' = DOMAIN index \ {entries[i].key}
           /\ \A k \in DOMAIN index' : EntryOf(k)' = EntryOf(k)
<1>1. /\ i \in 1..Len(entries) /\ Len(entries) \in Nat \ {0} /\ DOMAIN entries = 1..Len(entries)
      /\ entries \in Seq(Entry)
  BY EntryFields DEF ListInv, ListTyped
<1>2. /\ entries' \in Seq(Entry) /\ Len(entries') = Len(entries) - 1
      /\ \A j \in 1..Len(entries) - 1 : entries'[j] = entries[IF j < i THEN j ELSE j + 1]
  BY <1>1, Removal DEF Without
<1>3. DOMAIN entries' = 1..Len(entries) - 1
  BY <1>2
<1>4. ASSUME NEW j \in DOMAIN entries'
      PROVE  \E m \in DOMAIN entries \ {i} :
                m = (IF j < i THEN j ELSE j + 1) /\ entries'[j] = entries[m]
  BY <1>1, <1>2, <1>3
<1>5. ASSUME NEW m \in DOMAIN entries \ {i}
      PROVE  \E j \in DOMAIN entries' : entries'[j] = entries[m]
  <2>1. CASE m < i
    BY <2>1, <1>1, <1>2, <1>3
  <2>2. CASE m > i
    <3>1. m - 1 \in DOMAIN entries' /\ m - 1 + 1 = m /\ ~(m - 1 < i)
      BY <2>2, <1>1, <1>3
    <3> QED
      BY <3>1, <1>2, <1>3
  <2> QED
    BY <2>1, <2>2, <1>1
<1>6. DOMAIN index' = DOMAIN index \ {entries[i].key}
      /\ \A k \in DOMAIN index' : index'[k] = index[k]
  BY DEF Unindexed
<1>7. \A m \in DOMAIN entries \ {i} : entries[m].key \in DOMAIN index'
  BY <1>6 DEF ListInv
<1>8. \A j, k \in DOMAIN entries' : entries'[j].key = entries'[k].key => j = k
  BY <1>1, <1>3, <1>4 DEF ListInv
<1>9. \A j, k \in DOMAIN entries' : entries'[j].node = entries'[k].node => j = k
  BY <1>1, <1>3, <1>4 DEF ListInv
<1>10. \A j \in DOMAIN entries' : entries'[j].key \in DOMAIN index' /\ index'[entries'[j].key] = entries'[j].node
  <2> TAKE j \in DOMAIN entries'
  <2>1. PICK m \in DOMAIN entries \ {i} : entries'[j] = entries[m]
    BY <1>4
  <2>2. entries[m].key \in DOMAIN index' /\ index[entries[m].key] = entries[m].node
    BY <1>7 DEF ListInv
  <2>3. index'[entries[m].key] = index[entries[m].key]
    BY <2>2, <1>6
  <2> QED
    BY <2>1, <2>2, <2>3
<1>11. DOMAIN index' = {entries'[j].key : j \in DOMAIN entries'}
  <2>1. ASSUME NEW k \in DOMAIN index' PROVE \E j \in DOMAIN entries' : entries'[j].key = k
    <3>1. PICK m \in DOMAIN entries : entries[m].key = k
      BY <1>6 DEF ListInv
    <3>2. m # i
      BY <3>1, <1>6
    <3> QED
      BY <3>1, <3>2, <1>5
  <2> QED
    BY <2>1, <1>10
<1>12. ListTyped'
  BY <1>2, <1>6 DEF ListInv, ListTyped, Entry, Unindexed
<1>13. ListInv'
  BY <1>8, <1>9, <1>10, <1>11, <1>12 DEF ListInv
<1>14. ASSUME NEW k \in DOMAIN index' PROVE EntryOf(k)' = EntryOf(k)
  <2>1. PICK j \in DOMAIN entries' : entries'[j].key = k
    BY <1>11
  <2>2. PICK m \in DOMAIN entries : entries'[j] = entries[m]
    BY <1>4
  <2>3. EntryOf(k) = entries[m]
    BY <2>1, <2>2, <1>6, OneEntry
  <2>4. EntryOf(k)' = entries'[j]
    BY <1>9, <1>10, <2>1, FoundIn DEF EntryOf, PositionOf
  <2> QED
    BY <2>2, <2>3, <2>4
<1> QED
  BY <1>1, <1>2, <1>6, <1>13, <1>14

\* The last entry is the one evict_lru removes.
LEMMA FrontIsWithoutLast ==
    ASSUME NEW S, NEW s \in Seq(S), s # <<>>
    PROVE  Front(s) = RemoveAt(s, Len(s)) /\ Len(s) \in DOMAIN s
<1>1. Len(s) \in Nat \ {0} /\ Len(s) \in DOMAIN s
  OBVIOUS
<1>2. SubSeq(s, Len(s) + 1, Len(s)) = <<>>
  <2>1. Len(s) + 1 \in Int /\ Len(s) \in Int /\ Len(s) < Len(s) + 1
    BY <1>1
  <2> QED
    BY <2>1, SubSeqEmpty
<1>3. Front(s) \in Seq(S)
  BY RemovalOfLast
<1>4. Front(s) \o <<>> = Front(s)
  BY <1>3, ConcatEmptySeq
<1>5. RemoveAt(s, Len(s)) = Front(s) \o <<>>
  BY <1>2 DEF RemoveAt, Front
<1> QED
  BY <1>1, <1>4, <1>5

\* A hit moves its entry to the front: the same entries, under the same index.
LEMMA Moved ==
    ASSUME ListInv, NEW i \in DOMAIN entries,
           entries' = MovedToFront(i), index' = index
    PROVE  /\ ListInv'
           /\ Len(entries) \in Nat \ {0} /\ Len(entries') = Len(entries)
           /\ entries'[1] = entries[i]
           /\ \A j \in 2..Len(entries) : entries'[j] = entries[IF j - 1 < i THEN j - 1 ELSE j]
           /\ \A k \in DOMAIN index : EntryOf(k)' = EntryOf(k)
<1>1. /\ i \in 1..Len(entries) /\ Len(entries) \in Nat \ {0} /\ DOMAIN entries = 1..Len(entries)
      /\ entries \in Seq(Entry) /\ entries[i] \in Entry
  BY EntryFields DEF ListInv, ListTyped
<1>2. /\ Without(i) \in Seq(Entry) /\ Len(Without(i)) = Len(entries) - 1
      /\ \A j \in 1..Len(entries) - 1 : Without(i)[j] = entries[IF j < i THEN j ELSE j + 1]
  BY <1>1, Removal DEF Without
<1>3. /\ entries' \in Seq(Entry) /\ Len(entries') = Len(Without(i)) + 1
      /\ entries'[1] = entries[i]
      /\ \A j \in 2..Len(Without(i)) + 1 : entries'[j] = Without(i)[j - 1]
  <2> DEFINE e == entries[i]
             s == Without(i)
  <2>1. entries' = <<e>> \o s
    BY DEF MovedToFront
  <2>2. e \in Entry /\ s \in Seq(Entry)
    BY <1>1, <1>2
  <2> HIDE DEF e, s
  <2>3. /\ entries' \in Seq(Entry) /\ Len(entries') = Len(s) + 1 /\ entries'[1] = e
        /\ \A j \in 2..Len(s) + 1 : entries'[j] = s[j - 1]
    BY <2>1, <2>2, InFront
  <2> QED
    BY <2>3 DEF e, s
<1>4. Len(entries') = Len(entries)
  BY <1>1, <1>2, <1>3
<1>5. ASSUME NEW j \in 2..Len(entries)
      PROVE  entries'[j] = entries[IF j - 1 < i THEN j - 1 ELSE j]
  <2>1. j - 1 \in 1..Len(entries) - 1 /\ j - 1 + 1 = j
    BY <1>1
  <2>2. entries'[j] = Without(i)[j - 1]
    BY <1>1, <1>2, <1>3
  <2> QED
    BY <2>1, <2>2, <1>2
<1>6. DOMAIN entries' = DOMAIN entries
  <2>1. DOMAIN entries' = 1..Len(entries')
    BY <1>3
  <2> QED
    BY <2>1, <1>1, <1>4
<1> DEFINE from(j) == IF j = 1 THEN i ELSE IF j - 1 < i THEN j - 1 ELSE j
<1>7. ASSUME NEW j \in DOMAIN entries
      PROVE  from(j) \in DOMAIN entries /\ entries'[j] = entries[from(j)]
  BY <1>1, <1>3, <1>5
<1>8. \A j, k \in DOMAIN entries : from(j) = from(k) => j = k
  BY <1>1
<1>9. ASSUME NEW m \in DOMAIN entries PROVE \E j \in DOMAIN entries : from(j) = m
  <2>1. CASE m = i
    BY <2>1, <1>1
  <2>2. CASE m < i
    <3>1. m + 1 \in DOMAIN entries /\ from(m + 1) = m
      BY <2>2, <1>1
    <3> QED
      BY <3>1
  <2>3. CASE m > i
    <3>1. from(m) = m
      BY <2>3, <1>1
    <3> QED
      BY <3>1
  <2> QED
    BY <2>1, <2>2, <2>3, <1>1
<1> HIDE DEF from
<1>10. \A j, k \in DOMAIN entries' : entries'[j].key = entries'[k].key => j = k
  BY <1>6, <1>7, <1>8 DEF ListInv
<1>11. \A j, k \in DOMAIN entries' : entries'[j].node = entries'[k].node => j = k
  BY <1>6, <1>7, <1>8 DEF ListInv
<1>12. \A j \in DOMAIN entries' : index'[entries'[j].key] = entries'[j].node
  BY <1>6, <1>7 DEF ListInv
<1>13. DOMAIN index' = {entries'[j].key : j \in DOMAIN entries'}
  BY <1>6, <1>7, <1>9 DEF ListInv
<1>14. ListInv'
  BY <1>3, <1>10, <1>11, <1>12, <1>13 DEF ListInv, ListTyped, Entry
<1>15. ASSUME NEW k \in DOMAIN index PROVE EntryOf(k)' = EntryOf(k)
  <2>1. PICK j \in DOMAIN entries' : entries'[j].key = k
    BY <1>13
  <2>2. PICK m \in DOMAIN entries : entries'[j] = entries[m]
    BY <1>6, <1>7
  <2>3. EntryOf(k) = entries[m]
    BY <2>1, <2>2, OneEntry
  <2>4. EntryOf(k)' = entries'[j]
    BY <1>11, <1>12, <2>1, FoundIn DEF EntryOf, PositionOf
  <2> QED
    BY <2>2, <2>3, <2>4
<1> QED
  BY <1>1, <1>3, <1>4, <1>5, <1>14, <1>15

\* An insert puts an entry in front, under a name no other entry has.
LEMMA Added ==
    ASSUME ListInv, NEW e \in Entry, e.key \notin DOMAIN index,
           \A i \in DOMAIN entries : entries[i].node # e.node,
           entries' = <<e>> \o entries,
           index' = [k \in DOMAIN index \cup {e.key} |->
                        IF k = e.key THEN e.node ELSE index[k]]
    PROVE  /\ ListInv'
           /\ Len(entries) \in Nat /\ Len(entries') = Len(entries) + 1
           /\ entries'[1] = e
           /\ \A j \in 2..Len(entries) + 1 : entries'[j] = entries[j - 1]
           /\ EntryOf(e.key)' = e
           /\ \A k \in DOMAIN index : EntryOf(k)' = EntryOf(k)
<1>1. entries \in Seq(Entry) /\ Len(entries) \in Nat /\ DOMAIN entries = 1..Len(entries)
  BY DEF ListInv, ListTyped
<1>2. /\ entries' \in Seq(Entry) /\ Len(entries') = Len(entries) + 1 /\ entries'[1] = e
      /\ \A j \in 2..Len(entries) + 1 : entries'[j] = entries[j - 1]
  BY <1>1, InFront
<1>3. DOMAIN entries' = 1..Len(entries) + 1
  BY <1>1, <1>2
<1>4. ASSUME NEW j \in DOMAIN entries', j # 1
      PROVE  j - 1 \in DOMAIN entries /\ entries'[j] = entries[j - 1]
  BY <1>1, <1>2, <1>3, <1>4
<1>5. ASSUME NEW m \in DOMAIN entries
      PROVE  m + 1 \in DOMAIN entries' /\ entries'[m + 1] = entries[m]
  <2>1. m + 1 \in DOMAIN entries' /\ m + 1 # 1 /\ m + 1 - 1 = m
    BY <1>1, <1>3
  <2> QED
    BY <2>1, <1>4
<1>6. DOMAIN index' = DOMAIN index \cup {e.key} /\ index'[e.key] = e.node
      /\ \A k \in DOMAIN index : index'[k] = index[k]
  OBVIOUS
<1>7. \A m \in DOMAIN entries : entries[m].key \in DOMAIN index /\ entries[m].key # e.key
  BY DEF ListInv
<1>8. ASSUME NEW j \in DOMAIN entries', NEW k \in DOMAIN entries'
      PROVE  /\ entries'[j].key = entries'[k].key => j = k
             /\ entries'[j].node = entries'[k].node => j = k
  <2>1. CASE j = 1 /\ k = 1
    BY <2>1
  <2>2. CASE j = 1 /\ k # 1
    BY <2>2, <1>2, <1>4, <1>7
  <2>3. CASE j # 1 /\ k = 1
    BY <2>3, <1>2, <1>4, <1>7
  <2>4. CASE j # 1 /\ k # 1
    <3>1. /\ j - 1 \in DOMAIN entries /\ entries'[j] = entries[j - 1]
          /\ k - 1 \in DOMAIN entries /\ entries'[k] = entries[k - 1]
      BY <2>4, <1>4
    <3>2. j - 1 = k - 1 => j = k
      BY <1>3
    <3> QED
      BY <3>1, <3>2 DEF ListInv
  <2> QED
    BY <2>1, <2>2, <2>3, <2>4
<1>9. ASSUME NEW j \in DOMAIN entries'
      PROVE  entries'[j].key \in DOMAIN index' /\ index'[entries'[j].key] = entries'[j].node
  <2>1. CASE j = 1
    BY <2>1, <1>2, <1>6
  <2>2. CASE j # 1
    <3>1. j - 1 \in DOMAIN entries /\ entries'[j] = entries[j - 1]
      BY <2>2, <1>4
    <3>2. /\ entries[j - 1].key \in DOMAIN index
          /\ index[entries[j - 1].key] = entries[j - 1].node
      BY <3>1 DEF ListInv
    <3>3. index'[entries[j - 1].key] = index[entries[j - 1].key]
      BY <3>2, <1>6
    <3> QED
      BY <3>1, <3>2, <3>3, <1>6
  <2> QED
    BY <2>1, <2>2
<1>10. DOMAIN index' = {entries'[j].key : j \in DOMAIN entries'}
  <2>1. ASSUME NEW k \in DOMAIN index' PROVE \E j \in DOMAIN entries' : entries'[j].key = k
    <3>1. CASE k = e.key
      BY <3>1, <1>1, <1>2, <1>3
    <3>2. CASE k # e.key
      <4>1. PICK m \in DOMAIN entries : entries[m].key = k
        BY <3>2, <1>6 DEF ListInv
      <4> QED
        BY <4>1, <1>5
    <3> QED
      BY <3>1, <3>2
  <2>2. \A j \in DOMAIN entries' : entries'[j].key \in DOMAIN index'
    BY <1>9
  <2> QED
    BY <2>1, <2>2
<1>11. ListTyped'
  BY <1>2, <1>6 DEF ListInv, ListTyped, Entry
<1>12. ListInv'
  BY <1>8, <1>9, <1>10, <1>11 DEF ListInv
<1>13. ASSUME NEW k, NEW j \in DOMAIN entries', entries'[j].key = k
       PROVE  EntryOf(k)' = entries'[j]
  <2>1. \A m, n \in DOMAIN entries' : entries'[m].node = entries'[n].node => m = n
    BY <1>8
  <2>2. index'[entries'[j].key] = entries'[j].node
    BY <1>9
  <2> QED
    BY <2>1, <2>2, <1>13, FoundIn DEF EntryOf, PositionOf
<1>14. EntryOf(e.key)' = e
  <2>1. 1 \in DOMAIN entries'
    BY <1>1, <1>3
  <2> QED
    BY <2>1, <1>2, <1>13
<1>15. ASSUME NEW k \in DOMAIN index PROVE EntryOf(k)' = EntryOf(k)
  <2>1. PICK m \in DOMAIN entries : entries[m].key = k
    BY DEF ListInv
  <2>2. EntryOf(k) = entries[m]
    BY <2>1, OneEntry
  <2>3. PICK j \in DOMAIN entries' : entries'[j] = entries[m]
    BY <1>5
  <2>4. EntryOf(k)' = entries'[j]
    BY <2>1, <2>3, <1>13
  <2> QED
    BY <2>2, <2>3, <2>4
<1> QED
  BY <1>1, <1>2, <1>12, <1>14, <1>15

----------------------------------------------------------------------------
\* The new entry has a name of its own.
LEMMA NameIsFree ==
    ASSUME ListInv, Len(entries) < MaxEntries
    PROVE  FreeNode \in Nodes /\ \A i \in DOMAIN entries : entries[i].node # FreeNode
<1> DEFINE n == Len(entries)
           f == [i \in 1..n |-> entries[i].node]
           Used == {f[i] : i \in 1..n}
<1>1. n \in Nat /\ DOMAIN entries = 1..n /\ MaxEntries \in Nat
  BY BoundsAssumption DEF ListInv, ListTyped
<1>2. DOMAIN f = 1..n
  OBVIOUS
<1>3. IsFiniteSet(Used) /\ Cardinality(Used) <= n
  <2> HIDE DEF n, f
  <2> QED
    BY <1>1, <1>2, SeenAt
<1>4. \E m \in Nodes : m \notin Used
  <2> HIDE DEF Used
  <2> SUFFICES ASSUME Nodes \subseteq Used PROVE FALSE
    OBVIOUS
  <2>1. IsFiniteSet(Nodes) /\ Cardinality(Nodes) <= Cardinality(Used)
    BY <1>3, FS_Subset
  <2>2. Cardinality(Nodes) \in Nat /\ Cardinality(Used) \in Nat
    BY <2>1, <1>3, FS_CardinalityType
  <2>3. Cardinality(Nodes) >= MaxEntries
    BY <2>1, NodesAssumption
  <2> QED
    BY <1>1, <1>3, <2>1, <2>2, <2>3
<1>5. \E m \in Nodes : \A i \in DOMAIN entries : entries[i].node # m
  BY <1>1, <1>4
<1> QED
  BY <1>5 DEF FreeNode

\* Before each stage of a put there is what that stage needs: the key is out of
\* the cache, and after the evictions there is room for it.
RoomInv ==
    /\ Len(entries) <= MaxEntries
    /\ Idle \/ putting \in [stage : {"evict", "purge", "insert"}, key : Keys,
                            response : Responses, clock : Nat]
    /\ ~Idle => putting.key \notin DOMAIN index
    /\ ~Idle /\ putting.stage # "evict" => Len(entries) < MaxEntries
    /\ ~Idle /\ putting.stage = "purge" => putting.clock <= now

\* What the counters and the clock are.
CountInv ==
    /\ stats \in [hits : Nat, misses : Nat, evictions : Nat]
    /\ reply \in Responses \cup {Miss}
    /\ now \in Nat /\ puts \in Nat /\ dropped \in Nat
    /\ EvictionsExact

CacheInv == ListInv /\ RoomInv /\ CountInv

\* A put that is under way has a stage.
LEMMA PutStage ==
    ASSUME RoomInv
    PROVE  /\ putting.stage \in {"evict", "purge", "insert"} => ~Idle
           /\ ~Idle => putting.stage \in {"evict", "purge", "insert"}
  BY DEF RoomInv, Idle, NotPutting

LEMMA CacheInvInit == Init => CacheInv
  BY BoundsAssumption DEF Init, CacheInv, ListInv, ListTyped, RoomInv, CountInv,
     EvictionsExact, Idle, NotPutting

LEMMA GetMissKeepsCacheInv ==
    ASSUME CacheInv, NEW k \in Keys, GetMiss(k)
    PROVE  CacheInv'
<1>1. UNCHANGED <<entries, index, putting, now, puts, dropped>>
  BY DEF GetMiss
<1>2. ListInv'
  BY <1>1 DEF CacheInv, ListInv, ListTyped
<1>3. RoomInv'
  BY <1>1 DEF CacheInv, RoomInv, Idle
<1>4. CountInv'
  BY <1>1 DEF CacheInv, CountInv, EvictionsExact, GetMiss
<1> QED
  BY <1>2, <1>3, <1>4 DEF CacheInv

\* An entry is erased: by get, by put, or by one of the evictions.
LEMMA ErasureKeepsListAndRoom ==
    ASSUME CacheInv, NEW i \in DOMAIN entries,
           entries' = Without(i), index' = Unindexed({entries[i].key}),
           UNCHANGED <<putting, now>>
    PROVE  ListInv' /\ RoomInv'
<1>1. /\ ListInv' /\ Len(entries) \in Nat \ {0} /\ Len(entries') = Len(entries) - 1
      /\ DOMAIN index' = DOMAIN index \ {entries[i].key}
  BY Thinned DEF CacheInv
<1>2. /\ Len(entries') <= MaxEntries
      /\ Len(entries) < MaxEntries => Len(entries') < MaxEntries
  BY <1>1, BoundsAssumption DEF CacheInv, RoomInv
<1>3. RoomInv'
  BY <1>1, <1>2 DEF CacheInv, RoomInv, Idle
<1> QED
  BY <1>1, <1>3

LEMMA GetExpiredKeepsCacheInv ==
    ASSUME CacheInv, NEW k \in Keys, GetExpired(k)
    PROVE  CacheInv'
<1> DEFINE i == PositionOf(index[k])
<1>1. i \in DOMAIN entries /\ entries[i].key = k
  BY Indexed DEF GetExpired, CacheInv
<1>2. entries' = Without(i) /\ index' = Unindexed({entries[i].key}) /\ UNCHANGED <<putting, now>>
  BY <1>1 DEF GetExpired
<1> HIDE DEF i
<1>3. ListInv' /\ RoomInv'
  BY <1>1, <1>2, ErasureKeepsListAndRoom
<1>4. Len(entries) \in Nat \ {0} /\ Len(entries') = Len(entries) - 1
  BY <1>1, <1>2, Thinned DEF CacheInv
<1>5. /\ stats' = [stats EXCEPT !.misses = @ + 1] /\ reply' = Miss /\ dropped' = dropped + 1
      /\ UNCHANGED <<puts, now>>
  BY DEF GetExpired
<1>6. stats' \in [hits : Nat, misses : Nat, evictions : Nat] /\ stats'.evictions = stats.evictions
  BY <1>5 DEF CacheInv, CountInv
<1>7. stats.evictions \in Nat
  BY DEF CacheInv, CountInv
<1>8. puts' = Len(entries') + stats'.evictions + dropped'
  BY <1>4, <1>5, <1>6, <1>7 DEF CacheInv, CountInv, EvictionsExact
<1>9. CountInv'
  BY <1>5, <1>6, <1>8 DEF CacheInv, CountInv, EvictionsExact
<1> QED
  BY <1>3, <1>9 DEF CacheInv

LEMMA GetHitKeepsCacheInv ==
    ASSUME CacheInv, NEW k \in Keys, GetHit(k)
    PROVE  CacheInv'
<1> DEFINE i == PositionOf(index[k])
<1>1. i \in DOMAIN entries /\ entries[i].key = k /\ EntryOf(k) = entries[i]
  BY Indexed DEF GetHit, CacheInv
<1>2. entries' = MovedToFront(i) /\ UNCHANGED <<index, putting, now, puts, dropped>>
  BY DEF GetHit
<1> HIDE DEF i
<1>3. ListInv' /\ Len(entries') = Len(entries)
  BY <1>1, <1>2, Moved DEF CacheInv
<1>4. RoomInv'
  BY <1>2, <1>3 DEF CacheInv, RoomInv, Idle
<1>5. entries[i].response \in Responses
  BY <1>1, EntryFields DEF CacheInv, ListInv
<1>6. CountInv'
  BY <1>1, <1>2, <1>3, <1>5 DEF CacheInv, CountInv, EvictionsExact, GetHit
<1> QED
  BY <1>3, <1>4, <1>6 DEF CacheInv

LEMMA PutBeginKeepsCacheInv ==
    ASSUME CacheInv, NEW k \in Keys, NEW r \in Responses, PutBegin(k, r)
    PROVE  CacheInv'
<1> DEFINE p == [stage |-> "evict", key |-> k, response |-> r, clock |-> 0]
<1>1. Idle /\ putting' = p /\ UNCHANGED <<stats, reply, now, puts>>
  BY DEF PutBegin
<1>2. /\ p \in [stage : {"evict", "purge", "insert"}, key : Keys,
               response : Responses, clock : Nat]
      /\ p.stage = "evict" /\ p.key = k
  OBVIOUS
<1> HIDE DEF p
<1>3. CASE k \in DOMAIN index
  <2> DEFINE i == PositionOf(index[k])
  <2>1. i \in DOMAIN entries /\ entries[i].key = k
    BY <1>3, Indexed DEF CacheInv
  <2>2. entries' = Without(i) /\ index' = Unindexed({entries[i].key}) /\ dropped' = dropped + 1
    BY <1>3, <2>1 DEF PutBegin
  <2> HIDE DEF i
  <2>3. /\ ListInv' /\ Len(entries) \in Nat \ {0} /\ Len(entries') = Len(entries) - 1
        /\ DOMAIN index' = DOMAIN index \ {k}
    BY <2>1, <2>2, Thinned DEF CacheInv
  <2>4. Len(entries') <= MaxEntries
    BY <2>3, BoundsAssumption DEF CacheInv, RoomInv
  <2>5. RoomInv'
    BY <1>1, <1>2, <2>3, <2>4 DEF RoomInv
  <2>6. stats.evictions \in Nat
    BY DEF CacheInv, CountInv
  <2>7. puts' = Len(entries') + stats'.evictions + dropped'
    BY <1>1, <2>2, <2>3, <2>6 DEF CacheInv, CountInv, EvictionsExact
  <2>8. CountInv'
    BY <1>1, <2>2, <2>7 DEF CacheInv, CountInv, EvictionsExact
  <2> QED
    BY <2>3, <2>5, <2>8 DEF CacheInv
<1>4. CASE k \notin DOMAIN index
  <2>1. UNCHANGED <<entries, index, dropped>>
    BY <1>4 DEF PutBegin
  <2>2. ListInv'
    BY <2>1 DEF CacheInv, ListInv, ListTyped
  <2>3. RoomInv'
    BY <1>1, <1>2, <1>4, <2>1 DEF CacheInv, RoomInv
  <2>4. CountInv'
    BY <1>1, <2>1 DEF CacheInv, CountInv, EvictionsExact
  <2> QED
    BY <2>2, <2>3, <2>4 DEF CacheInv
<1> QED
  BY <1>3, <1>4

\* What evict_lru and evict_expired have in common.
LEMMA EvictionKeepsCacheInv ==
    ASSUME CacheInv, NEW i \in DOMAIN entries,
           entries' = Without(i), index' = Unindexed({entries[i].key}),
           stats' = [stats EXCEPT !.evictions = @ + 1],
           UNCHANGED <<putting, reply, now, puts, dropped>>
    PROVE  CacheInv'
<1>1. ListInv' /\ RoomInv'
  BY ErasureKeepsListAndRoom
<1>2. Len(entries) \in Nat \ {0} /\ Len(entries') = Len(entries) - 1
  BY Thinned DEF CacheInv
<1>3. /\ stats' \in [hits : Nat, misses : Nat, evictions : Nat]
      /\ stats'.evictions = stats.evictions + 1 /\ stats.evictions \in Nat
  BY DEF CacheInv, CountInv
<1>4. puts' = Len(entries') + stats'.evictions + dropped'
  BY <1>2, <1>3 DEF CacheInv, CountInv, EvictionsExact
<1>5. CountInv'
  BY <1>3, <1>4 DEF CacheInv, CountInv, EvictionsExact
<1> QED
  BY <1>1, <1>5 DEF CacheInv

LEMMA EvictLruErases ==
    ASSUME CacheInv, EvictLru, entries # <<>>
    PROVE  /\ Len(entries) \in DOMAIN entries
           /\ entries' = Without(Len(entries))
           /\ index' = Unindexed({entries[Len(entries)].key})
           /\ stats' = [stats EXCEPT !.evictions = @ + 1]
<1>1. entries \in Seq(Entry)
  BY DEF CacheInv, ListInv, ListTyped
<1>2. Front(entries) = RemoveAt(entries, Len(entries)) /\ Len(entries) \in DOMAIN entries
  BY <1>1, FrontIsWithoutLast
<1> QED
  BY <1>2 DEF EvictLru, Without, Last

LEMMA EvictLruKeepsCacheInv ==
    ASSUME CacheInv, EvictLru
    PROVE  CacheInv'
<1>1. UNCHANGED <<putting, reply, now, puts, dropped>>
  BY DEF EvictLru
<1>2. CASE entries # <<>>
  BY <1>1, <1>2, EvictLruErases, EvictionKeepsCacheInv
<1>3. CASE entries = <<>>
  <2>1. UNCHANGED <<entries, index, stats>>
    BY <1>3 DEF EvictLru
  <2>2. ListInv'
    BY <2>1 DEF CacheInv, ListInv, ListTyped
  <2>3. RoomInv'
    BY <1>1, <2>1 DEF CacheInv, RoomInv, Idle
  <2>4. CountInv'
    BY <1>1, <2>1 DEF CacheInv, CountInv, EvictionsExact
  <2> QED
    BY <2>2, <2>3, <2>4 DEF CacheInv
<1> QED
  BY <1>2, <1>3

LEMMA EraseExpiredKeepsCacheInv ==
    ASSUME CacheInv, EraseExpired
    PROVE  CacheInv'
<1>1. PICK i \in DOMAIN entries :
          /\ entries' = Without(i) /\ index' = Unindexed({entries[i].key})
          /\ stats' = [stats EXCEPT !.evictions = @ + 1]
  BY DEF EraseExpired
<1>2. UNCHANGED <<putting, reply, now, puts, dropped>>
  BY DEF EraseExpired
<1> QED
  BY <1>1, <1>2, EvictionKeepsCacheInv

\* The put goes on to its next stage.
LEMMA NextStageKeepsCacheInv ==
    ASSUME CacheInv, StopEvicting \/ NothingExpired
    PROVE  CacheInv'
<1>1. UNCHANGED <<entries, index, stats, reply, now, puts, dropped>>
  BY DEF StopEvicting, NothingExpired
<1>2. ~Idle /\ putting.stage \in {"evict", "purge"}
  BY PutStage DEF CacheInv, StopEvicting, NothingExpired
<1>3. putting \in [stage : {"evict", "purge", "insert"}, key : Keys,
                   response : Responses, clock : Nat]
  BY <1>2 DEF CacheInv, RoomInv
<1>4. now \in Nat
  BY DEF CacheInv, CountInv
<1>5. /\ putting' \in [stage : {"evict", "purge", "insert"}, key : Keys,
                       response : Responses, clock : Nat]
      /\ putting'.key = putting.key
      /\ putting'.stage = "purge" => putting'.clock = now
  BY <1>3, <1>4 DEF StopEvicting, NothingExpired
<1>6. Len(entries) < MaxEntries
  <2>1. Len(entries) \in Nat /\ MaxEntries \in Nat
    BY BoundsAssumption DEF CacheInv, ListInv, ListTyped
  <2>2. CASE StopEvicting
    BY <2>1, <2>2 DEF StopEvicting, Full
  <2>3. CASE NothingExpired
    BY <1>2, <2>3 DEF NothingExpired, CacheInv, RoomInv
  <2> QED
    BY <2>2, <2>3
<1>7. ListInv'
  BY <1>1 DEF CacheInv, ListInv, ListTyped
<1>8. RoomInv'
  BY <1>1, <1>2, <1>4, <1>5, <1>6 DEF CacheInv, RoomInv
<1>9. CountInv'
  BY <1>1 DEF CacheInv, CountInv, EvictionsExact
<1> QED
  BY <1>7, <1>8, <1>9 DEF CacheInv

\* The entry that a put inserts.
NewEntry == [node |-> FreeNode, key |-> putting.key,
             response |-> putting.response, expires_at |-> ExpiryTime]

LEMMA Inserts ==
    ASSUME CacheInv, PutInsert
    PROVE  /\ NewEntry \in Entry /\ NewEntry.key \notin DOMAIN index
           /\ \A i \in DOMAIN entries : entries[i].node # NewEntry.node
           /\ NewEntry.key = putting.key /\ NewEntry.expires_at = now + Ttl
           /\ NewEntry.response = putting.response /\ NewEntry.node = FreeNode
           /\ entries' = <<NewEntry>> \o entries
           /\ index' = [k \in DOMAIN index \cup {NewEntry.key} |->
                           IF k = NewEntry.key THEN NewEntry.node ELSE index[k]]
           /\ Len(entries) < MaxEntries /\ ~Idle /\ Idle'
<1>1. /\ ~Idle /\ Len(entries) < MaxEntries /\ putting.key \notin DOMAIN index
      /\ putting \in [stage : {"evict", "purge", "insert"}, key : Keys,
                      response : Responses, clock : Nat]
  BY PutStage DEF CacheInv, RoomInv, PutInsert
<1>2. FreeNode \in Nodes /\ \A i \in DOMAIN entries : entries[i].node # FreeNode
  BY <1>1, NameIsFree DEF CacheInv
<1>3. now + Ttl \in Nat
  BY BoundsAssumption DEF CacheInv, CountInv
<1>4. NewEntry \in Entry
  BY <1>1, <1>2, <1>3 DEF NewEntry, Entry, ExpiryTime
<1>5. /\ entries' = <<NewEntry>> \o entries
      /\ index' = [k \in DOMAIN index \cup {NewEntry.key} |->
                      IF k = NewEntry.key THEN NewEntry.node ELSE index[k]]
  BY DEF PutInsert, NewEntry
<1>6. Idle'
  BY DEF PutInsert, Idle
<1> QED
  BY <1>1, <1>2, <1>4, <1>5, <1>6 DEF NewEntry, ExpiryTime

LEMMA PutInsertKeepsCacheInv ==
    ASSUME CacheInv, PutInsert
    PROVE  CacheInv'
<1>1. PICK e : e = NewEntry
  OBVIOUS
<1>2. /\ e \in Entry /\ e.key \notin DOMAIN index
      /\ \A i \in DOMAIN entries : entries[i].node # e.node
      /\ entries' = <<e>> \o entries
      /\ index' = [k \in DOMAIN index \cup {e.key} |-> IF k = e.key THEN e.node ELSE index[k]]
      /\ Len(entries) < MaxEntries /\ Idle'
  BY <1>1, Inserts
<1>3. ListInv' /\ Len(entries) \in Nat /\ Len(entries') = Len(entries) + 1
  BY <1>2, Added DEF CacheInv
<1>4. UNCHANGED <<stats, reply, now, dropped>> /\ puts' = puts + 1
  BY DEF PutInsert
<1>5. RoomInv'
  BY <1>2, <1>3, BoundsAssumption DEF RoomInv
<1>6. stats.evictions \in Nat
  BY DEF CacheInv, CountInv
<1>7. puts' = Len(entries') + stats'.evictions + dropped'
  BY <1>3, <1>4, <1>6 DEF CacheInv, CountInv, EvictionsExact
<1>8. CountInv'
  BY <1>4, <1>7 DEF CacheInv, CountInv, EvictionsExact
<1> QED
  BY <1>3, <1>5, <1>8 DEF CacheInv

LEMMA ClearKeepsCacheInv ==
    ASSUME CacheInv, Clear
    PROVE  CacheInv'
<1>1. /\ entries' = <<>> /\ index' = Unindexed(Keys) /\ dropped' = dropped + Len(entries)
      /\ Idle /\ UNCHANGED <<putting, stats, reply, now, puts>>
  BY DEF Clear
<1>2. DOMAIN index' = {} /\ index' \in [DOMAIN index' -> Nodes]
  BY <1>1 DEF CacheInv, ListInv, ListTyped, Unindexed
<1>3. ListInv'
  BY <1>1, <1>2 DEF ListInv, ListTyped
<1>4. Len(entries') = 0 /\ Len(entries) \in Nat
  BY <1>1 DEF CacheInv, ListInv, ListTyped
<1>5. RoomInv'
  BY <1>1, <1>4, BoundsAssumption DEF RoomInv, Idle
<1>6. stats.evictions \in Nat
  BY DEF CacheInv, CountInv
<1>7. puts' = Len(entries') + stats'.evictions + dropped'
  BY <1>1, <1>4, <1>6 DEF CacheInv, CountInv, EvictionsExact
<1>8. CountInv'
  BY <1>1, <1>4, <1>7 DEF CacheInv, CountInv, EvictionsExact
<1> QED
  BY <1>3, <1>5, <1>8 DEF CacheInv

LEMMA TickKeepsCacheInv ==
    ASSUME CacheInv, Tick
    PROVE  CacheInv'
<1>1. now' = now + 1 /\ now \in Nat /\ UNCHANGED <<entries, index, putting, stats, reply, puts, dropped>>
  BY DEF Tick, CacheInv, CountInv
<1>2. ListInv'
  BY <1>1 DEF CacheInv, ListInv, ListTyped
<1>3. ~Idle => putting.clock \in Nat
  BY DEF CacheInv, RoomInv
<1>4. RoomInv'
  BY <1>1, <1>3 DEF CacheInv, RoomInv, Idle
<1>5. CountInv'
  BY <1>1 DEF CacheInv, CountInv, EvictionsExact
<1> QED
  BY <1>2, <1>4, <1>5 DEF CacheInv

LEMMA CacheInvariant == Spec => []CacheInv
<1>1. ASSUME CacheInv, [Next]_vars PROVE CacheInv'
  <2>1. CASE UNCHANGED vars
    <3>1. UNCHANGED <<entries, index, putting, stats, reply, now, puts, dropped>>
      BY <2>1 DEF vars
    <3>2. ListInv'
      BY <1>1, <3>1 DEF CacheInv, ListInv, ListTyped
    <3>3. RoomInv'
      BY <1>1, <3>1 DEF CacheInv, RoomInv, Idle
    <3>4. CountInv'
      BY <1>1, <3>1 DEF CacheInv, CountInv, EvictionsExact
    <3> QED
      BY <3>2, <3>3, <3>4 DEF CacheInv
  <2> QED
    BY <1>1, <2>1, GetMissKeepsCacheInv, GetExpiredKeepsCacheInv, GetHitKeepsCacheInv,
       PutBeginKeepsCacheInv, EvictLruKeepsCacheInv, NextStageKeepsCacheInv,
       EraseExpiredKeepsCacheInv, PutInsertKeepsCacheInv, ClearKeepsCacheInv,
       TickKeepsCacheInv DEF Next
<1> QED
  BY <1>1, CacheInvInit, PTL DEF Spec

\* The cache never holds more than max_entries, in a put or between puts.
THEOREM SizeStaysCapped == Spec => []SizeCapped
<1>1. CacheInv => SizeCapped
  BY DEF CacheInv, RoomInv, SizeCapped
<1> QED
  BY <1>1, CacheInvariant, PTL

\* Every entry ever put in is still there, evicted, or dropped, and just once.
THEOREM EvictionsAreExact == Spec => []EvictionsExact
<1>1. CacheInv => EvictionsExact
  BY DEF CacheInv, CountInv
<1> QED
  BY <1>1, CacheInvariant, PTL

\* The list and the index agree between any two steps of any operations.
THEOREM IndexAgrees == Spec => []IndexMatchesEntries
<1>1. ASSUME CacheInv PROVE IndexMatchesEntries
  <2>1. entries \in Seq(Entry)
    BY <1>1 DEF CacheInv, ListInv, ListTyped
  <2> DEFINE n == Len(entries)
             f == [i \in 1..n |-> entries[i].key]
  <2>2. n \in Nat /\ DOMAIN entries = 1..n
    BY <2>1
  <2>3. DOMAIN f = 1..n
    OBVIOUS
  <2>4. NoneAlike(f, n)
    BY <1>1, <2>2 DEF CacheInv, ListInv, NoneAlike
  <2>5. DOMAIN index = {f[i] : i \in 1..n}
    BY <1>1, <2>2 DEF CacheInv, ListInv
  <2>6. Cardinality({f[i] : i \in 1..n}) = n
    <3> HIDE DEF n, f
    <3> QED
      BY <2>2, <2>3, <2>4, SeenOnce
  <2> QED
    BY <1>1, <2>5, <2>6 DEF IndexMatchesEntries, CacheInv, ListInv
<1> QED
  BY <1>1, CacheInvariant, PTL

----------------------------------------------------------------------------
\* The uses of keys, latest first, and what they say of the list.
Uses == [key : Keys, expires_at : Nat]

Distinct(us) == \A r, s \in DOMAIN us : us[r].key = us[s].key => r = s

\* Every entry is among the uses, with the time it expires.
Remembered(es, us) ==
    \A i \in DOMAIN es : \E r \in DOMAIN us :
        us[r].key = es[i].key /\ us[r].expires_at = es[i].expires_at

\* The list is in the order of the uses.
InUseOrder(es, us) ==
    \A i, j \in DOMAIN es : \A r, s \in DOMAIN us :
        i < j /\ us[r].key = es[i].key /\ us[s].key = es[j].key => r < s

\* How one list comes from another by removing what has key k, or nothing.
Embeds(f, new, old, from) ==
    /\ \A j \in from..Len(new) : f[j] \in DOMAIN old /\ new[j] = old[f[j]]
    /\ \A i, j \in from..Len(new) : i < j => f[i] < f[j]

\* A use puts its key in front; the others go back by at most one.
LEMMA UseMoves ==
    ASSUME recency \in Seq(Uses), Distinct(recency), NEW k \in Keys, NEW x \in Nat
    PROVE  \E f :
              LET us == UsedNow(k, x)
              IN  /\ us \in Seq(Uses) /\ Len(us) \in Nat \ {0}
                  /\ us[1].key = k /\ us[1].expires_at = x
                  /\ Embeds(f, us, recency, 2)
                  /\ \A r \in 2..Len(us) :
                        /\ recency[f[r]].key # k
                        /\ \/ f[r] = r - 1
                           \/ f[r] = r /\ \E q \in DOMAIN recency : q < r /\ recency[q].key = k
                  /\ \A q \in DOMAIN recency :
                        recency[q].key # k => \E r \in 2..Len(us) : f[r] = q
<1> DEFINE e == [key |-> k, expires_at |-> x]
<1>1. Len(recency) \in Nat /\ DOMAIN recency = 1..Len(recency)
  OBVIOUS
<1>2. e \in Uses /\ e.key = k /\ e.expires_at = x
  BY DEF Uses
<1>3. UsedNow(k, x) = <<e>> \o NotRecent(k)
  BY DEF UsedNow
<1> HIDE DEF e
<1>4. CASE \E i \in DOMAIN recency : recency[i].key = k
  <2> DEFINE p == CHOOSE i \in DOMAIN recency : recency[i].key = k
  <2>1. p \in DOMAIN recency /\ recency[p].key = k
    BY <1>4
  <2>2. NotRecent(k) = RemoveAt(recency, p)
    BY <1>4 DEF NotRecent
  <2> HIDE DEF p
  <2>3. /\ NotRecent(k) \in Seq(Uses) /\ Len(NotRecent(k)) = Len(recency) - 1
        /\ \A j \in 1..Len(recency) - 1 :
              NotRecent(k)[j] = recency[IF j < p THEN j ELSE j + 1]
    BY <2>1, <2>2, Removal
  <2> DEFINE us == UsedNow(k, x)
             f == [r \in 2..Len(recency) |-> IF r - 1 < p THEN r - 1 ELSE r]
  <2>4. /\ us \in Seq(Uses) /\ Len(us) = Len(NotRecent(k)) + 1 /\ us[1] = e
        /\ \A j \in 2..Len(NotRecent(k)) + 1 : us[j] = NotRecent(k)[j - 1]
    BY <1>2, <1>3, <2>3, InFront
  <2> HIDE DEF us
  <2>5. Len(us) = Len(recency) /\ Len(us) \in Nat \ {0} /\ p \in 1..Len(recency)
    BY <1>1, <2>1, <2>3, <2>4
  <2>6. ASSUME NEW r \in 2..Len(us)
        PROVE  /\ f[r] \in DOMAIN recency /\ f[r] # p /\ us[r] = recency[f[r]]
               /\ f[r] = r - 1 \/ (f[r] = r /\ p < r)
    <3>1. r - 1 \in 1..Len(recency) - 1 /\ r - 1 + 1 = r /\ r \in 2..Len(NotRecent(k)) + 1
      BY <1>1, <2>3, <2>5
    <3>2. us[r] = NotRecent(k)[r - 1]
      BY <2>4, <3>1
    <3>3. us[r] = recency[IF r - 1 < p THEN r - 1 ELSE r]
      BY <2>3, <3>1, <3>2
    <3>4. f[r] = IF r - 1 < p THEN r - 1 ELSE r
      BY <2>5
    <3> QED
      BY <1>1, <2>5, <3>3, <3>4
  <2>7. \A r \in 2..Len(us) : recency[f[r]].key # k
    BY <2>1, <2>6 DEF Distinct
  <2>8. \A r, s \in 2..Len(us) : r < s => f[r] < f[s]
    BY <2>5
  <2>9. \A q \in DOMAIN recency : recency[q].key # k => \E r \in 2..Len(us) : f[r] = q
    <3> SUFFICES ASSUME NEW q \in DOMAIN recency, recency[q].key # k
                 PROVE  \E r \in 2..Len(us) : f[r] = q
      OBVIOUS
    <3>1. q # p /\ q \in 1..Len(recency)
      BY <1>1, <2>1
    <3>2. CASE q < p
      <4>1. q + 1 \in 2..Len(us) /\ f[q + 1] = q
        BY <3>1, <3>2, <2>5
      <4> QED
        BY <4>1
    <3>3. CASE q > p
      <4>1. q \in 2..Len(us) /\ f[q] = q
        BY <3>1, <3>3, <2>5
      <4> QED
        BY <4>1
    <3> QED
      BY <3>1, <3>2, <3>3, <2>5
  <2> HIDE DEF f
  <2>10. Embeds(f, us, recency, 2)
    BY <2>6, <2>8 DEF Embeds
  <2>11. \A r \in 2..Len(us) :
            \/ f[r] = r - 1
            \/ f[r] = r /\ \E q \in DOMAIN recency : q < r /\ recency[q].key = k
    BY <2>1, <2>6
  <2> QED
    BY <1>2, <2>4, <2>5, <2>7, <2>9, <2>10, <2>11 DEF us
<1>5. CASE ~\E i \in DOMAIN recency : recency[i].key = k
  <2>1. NotRecent(k) = recency
    BY <1>5 DEF NotRecent
  <2> DEFINE us == UsedNow(k, x)
             f == [r \in 2..Len(recency) + 1 |-> r - 1]
  <2>2. /\ us \in Seq(Uses) /\ Len(us) = Len(recency) + 1 /\ us[1] = e
        /\ \A j \in 2..Len(recency) + 1 : us[j] = recency[j - 1]
    BY <1>2, <1>3, <2>1, InFront
  <2> HIDE DEF us
  <2>3. \A r \in 2..Len(us) : f[r] \in DOMAIN recency /\ us[r] = recency[f[r]] /\ f[r] = r - 1
    BY <1>1, <2>2
  <2>4. \A r, s \in 2..Len(us) : r < s => f[r] < f[s]
    BY <1>1, <2>2
  <2>5. \A q \in DOMAIN recency : q + 1 \in 2..Len(us) /\ f[q + 1] = q
    BY <1>1, <2>2
  <2> HIDE DEF f
  <2>6. Embeds(f, us, recency, 2)
    BY <2>3, <2>4 DEF Embeds
  <2>7. \A r \in 2..Len(us) : recency[f[r]].key # k
    BY <1>5, <2>3
  <2>8. Len(us) \in Nat \ {0}
    BY <1>1, <2>2
  <2>9. \A q \in DOMAIN recency : recency[q].key # k => \E r \in 2..Len(us) : f[r] = q
    BY <2>5
  <2>10. \A r \in 2..Len(us) :
            \/ f[r] = r - 1
            \/ f[r] = r /\ \E q \in DOMAIN recency : q < r /\ recency[q].key = k
    BY <2>3
  <2> QED
    BY <1>2, <2>2, <2>6, <2>7, <2>8, <2>9, <2>10 DEF us
<1> QED
  BY <1>4, <1>5

\* Removal leaves the rest in order.
LEMMA ThinnedInOrder ==
    ASSUME NEW es, NEW us, NEW new, NEW i \in DOMAIN es,
           Remembered(es, us), InUseOrder(es, us),
           NEW n \in Nat, DOMAIN es = 1..n, DOMAIN new = 1..n - 1,
           \A j \in 1..n - 1 : new[j] = es[IF j < i THEN j ELSE j + 1]
    PROVE  Remembered(new, us) /\ InUseOrder(new, us)
<1> DEFINE f(j) == IF j < i THEN j ELSE j + 1
<1>1. \A j \in DOMAIN new : f(j) \in DOMAIN es /\ new[j] = es[f(j)]
  OBVIOUS
<1>2. \A j, k \in DOMAIN new : j < k => f(j) < f(k)
  OBVIOUS
<1> HIDE DEF f
<1>3. Remembered(new, us)
  BY <1>1 DEF Remembered
<1>4. InUseOrder(new, us)
  BY <1>1, <1>2 DEF InUseOrder
<1> QED
  BY <1>3, <1>4

\* What is used is in front of both, and the rest is in order behind it.
LEMMA FrontInOrder ==
    ASSUME NEW es, NEW us, NEW new, NEW news, NEW f, NEW g, NEW k, NEW x,
           Remembered(es, us), InUseOrder(es, us),
           Len(new) \in Nat, DOMAIN new = 1..Len(new),
           Len(news) \in Nat \ {0}, DOMAIN news = 1..Len(news), DOMAIN us \subseteq Int,
           Len(new) > 0 => new[1].key = k /\ new[1].expires_at = x,
           news[1].key = k, news[1].expires_at = x,
           Embeds(g, new, es, 2), \A j \in 2..Len(new) : es[g[j]].key # k,
           Embeds(f, news, us, 2), \A r \in 2..Len(news) : us[f[r]].key # k,
           \A q \in DOMAIN us : us[q].key # k => \E r \in 2..Len(news) : f[r] = q
    PROVE  Remembered(new, news) /\ InUseOrder(new, news)
<1>1. ASSUME NEW j \in DOMAIN new, j # 1
      PROVE  /\ j \in 2..Len(new) /\ g[j] \in DOMAIN es /\ new[j] = es[g[j]]
             /\ new[j].key # k
  BY <1>1 DEF Embeds
<1>2. ASSUME NEW r \in DOMAIN news, r # 1
      PROVE  /\ r \in 2..Len(news) /\ f[r] \in DOMAIN us /\ news[r] = us[f[r]]
             /\ news[r].key # k
  BY <1>2 DEF Embeds
<1>3. 1 \in DOMAIN news
  OBVIOUS
<1>4. Remembered(new, news)
  <2> SUFFICES ASSUME NEW j \in DOMAIN new
               PROVE  \E r \in DOMAIN news : news[r].key = new[j].key
                                            /\ news[r].expires_at = new[j].expires_at
    BY DEF Remembered
  <2>1. CASE j = 1
    BY <2>1, <1>3
  <2>2. CASE j # 1
    <3>1. g[j] \in DOMAIN es /\ new[j] = es[g[j]] /\ new[j].key # k
      BY <2>2, <1>1
    <3>2. PICK q \in DOMAIN us : us[q].key = es[g[j]].key /\ us[q].expires_at = es[g[j]].expires_at
      BY <3>1 DEF Remembered
    <3>3. PICK r \in 2..Len(news) : f[r] = q
      BY <3>1, <3>2
    <3>4. r \in DOMAIN news /\ news[r] = us[q]
      BY <3>3 DEF Embeds
    <3> QED
      BY <3>1, <3>2, <3>4
  <2> QED
    BY <2>1, <2>2
<1>5. InUseOrder(new, news)
  <2> SUFFICES ASSUME NEW i \in DOMAIN new, NEW j \in DOMAIN new,
                      NEW r \in DOMAIN news, NEW s \in DOMAIN news,
                      i < j, news[r].key = new[i].key, news[s].key = new[j].key
               PROVE  r < s
    BY DEF InUseOrder
  <2>1. j # 1 /\ s # 1
    <3>1. j # 1
      OBVIOUS
    <3> QED
      BY <3>1, <1>1
  <2>2. CASE i = 1
    <3>1. r = 1
      BY <2>2, <1>2
    <3> QED
      BY <3>1, <2>1
  <2>3. CASE i # 1
    <3>1. /\ i \in 2..Len(new) /\ g[i] \in DOMAIN es /\ new[i] = es[g[i]] /\ new[i].key # k
          /\ j \in 2..Len(new) /\ g[j] \in DOMAIN es /\ new[j] = es[g[j]]
      BY <2>1, <2>3, <1>1
    <3>2. /\ r \in 2..Len(news) /\ f[r] \in DOMAIN us /\ news[r] = us[f[r]]
          /\ s \in 2..Len(news) /\ f[s] \in DOMAIN us /\ news[s] = us[f[s]]
      <4>1. r # 1
        BY <3>1
      <4> QED
        BY <2>1, <4>1, <1>2
    <3>3. g[i] < g[j]
      BY <3>1 DEF Embeds
    <3>4. f[r] < f[s]
      BY <3>1, <3>2, <3>3 DEF InUseOrder
    <3>5. s < r => f[s] < f[r]
      BY <3>2 DEF Embeds
    <3>6. f[r] \in Int /\ f[s] \in Int
      BY <3>2
    <3> QED
      BY <3>2, <3>4, <3>5, <3>6
  <2> QED
    BY <2>2, <2>3
<1> QED
  BY <1>4, <1>5

\* No key is twice among the uses.
LEMMA UsesStayDistinct ==
    ASSUME NEW us, NEW news, NEW f, NEW k, Distinct(us), DOMAIN us \subseteq Int,
           Len(news) \in Nat \ {0}, DOMAIN news = 1..Len(news), news[1].key = k,
           Embeds(f, news, us, 2), \A r \in 2..Len(news) : us[f[r]].key # k
    PROVE  Distinct(news)
<1> SUFFICES ASSUME NEW r \in DOMAIN news, NEW s \in DOMAIN news, news[r].key = news[s].key
             PROVE  r = s
  BY DEF Distinct
<1>1. ASSUME NEW q \in DOMAIN news, q # 1
      PROVE  q \in 2..Len(news) /\ f[q] \in DOMAIN us /\ news[q] = us[f[q]] /\ news[q].key # k
  BY <1>1 DEF Embeds
<1>2. CASE r = 1 \/ s = 1
  BY <1>1, <1>2
<1>3. CASE r # 1 /\ s # 1
  <2>1. /\ r \in 2..Len(news) /\ f[r] \in DOMAIN us /\ news[r] = us[f[r]]
        /\ s \in 2..Len(news) /\ f[s] \in DOMAIN us /\ news[s] = us[f[s]]
    BY <1>1, <1>3
  <2>2. f[r] = f[s]
    BY <2>1 DEF Distinct
  <2>3. (r < s => f[r] < f[s]) /\ (s < r => f[s] < f[r])
    BY <2>1 DEF Embeds
  <2>4. f[r] \in Int
    BY <2>1
  <2> QED
    BY <2>1, <2>2, <2>3, <2>4
<1> QED
  BY <1>2, <1>3

KeysOf(es) == {es[i].key : i \in DOMAIN es}

\* The last entry of the list was used no later than all of the others, nor
\* than a key that is not in the list but was used since.
LEMMA LastIsFarBack ==
    ASSUME NEW es, NEW us, NEW n \in Nat \ {0}, DOMAIN es = 1..n,
           Distinct(es),
           NEW m \in Nat, DOMAIN us = 1..m,
           Remembered(es, us), InUseOrder(es, us),
           NEW r \in 1..m, us[r].key = es[n].key
    PROVE  /\ r >= n
           /\ \A q \in 1..r - 1 : us[q].key \notin KeysOf(es) => r > n
<1>1. PICK l \in Nat : l = n - 1
  OBVIOUS
<1>2. PICK h \in Nat : h = r - 1
  OBVIOUS
<1> DEFINE f == [i \in 1..l |-> es[i].key]
           g == [q \in 1..h |-> us[q].key]
           Listed == {f[i] : i \in 1..l}
           Seen == {g[q] : q \in 1..h}
<1>3. 1..l \subseteq DOMAIN es /\ n \in DOMAIN es /\ 1..h \subseteq DOMAIN us
  BY <1>1, <1>2
<1>4. DOMAIN f = 1..l /\ DOMAIN g = 1..h
  OBVIOUS
<1>5. NoneAlike(f, l)
  BY <1>1, <1>3 DEF NoneAlike, Distinct
<1>6. Listed \subseteq Seen
  <2> SUFFICES ASSUME NEW i \in 1..l PROVE \E q \in 1..h : us[q].key = es[i].key
    OBVIOUS
  <2>1. i \in DOMAIN es /\ i < n
    BY <1>1, <1>3
  <2>2. PICK q \in DOMAIN us : us[q].key = es[i].key
    BY <2>1 DEF Remembered
  <2>3. q < r
    BY <1>3, <2>1, <2>2 DEF InUseOrder
  <2>4. q \in 1..h
    BY <1>2, <2>2, <2>3
  <2> QED
    BY <2>2, <2>4
<1>7. ASSUME NEW q \in 1..r - 1, us[q].key \notin KeysOf(es)
      PROVE  us[q].key \notin Listed /\ us[q].key \in Seen
  BY <1>2, <1>3, <1>7 DEF KeysOf
<1>9. IsFiniteSet(Listed) /\ Cardinality(Listed) = l
  <2> HIDE DEF f
  <2> QED
    BY <1>4, <1>5, SeenOnce
<1>10. IsFiniteSet(Seen) /\ Cardinality(Seen) <= h
  <2> HIDE DEF g
  <2> QED
    BY <1>4, SeenAt
<1> HIDE DEF Listed, Seen
<1>11. Cardinality(Seen) \in Nat
  BY <1>10, FS_CardinalityType
<1>12. Cardinality(Listed) <= Cardinality(Seen)
  BY <1>6, <1>10, FS_Subset
<1>13. r >= n
  BY <1>1, <1>2, <1>9, <1>10, <1>11, <1>12
<1>14. ASSUME NEW q \in 1..r - 1, us[q].key \notin KeysOf(es)
       PROVE  r > n
  <2> DEFINE k == us[q].key
  <2>1. k \notin Listed /\ k \in Seen
    BY <1>7, <1>14
  <2> HIDE DEF k
  <2>2. Cardinality(Listed \cup {k}) = l + 1
    BY <2>1, <1>9, FS_AddElement
  <2>3. Listed \cup {k} \subseteq Seen
    BY <2>1, <1>6
  <2>4. Cardinality(Listed \cup {k}) <= Cardinality(Seen)
    BY <2>3, <1>10, FS_Subset
  <2> QED
    BY <2>2, <2>4, <1>1, <1>2, <1>10, <1>11
<1> QED
  BY <1>13, <1>14

----------------------------------------------------------------------------
\* A key that has lost its entry, although it has not expired, was used before
\* max_entries others; in a put, the key that is put counts as used already.
FarBack(r) ==
    \/ r > MaxEntries
    \/ ~Idle /\ recency[r].key = putting.key
    \/ ~Idle /\ r = MaxEntries /\ \A q \in 1..r - 1 : recency[q].key # putting.key

RecencyInv ==
    /\ recency \in Seq(Uses) /\ Distinct(recency)
    /\ Remembered(entries, recency) /\ InUseOrder(entries, recency)
    /\ \A r \in DOMAIN recency :
          recency[r].key \notin DOMAIN index /\ now <= recency[r].expires_at => FarBack(r)

LEMMA RecencyInvInit == Init => RecencyInv
  BY DEF Init, RecencyInv, Distinct, Remembered, InUseOrder

LEMMA RecencyFacts ==
    ASSUME RecencyInv
    PROVE  /\ Len(recency) \in Nat /\ DOMAIN recency = 1..Len(recency)
           /\ \A r \in DOMAIN recency : recency[r].key \in Keys /\ recency[r].expires_at \in Nat
<1>1. recency \in Seq(Uses)
  BY DEF RecencyInv
<1>2. Len(recency) \in Nat /\ DOMAIN recency = 1..Len(recency)
      /\ \A r \in DOMAIN recency : recency[r] \in Uses
  BY <1>1
<1> QED
  BY <1>2 DEF Uses

\* Time passes, or a put goes on to its next stage.
LEMMA QuietKeepsRecencyInv ==
    ASSUME RecencyInv, CacheInv, CacheInv', UNCHANGED <<entries, index, recency>>, now <= now',
           Idle' <=> Idle, ~Idle => putting'.key = putting.key
    PROVE  RecencyInv'
<1>1. now \in Nat /\ now' \in Nat
  BY DEF CacheInv, CountInv
<1>2. ASSUME NEW r \in DOMAIN recency, recency[r].key \notin DOMAIN index,
             now' <= recency[r].expires_at
      PROVE  FarBack(r)'
  <2>1. now <= recency[r].expires_at
    BY <1>1, <1>2, RecencyFacts
  <2>2. FarBack(r)
    BY <1>2, <2>1 DEF RecencyInv
  <2> QED
    BY <2>2 DEF FarBack
<1> QED
  BY <1>2 DEF RecencyInv

\* The list after an erasure: in order, and nothing else is lost.
LEMMA ErasureKeepsOrder ==
    ASSUME RecencyInv, CacheInv, NEW i \in DOMAIN entries,
           entries' = Without(i), index' = Unindexed({entries[i].key}),
           UNCHANGED recency
    PROVE  /\ recency' \in Seq(Uses) /\ Distinct(recency')
           /\ Remembered(entries', recency') /\ InUseOrder(entries', recency')
           /\ \A k \in DOMAIN index : k # entries[i].key => k \in DOMAIN index'
<1>1. entries \in Seq(Entry) /\ Len(entries) \in Nat /\ DOMAIN entries = 1..Len(entries)
  BY DEF CacheInv, ListInv, ListTyped
<1>2. /\ Len(entries') = Len(entries) - 1 /\ ListInv'
      /\ \A j \in 1..Len(entries) - 1 : entries'[j] = entries[IF j < i THEN j ELSE j + 1]
      /\ DOMAIN index' = DOMAIN index \ {entries[i].key}
  BY Thinned DEF CacheInv
<1>3. DOMAIN entries' = 1..Len(entries) - 1
  <2>1. entries' \in Seq(Entry)
    BY <1>2 DEF ListInv, ListTyped
  <2> QED
    BY <2>1, <1>2
<1>4. Remembered(entries, recency) /\ InUseOrder(entries, recency)
  BY DEF RecencyInv
<1> DEFINE new == entries'
<1>5. /\ DOMAIN new = 1..Len(entries) - 1
      /\ \A j \in 1..Len(entries) - 1 : new[j] = entries[IF j < i THEN j ELSE j + 1]
  BY <1>2, <1>3
<1> HIDE DEF new
<1>6. Remembered(new, recency) /\ InUseOrder(new, recency)
  BY <1>1, <1>4, <1>5, ThinnedInOrder
<1> QED
  BY <1>2, <1>6 DEF new, RecencyInv

\* get and evict_expired cost nobody an entry that has not expired.
LEMMA ExpiryKeepsRecencyInv ==
    ASSUME RecencyInv, CacheInv, NEW i \in DOMAIN entries,
           entries' = Without(i), index' = Unindexed({entries[i].key}),
           UNCHANGED <<recency, now, putting>>, now > entries[i].expires_at
    PROVE  RecencyInv'
<1>1. /\ recency' \in Seq(Uses) /\ Distinct(recency')
      /\ Remembered(entries', recency') /\ InUseOrder(entries', recency')
      /\ \A k \in DOMAIN index : k # entries[i].key => k \in DOMAIN index'
  BY ErasureKeepsOrder
<1>2. ASSUME NEW r \in DOMAIN recency, recency[r].key \notin DOMAIN index',
             now <= recency[r].expires_at
      PROVE  FarBack(r)'
  <2>1. recency[r].key # entries[i].key
    <3>1. PICK q \in DOMAIN recency :
              recency[q].key = entries[i].key /\ recency[q].expires_at = entries[i].expires_at
      BY DEF RecencyInv, Remembered
    <3>2. recency[r].key = entries[i].key => r = q
      BY <3>1 DEF RecencyInv, Distinct
    <3>3. now \in Nat /\ entries[i].expires_at \in Nat
      BY EntryFields DEF CacheInv, CountInv, ListInv
    <3> QED
      BY <1>2, <3>1, <3>2, <3>3
  <2>2. recency[r].key \notin DOMAIN index
    BY <1>1, <1>2, <2>1
  <2>3. FarBack(r)
    BY <1>2, <2>2 DEF RecencyInv
  <2> QED
    BY <2>3 DEF FarBack, Idle
<1> QED
  BY <1>1, <1>2 DEF RecencyInv

LEMMA GetExpiredKeepsRecencyInv ==
    ASSUME RecencyInv, CacheInv, NEW k \in Keys, GetExpired(k)
    PROVE  RecencyInv'
<1> DEFINE i == PositionOf(index[k])
<1>1. i \in DOMAIN entries /\ entries[i].key = k /\ EntryOf(k) = entries[i]
  BY Indexed DEF GetExpired, CacheInv
<1>2. /\ entries' = Without(i) /\ index' = Unindexed({entries[i].key})
      /\ UNCHANGED <<recency, now, putting>> /\ now > entries[i].expires_at
  BY <1>1 DEF GetExpired, Expired
<1> HIDE DEF i
<1> QED
  BY <1>1, <1>2, ExpiryKeepsRecencyInv

LEMMA EraseExpiredKeepsRecencyInv ==
    ASSUME RecencyInv, CacheInv, EraseExpired
    PROVE  RecencyInv'
<1>1. PICK i \in DOMAIN entries :
          /\ LastExpired(i) /\ entries' = Without(i) /\ index' = Unindexed({entries[i].key})
  BY DEF EraseExpired
<1>2. UNCHANGED <<recency, now, putting>>
  BY DEF EraseExpired
<1>3. now > entries[i].expires_at
  <2>1. putting.clock \in Nat /\ putting.clock <= now
    BY PutStage DEF CacheInv, RoomInv, EraseExpired
  <2>2. now \in Nat /\ entries[i].expires_at \in Nat
    BY EntryFields DEF CacheInv, CountInv, ListInv
  <2>3. putting.clock > entries[i].expires_at
    BY <1>1 DEF LastExpired, Expired
  <2> QED
    BY <2>1, <2>2, <2>3
<1> QED
  BY <1>1, <1>2, <1>3, ExpiryKeepsRecencyInv

LEMMA PutBeginKeepsRecencyInv ==
    ASSUME RecencyInv, CacheInv, NEW k \in Keys, NEW x \in Responses, PutBegin(k, x)
    PROVE  RecencyInv'
<1>1. Idle /\ putting'.key = k /\ UNCHANGED <<recency, now>>
  BY DEF PutBegin
<1>2. ~Idle'
  BY DEF PutBegin, Idle, NotPutting
<1>3. ASSUME NEW r \in DOMAIN recency, now <= recency[r].expires_at,
             recency[r].key = k \/ recency[r].key \notin DOMAIN index
      PROVE  FarBack(r)'
  <2>1. CASE recency[r].key = k
    BY <1>1, <1>2, <2>1 DEF FarBack
  <2>2. CASE recency[r].key \notin DOMAIN index
    <3>1. FarBack(r)
      BY <1>3, <2>2 DEF RecencyInv
    <3> QED
      BY <1>1, <3>1 DEF FarBack
  <2> QED
    BY <1>3, <2>1, <2>2
<1>4. CASE k \in DOMAIN index
  <2> DEFINE i == PositionOf(index[k])
  <2>1. i \in DOMAIN entries /\ entries[i].key = k
    BY <1>4, Indexed DEF CacheInv
  <2>2. entries' = Without(i) /\ index' = Unindexed({entries[i].key})
    BY <1>4, <2>1 DEF PutBegin
  <2> HIDE DEF i
  <2>3. /\ recency' \in Seq(Uses) /\ Distinct(recency')
        /\ Remembered(entries', recency') /\ InUseOrder(entries', recency')
        /\ \A l \in DOMAIN index : l # k => l \in DOMAIN index'
    BY <1>1, <2>1, <2>2, ErasureKeepsOrder
  <2>4. \A r \in DOMAIN recency :
            recency[r].key \notin DOMAIN index' =>
                recency[r].key = k \/ recency[r].key \notin DOMAIN index
    BY <2>3
  <2> QED
    BY <1>1, <1>3, <2>3, <2>4 DEF RecencyInv
<1>5. CASE k \notin DOMAIN index
  <2>1. UNCHANGED <<entries, index>>
    BY <1>5 DEF PutBegin
  <2> QED
    BY <1>1, <1>3, <2>1 DEF RecencyInv
<1> QED
  BY <1>4, <1>5

\* Only evict_lru costs a key its entry, and that key is far back.
LEMMA EvictLruKeepsRecencyInv ==
    ASSUME RecencyInv, CacheInv, EvictLru
    PROVE  RecencyInv'
<1>1. UNCHANGED <<putting, now, recency>>
  BY DEF EvictLru
<1>2. CASE entries # <<>>
  <2> DEFINE n == Len(entries)
  <2>1. n \in DOMAIN entries /\ entries' = Without(n) /\ index' = Unindexed({entries[n].key})
    BY <1>2, EvictLruErases
  <2>2. n \in Nat \ {0} /\ DOMAIN entries = 1..n
    BY <2>1 DEF CacheInv, ListInv, ListTyped
  <2>3. n = MaxEntries
    BY <2>2, BoundsAssumption DEF EvictLru, Full, CacheInv, RoomInv
  <2>4. ~Idle /\ putting.key \notin DOMAIN index
    BY PutStage DEF EvictLru, CacheInv, RoomInv
  <2> HIDE DEF n
  <2>5. /\ recency' \in Seq(Uses) /\ Distinct(recency')
        /\ Remembered(entries', recency') /\ InUseOrder(entries', recency')
        /\ \A k \in DOMAIN index : k # entries[n].key => k \in DOMAIN index'
    BY <1>1, <2>1, ErasureKeepsOrder
  <2>6. ASSUME NEW r \in DOMAIN recency, recency[r].key \notin DOMAIN index',
               now <= recency[r].expires_at
        PROVE  FarBack(r)
    <3>1. CASE recency[r].key \notin DOMAIN index
      BY <2>6, <3>1 DEF RecencyInv
    <3>2. CASE recency[r].key \in DOMAIN index
      <4>1. recency[r].key = entries[n].key
        BY <2>5, <2>6, <3>2
      <4>2. PICK m \in Nat : m = Len(recency) /\ DOMAIN recency = 1..m
        BY RecencyFacts
      <4>3. r \in 1..m
        BY <4>2
      <4>4. Distinct(entries) /\ KeysOf(entries) = DOMAIN index
        BY DEF CacheInv, ListInv, Distinct, KeysOf
      <4>5. Remembered(entries, recency) /\ InUseOrder(entries, recency)
        BY DEF RecencyInv
      <4>6. /\ r >= n
            /\ \A q \in 1..r - 1 : recency[q].key \notin KeysOf(entries) => r > n
        BY <2>2, <4>1, <4>2, <4>3, <4>4, <4>5, LastIsFarBack
      <4>7. (\E q \in 1..r - 1 : recency[q].key = putting.key) => r > n
        BY <2>4, <4>4, <4>6
      <4>8. r > n \/ r = n
        BY <2>2, <4>3, <4>6
      <4> QED
        BY <2>3, <2>4, <4>7, <4>8 DEF FarBack
    <3> QED
      BY <3>1, <3>2
  <2>7. \A r : FarBack(r)' <=> FarBack(r)
    BY <1>1 DEF FarBack, Idle
  <2> QED
    BY <1>1, <2>5, <2>6, <2>7 DEF RecencyInv
<1>3. CASE entries = <<>>
  <2>1. UNCHANGED <<entries, index>>
    BY <1>3 DEF EvictLru
  <2>2. \A r : FarBack(r)' <=> FarBack(r)
    BY <1>1 DEF FarBack, Idle
  <2> QED
    BY <1>1, <2>1, <2>2 DEF RecencyInv
<1> QED
  BY <1>2, <1>3

----------------------------------------------------------------------------
\* A use of a key, with its entry in front of the list: the list keeps the
\* order of the uses, and no other key goes back by more than one.
LEMMA UseKeepsOrder ==
    ASSUME RecencyInv, NEW k \in Keys, NEW x \in Nat, NEW g,
           ListInv', Len(entries') > 0,
           entries'[1].key = k, entries'[1].expires_at = x,
           Embeds(g, entries', entries, 2),
           \A j \in 2..Len(entries') : entries[g[j]].key # k,
           recency' = UsedNow(k, x)
    PROVE  /\ recency' \in Seq(Uses) /\ Distinct(recency')
           /\ Remembered(entries', recency') /\ InUseOrder(entries', recency')
           /\ \A r \in DOMAIN recency' :
                 \/ recency'[r].key = k
                 \/ \E q \in DOMAIN recency :
                       /\ recency'[r] = recency[q]
                       /\ \/ r = q + 1
                          \/ r = q /\ \E s \in 1..q - 1 : recency[s].key = k
<1>1. /\ recency \in Seq(Uses) /\ Distinct(recency)
      /\ Remembered(entries, recency) /\ InUseOrder(entries, recency)
  BY DEF RecencyInv
<1>2. Len(recency) \in Nat /\ DOMAIN recency = 1..Len(recency)
  BY RecencyFacts
<1>3. PICK us : us = UsedNow(k, x)
  OBVIOUS
<1>4. PICK f :
         /\ us \in Seq(Uses) /\ Len(us) \in Nat \ {0}
         /\ us[1].key = k /\ us[1].expires_at = x
         /\ Embeds(f, us, recency, 2)
         /\ \A r \in 2..Len(us) :
               /\ recency[f[r]].key # k
               /\ \/ f[r] = r - 1
                  \/ f[r] = r /\ \E q \in DOMAIN recency : q < r /\ recency[q].key = k
         /\ \A q \in DOMAIN recency :
               recency[q].key # k => \E r \in 2..Len(us) : f[r] = q
  BY <1>1, <1>3, UseMoves
<1>5. DOMAIN us = 1..Len(us)
  BY <1>4
<1>6. PICK new : new = entries'
  OBVIOUS
<1>7. Len(new) \in Nat /\ DOMAIN new = 1..Len(new)
  <2>1. new \in Seq(Entry)
    BY <1>6 DEF ListInv, ListTyped
  <2> QED
    BY <2>1
<1>8. /\ new[1].key = k /\ new[1].expires_at = x /\ Embeds(g, new, entries, 2)
      /\ \A j \in 2..Len(new) : entries[g[j]].key # k
  BY <1>6
<1>9. \A r \in 2..Len(us) : recency[f[r]].key # k
  BY <1>4
<1>10. DOMAIN recency \subseteq Int
  BY <1>2
<1>11. Remembered(new, us) /\ InUseOrder(new, us)
  BY <1>1, <1>4, <1>5, <1>7, <1>8, <1>9, <1>10, FrontInOrder
<1>12. Distinct(us)
  BY <1>1, <1>4, <1>5, <1>9, <1>10, UsesStayDistinct
<1>13. ASSUME NEW r \in DOMAIN us, us[r].key # k
       PROVE  \E q \in DOMAIN recency :
                 /\ us[r] = recency[q]
                 /\ \/ r = q + 1
                    \/ r = q /\ \E s \in 1..q - 1 : recency[s].key = k
  <2>1. r \in 2..Len(us)
    BY <1>4, <1>5, <1>13
  <2>2. PICK q \in DOMAIN recency : q = f[r] /\ us[r] = recency[q]
    BY <1>4, <2>1 DEF Embeds
  <2>3. \/ q = r - 1
        \/ q = r /\ \E s \in DOMAIN recency : s < r /\ recency[s].key = k
    BY <1>4, <2>1, <2>2
  <2>4. q = r - 1 => r = q + 1
    BY <1>2, <2>1, <2>2
  <2>5. \A s \in DOMAIN recency : q = r /\ s < r => s \in 1..q - 1
    BY <1>2, <2>1, <2>2
  <2> QED
    BY <2>2, <2>3, <2>4, <2>5
<1> QED
  BY <1>3, <1>4, <1>6, <1>11, <1>12, <1>13

LEMMA GetHitKeepsRecencyInv ==
    ASSUME RecencyInv, CacheInv, NEW k \in Keys, GetHit(k)
    PROVE  RecencyInv'
<1>1. PICK i \in DOMAIN entries :
         i = PositionOf(index[k]) /\ entries[i].key = k /\ EntryOf(k) = entries[i]
  BY Indexed DEF GetHit, CacheInv
<1>2. PICK x \in Nat : x = entries[i].expires_at
  BY EntryFields DEF CacheInv, ListInv
<1>3. /\ entries' = MovedToFront(i) /\ UNCHANGED <<index, putting, now>>
      /\ recency' = UsedNow(k, x) /\ Idle
  BY <1>1, <1>2 DEF GetHit, CanGet
<1>4. /\ ListInv' /\ Len(entries) \in Nat \ {0} /\ Len(entries') = Len(entries)
      /\ entries'[1] = entries[i]
      /\ \A j \in 2..Len(entries) : entries'[j] = entries[IF j - 1 < i THEN j - 1 ELSE j]
  BY <1>3, Moved DEF CacheInv
<1> DEFINE g == [j \in 2..Len(entries) |-> IF j - 1 < i THEN j - 1 ELSE j]
<1>5. /\ Embeds(g, entries', entries, 2)
      /\ \A j \in 2..Len(entries') : entries[g[j]].key # k
  <2>1. DOMAIN entries = 1..Len(entries) /\ i \in 1..Len(entries)
    BY EntryFields DEF CacheInv, ListInv
  <2>2. \A j \in 2..Len(entries) :
           g[j] \in DOMAIN entries /\ g[j] # i /\ entries'[j] = entries[g[j]]
    BY <1>4, <2>1
  <2>3. \A j, l \in 2..Len(entries) : j < l => g[j] < g[l]
    BY <1>4, <2>1
  <2> HIDE DEF g
  <2>4. \A j \in 2..Len(entries) : entries[g[j]].key # k
    BY <1>1, <2>2 DEF CacheInv, ListInv
  <2> QED
    BY <1>4, <2>2, <2>3, <2>4 DEF Embeds
<1> HIDE DEF g
<1>6. entries'[1].key = k /\ entries'[1].expires_at = x /\ Len(entries') > 0
  BY <1>1, <1>2, <1>4
<1>7. /\ recency' \in Seq(Uses) /\ Distinct(recency')
      /\ Remembered(entries', recency') /\ InUseOrder(entries', recency')
      /\ \A r \in DOMAIN recency' :
            \/ recency'[r].key = k
            \/ \E q \in DOMAIN recency :
                  /\ recency'[r] = recency[q]
                  /\ \/ r = q + 1
                     \/ r = q /\ \E s \in 1..q - 1 : recency[s].key = k
  BY <1>3, <1>4, <1>5, <1>6, UseKeepsOrder
<1>8. ASSUME NEW r \in DOMAIN recency', recency'[r].key \notin DOMAIN index',
             now' <= recency'[r].expires_at
      PROVE  FarBack(r)'
  <2>1. k \in DOMAIN index
    BY DEF GetHit
  <2>2. PICK q \in DOMAIN recency : recency'[r] = recency[q] /\ (r = q + 1 \/ r = q)
    BY <1>3, <1>7, <1>8, <2>1
  <2>3. FarBack(q)
    BY <1>3, <1>8, <2>2 DEF RecencyInv
  <2>4. q > MaxEntries
    BY <1>3, <2>3 DEF FarBack
  <2>5. q \in Nat /\ MaxEntries \in Nat
    BY RecencyFacts, BoundsAssumption
  <2>6. r > MaxEntries
    BY <2>2, <2>4, <2>5
  <2> QED
    BY <2>6 DEF FarBack
<1> QED
  BY <1>7, <1>8 DEF RecencyInv

\* The key that was put is in front; a key without an entry that was not yet
\* far back goes back by one.
LEMMA PutInsertKeepsRecencyInv ==
    ASSUME RecencyInv, CacheInv, PutInsert
    PROVE  RecencyInv'
<1>1. PICK e : e = NewEntry
  OBVIOUS
<1>2. /\ e \in Entry /\ e.key \notin DOMAIN index
      /\ \A i \in DOMAIN entries : entries[i].node # e.node
      /\ e.key = putting.key /\ e.expires_at = now + Ttl
      /\ entries' = <<e>> \o entries
      /\ index' = [k \in DOMAIN index \cup {e.key} |-> IF k = e.key THEN e.node ELSE index[k]]
      /\ ~Idle /\ Idle'
  BY <1>1, Inserts
<1>3. /\ ListInv' /\ Len(entries) \in Nat /\ Len(entries') = Len(entries) + 1
      /\ entries'[1] = e
      /\ \A j \in 2..Len(entries) + 1 : entries'[j] = entries[j - 1]
  BY <1>2, Added DEF CacheInv
<1>4. PICK k \in Keys, x \in Nat : k = e.key /\ x = e.expires_at
  BY <1>2 DEF Entry
<1>5. recency' = UsedNow(k, x) /\ now' = now
  BY <1>2, <1>4 DEF PutInsert, ExpiryTime
<1> DEFINE g == [j \in 2..Len(entries) + 1 |-> j - 1]
<1>6. /\ Embeds(g, entries', entries, 2)
      /\ \A j \in 2..Len(entries') : entries[g[j]].key # k
  <2>1. DOMAIN entries = 1..Len(entries)
    BY DEF CacheInv, ListInv, ListTyped
  <2>2. \A j \in 2..Len(entries) + 1 : g[j] \in DOMAIN entries /\ entries'[j] = entries[g[j]]
    BY <1>3, <2>1
  <2>3. \A j, l \in 2..Len(entries) + 1 : j < l => g[j] < g[l]
    BY <1>3
  <2> HIDE DEF g
  <2>4. \A j \in 2..Len(entries) + 1 : entries[g[j]].key # k
    BY <1>2, <1>4, <2>2 DEF CacheInv, ListInv
  <2> QED
    BY <1>3, <2>2, <2>3, <2>4 DEF Embeds
<1> HIDE DEF g
<1>7. entries'[1].key = k /\ entries'[1].expires_at = x /\ Len(entries') > 0
  BY <1>3, <1>4
<1>8. /\ recency' \in Seq(Uses) /\ Distinct(recency')
      /\ Remembered(entries', recency') /\ InUseOrder(entries', recency')
      /\ \A r \in DOMAIN recency' :
            \/ recency'[r].key = k
            \/ \E q \in DOMAIN recency :
                  /\ recency'[r] = recency[q]
                  /\ \/ r = q + 1
                     \/ r = q /\ \E s \in 1..q - 1 : recency[s].key = k
  BY <1>3, <1>5, <1>6, <1>7, UseKeepsOrder
<1>9. DOMAIN index' = DOMAIN index \cup {k}
  BY <1>2, <1>4
<1>10. ASSUME NEW r \in DOMAIN recency', recency'[r].key \notin DOMAIN index',
              now' <= recency'[r].expires_at
       PROVE  FarBack(r)'
  <2>1. PICK q \in DOMAIN recency :
           /\ recency'[r] = recency[q]
           /\ \/ r = q + 1
              \/ r = q /\ \E s \in 1..q - 1 : recency[s].key = k
    BY <1>8, <1>9, <1>10
  <2>2. recency[q].key # k /\ recency[q].key \notin DOMAIN index /\ now <= recency[q].expires_at
    BY <1>5, <1>9, <1>10, <2>1
  <2>3. FarBack(q)
    BY <2>2 DEF RecencyInv
  <2>4. q > MaxEntries \/ (q = MaxEntries /\ \A s \in 1..q - 1 : recency[s].key # k)
    BY <1>2, <1>4, <2>2, <2>3 DEF FarBack
  <2>5. q \in Nat /\ MaxEntries \in Nat
    BY RecencyFacts, BoundsAssumption
  <2>6. r > MaxEntries
    BY <2>1, <2>4, <2>5
  <2> QED
    BY <2>6 DEF FarBack
<1> QED
  BY <1>8, <1>10 DEF RecencyInv

LEMMA RecencyInvariant == Spec => []RecencyInv
<1>1. ASSUME RecencyInv, CacheInv, CacheInv', [Next]_vars PROVE RecencyInv'
  <2>1. now \in Nat
    BY <1>1 DEF CacheInv, CountInv
  <2>2. ASSUME NEW k \in Keys, GetMiss(k) PROVE RecencyInv'
    BY <1>1, <2>1, <2>2, QuietKeepsRecencyInv DEF GetMiss, Idle
  <2>3. ASSUME StopEvicting \/ NothingExpired PROVE RecencyInv'
    <3>1. UNCHANGED <<entries, index, recency, now>>
      BY <2>3 DEF StopEvicting, NothingExpired
    <3>2. ~Idle
      BY <1>1, <2>3, PutStage DEF CacheInv, StopEvicting, NothingExpired
    <3>3. putting \in [stage : {"evict", "purge", "insert"}, key : Keys,
                       response : Responses, clock : Nat]
      BY <1>1, <3>2 DEF CacheInv, RoomInv
    <3>4. putting'.key = putting.key /\ putting'.stage \in {"purge", "insert"}
      BY <2>3, <3>3 DEF StopEvicting, NothingExpired
    <3>5. ~Idle'
      BY <1>1, <3>4, PutStage DEF Idle, NotPutting
    <3> QED
      BY <1>1, <2>1, <3>1, <3>2, <3>4, <3>5, QuietKeepsRecencyInv
  <2>4. CASE Clear
    <3>1. entries' = <<>> /\ recency' = <<>>
      BY <2>4 DEF Clear
    <3> QED
      BY <3>1 DEF RecencyInv, Distinct, Remembered, InUseOrder
  <2>5. CASE Tick
    BY <1>1, <2>1, <2>5, QuietKeepsRecencyInv DEF Tick, Idle
  <2>6. CASE UNCHANGED vars
    BY <1>1, <2>1, <2>6, QuietKeepsRecencyInv DEF vars, Idle
  <2> QED
    BY <1>1, <2>2, <2>3, <2>4, <2>5, <2>6, GetExpiredKeepsRecencyInv, GetHitKeepsRecencyInv,
       PutBeginKeepsRecencyInv, EvictLruKeepsRecencyInv, EraseExpiredKeepsRecencyInv,
       PutInsertKeepsRecencyInv DEF Next
<1> QED
  BY <1>1, RecencyInvInit, CacheInvariant, PTL DEF Spec

\* No order of puts, hits, lookups of expired entries and purges costs a key
\* its entry while fewer than max_entries keys have been used since.
THEOREM RecentKeysStay == Spec => []RecentKeysAreKept
<1>1. ASSUME RecencyInv, CacheInv PROVE RecentKeysAreKept
  <2> SUFFICES ASSUME Idle, NEW r \in 1..Len(recency), r <= MaxEntries,
                      recency[r].key \notin DOMAIN index
               PROVE  now > recency[r].expires_at
    BY DEF RecentKeysAreKept
  <2>1. r \in DOMAIN recency /\ r \in Nat /\ recency[r].expires_at \in Nat
    BY <1>1, RecencyFacts
  <2>2. now \in Nat /\ MaxEntries \in Nat
    BY <1>1, BoundsAssumption DEF CacheInv, CountInv
  <2>3. now <= recency[r].expires_at => FarBack(r)
    BY <1>1, <2>1 DEF RecencyInv
  <2> QED
    BY <2>1, <2>2, <2>3 DEF FarBack
<1> QED
  BY <1>1, CacheInvariant, RecencyInvariant, PTL

\* Every part of the cache keeps its type, the history of uses included.
THEOREM CacheTypes == Spec => []TypeOK
<1>1. RecencyInv /\ CacheInv => TypeOK
  BY DEF RecencyInv, CacheInv, ListInv, ListTyped, RoomInv, CountInv, Uses, TypeOK
<1> QED
  BY <1>1, CacheInvariant, RecencyInvariant, PTL

----------------------------------------------------------------------------
\* What the list and the index hold for a caller.
StoredAt(k) ==
    IF k \in DOMAIN index
    THEN [response |-> EntryOf(k).response, expires_at |-> EntryOf(k).expires_at]
    ELSE NoResponse

Store == [k \in Keys |-> StoredAt(k)]

\* A response in the cache is one that was put there.
LEMMA StoredIsResponse ==
    ASSUME CacheInv, NEW k \in DOMAIN index
    PROVE  /\ k \in Keys /\ StoredAt(k) # NoResponse
           /\ StoredAt(k).response = EntryOf(k).response
           /\ StoredAt(k).expires_at = EntryOf(k).expires_at
<1>1. PICK i \in DOMAIN entries : EntryOf(k) = entries[i]
  BY Indexed DEF CacheInv
<1>2. entries[i].response \in Responses /\ entries[i].expires_at \in Nat
  BY EntryFields DEF CacheInv, ListInv
<1>3. k \in Keys
  BY DEF CacheInv, ListInv, ListTyped
<1>4. StoredAt(k) = [response |-> entries[i].response, expires_at |-> entries[i].expires_at]
  BY <1>1 DEF StoredAt
<1>5. StoredAt(k) \in [response : Responses, expires_at : Nat]
  BY <1>2, <1>4
<1> QED
  BY <1>1, <1>3, <1>4, <1>5, NoResponseAssumption

\* The steps that touch neither an entry nor the index leave the store alone.
LEMMA StoreStays ==
    ASSUME DOMAIN index' = DOMAIN index, \A k \in DOMAIN index : EntryOf(k)' = EntryOf(k)
    PROVE  Store' = Store
<1>1. ASSUME NEW k \in Keys PROVE StoredAt(k)' = StoredAt(k)
  BY DEF StoredAt
<1> QED
  BY <1>1 DEF Store

LEMMA UntouchedStoreStays ==
    ASSUME UNCHANGED <<entries, index>>
    PROVE  Store' = Store
<1>1. \A k : EntryOf(k)' = EntryOf(k)
  BY DEF EntryOf, PositionOf
<1> QED
  BY <1>1, StoreStays

\* An erasure forgets the response of one key.
LEMMA ErasureForgets ==
    ASSUME CacheInv, NEW i \in DOMAIN entries,
           entries' = Without(i), index' = Unindexed({entries[i].key})
    PROVE  Store' = [Store EXCEPT ![entries[i].key] = NoResponse]
<1>1. /\ DOMAIN index' = DOMAIN index \ {entries[i].key}
      /\ \A k \in DOMAIN index' : EntryOf(k)' = EntryOf(k)
  BY Thinned DEF CacheInv
<1>2. ASSUME NEW k \in Keys
      PROVE  StoredAt(k)' = IF k = entries[i].key THEN NoResponse ELSE StoredAt(k)
  BY <1>1 DEF StoredAt
<1> QED
  BY <1>2 DEF Store

LEMMA ForgetOne ==
    ASSUME NEW k \in Keys, Store' = [Store EXCEPT ![k] = NoResponse], now' = now
    PROVE  Contract!Forget({k})
<1>1. PICK old, new : old = Store /\ new = Store'
  OBVIOUS
<1>2. new = [old EXCEPT ![k] = NoResponse] /\ DOMAIN old = Keys
  BY <1>1 DEF Store
<1>3. new = [l \in Keys |-> IF l \in {k} THEN NoResponse ELSE old[l]]
  BY <1>2
<1> QED
  BY <1>1, <1>3 DEF Contract!Forget, Store, StoredAt

\* What a lookup is promised, in terms of the store.
LEMMA FreshMeans ==
    ASSUME CacheInv, NEW k \in Keys
    PROVE  Contract!Fresh(k) <=> k \in DOMAIN index /\ ~Expired(EntryOf(k), now)
<1>1. CASE k \in DOMAIN index
  <2>1. PICK i \in DOMAIN entries : EntryOf(k) = entries[i]
    BY <1>1, Indexed DEF CacheInv
  <2>2. now \in Nat /\ EntryOf(k).expires_at \in Nat
    BY <2>1, EntryFields DEF CacheInv, CountInv, ListInv
  <2>3. Contract!Fresh(k) <=> now <= EntryOf(k).expires_at
    BY <1>1, StoredIsResponse DEF Contract!Fresh, StoredAt
  <2> QED
    BY <1>1, <2>2, <2>3 DEF Expired
<1>2. CASE k \notin DOMAIN index
  BY <1>2 DEF Contract!Fresh
<1> QED
  BY <1>1, <1>2

LEMMA GetKeepsContract ==
    ASSUME CacheInv, NEW k \in Keys, GetMiss(k) \/ GetExpired(k) \/ GetHit(k)
    PROVE  Contract!LookupHit(k) \/ Contract!LookupMiss(k)
<1>1. CASE GetMiss(k)
  <2>1. UNCHANGED <<entries, index, now>> /\ reply' = Miss /\ k \notin DOMAIN index
    BY <1>1 DEF GetMiss
  <2>2. Store' = Store
    BY <2>1, UntouchedStoreStays
  <2>3. ~Contract!Fresh(k)
    BY <2>1, FreshMeans
  <2> QED
    BY <2>1, <2>2, <2>3 DEF Contract!LookupMiss, Contract!MissOn, Store, StoredAt
<1>2. CASE GetExpired(k)
  <2>1. PICK i \in DOMAIN entries :
           i = PositionOf(index[k]) /\ entries[i].key = k /\ EntryOf(k) = entries[i]
    BY <1>2, Indexed DEF GetExpired, CacheInv
  <2>2. /\ entries' = Without(i) /\ index' = Unindexed({entries[i].key})
        /\ now' = now /\ reply' = Miss /\ Expired(EntryOf(k), now)
    BY <1>2, <2>1 DEF GetExpired
  <2>3. Store' = [Store EXCEPT ![k] = NoResponse]
    BY <2>1, <2>2, ErasureForgets
  <2>4. ~Contract!Fresh(k)
    BY <2>2, FreshMeans
  <2> QED
    BY <2>2, <2>3, <2>4 DEF Contract!LookupMiss, Contract!MissOn, Store, StoredAt
<1>3. CASE GetHit(k)
  <2>1. /\ PositionOf(index[k]) \in DOMAIN entries /\ k \in DOMAIN index
        /\ entries' = MovedToFront(PositionOf(index[k])) /\ index' = index
        /\ now' = now /\ reply' = EntryOf(k).response /\ ~Expired(EntryOf(k), now)
    BY <1>3, Indexed DEF GetHit, CacheInv
  <2>2. \A l \in DOMAIN index : EntryOf(l)' = EntryOf(l)
    BY <2>1, Moved DEF CacheInv
  <2>3. Store' = Store
    BY <2>1, <2>2, StoreStays
  <2>4. Contract!Fresh(k)
    BY <2>1, FreshMeans
  <2>5. reply' = Contract!Found(k)
    BY <2>1, StoredIsResponse DEF Contract!Found, StoredAt
  <2> QED
    BY <2>1, <2>3, <2>4, <2>5 DEF Contract!LookupHit, Contract!Hit, Contract!storeVars, Store, StoredAt
<1> QED
  BY <1>1, <1>2, <1>3

\* A put that finds the key in the cache forgets it first.
LEMMA PutBeginKeepsContract ==
    ASSUME CacheInv, NEW k \in Keys, NEW r \in Responses, PutBegin(k, r)
    PROVE  Contract!Forget({k}) \/ UNCHANGED Store
<1>1. now' = now
  BY DEF PutBegin
<1>2. CASE k \in DOMAIN index
  <2>1. PICK i \in DOMAIN entries : i = PositionOf(index[k]) /\ entries[i].key = k
    BY <1>2, Indexed DEF CacheInv
  <2>2. entries' = Without(i) /\ index' = Unindexed({entries[i].key})
    BY <1>2, <2>1 DEF PutBegin
  <2>3. Store' = [Store EXCEPT ![k] = NoResponse]
    BY <2>1, <2>2, ErasureForgets
  <2> QED
    BY <1>1, <2>3, ForgetOne
<1>3. CASE k \notin DOMAIN index
  BY <1>3, UntouchedStoreStays DEF PutBegin
<1> QED
  BY <1>2, <1>3

\* The evictions of a put forget one key each.
LEMMA EvictionKeepsContract ==
    ASSUME CacheInv, EvictLru \/ EraseExpired
    PROVE  (\E k \in Keys : Contract!Forget({k})) \/ UNCHANGED Store
<1>1. now' = now
  BY DEF EvictLru, EraseExpired
<1>2. CASE EvictLru /\ entries = <<>>
  BY <1>2, UntouchedStoreStays DEF EvictLru
<1>3. CASE EraseExpired \/ entries # <<>>
  <2>1. PICK i \in DOMAIN entries :
           entries' = Without(i) /\ index' = Unindexed({entries[i].key})
    BY <1>3, EvictLruErases DEF EraseExpired
  <2>2. entries[i].key \in Keys
    BY EntryFields DEF CacheInv, ListInv
  <2>3. Store' = [Store EXCEPT ![entries[i].key] = NoResponse]
    BY <2>1, ErasureForgets
  <2>4. PICK k \in Keys : k = entries[i].key
    BY <2>2
  <2> QED
    BY <1>1, <2>3, <2>4, ForgetOne
<1> QED
  BY <1>2, <1>3

LEMMA PutInsertKeepsContract ==
    ASSUME CacheInv, PutInsert
    PROVE  \E k \in Keys, r \in Responses : Contract!Put(k, r)
<1>1. PICK e : e = NewEntry
  OBVIOUS
<1>2. /\ e \in Entry /\ e.key \notin DOMAIN index
      /\ \A i \in DOMAIN entries : entries[i].node # e.node
      /\ e.key = putting.key /\ e.expires_at = now + Ttl /\ e.response = putting.response
      /\ entries' = <<e>> \o entries
      /\ index' = [k \in DOMAIN index \cup {e.key} |-> IF k = e.key THEN e.node ELSE index[k]]
  BY <1>1, Inserts
<1>3. EntryOf(e.key)' = e /\ \A k \in DOMAIN index : EntryOf(k)' = EntryOf(k)
  BY <1>2, Added DEF CacheInv
<1>4. e.key \in Keys /\ e.response \in Responses /\ now' = now
  BY <1>2 DEF Entry, PutInsert
<1>5. DOMAIN index' = DOMAIN index \cup {e.key}
  BY <1>2
<1>6. ASSUME NEW k \in Keys
      PROVE  StoredAt(k)' = IF k = e.key
                            THEN [response |-> e.response, expires_at |-> now + Ttl]
                            ELSE StoredAt(k)
  <2>1. CASE k = e.key
    BY <1>2, <1>3, <1>5, <2>1 DEF StoredAt
  <2>2. CASE k # e.key
    BY <1>3, <1>5, <2>2 DEF StoredAt
  <2> QED
    BY <2>1, <2>2
<1>7. Store' = [Store EXCEPT ![e.key] = [response |-> e.response, expires_at |-> now + Ttl]]
  BY <1>6 DEF Store
<1>8. Contract!Put(e.key, e.response)
  BY <1>4, <1>7 DEF Contract!Put, Store, StoredAt
<1> QED
  BY <1>4, <1>8

LEMMA ClearKeepsContract ==
    ASSUME Clear
    PROVE  Contract!Forget(Keys)
<1>1. index' = Unindexed(Keys) /\ now' = now
  BY DEF Clear
<1>2. \A k \in Keys : k \notin DOMAIN index'
  BY <1>1 DEF Unindexed
<1>3. \A k \in Keys : StoredAt(k)' = NoResponse
  BY <1>2 DEF StoredAt
<1>4. Store' = [k \in Keys |-> IF k \in Keys THEN NoResponse ELSE Store[k]]
  BY <1>3 DEF Store
<1> QED
  BY <1>1, <1>4 DEF Contract!Forget, Store, StoredAt

\* The list, the index, the eviction order and the stages of a put are details:
\* a caller sees what the contract says, a reply that is a miss or the response
\* last put under the key, within its time to live.
THEOREM CacheKeepsContract == Spec => ImplementsContract
<1>1. Init => Contract!Init
  BY DEF Init, Contract!Init, Contract!StoreInit
<1>2. ASSUME CacheInv, [Next]_vars PROVE [Contract!Next]_(Contract!contractVars)
  <2>1. ASSUME NEW k \in Keys, GetMiss(k) \/ GetExpired(k) \/ GetHit(k) PROVE Contract!Next
    BY <1>2, <2>1, GetKeepsContract DEF Contract!Next
  <2>2. ASSUME UNCHANGED Store, UNCHANGED <<now, reply>> PROVE UNCHANGED Contract!contractVars
    BY <2>2 DEF Contract!contractVars, Store, StoredAt
  <2>3. ASSUME NEW S \in SUBSET Keys, Contract!Forget(S), reply' = reply PROVE Contract!Next
    BY <2>3 DEF Contract!Next
  <2>4. ASSUME NEW k \in Keys, NEW r \in Responses, PutBegin(k, r)
        PROVE  [Contract!Next]_(Contract!contractVars)
    <3>1. reply' = reply /\ now' = now /\ {k} \in SUBSET Keys
      BY <2>4 DEF PutBegin
    <3> QED
      BY <1>2, <2>2, <2>3, <2>4, <3>1, PutBeginKeepsContract
  <2>5. CASE EvictLru \/ EraseExpired
    <3>1. reply' = reply /\ now' = now /\ \A k \in Keys : {k} \in SUBSET Keys
      BY <2>5 DEF EvictLru, EraseExpired
    <3> QED
      BY <1>2, <2>2, <2>3, <2>5, <3>1, EvictionKeepsContract
  <2>6. CASE StopEvicting \/ NothingExpired \/ UNCHANGED vars
    <3>1. UNCHANGED <<entries, index, now, reply>>
      BY <2>6 DEF StopEvicting, NothingExpired, vars
    <3> QED
      BY <2>2, <3>1, UntouchedStoreStays
  <2>7. CASE PutInsert
    <3>1. UNCHANGED reply
      BY <2>7 DEF PutInsert
    <3>2. \E k \in Keys, r \in Responses : Contract!Put(k, r)
      BY <1>2, <2>7, PutInsertKeepsContract
    <3> QED
      BY <3>1, <3>2 DEF Contract!Next
  <2>8. CASE Clear
    <3>1. reply' = reply /\ Keys \in SUBSET Keys
      BY <2>8 DEF Clear
    <3> QED
      BY <2>3, <2>8, <3>1, ClearKeepsContract
  <2>9. CASE Tick
    <3>1. UNCHANGED <<entries, index, reply>> /\ now' = now + 1
      BY <2>9 DEF Tick
    <3>2. Store' = Store
      BY <3>1, UntouchedStoreStays
    <3> QED
      BY <3>1, <3>2 DEF Contract!Next, Contract!Tick, Store, StoredAt
  <2> QED
    BY <1>2, <2>1, <2>4, <2>5, <2>6, <2>7, <2>8, <2>9 DEF Next
<1> QED
  BY <1>1, <1>2, CacheInvariant, PTL DEF Spec, ImplementsContract, Contract!Spec
=============================================================================
