-------------------------- MODULE TokenCounterProofs --------------------------
(***************************************************************************)
(* The bounds of the token estimate, for messages of any number and length. *)
(***************************************************************************)
EXTENDS TokenCounter, FiniteSetTheorems, TLAPS

Count(S) == Cardinality(Positions(S))

\* What a word of n still has to give is between a quarter of n and n.
LEMMA ChunksBound ==
    ASSUME NEW n \in Nat
    PROVE  Chunks(n) \in Nat /\ n <= 4 * Chunks(n) /\ Chunks(n) <= n
<1>1. \E q \in Nat : 4 * q <= n + 3 /\ n + 3 < 4 * q + 4 /\ Chunks(n) = q
  BY DEF Chunks
<1> QED
  BY <1>1

\* One more symbol is counted in the sets that hold it, and only there.
LEMMA CountOfAppended ==
    ASSUME NEW Symbols, text \in Seq(Symbols), NEW c, text' = Append(text, c), NEW S,
           IsFiniteSet(Positions(S))
    PROVE  /\ IsFiniteSet(Positions(S)')
           /\ Count(S) \in Nat
           /\ Count(S)' = IF c \in S THEN Count(S) + 1 ELSE Count(S)
<1> DEFINE n == Len(text)
<1>1. n \in Nat /\ DOMAIN text = 1..n /\ DOMAIN text' = 1..n + 1
  OBVIOUS
<1>2. text'[n + 1] = c /\ \A i \in 1..n : text'[i] = text[i]
  OBVIOUS
<1>3. CASE c \in S
  <2>1. Positions(S)' = Positions(S) \cup {n + 1}
    BY <1>1, <1>2, <1>3 DEF Positions
  <2>2. n + 1 \notin Positions(S)
    BY <1>1 DEF Positions
  <2> QED
    BY <1>3, <2>1, <2>2, FS_AddElement, FS_CardinalityType DEF Count
<1>4. CASE c \notin S
  <2>1. Positions(S)' = Positions(S)
    BY <1>1, <1>2, <1>4 DEF Positions
  <2> QED
    BY <1>4, <2>1, FS_CardinalityType DEF Count
<1> QED
  BY <1>3, <1>4

Written == {Letter, "punct"}
Tokened == Classes \ {"space"}
\* The tokens that are not overhead.
Body == tokens - 4 * Count({"end"}) - (IF done THEN 2 ELSE 0)
Counted == {Written, Tokened, {"end"}}

\* While the scan goes on, what has been counted and what the pending word will
\* still give bound the characters read.
ScanInv ==
    /\ text \in Seq(Classes \cup {"end"})
    /\ current \in Nat /\ tokens \in Nat /\ done \in BOOLEAN
    /\ \A S \in Counted : IsFiniteSet(Positions(S))
    /\ AtMessage => current = 0
    /\ done => AtMessage
    /\ Count(Written) <= 4 * Body + current /\ Body + current <= Count(Tokened)

LEMMA ReadKeepsScanInv ==
    ASSUME ScanInv, NEW c \in Classes \cup {"end"}, text' = Append(text, c), ~done, UNCHANGED done,
           \/ c = Letter /\ ReadLetter
           \/ c = "punct" /\ ReadPunct
           \/ c \in Blanks /\ ReadBlank(c)
           \/ c = "end" /\ tokens' = tokens + Chunks(current) + 4 /\ current' = 0
    PROVE  ScanInv'
<1>1. /\ \A S \in Counted : /\ IsFiniteSet(Positions(S)')
                            /\ Count(S) \in Nat
                            /\ Count(S)' = IF c \in S THEN Count(S) + 1 ELSE Count(S)
  BY CountOfAppended DEF ScanInv
<1>2. Chunks(current) \in Nat /\ current <= 4 * Chunks(current) /\ Chunks(current) <= current
  BY ChunksBound DEF ScanInv
<1>3. text' \in Seq(Classes \cup {"end"}) /\ text'[Len(text')] = c /\ Len(text') \in DOMAIN text'
  BY DEF ScanInv
<1>4. AtMessage' => c = "end"
  BY <1>3 DEF AtMessage
<1>5. AtMessage' => current' = 0
  BY <1>4 DEF Classes, Blanks, Letter
<1>6. \A S \in Counted : IsFiniteSet(Positions(S))'
  BY <1>1 DEF Counted, Written, Tokened
<1> DEFINE E == Count({"end"})
           W == Count(Written)
           K == Count(Tokened)
<1>7. /\ E \in Nat /\ W \in Nat /\ K \in Nat /\ tokens \in Nat /\ current \in Nat
      /\ W <= 4 * (tokens - 4 * E) + current /\ (tokens - 4 * E) + current <= K
  BY <1>1 DEF ScanInv, Body, Counted
<1>8. /\ E' = IF c = "end" THEN E + 1 ELSE E
      /\ W' = IF c \in {"letter", "punct"} THEN W + 1 ELSE W
      /\ K' = IF c \in {"letter", "punct", "newline"} THEN K + 1 ELSE K
  BY <1>1 DEF Counted, Written, Tokened, Classes, Blanks, Letter
<1>9. /\ tokens' \in Nat /\ current' \in Nat
      /\ W' <= 4 * (tokens' - 4 * E') + current' /\ (tokens' - 4 * E') + current' <= K'
  <2> HIDE DEF E, W, K
  <2>1. CASE c = Letter /\ ReadLetter
    BY <1>7, <1>8, <2>1 DEF ReadLetter, Letter
  <2>2. CASE c = "punct" /\ ReadPunct
    BY <1>2, <1>7, <1>8, <2>2 DEF ReadPunct
  <2>3. CASE c \in Blanks /\ ReadBlank(c)
    <3>1. CASE c = "space"
      BY <1>2, <1>7, <1>8, <2>3, <3>1 DEF ReadBlank
    <3>2. CASE c = "newline"
      BY <1>2, <1>7, <1>8, <2>3, <3>2 DEF ReadBlank
    <3> QED
      BY <2>3, <3>1, <3>2 DEF Blanks
  <2>4. CASE c = "end" /\ tokens' = tokens + Chunks(current) + 4 /\ current' = 0
    BY <1>2, <1>7, <1>8, <2>4
  <2> QED
    BY <2>1, <2>2, <2>3, <2>4
<1>10. Count(Written)' <= 4 * Body' + current' /\ Body' + current' <= Count(Tokened)'
  <2>1. Body' = tokens' - 4 * E'
    BY <1>7, <1>8, <1>9 DEF Body
  <2> QED
    BY <1>9, <2>1
<1> QED
  BY <1>3, <1>5, <1>6, <1>9, <1>10 DEF ScanInv

LEMMA ScanStarts == Init => ScanInv
<1> SUFFICES ASSUME Init PROVE ScanInv
  OBVIOUS
<1>1. \A S : Positions(S) = {}
  BY DEF Init, Positions
<1>2. \A S : Count(S) = 0 /\ IsFiniteSet(Positions(S))
  BY <1>1, FS_EmptySet DEF Count
<1>3. AtMessage
  BY DEF Init, AtMessage
<1>4. Body = 0 /\ Count(Written) = 0 /\ Count(Tokened) = 0
  BY <1>2 DEF Init, Body
<1>5. text \in Seq(Classes \cup {"end"})
  BY DEF Init
<1>6. current = 0 /\ tokens = 0 /\ done = FALSE
  BY DEF Init
<1>7. \A S \in Counted : IsFiniteSet(Positions(S))
  BY <1>2
<1>8. Count(Written) <= 4 * Body + current /\ Body + current <= Count(Tokened)
  BY <1>4, <1>6
<1>9. current \in Nat /\ tokens \in Nat /\ done \in BOOLEAN
  BY <1>6
<1> QED
  BY <1>3, <1>5, <1>6, <1>7, <1>8, <1>9, Zenon DEF ScanInv

LEMMA ScanStep == ScanInv /\ [Next]_vars => ScanInv'
<1> SUFFICES ASSUME ScanInv, [Next]_vars PROVE ScanInv'
  OBVIOUS
<1>1. ASSUME NEW c \in Classes, ReadChar(c) PROVE ScanInv'
  <2>1. text' = Append(text, c) /\ ~done /\ UNCHANGED done
    BY <1>1 DEF ReadChar
  <2>2. \/ c = Letter /\ ReadLetter
        \/ c = "punct" /\ ReadPunct
        \/ c \in Blanks /\ ReadBlank(c)
    BY <1>1 DEF ReadChar, Classes, Blanks, Letter
  <2> QED
    BY <2>1, <2>2, ReadKeepsScanInv
<1>2. CASE EndMessage
  BY <1>2, ReadKeepsScanInv DEF EndMessage
<1>3. CASE Return
  <2>1. text' = text /\ current' = current /\ tokens' = tokens + 2 /\ ~done /\ done'
    BY <1>3 DEF Return
  <2>2. \A S \in Counted : Positions(S)' = Positions(S) /\ Count(S)' = Count(S)
    BY <2>1 DEF Positions, Count
  <2>3. AtMessage /\ AtMessage'
    BY <1>3, <2>1 DEF Return, AtMessage
  <2>4. \A S \in Counted : Count(S) \in Nat
    BY FS_CardinalityType DEF Count, ScanInv
  <2> QED
    BY <2>1, <2>2, <2>3, <2>4 DEF ScanInv, Body, Counted
<1>4. CASE UNCHANGED vars
  <2>1. UNCHANGED <<text, current, tokens, done>>
    BY <1>4 DEF vars
  <2>2. AtMessage' = AtMessage /\ \A S \in Counted : Positions(S)' = Positions(S) /\ Count(S)' = Count(S)
    BY <2>1 DEF AtMessage, Positions, Count
  <2> QED
    BY <2>1, <2>2 DEF ScanInv, Body, Counted
<1> QED
  BY <1>1, <1>2, <1>3, <1>4 DEF Next

\* The estimate is in proportion to the text, whatever the messages.
THEOREM EstimateBounded == Spec => []EstimateInProportion
<1>1. Init => ScanInv
  BY ScanStarts
<1>2. ScanInv /\ [Next]_vars => ScanInv'
  BY ScanStep
<1>3. ScanInv => EstimateInProportion
  <2> SUFFICES ASSUME ScanInv, done PROVE EstimateInProportion
    BY DEF EstimateInProportion
  <2>1. current = 0 /\ \A S \in Counted : Count(S) \in Nat
    BY FS_CardinalityType DEF Count, ScanInv
  <2> QED
    BY <2>1 DEF ScanInv, Body, EstimateInProportion, Overhead, Count, Written, Tokened, Counted
<1> QED
  BY <1>1, <1>2, <1>3, PTL DEF Spec

----------------------------------------------------------------------------
\* Exactness: the scan and what can be read off the text.

\* The pending word is the letters at the end of the text, and what is counted
\* with what it will give is what the text holds.
WordInv ==
    /\ current <= Len(text)
    /\ \A i \in Len(text) - current + 1..Len(text) : text[i] = Letter
    /\ current # Len(text) => text[Len(text) - current] # Letter

ExactInv ==
    /\ ScanInv /\ WordInv
    /\ IsFiniteSet(ChunkStarts) /\ IsFiniteSet(Positions({"punct", "newline"}))
    /\ Body + Chunks(current) = Cardinality(ChunkStarts) + Count({"punct", "newline"})

\* A word that grows by a letter gives another token when it is whole chunks long.
LEMMA NextChunk ==
    ASSUME NEW n \in Nat
    PROVE  Chunks(n + 1) = IF n % 4 = 0 THEN Chunks(n) + 1 ELSE Chunks(n)
BY DEF Chunks

\* The pending word is where the place after the text would find its word.
LEMMA PendingStart ==
    ASSUME ScanInv, WordInv, NEW c, text' = Append(text, c), NEW n, n = Len(text)
    PROVE  WordStart(n + 1)' = n - current
<1>1. n \in Nat /\ current \in Nat /\ n - current \in 0..n /\ (n + 1) - 1 = n
  BY DEF ScanInv, WordInv
<1>2. \A i \in 1..n : text'[i] = text[i]
  BY DEF ScanInv
<1> DEFINE IsStart(j) == /\ j # 0 => text'[j] # Letter
                         /\ \A k \in j + 1..(n + 1) - 1 : text'[k] = Letter
<1>3. IsStart(n - current)
  BY <1>1, <1>2 DEF WordInv
<1>4. ASSUME NEW j \in 0..n, IsStart(j) PROVE j = n - current
  <2>1. CASE j < n - current
    <3>1. n - current \in j + 1..n /\ n - current # 0
      BY <1>1, <2>1
    <3> QED
      BY <3>1, <1>1, <1>3, <1>4
  <2>2. CASE j > n - current
    <3>1. j \in n - current + 1..n /\ j # 0
      BY <1>1, <2>2
    <3> QED
      BY <3>1, <1>1, <1>3, <1>4
  <2> QED
    BY <1>1, <2>1, <2>2
<1>5. WordStart(n + 1)' = CHOOSE j \in 0..(n + 1) - 1 : IsStart(j)
  BY DEF WordStart
<1> QED
  BY <1>1, <1>3, <1>4, <1>5

\* Where the words of the text began does not change.
LEMMA StartsStay ==
    ASSUME text \in Seq(Classes \cup {"end"}), NEW c, text' = Append(text, c),
           NEW i \in 1..Len(text)
    PROVE  WordStart(i)' = WordStart(i)
<1>1. \A k \in 1..i : text'[k] = text[k]
  OBVIOUS
<1>2. ASSUME NEW j \in 0..i - 1
      PROVE  /\ (j # 0 => text'[j] # Letter) <=> (j # 0 => text[j] # Letter)
             /\ (\A k \in j + 1..i - 1 : text'[k] = Letter)
                    <=> (\A k \in j + 1..i - 1 : text[k] = Letter)
  BY <1>1
<1> QED
  BY <1>2 DEF WordStart

LEMMA ReadKeepsExactInv ==
    ASSUME ExactInv, ScanInv', NEW c \in Classes \cup {"end"}, text' = Append(text, c),
           ~done, UNCHANGED done,
           \/ c = Letter /\ ReadLetter
           \/ c = "punct" /\ ReadPunct
           \/ c \in Blanks /\ ReadBlank(c)
           \/ c = "end" /\ tokens' = tokens + Chunks(current) + 4 /\ current' = 0
    PROVE  ExactInv'
<1> PICK n : n = Len(text)
  OBVIOUS
<1> DEFINE S == ChunkStarts
           P == Count({"punct", "newline"})
           E == Count({"end"})
<1>1. n \in Nat /\ Len(text') = n + 1 /\ DOMAIN text = 1..n /\ DOMAIN text' = 1..n + 1
  BY DEF ExactInv, ScanInv
<1>2. text'[n + 1] = c /\ \A i \in 1..n : text'[i] = text[i]
  BY DEF ExactInv, ScanInv
<1>3. WordInv'
  <2>1. current \in Nat /\ current <= n
    BY DEF ExactInv, ScanInv, WordInv
  <2>2. CASE c = Letter
    <3>1. current' = current + 1
      BY <2>2 DEF ReadLetter, Letter, Blanks
    <3>2. Len(text') - current' = n - current
      BY <3>1, <2>1, <1>1
    <3>3. ASSUME NEW i \in Len(text') - current' + 1..Len(text') PROVE text'[i] = Letter
      <4>1. i = n + 1 \/ (i \in n - current + 1..n /\ i \in 1..n)
        BY <3>2, <2>1, <1>1
      <4> QED
        BY <4>1, <2>2, <1>2 DEF ExactInv, WordInv
    <3>4. current' # Len(text') => text'[Len(text') - current'] # Letter
      BY <3>1, <3>2, <2>1, <1>1, <1>2 DEF ExactInv, WordInv
    <3>5. current' <= Len(text')
      BY <3>1, <2>1, <1>1
    <3> QED
      BY <3>3, <3>4, <3>5 DEF WordInv
  <2>3. CASE c # Letter
    <3>1. current' = 0
      BY <2>3 DEF ReadPunct, ReadBlank
    <3> QED
      BY <3>1, <2>3, <1>1, <1>2 DEF WordInv
  <2> QED
    BY <2>2, <2>3
<1>4. ChunkStarts' = IF c = Letter /\ current % 4 = 0 THEN S \cup {n + 1} ELSE S
  <2>1. \A i \in 1..n : WordStart(i)' = WordStart(i)
    BY StartsStay DEF ExactInv, ScanInv
  <2>2. WordStart(n + 1)' = n - current
    BY PendingStart DEF ExactInv
  <2>3. (n + 1) - (n - current) - 1 = current
    BY <1>1 DEF ExactInv, ScanInv
  <2>4. ChunkStarts' = {i \in 1..n + 1 : text'[i] = Letter /\ (i - WordStart(i)' - 1) % 4 = 0}
    BY <1>1 DEF ChunkStarts, Positions
  <2>5. S = {i \in 1..n : text[i] = Letter /\ (i - WordStart(i) - 1) % 4 = 0}
    BY <1>1 DEF ChunkStarts, Positions
  <2>6. ASSUME NEW i \in 1..n
        PROVE  i \in ChunkStarts' <=> i \in S
    BY <2>1, <2>4, <2>5, <1>2, <1>1
  <2>7. n + 1 \in ChunkStarts' <=> c = Letter /\ current % 4 = 0
    BY <2>2, <2>3, <2>4, <1>1, <1>2
  <2>8. ChunkStarts' \subseteq 1..n + 1 /\ S \subseteq 1..n
    BY <2>4, <2>5
  <2> HIDE DEF S
  <2>11. 1..n + 1 = 1..n \cup {n + 1} /\ n + 1 \notin 1..n
    BY <1>1
  <2>9. CASE c = Letter /\ current % 4 = 0
    <3>1. \A i : i \in ChunkStarts' <=> i \in S \/ i = n + 1
      BY <2>6, <2>7, <2>8, <2>9, <2>11
    <3>2. ChunkStarts' = S \cup {n + 1}
      BY <3>1
    <3> QED
      BY <2>9, <3>2
  <2>10. CASE ~(c = Letter /\ current % 4 = 0)
    <3>1. \A i : i \in ChunkStarts' <=> i \in S
      BY <2>6, <2>7, <2>8, <2>10, <2>11
    <3>2. ChunkStarts' = S
      BY <3>1
    <3> QED
      BY <2>10, <3>2
  <2> QED
    BY <2>9, <2>10
<1>5. n + 1 \notin S
  BY <1>1 DEF ChunkStarts, Positions
<1>6. /\ IsFiniteSet(ChunkStarts')
      /\ Cardinality(S) \in Nat
      /\ Cardinality(ChunkStarts') =
            IF c = Letter /\ current % 4 = 0 THEN Cardinality(S) + 1 ELSE Cardinality(S)
  BY <1>4, <1>5, FS_AddElement, FS_CardinalityType DEF ExactInv
<1>7. /\ IsFiniteSet(Positions({"punct", "newline"})') /\ P \in Nat
      /\ P' = IF c \in {"punct", "newline"} THEN P + 1 ELSE P
  BY CountOfAppended DEF ExactInv, ScanInv
<1>8. E \in Nat /\ E' = IF c \in {"end"} THEN E + 1 ELSE E
  BY CountOfAppended DEF ExactInv, ScanInv, Counted
<1>9. /\ tokens \in Nat /\ current \in Nat /\ Chunks(current) \in Nat /\ Chunks(0) = 0
      /\ tokens - 4 * E + Chunks(current) = Cardinality(S) + P
  BY <1>8, ChunksBound DEF ExactInv, ScanInv, Body, Chunks
<1>10. tokens' - 4 * E' + Chunks(current') = Cardinality(ChunkStarts') + P'
  <2> HIDE DEF E, P, S
  <2>1. CASE c = Letter /\ ReadLetter
    <3>1. tokens' = tokens /\ current' = current + 1 /\ E' = E /\ P' = P
      BY <2>1, <1>7, <1>8 DEF ReadLetter, Letter
    <3>2. Chunks(current + 1) = IF current % 4 = 0 THEN Chunks(current) + 1 ELSE Chunks(current)
      BY <1>9, NextChunk
    <3>3. CASE current % 4 = 0
      BY <3>1, <3>2, <3>3, <2>1, <1>6, <1>7, <1>8, <1>9
    <3>4. CASE current % 4 # 0
      BY <3>1, <3>2, <3>4, <2>1, <1>6, <1>7, <1>8, <1>9
    <3> QED
      BY <3>3, <3>4
  <2>2. CASE c # Letter
    <3>0. tokens \in Nat /\ E \in Nat /\ P \in Nat /\ Cardinality(S) \in Nat /\ Chunks(current) \in Nat
      BY <1>6, <1>7, <1>8, <1>9
    <3>5. tokens - 4 * E + Chunks(current) = Cardinality(S) + P
      BY <1>9
    <3>1. current' = 0 /\ Chunks(current') = 0 /\ Cardinality(ChunkStarts') = Cardinality(S)
      BY <2>2, <1>6, <1>9 DEF ReadPunct, ReadBlank
    <3>2. CASE c = "end"
      <4>1. tokens' = tokens + Chunks(current) + 4 /\ E' = E + 1 /\ P' = P
        BY <3>2, <1>7, <1>8 DEF Blanks, Letter
      <4>2. tokens' - 4 * E' = tokens - 4 * E + Chunks(current)
        BY <4>1, <1>8, <1>9
      <4> QED
        BY <4>1, <4>2, <3>0, <3>1, <3>5
    <3>3. CASE c \in {"punct", "newline"}
      <4>1. tokens' = tokens + Chunks(current) + 1 /\ E' = E /\ P' = P + 1
        BY <3>3, <1>7, <1>8, <1>9 DEF ReadPunct, ReadBlank, Blanks, Letter
      <4>2. tokens' - 4 * E' = tokens - 4 * E + Chunks(current) + 1
        BY <4>1, <1>8, <1>9
      <4> QED
        BY <4>1, <4>2, <3>0, <3>1, <3>5
    <3>4. CASE c = "space"
      <4>1. tokens' = tokens + Chunks(current) /\ E' = E /\ P' = P
        BY <3>4, <1>7, <1>8, <1>9 DEF ReadBlank, Blanks, Letter
      <4>2. tokens' - 4 * E' = tokens - 4 * E + Chunks(current)
        BY <4>1, <1>8, <1>9
      <4> QED
        BY <4>1, <4>2, <3>0, <3>1, <3>5
    <3> QED
      BY <2>2, <3>2, <3>3, <3>4 DEF Classes, Blanks
  <2> QED
    BY <2>1, <2>2 DEF Blanks, Letter
<1>11. Body' = tokens' - 4 * E'
  BY <1>8 DEF Body, ScanInv
<1> QED
  BY <1>3, <1>6, <1>7, <1>10, <1>11 DEF ExactInv

\* The estimate is what can be read off the text, whatever the messages.
THEOREM CountExact == Spec => []CountIsExact
<1>1. Init => ExactInv
  <2> SUFFICES ASSUME Init PROVE ExactInv
    OBVIOUS
  <2>1. \A S : Positions(S) = {}
    BY DEF Init, Positions
  <2>2. ChunkStarts = {}
    BY <2>1 DEF ChunkStarts
  <2>3. /\ Count({"end"}) = 0 /\ Count({"punct", "newline"}) = 0 /\ Cardinality(ChunkStarts) = 0
        /\ IsFiniteSet(ChunkStarts) /\ IsFiniteSet(Positions({"punct", "newline"}))
    BY <2>1, <2>2, FS_EmptySet DEF Count
  <2>4. Body = 0 /\ Chunks(current) = 0
    BY <2>3 DEF Init, Body, Chunks
  <2>5. WordInv
    BY DEF Init, WordInv
  <2> QED
    BY <2>3, <2>4, <2>5, ScanStarts DEF ExactInv
<1>2. ExactInv /\ ScanInv' /\ [Next]_vars => ExactInv'
  <2> SUFFICES ASSUME ExactInv, ScanInv', [Next]_vars PROVE ExactInv'
    OBVIOUS
  <2>1. ASSUME NEW c \in Classes, ReadChar(c) PROVE ExactInv'
    <3>1. text' = Append(text, c) /\ ~done /\ UNCHANGED done
      BY <2>1 DEF ReadChar
    <3>2. \/ c = Letter /\ ReadLetter
          \/ c = "punct" /\ ReadPunct
          \/ c \in Blanks /\ ReadBlank(c)
      BY <2>1 DEF ReadChar, Classes, Blanks, Letter
    <3> QED
      BY <3>1, <3>2, ReadKeepsExactInv
  <2>2. CASE EndMessage
    BY <2>2, ReadKeepsExactInv DEF EndMessage
  <2>3. CASE Return \/ UNCHANGED vars
    <3>1. text' = text /\ current' = current
      BY <2>3 DEF Return, vars
    <3>2. ChunkStarts' = ChunkStarts /\ WordInv' = WordInv
      BY <3>1 DEF ChunkStarts, Positions, WordStart, WordInv
    <3>3. \A S : Positions(S)' = Positions(S) /\ Count(S)' = Count(S)
      BY <3>1 DEF Positions, Count
    <3>4. Body' = Body
      <4>1. Count({"end"}) \in Nat /\ tokens \in Nat
        BY FS_CardinalityType DEF Count, ExactInv, ScanInv, Counted
      <4>2. CASE Return
        BY <4>1, <4>2, <3>3 DEF Return, Body
      <4>3. CASE UNCHANGED vars
        BY <4>3, <3>3 DEF vars, Body
      <4> QED
        BY <2>3, <4>2, <4>3
    <3> QED
      BY <3>1, <3>2, <3>3, <3>4 DEF ExactInv
  <2> QED
    BY <2>1, <2>2, <2>3 DEF Next
<1>3. ExactInv => CountIsExact
  <2> SUFFICES ASSUME ExactInv, done PROVE tokens = Reference
    BY DEF CountIsExact
  <2>1. current = 0 /\ tokens \in Nat
    BY DEF ExactInv, ScanInv
  <2>2. Chunks(current) = 0
    BY <2>1 DEF Chunks
  <2>3. Count({"end"}) \in Nat /\ Count({"punct", "newline"}) \in Nat
        /\ Cardinality(ChunkStarts) \in Nat
    BY FS_CardinalityType DEF Count, ExactInv, ScanInv, Counted
  <2>4. tokens - 4 * Count({"end"}) - 2 = Cardinality(ChunkStarts) + Count({"punct", "newline"})
    BY <2>1, <2>2, <2>3 DEF ExactInv, Body
  <2> QED
    BY <2>1, <2>3, <2>4 DEF Reference, Overhead, Count
<1> QED
  BY <1>1, <1>2, <1>3, ScanStarts, ScanStep, PTL DEF Spec
=============================================================================
