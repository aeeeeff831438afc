---------------------------- MODULE TokenCounter ----------------------------
(***************************************************************************)
(* The token estimate of src/utils/token_counter.cpp, which the limiter    *)
(* admits a request by: count_messages over the messages, tokenize over    *)
(* the characters of each, one character per step.  Of a character only    *)
(* its class matters.  Bytes above 127 are in no class of the C locale     *)
(* that the program runs in, and so count as letters.                      *)
(***************************************************************************)
EXTENDS Integers, Sequences, FiniteSets

CONSTANT MaxChars   \* bound on the characters read, message ends included

ASSUME MaxCharsAssumption == MaxChars \in Nat

VARIABLES
    text,      \* what was read: characters, and "end" after each message
    current,   \* the length of the word being read
    tokens,    \* the tokens of the messages so far
    done       \* count_messages has returned

vars == <<text, current, tokens, done>>

Letter == "letter"
Blanks == {"space", "newline"}
Classes == {Letter, "punct"} \cup Blanks

----------------------------------------------------------------------------
\* Plausible fault: chunks of four, and what is left over is dropped.
ChunksWhole(n) == n \div 4

\* The chunks of at most four characters that a word of n is split into.
Chunks(n) == (n + 3) \div 4

ReadLetter ==
    /\ current' = current + 1
    /\ UNCHANGED tokens

\* Plausible fault: the word before a punctuation mark is not closed.
ReadPunctOpen ==
    /\ tokens' = tokens + 1
    /\ UNCHANGED current

\* Punctuation ends the word and is a token of its own.
ReadPunct ==
    /\ tokens' = tokens + Chunks(current) + 1
    /\ current' = 0

\* So does white space, of which only a newline is a token.
ReadBlank(c) ==
    /\ tokens' = tokens + Chunks(current) + (IF c = "newline" THEN 1 ELSE 0)
    /\ current' = 0

ReadChar(c) ==
    /\ ~done /\ Len(text) < MaxChars
    /\ text' = Append(text, c)
    /\ CASE c = Letter  -> ReadLetter
         [] c = "punct" -> ReadPunct
         [] c \in Blanks -> ReadBlank(c)
    /\ UNCHANGED done

\* The end of a message: its last word, and four tokens for the message.
EndMessage ==
    /\ ~done /\ Len(text) < MaxChars
    /\ text' = Append(text, "end")
    /\ tokens' = tokens + Chunks(current) + 4
    /\ current' = 0
    /\ UNCHANGED done

AtMessage == \A i \in DOMAIN text : i = Len(text) => text[i] = "end"

\* No more messages: two tokens of priming.
Return ==
    /\ ~done /\ AtMessage
    /\ tokens' = tokens + 2
    /\ done' = TRUE
    /\ UNCHANGED <<text, current>>

Init == text = <<>> /\ current = 0 /\ tokens = 0 /\ done = FALSE

Next ==
    \/ \E c \in Classes : ReadChar(c)
    \/ EndMessage
    \/ Return

Spec == Init /\ [][Next]_vars

----------------------------------------------------------------------------
\* The count without a scan: where in the text a token begins.

Positions(S) == {i \in DOMAIN text : text[i] \in S}

\* The nearest place before i that is not a letter.
WordStart(i) ==
    CHOOSE j \in 0..i - 1 :
        /\ j # 0 => text[j] # Letter
        /\ \A k \in j + 1..i - 1 : text[k] = Letter

\* Every fourth letter of a word begins a chunk, from its first on.
ChunkStarts == {i \in Positions({Letter}) : (i - WordStart(i) - 1) % 4 = 0}

Overhead == 4 * Cardinality(Positions({"end"})) + 2

Reference ==
    Cardinality(ChunkStarts) + Cardinality(Positions({"punct", "newline"}))
        + Overhead

\* The scan with its pending word gives what can be read off the text: a word
\* is cut into fours from its own beginning wherever it stands, no word runs
\* over into the next message, and none is counted twice or lost.
CountIsExact == done => tokens = Reference

\* What the limiter relies on: besides the overhead of the messages, which is
\* never 0, the estimate is at least a quarter of the characters that are not
\* blank, and at most one token for each character that is not a space.
EstimateInProportion ==
    done =>
        /\ Cardinality(Positions({Letter, "punct"})) <= 4 * (tokens - Overhead)
        /\ tokens - Overhead <= Cardinality(Positions(Classes \ {"space"}))
=============================================================================
