------------------------------ MODULE CacheKey ------------------------------
(***************************************************************************)
(* Cache::make_key of src/cache.cpp: the parts of a request are joined to  *)
(* one text, which is hashed.  Clients write the messages, and make_key    *)
(* escapes nothing, so that a message may hold the separators too.         *)
(*                                                                         *)
(* A text is a sequence of pieces.  The parameters are kept beside it: if  *)
(* match_params is set they are its last two fields, which hold numbers,   *)
(* so that they can be told from what comes before.                        *)
(***************************************************************************)
EXTENDS Integers, Sequences

CONSTANTS
    Pieces,        \* what texts are made of
    MatchParams,   \* match_params: the parameters are part of the key
    Hash(_)        \* std::hash of a text

ASSUME PiecesAssumption == {":", "|"} \subseteq Pieces

Message == [role : Seq(Pieces), content : Seq(Pieces)]
Question == [model : Seq(Pieces), messages : Seq(Message), temperature : Int,
             max_tokens : Int]

\* Plausible fault: the system prompt taken out of the key.
PrintedUnlessSystem(message) ==
    IF message.role = <<"system">> THEN <<>>
    ELSE message.role \o <<":">> \o message.content \o <<"|">>

\* role:content|
Printed(message) == message.role \o <<":">> \o message.content \o <<"|">>

\* The loop over the messages, which appends to the key.
JoinedUpTo(messages) ==
    LET key[n \in 0..Len(messages)] ==
            IF n = 0 THEN <<>> ELSE key[n - 1] \o Printed(messages[n])
    IN  key
Joined(messages) == JoinedUpTo(messages)[Len(messages)]

\* to_string prints six decimals; a temperature is in units of 1e-7.
Millionths(temperature) == (temperature + 5) \div 10

Params(q) == IF MatchParams THEN <<Millionths(q.temperature), q.max_tokens>> ELSE <<>>

Text(q) == <<q.model \o <<"|">> \o Joined(q.messages), Params(q)>>

MakeKey(q) == Hash(Text(q))

----------------------------------------------------------------------------
\* What a key is to tell apart: model, messages and, if they matter, parameters.
Asked(q) == <<q.model, q.messages, Params(q)>>
SameQuestion(q, r) == Asked(q) = Asked(r)

Holds(text, piece) == \E i \in DOMAIN text : text[i] = piece

\* A question without the separators where they could be misread.
Plain(q) ==
    /\ ~Holds(q.model, "|")
    /\ \A i \in DOMAIN q.messages :
          /\ ~Holds(q.messages[i].role, ":") /\ ~Holds(q.messages[i].role, "|")
          /\ ~Holds(q.messages[i].content, "|")

Collide(q, r) == Text(q) # Text(r) /\ MakeKey(q) = MakeKey(r)
=============================================================================
