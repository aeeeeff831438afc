----------------------------- MODULE MCGateway -----------------------------
(* Instances of Gateway. *)
EXTENDS Gateway, TLC

OneConfig == <<[name |-> "groq", enabled |-> TRUE, weight |-> 4,
                models |-> <<"llama-3.1-8b-instant">>]>>
TwoConfigs == OneConfig \o <<[name |-> "together", enabled |-> TRUE, weight |-> 3,
                             models |-> <<"meta-llama/Llama-3.1-8B-Instruct">>]>>

GroqPrice == <<"groq", "llama-3.1-8b-instant">> :> 13
GroqPricing == <<"groq", "llama-3.1-8b-instant">> :> [input |-> 5, output |-> 8]
NoAliases == [m \in {} |-> m]

Gpt == <<"gpt-4o-mini">>
ThreeTokens == [input |-> 2, output |-> 1, total |-> 3]

\* Texts in pieces no longer than the instances need.
Words == {"gpt-4o-mini", "system", "brief", "user", "hi", "a", "b", ":", "|"}

\* No two texts with one hash.
NoCollisions(text) == text

\* Questions to the default model with the default parameters; "hi" is what the
\* legacy handler is asked too.
Asking(messages) == [model |-> Gpt, messages |-> messages, temperature |-> 7000000,
                     max_tokens |-> 1024]
Says(role, content) == [role |-> <<role>>, content |-> content]
Briefed == Asking(<<Says("system", <<"brief">>), Says("user", <<"hi">>)>>)
OneQuestion == {Briefed}
Hi == {<<"hi">>}

\* One message that reads like two, and the two it reads like.
Quoting == {Asking(<<Says("user", <<"a", "|", "user", ":", "b">>)>>),
            Asking(<<Says("user", <<"a">>), Says("user", <<"b">>)>>)}
NoPrompts == {}
=============================================================================
