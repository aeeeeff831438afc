----------------------------- MODULE MCFailover -----------------------------
(***************************************************************************)
(* Instances of Failover.  The providers, models, weights and prices are   *)
(* a selection of those of config/gateway.json and of                      *)
(* Config::set_default_pricing.                                            *)
(***************************************************************************)
EXTENDS Failover

\* Weights 5, 3 and 4; anthropic stands for an enabled provider without a key.
Config(names) ==
    LET all == <<
        [name |-> "openai",    enabled |-> TRUE, weight |-> 5,
         models |-> <<"gpt-4o", "gpt-4o-mini">>],
        [name |-> "anthropic", enabled |-> TRUE, weight |-> 5,
         models |-> <<"claude-haiku-3-5">>],
        [name |-> "together",  enabled |-> TRUE, weight |-> 3,
         models |-> <<"meta-llama/Llama-3.1-8B-Instruct">>],
        [name |-> "groq",      enabled |-> TRUE, weight |-> 4,
         models |-> <<"llama-3.1-8b-instant">>]>>
        chosen(c) == c.name \in names
    IN  SelectSeq(all, chosen)

ThreeProviders == Config({"openai", "anthropic", "groq"})
AllProviders == Config({"openai", "anthropic", "together", "groq"})
OneProvider == Config({"groq"})

DefaultPrice ==
       (<<"openai", "gpt-4o">> :> 1250)
    @@ (<<"openai", "gpt-4o-mini">> :> 75)
    @@ (<<"anthropic", "claude-haiku-3-5">> :> 480)
    @@ (<<"together", "meta-llama/Llama-3.1-8B-Instruct">> :> 36)
    @@ (<<"groq", "llama-3.1-8b-instant">> :> 13)

\* openai's prices are missing, so that the cost strategy has a last resort.
PartialPrice == <<"groq", "llama-3.1-8b-instant">> :> 13

DefaultAliases ==
    (<<"fast">> :> <<"groq", "llama-3.1-8b-instant">>)

PlainAndFast == {<<"gpt-4o-mini">>, <<"fast">>}
\* The threads are interchangeable, and no action names one.
Symmetry == Permutations(Threads)

PlainOnly == {<<"gpt-4o-mini">>}
=============================================================================
