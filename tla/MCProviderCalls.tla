-------------------------- MODULE MCProviderCalls --------------------------
(* The instance of ProviderCalls that MCRoundRobin.cfg checks: of three      *)
(* configured providers, anthropic has no key.                               *)
EXTENDS ProviderCalls, TLC

\* Weights are those of config/gateway.json.
ThreeConfigs == <<
    [name |-> "openai",    enabled |-> TRUE, weight |-> 5, models |-> <<"gpt-4o-mini">>],
    [name |-> "anthropic", enabled |-> TRUE, weight |-> 5, models |-> <<"claude-haiku-3-5">>],
    [name |-> "groq",      enabled |-> TRUE, weight |-> 4, models |-> <<"llama-3.1-8b-instant">>]>>

GroqPrice == <<"groq", "llama-3.1-8b-instant">> :> 13
NoAliases == [m \in {} |-> m]
PlainOnly == {<<"gpt-4o-mini">>}
=============================================================================
