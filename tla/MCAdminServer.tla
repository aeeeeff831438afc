--------------------------- MODULE MCAdminServer ---------------------------
(* The instance of AdminServer that MCAdminServer.cfg checks: configuration  *)
(* files that are whole, absent, broken at different places; environments    *)
(* like that of docker-compose.yml; keys "k1" and "k2" with one key_id.      *)
EXTENDS AdminServer, TLC, Sequences

Defaults == [port |-> 8080, host |-> "0.0.0.0", threads |-> 4, log_level |-> "info",
             admin_key |-> "", default_rpm |-> 60, max_entries |-> 10000,
             routing_strategy |-> "smart"]
TwoAliases == "fast" :> "groq:llama-3.1-8b-instant" @@ "claude" :> "anthropic:claude-opus-4"

Reads(s, v) == [what |-> s, value |-> v]
Entry(n, k, on) == Reads("provider", [name |-> n, api_key |-> k, enabled |-> on])

Whole == << Reads("port", 9000), Reads("admin_key", "file-admin"),
            Reads("routing_strategy", "failover"),
            Entry("openai", "", TRUE), Entry("groq", "file-key", TRUE),
            Entry("anthropic", "file-key", FALSE), Entry("mistral", "file-key", TRUE),
            Reads("alias", <<"fast", "openai:gpt-4o-mini">>) >>

\* The same file with the value of its i-th read of the wrong type.
BrokenAt(i) == [Whole EXCEPT ![i].value = Unreadable]

MCFiles ==
    {[state |-> "read", reads |-> f] :
        f \in {Whole, BrokenAt(1), BrokenAt(2), BrokenAt(5),
               <<Reads("routing_strategy", "fastest"), Entry("groq", "", TRUE)>>}}
    \cup {[state |-> s, reads |-> <<>>] : s \in {"missing", "malformed"}}

MCEnvs ==
    { [v \in {} |-> ""],
      "openai" :> "env-key" @@ "groq" :> "",
      "port" :> 73617 @@ "admin_key" :> "env-admin" @@ "groq" :> "env-key",
      "admin_key" :> "" @@ "log_level" :> "debug",
      "threads" :> Unreadable,
      "host" :> "localhost",
      "port" :> 80 }

\* 73617 is 8081 in 16 bits; somebody else listens on 80.
Listenable == {8080, 8081, 9000}

\* std::hash, taken as injective, and the eight characters of the key_id.
MCHashOf == "k1" :> "hash1" @@ "k2" :> "hash2" @@ "k3" :> "hash3"
MCIdOf == "k1" :> "gw-sk-gw-aa" @@ "k2" :> "gw-sk-gw-aa" @@ "k3" :> "gw-sk-gw-bb"
=============================================================================
