------------------------------ MODULE Startup ------------------------------
(***************************************************************************)
(* How main of src/main.cpp brings the gateway up: the configuration in    *)
(* its three layers (defaults, file, environment) by src/config.cpp, the   *)
(* registry by src/providers/provider_registry.cpp, and the strategy that  *)
(* the router takes from the configuration when it is first used.          *)
(*                                                                         *)
(* A file that opens and parses is written as what load_from_file reads    *)
(* from it, in the order of the code: settings, provider entries, aliases. *)
(* A read of a value of the wrong type throws, and ends the loading there. *)
(***************************************************************************)
EXTENDS Integers, Sequences

CONSTANTS
    Files,            \* the configuration files: [state, reads]
    Envs,             \* the environments: variables that are set |-> value
    DefaultSettings,  \* the initialisers of GatewayConfig: setting |-> value
    DefaultAliases,   \* the aliases set_default_pricing puts in
    Unreadable,       \* a value of the wrong type, or not a number
    Addresses,        \* the hosts that are addresses of this machine
    FreePorts         \* the ports on which nobody listens yet

\* A variable is named for what it overrides: a setting or a provider's key.
KnownProviders == {"openai", "anthropic", "together", "groq"}
EnvSettings == {"port", "host", "threads", "log_level", "admin_key"}
Strategies == {"cost", "latency", "round_robin", "failover", "smart"}

\* Providers and aliases come in any number, each setting once.
Repeated == {"provider", "alias"}

ASSUME FilesAssumption ==
    \A f \in Files :
        /\ f.state \in {"missing", "malformed", "read"}
        /\ Len(f.reads) \in Nat /\ DOMAIN f.reads = 1..Len(f.reads)
        /\ \A i \in DOMAIN f.reads :
              \/ f.reads[i].what \in Repeated
              \/ /\ f.reads[i].what \in DOMAIN DefaultSettings
                 /\ \A j \in DOMAIN f.reads \ {i} : f.reads[j].what # f.reads[i].what
\* A provider entry is a ProviderConfig.
ASSUME EntriesAssumption ==
    \A f \in Files : \A i \in DOMAIN f.reads :
        f.reads[i].what = "provider" /\ f.reads[i].value # Unreadable =>
            {"name", "enabled", "api_key"} \subseteq DOMAIN f.reads[i].value
ASSUME DefaultsAssumption ==
    /\ {"admin_key", "routing_strategy", "host", "port"} \subseteq DOMAIN DefaultSettings
    /\ DOMAIN DefaultSettings \cap Repeated = {}
ASSUME EnvsAssumption ==
    \A e \in Envs :
        /\ DOMAIN e \subseteq EnvSettings \cup KnownProviders
        /\ \A s \in DOMAIN e : e[s] = Unreadable => s \in {"port", "threads"}

VARIABLES
    file, env,    \* what this start finds; nothing changes them
    phase,        \* what main does next
    at,           \* the next read of the file
    settings, providers, aliases,   \* config_
    registered,   \* providers_ of the registry
    strategy      \* strategy_ of the router

inputVars == <<file, env>>
configVars == <<settings, providers, aliases>>
startupVars == <<inputVars, phase, at, configVars, registered, strategy>>

\* Any name that is not known is the smart strategy.
StrategyNamed(s) == IF s \in Strategies THEN s ELSE "smart"

----------------------------------------------------------------------------
StartupInit ==
    /\ file \in Files /\ env \in Envs
    /\ phase = "open" /\ at = 1
    /\ settings = DefaultSettings /\ providers = <<>> /\ aliases = DefaultAliases
    /\ registered = {} /\ strategy = "smart"

\* Without a file there is nothing to read; what does not parse throws.
OpenFile ==
    /\ phase = "open"
    /\ phase' = CASE file.state = "missing"   -> "override"
                  [] file.state = "malformed" -> "file_error"
                  [] file.state = "read"      -> "read"
    /\ UNCHANGED <<inputVars, at, configVars, registered, strategy>>

Applied(r) ==
    CASE r.what = "provider" ->
            providers' = Append(providers, r.value) /\ UNCHANGED <<settings, aliases>>
      [] r.what = "alias" ->
            /\ aliases' = [m \in DOMAIN aliases \cup {r.value[1]} |->
                              IF m = r.value[1] THEN r.value[2] ELSE aliases[m]]
            /\ UNCHANGED <<settings, providers>>
      [] r.what = "routing_strategy" ->
            /\ settings' = [settings EXCEPT !.routing_strategy = StrategyNamed(r.value)]
            /\ UNCHANGED <<providers, aliases>>
      [] OTHER ->
            settings' = [settings EXCEPT ![r.what] = r.value] /\ UNCHANGED <<providers, aliases>>

\* What was read before the one that throws stays.
ReadNext ==
    /\ phase = "read" /\ at <= Len(file.reads)
    /\ LET r == file.reads[at]
       IN  IF r.value = Unreadable
           THEN phase' = "file_error" /\ UNCHANGED <<at, configVars>>
           ELSE Applied(r) /\ at' = at + 1 /\ UNCHANGED phase
    /\ UNCHANGED <<inputVars, registered, strategy>>

ReadDone ==
    /\ phase = "read" /\ at > Len(file.reads)
    /\ phase' = "override"
    /\ UNCHANGED <<inputVars, at, configVars, registered, strategy>>

\* Plausible fault: a file that cannot be loaded ends the process.
AfterFileErrorNothing == "dead"

\* load_from_file returns false, which main does not look at.
AfterFileError == "reload"

FileError ==
    /\ phase = "file_error"
    /\ phase' = AfterFileError
    /\ UNCHANGED <<inputVars, at, configVars, registered, strategy>>

\* apply_env_overrides.  A key is given to the entries the file has listed;
\* stoi throws outside every try block, which ends the process.
BadNumber == \E s \in DOMAIN env : env[s] = Unreadable

Override(p) == IF p.name \in DOMAIN env THEN [p EXCEPT !.api_key = env[p.name]] ELSE p

ApplyEnv(next) ==
    IF BadNumber
    THEN phase' = "dead" /\ UNCHANGED configVars
    ELSE /\ phase' = next
         /\ settings' = [s \in DOMAIN settings |->
                            IF s \in DOMAIN env THEN env[s] ELSE settings[s]]
         /\ providers' = [i \in DOMAIN providers |-> Override(providers[i])]
         /\ UNCHANGED aliases

\* At the end of load_from_file, and where there is no file.
OverrideAfterFile ==
    /\ phase = "override"
    /\ ApplyEnv("reload")
    /\ UNCHANGED <<inputVars, at, registered, strategy>>

\* Plausible fault: main relies on the overrides of load_from_file.
ReloadNothing == phase' = "register" /\ UNCHANGED configVars

\* load_from_env, which main calls in any case.
Reload == ApplyEnv("register")

LoadFromEnv ==
    /\ phase = "reload"
    /\ Reload
    /\ UNCHANGED <<inputVars, at, registered, strategy>>

\* Plausible fault: an empty key is taken for a key.
IsCreatedUnkeyed(p) == p.enabled /\ p.name \in KnownProviders

\* ProviderRegistry::initialize, create_provider
IsCreated(p) == p.enabled /\ p.api_key # "" /\ p.name \in KnownProviders

InitializeRegistry ==
    /\ phase = "register"
    /\ registered' = {providers[i].name : i \in {j \in DOMAIN providers : IsCreated(providers[j])}}
    /\ phase' = "construct"
    /\ UNCHANGED <<inputVars, at, configVars, strategy>>

\* Router::instance is called here for the first time.
ConstructRouter ==
    /\ phase = "construct"
    /\ strategy' = settings.routing_strategy
    /\ phase' = "run"
    /\ UNCHANGED <<inputVars, at, configVars, registered>>

\* bindaddr takes the host as it is, port an unsigned number of 16 bits.
CanListen(host, port) == host \in Addresses /\ port % 2^16 \in FreePorts

\* run listens, or fails where nothing catches it, and the process ends.
RunServer ==
    /\ phase = "run"
    /\ phase' = IF CanListen(settings.host, settings.port) THEN "serve" ELSE "dead"
    /\ UNCHANGED <<inputVars, at, configVars, registered, strategy>>

StartupStep ==
    \/ OpenFile \/ ReadNext \/ ReadDone \/ FileError
    \/ OverrideAfterFile \/ LoadFromEnv
    \/ InitializeRegistry \/ ConstructRouter \/ RunServer

----------------------------------------------------------------------------
\* What the layers come to, without the order in which they are applied.

\* The reads before the first that throws.
Kept ==
    LET throws == {i \in DOMAIN file.reads : file.reads[i].value = Unreadable}
    IN  IF file.state # "read" THEN {}
        ELSE {i \in DOMAIN file.reads : \A j \in throws : i < j}

\* The value of a setting after the reads K alone.
ReadsOf(s, K) == {i \in K : file.reads[i].what = s}
TheRead(S) == CHOOSE i \in S : TRUE

FileLayer(s, K) ==
    IF ReadsOf(s, K) = {} THEN DefaultSettings[s]
    ELSE LET v == file.reads[TheRead(ReadsOf(s, K))].value
         IN  IF s = "routing_strategy" THEN StrategyNamed(v) ELSE v

Layered(s) == IF s \in DOMAIN env THEN env[s] ELSE FileLayer(s, Kept)

ListedProviders == {file.reads[i].value : i \in ReadsOf("provider", Kept)}
KeyInForce(p) == IF p.name \in DOMAIN env THEN env[p.name] ELSE p.api_key

\* A gateway that serves runs on defaults < file < environment, each setting
\* by itself, wherever in the file the loading broke off: every variable that
\* is set has its way, and so does every value read before the error.
LayersApplied ==
    phase = "serve" => \A s \in DOMAIN settings : settings[s] = Layered(s)

\* A provider can be called just when it is listed and enabled in what was
\* read of the file and its key in force, which a variable may set or empty,
\* is not empty: a variable alone never makes a provider.
RegisteredAsConfigured ==
    phase = "serve" =>
        registered = KnownProviders \cap
            {p.name : p \in {q \in ListedProviders : q.enabled /\ KeyInForce(q) # ""}}

\* A start comes to an end: whatever the file holds, and wherever its loading
\* breaks off, the gateway serves if the numbers of the environment are numbers
\* and the host and the port that the layers leave can be listened on; the
\* process ends otherwise.
GatewayStarts ==
    LET comes_up ==
            /\ ~BadNumber
            /\ Layered("host") \in Addresses /\ Layered("port") % 2^16 \in FreePorts
    IN  /\ comes_up => <>(phase = "serve")
        /\ ~comes_up => <>[](phase = "dead")
=============================================================================
