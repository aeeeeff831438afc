SPECIFICATION Spec
CONSTANTS
    ProviderConfigs <- ThreeProviders
    Price <- PartialPrice
    Aliases <- DefaultAliases
    ErrorScale = 10
    RequestCap = 0
    ErrorCap = 6
    IndexBits = 2
    Threads = {t1, t2}
    Registered = {"openai", "groq"}
    Requested <- PlainAndFast
    Latencies = {100}
    StrategyChoices = {"cost", "latency", "failover", "smart"}
INVARIANTS
    TypeOK
    OpenBreakerIsJustified
    BreakerNeedsSixFailures
PROPERTIES
    OpenBreakerShedsTraffic
SYMMETRY Symmetry
CHECK_DEADLOCK TRUE
