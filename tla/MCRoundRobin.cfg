SPECIFICATION BusySpec
CONSTANTS
    ProviderConfigs <- ThreeConfigs
    Price <- GroqPrice
    Aliases <- NoAliases
    ErrorScale = 10
    RequestCap = 0
    ErrorCap = 0
    IndexBits = 2
    Threads = {1, 2}
    Registered = {"openai", "groq"}
    Requested <- PlainOnly
    Latencies = {0}
    StrategyChoices = {"round_robin", "failover"}
    MaxRetries = 1
INVARIANTS
    SleepsAddUp
PROPERTIES
    ImplementsFailover
    RequestAnswered
    RoundRobinReachesAll
CHECK_DEADLOCK TRUE
