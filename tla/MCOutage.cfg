SPECIFICATION HealthySpec
CONSTANTS
    ProviderConfigs <- OneProvider
    Price <- PartialPrice
    Aliases <- DefaultAliases
    ErrorScale = 10
    RequestCap = 0
    ErrorCap = 0
    IndexBits = 2
    Threads = {1, 2}
    Registered = {"groq"}
    Requested <- PlainOnly
    Latencies = {100}
    StrategyChoices = {"smart"}
PROPERTIES
    HealthRecovers
CHECK_DEADLOCK TRUE
