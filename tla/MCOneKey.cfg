SPECIFICATION Spec
CONSTANTS
    ProviderConfigs <- AllProviders
    Price <- DefaultPrice
    Aliases <- DefaultAliases
    ErrorScale = 10
    RequestCap = 0
    ErrorCap = 0
    IndexBits = 2
    Threads = {1, 2}
    Registered = {"groq"}
    Requested <- PlainOnly
    Latencies = {100}
    StrategyChoices = {"smart"}
PROPERTIES
    WorkingProviderIsUsed
CHECK_DEADLOCK TRUE
