SPECIFICATION Spec
CONSTANTS
    ProviderConfigs <- TwoConfigs
    Price <- GroqPrice
    Aliases <- NoAliases
    ErrorScale = 10
    RequestCap = 0
    ErrorCap = 0
    IndexBits = 2
    Threads = {t1, t2}
    Registered = {"groq", "together"}
    Latencies = {100}
    StrategyChoices = {"failover"}
    ApiKeys = {"k"}
    NoKey = "none"
    Rpm = 1
    Tpm = 4
    Window = 1
    TicksPerSec = 1
    Estimates = {1}
    MaxTok = 3
    MaxStall = 0
    MaxTime = 1
    Ttl = 0
    NoResponse = NoResponse
    Pricing <- GroqPricing
    MaxHistory = 3
    Questions <- OneQuestion
    Prompts <- Hi
    Pieces <- Words
    MatchParams = TRUE
    Hash <- NoCollisions
    LegacyModel <- Gpt
    AnswerTokens <- ThreeTokens
    MaxRequests = 2
    MaxScrapes = 0
INVARIANTS
    EveryAnswerIsBilled
\* Every behaviour ends once the requests are served and the clock stands.
CHECK_DEADLOCK FALSE
