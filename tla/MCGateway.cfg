SPECIFICATION FairSpec
CONSTANTS
    ProviderConfigs <- TwoConfigs
    Price <- GroqPrice
    Aliases <- NoAliases
    ErrorScale = 10
    RequestCap = 0
    ErrorCap = 0
    IndexBits = 2
    Threads = {1, 2}
    Registered = {"groq", "together"}
    Latencies = {100}
    StrategyChoices = {"failover"}
    ApiKeys = {"k"}
    NoKey = "none"
    Rpm = 1
    Tpm = 4
    Window = 1
    TicksPerSec = 1
    Estimates = {1}
    MaxTok = 3
    MaxStall = 0
    MaxTime = 1
    Ttl = 0
    NoResponse = NoResponse
    Pricing <- GroqPricing
    MaxHistory = 1
    Questions <- OneQuestion
    Prompts <- Hi
    Pieces <- Words
    MatchParams = TRUE
    Hash <- NoCollisions
    LegacyModel <- Gpt
    AnswerTokens <- ThreeTokens
    MaxRequests = 2
    MaxScrapes = 1
INVARIANTS
    RequestsAccounted
    SpendIsExact
    SummaryNeverOverstates
    TokensAccounted
    ResponsesAnswerTheirRequest
    SnapshotErrorsAreMisses
PROPERTIES
    EveryRequestReturns
\* A behaviour ends when requests, scrapes and the clock have reached their bounds.
CHECK_DEADLOCK FALSE
