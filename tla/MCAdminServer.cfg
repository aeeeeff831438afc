SPECIFICATION FairSpec
CONSTANTS
    Files <- MCFiles
    Envs <- MCEnvs
    DefaultSettings <- Defaults
    DefaultAliases <- TwoAliases
    Unreadable = Unreadable
    Addresses = {"0.0.0.0"}
    FreePorts <- Listenable
    RawKeys = {"k1", "k2", "k3"}
    HashOf <- MCHashOf
    IdOf <- MCIdOf
    Tiers = {"free", "pro"}
    MaxCreated = 4
    MaxRevoked = 2
    Headers = {"", "file-admin", "env-admin"}
    StrategyNames = {"cost", "fastest"}
INVARIANTS
    KeysTypeOK
    LayersApplied
    RegisteredAsConfigured
    RevokedStaysRefused
    OnlyRevokedAreRefused
    KeysKeepTheirTier
    OnlyAdminsAdminister
PROPERTIES
    GatewayStarts
\* A start may end in a dead process, or in a gateway that has no admin key.
CHECK_DEADLOCK FALSE
