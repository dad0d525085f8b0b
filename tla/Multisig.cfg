SPECIFICATION MCSpec
CONSTANTS
    Addresses = {"a", "b", "c", "d"}
    Configs <- MCConfigs
    Actions <- MCAll
    Tokens = {"usdc", "xlm", "eurc", "new"}
    Bootstrap <- MCBootstrap
    Window = 2
    Timelock = 2
    MaxProposals = 2
    MaxTime = 3
    Admins = {"x", "y"}
    Cooldown <- MCCooldown
    LogCapacity = 2
    Reports <- MCReports
    Standard = {"usdc", "xlm", "new"}
    TokenDigits <- MCDigits
    Wirings <- MCWirings
    MaxActions = 3
    MaxUnlogged = 1
CHECK_DEADLOCK FALSE
INVARIANTS
    OneLiveProposal
    AuditTrail
PROPERTIES
    ConsentEarned
    TokensInStep
