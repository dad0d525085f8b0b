SPECIFICATION MCSpec
CONSTANTS
    NAccounts = 5
    Admin = 5
    Freelancers = {1}
    Payers = {2}
    LPs = {3, 4}
    NInvoices = 2
    Bps = 2
    Amounts = {2, 3}
    Rates = {1}
    Durations = {1}
    FundAmounts = {0, 1, 2, 3}
    PayAmounts = {1, 3}
    MaxBatch = 10
    FeeRates = {0, 1}
    DisputeTimeout = 1
    AppealWindow = 1
    Freezable = {3, 5}
    MaxTime = 3
    MaxClawback = 1
    MaxBalance = 1
INVARIANTS
    EscrowBacked
    AmountsSound
    NftTracksClaim
    Solvent
PROPERTIES
    SM1
    SettlementPaysOut
