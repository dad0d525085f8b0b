SPECIFICATION MCSpec
CONSTANTS
    NAccounts = 4
    Admin = 1
    Freelancers = {1, 4}
    Payers = {2}
    LPs = {3, 4}
    NInvoices = 2
    Bps = 2
    Amounts = {2}
    Rates = {1}
    Durations = {1}
    FundAmounts = {1}
    PayAmounts = {1}
    MaxBatch = 10
    FeeRates = {0, 1}
    DisputeTimeout = 1
    AppealWindow = 1
    Freezable = {3, 4}
    MaxTime = 2
    MaxClawback = 0
    MaxBalance = 0
    VolumeCaps = {3}
    PageSizes = {1, 2}
    Submitter = 1
INVARIANTS
    ListingsComplete
    TotalsAgree
PROPERTIES
    DisputesEnd
    EscrowReleased
