SPECIFICATION Spec
CONSTANTS
    NAccounts = 4
    Admin = 1
    Freelancers = {1}
    Payers = {2}
    LPs = {3, 4}
    NInvoices = 2
    Bps = 2
    Amounts = {2}
    Rates = {1}
    Durations = {1}
    FundAmounts = {1, 2}
    PayAmounts = {2}
    MaxBatch = 10
    FeeRates = {0}
    DisputeTimeout = 1
    AppealWindow = 1
    Freezable = {}
    MaxTime = 2
    MaxClawback = 0
    MaxBalance = 0
INVARIANT
    RunbookReconciles
