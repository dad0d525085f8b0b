SPECIFICATION MCSpec
CONSTANTS
    Accounts = {"p1", "p2", "p3", "p4", "lp"}
    Participants = {"p1", "p2", "p3", "p4", "lp"}
    Provider = "lp"
    Payers <- PayersByInvoice
    Few = {"p1", "p2"}
    Pair = {"p1", "p2"}
    Claimer = "p1"
    MaxScore = 6
    DefaultScore = 4
    Penalty = 2
    Capacity = 3
    MaxPeriods = 3
    Bps = 10000
    Amounts = {1, 2, 3}
    Sizes = {2, 3}
    Rates = {0, 2}
    DefaultRates <- StandardRates
    Hundred = 2
    MaxAccrual = 2
    NInvoices = 5
    Durations = {1}
    AppealWindow = 1
    DecayParams <- DecaySettings
    Minimums = {4}
    Cooldown = 3
    MaxTime = 5
INVARIANTS ScoresSound AccrualsMatchInvoices MintedWithinPeak
PROPERTY TopPayersSound
CHECK_DEADLOCK FALSE
