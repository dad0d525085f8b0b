SPECIFICATION MCSpec
CONSTANTS
    NLps = 2
    NPayers = 2
    Invoices = {i1, i2}
    Accounts = {a}
    Liquidity = Liquidity
    Bps = 2
    BaseRate = 1
    Amounts = {2}
    Coverages = {2, 4}
    Caps = {0, 2}
    Windows = {0, 1}
    Multipliers <- SomeMultipliers
    MinPairDefaults = 2
    PairShareFlag = 1
    Month = 1
    Delay = 1
    MaxIn = 4
    MaxDefaults = 3
    MaxTime = 2
    MaxCalls = 3
    Users = {u1, u2}
    Full = 4
    MaxBonus = 3
    Configs <- SomeConfigs
    BaseRates = {2, 4}
    MaxBills = 3
INVARIANTS Custody RollupsAgree
PROPERTIES BreakerHolds NoticeGiven RiskFollowsReports BonusEarned
SYMMETRY Symmetry
