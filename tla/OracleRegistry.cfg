SPECIFICATION MCSpec
CONSTANTS
    Oracles = {o1, o2}
    Compatible = {o1, o2}
    None = None
    MaxStale = 2
    MaxDup = 1
    RecoverObs = 2
    RecoverLedgers = 1
    MaxFeeders = 2
    Ages = {0, 2}
    MaxTime = 7
    MaxChanges = 3
    GateTime = 3
    SpotTime = 2
    Sources = {"s1", "s2", "s3", "s4", "s5"}
    MaxSources = 5
    Quotes <- QuoteValues
    Bps = 100
    Deviations = {0, 50}
    DefaultDeviation = 20
    Prices = {1, 4, 9}
    Windows = {1, 4}
    MinWindow = 2
    MaxWindow = 5
    DefaultWindow = 2
    MaxSamples = 3
    MinObservations = 2
INVARIANTS GateSound MajorityRules TwapExact
PROPERTY BreakerEarned
SYMMETRY Symmetry
