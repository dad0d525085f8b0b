SPECIFICATION MCFairSpec
CONSTANTS
    Voters = {v1}
    Signers = {"s1", "s2", "s3"}
    Kinds = {fee, coverage}
    Unanswered = {coverage}
    Weights = {1}
    Deposits = {0, 1}
    Quorums <- MCQuorums
    Delays = {0, 1}
    MinDelay = 1
    VotingPeriod = 1
    MaxProposals = 2
    MaxTime = 2
    VetoConfigs <- MCVetoConfigs
    MaxChanges = 2
INVARIANT DepositsSettled
PROPERTIES VerdictsHonoured PassedGetsExecuted
