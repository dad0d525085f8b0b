SPECIFICATION BackstopSpec
CONSTANTS
    Writers = {w1, w2}
    Jobs = {j}
    MaxLedger = 3
    MaxForks = 2
    ForkMaxDepth = 2
    MaxFaults = 2
INVARIANT NoGap
CHECK_DEADLOCK FALSE
