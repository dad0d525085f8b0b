SPECIFICATION MCSpec
CONSTANTS
    Writers = {w1, w2}
    Jobs = {}
    MaxLedger = 3
    MaxForks = 2
    ForkMaxDepth = 2
    MaxFaults = 3
INVARIANTS HeadersLinked OneWriter
PROPERTIES ImplementsLog CatchesUp
CHECK_DEADLOCK FALSE
