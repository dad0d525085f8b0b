SPECIFICATION FairQueueSpec
CONSTANTS
    LPs = {l1, l2, l3}
    NoOne = NoOne
    MaxQueue = 2
    Delay = 1
    Grace = 2
    NearExpiry = 1
    InitScore = 1
    MaxScore = 3
    Due = 4
    MaxClock = 5
INVARIANT QueueSound
PROPERTIES
    WinnerRightful
    LockLifted
