SPECIFICATION MCSpec
CONSTANTS
    Nobody = Nobody
    Holders = {v1, v2, v3, v4, v5}
    Elect = {v1, v2}
    Supply = 1
    Hold = 1
    DefaultDepth = 2
    Depths = {1, 3}
    MaxTally = 1
    MaxLedger = 2
INVARIANTS DelegationsSound HeldBefore
SYMMETRY Symmetry
