\* Two keys; refills of two thirds of a token per tick, a lag of up to one tick.
CONSTANTS
    k1 = k1
    k2 = k2
    Keys <- TwoKeys
    MaxRequests = 2
    WindowSecs = 3
    Lag = 1
SPECIFICATION FairSpec
INVARIANTS TypeOK Conforms
PROPERTIES NeverStarved
