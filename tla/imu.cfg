SPECIFICATION PathSpec
CONSTANTS
    Freshness = 1
    Latch = 2
    HoldSamples = 2
    LatchSamples = 3
    StuckLimit = 2
    Residual = 2
    ReinitAfter = 4
INVARIANTS
    ImuTypeOK
    
    OneReader
    MisscaledBlocked
PROPERTIES
    StuckForGood
