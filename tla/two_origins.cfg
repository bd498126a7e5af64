SPECIFICATION TwoSpec
CONSTANTS
    LoopTimeout = 1
    ImuTimeout = 1
    BurstMax = 1
    AgeCap = 3
    SampleLag = 0
    RaisedFaults = {}
    HistoryCap = 0
    PollPeriod = 1
    Fresh = 0
    ImuFresh = 1
    Flight = 1
    EscHold = 1
    EscMax = 1
    Levels = {1, 2}
    RunMax = 3
    MayFail = {}
    Settle = 2
    Tail = 0
INVARIANTS
    HalvesAgree
