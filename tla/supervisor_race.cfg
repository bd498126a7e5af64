SPECIFICATION RaceSpec
CONSTANTS
    LoopTimeout = 3
    ImuTimeout = 2
    BurstMax = 1
    AgeCap = 5
    SampleLag = 0
    RaisedFaults = {}
    HistoryCap = 5
    PollPeriod = 1
    Fresh = 1
PROPERTIES
    FaultSticks
CHECK_DEADLOCK FALSE
