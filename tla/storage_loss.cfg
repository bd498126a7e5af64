SPECIFICATION StorageSpec
CONSTANTS
    LoopTimeout = 1
    ImuTimeout = 1
    BurstMax = 1
    AgeCap = 2
    SampleLag = 0
    RaisedFaults = {}
    Words = {"refloat", "cal"}
    CalWords = {"cal"}
    Values = {0, 1}
    FlushWait = 1
    MaxErrors = 1
INVARIANT
    CleanMeansSaved
