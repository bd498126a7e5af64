SPECIFICATION TaskSpec
CONSTANTS
    LoopTimeout = 4
    ImuTimeout = 3
    BurstMax = 3
    AgeCap = 7
    SampleLag = 0
    RaisedFaults = {}
    HistoryCap = 5
    PollPeriod = 2
    Fresh = 2
INVARIANTS
    TaskTypeOK
    SilenceBounded
    OverrunBounded
    PressBounded
    ServiceAfterBoot
    ConditionsAtRest
CHECK_DEADLOCK FALSE
