SPECIFICATION ClosedSpec
CONSTANTS
    LoopTimeout = 1
    ImuTimeout = 1
    BurstMax = 2
    AgeCap = 4
    SampleLag = 0
    RaisedFaults = {}
    HistoryCap = 0
    PollPeriod = 2
    Fresh = 0
    ImuFresh = 1
    Flight = 1
    EscHold = 1
    EscMax = 1
    Levels = {1}
    RunMax = 0
    MayFail = {"A", "B"}
    Settle = 3
    Tail = 1
INVARIANTS
    ClosedTypeOK
    QuietAfterRunning
    QuietAfterDeadline
    DeadlinesAgree
    BenchPressNotRider
