SPECIFICATION BenchSpec
CONSTANTS
    LoopTimeout = 3
    ImuTimeout = 2
    BurstMax = 1
    AgeCap = 4
    SampleLag = 0
    RaisedFaults = {}
    ImuFresh = 1
    Flight = 1
    EscHold = 1
    EscMax = 2
    Levels = {1, 2}
    RunMax = 2
    MayFail = {"A", "B"}
INVARIANTS
    BarrierFreesWheels
    SplitIsLatched
PROPERTIES
    SplitOwesTwoActs
    KeepsPairs
