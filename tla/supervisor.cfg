SPECIFICATION SupSpec
CONSTANTS
    LoopTimeout = 1
    ImuTimeout = 1
    BurstMax = 2
    AgeCap = 2
    SampleLag = 1
    RaisedFaults = {"INTERNAL"}
INVARIANTS
    TypeOK
    FaultIffCause
PROPERTIES
    FaultSticks
    BurstNeverExtended
    BurstEnds
    SilenceFound
    KeepsPromise
