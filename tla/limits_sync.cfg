SPECIFICATION SyncSpec
CONSTANTS
    Nodes = {"118", "100"}
    Contents <- MCContents
    Answers <- MCAnswers
    Nothing <- MCNothing
    Blank = Blank
    Parts = 2
    Timeout = 1
    Backlog = 1
    MinInterval = 1
    Limits = {1, 2}
    Poles = {14, 30}
    OwnLimit = 3
    StubLimit = 0
    Attempts = 2
    RetryDelay = 1
INVARIANTS
    LimitsTypeOK
    AnswerNotLost
    AnswerIsOne
    LimitsTogether
    CleanSyncApplies
PROPERTIES
    SyncEnds
