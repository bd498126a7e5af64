SPECIFICATION HostSpec
CONSTANTS
    Base = 6
    MaxPayload = 5
    Confs = {1, 2}
    Loaded = 2
    Pieces <- MCPieces
    MaxPieces = 3
    MaxSessions = 2
CHECK_DEADLOCK FALSE
INVARIANTS
    DecoderAgrees
    AnswersMatch
PROPERTIES
    ThreadsGoOn
