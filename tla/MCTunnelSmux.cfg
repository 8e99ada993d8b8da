CONSTANTS
    Left = Left
    Right = Right
    SmuxConns = {Right}
    Timeout = 1
    MaxSend <- OneEach
    MaxChunks = 1
SPECIFICATION FairSpec
INVARIANT ReleasedByTeardown
PROPERTY RelaySpec Terminates
