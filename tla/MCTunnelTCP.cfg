CONSTANTS
    Left = Left
    Right = Right
    SmuxConns = {}
    Timeout = 2
    MaxSend <- OneEach
    MaxChunks = 2
SPECIFICATION Spec
INVARIANT TypeOK CompleteOnNil TeardownNotReported
