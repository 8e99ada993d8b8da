CONSTANTS
    Left = Left
    Right = Right
    SmuxConns = {Right}
    Timeout = 1
    MaxSend <- OneLeftNoneRight
    MaxChunks = 1
SPECIFICATION Spec
INVARIANT AlwaysReleased
