SPECIFICATION FairSpec
CONSTANTS
    MaxMessages = 2
    MaxFrames = 1
INVARIANTS
    TypeOK
    StreamIsSound
    PeerIsTold
    OnlyCloseCollides
    WritesAreLimited
PROPERTIES
    CloseReturns
    ControlReturns
    CloseEndsAll
