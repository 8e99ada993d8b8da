CONSTANTS
    MaxStreams = 4
    ClientLimit = 2
    ServerLimit = 2
    Wrapped = FALSE
SPECIFICATION FairSpec
INVARIANT TypeOK LetInLimit
PROPERTY RefusedMeansLate EveryStreamAnswered
