CONSTANTS
    MaxStreams = 3
    ClientLimit = 2
    ServerLimit = 2
    Wrapped = TRUE
SPECIFICATION Spec
INVARIANT RefusedMeansTooMany
