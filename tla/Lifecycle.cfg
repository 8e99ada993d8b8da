CONSTANTS
    Conns = {1, 2}
    MaxBoots = 2
    Wrapped = FALSE
SPECIFICATION FairSpec
INVARIANT TypeOK SomebodyAccepts ReturnedMeansReleased NobodyStranded
PROPERTY HandshakeEnds EndsTogether
