CONSTANTS
    p1 = p1
    p2 = p2
    d1 = d1
    d2 = d2
    None = None
    Paths = {p1, p2}
    Dsts = {d1, d2}
    Commands <- Kinds
    Handlers = {h1, h2}
    Clients = {c1}
    Streams = {s1}
SPECIFICATION FairSpec
INVARIANT TypeOK
PROPERTY RegistrySpec EveryCommandEnds EveryLookUpEnds
