SPECIFICATION FairSpec

CONSTANTS
    Items = {1, 2, 3}
    InitialContent <- ThreeItems
    Lengths = {2, 3}
    Removals = {1}
    ChunkSizes = {3}
    DefaultChunkSize = 2
    Blank = 0
    Patient = TRUE
    MaxSession = 2
    MaxResets = 1

INVARIANT TypeOK
INVARIANT ListTrue
INVARIANT NoInstanceLeft
PROPERTY EveryRowShown
CHECK_DEADLOCK FALSE
