SPECIFICATION Spec

CONSTANTS
    Items = {1, 2, 3, 4}
    InitialContent <- ThreeItems
    Lengths = {0, 3}
    Removals = {1, 3}
    ChunkSizes = {2, 3}
    DefaultChunkSize = 2
    Blank = 0
    Patient = TRUE
    MaxSession = 2
    MaxResets = 1

INVARIANT ListIsPrefixOfContent
