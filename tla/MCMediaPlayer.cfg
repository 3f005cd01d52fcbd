SPECIFICATION FairSpec

CONSTANTS
    t1 = t1
    t2 = t2
    t3 = t3
    t4 = t4
    t5 = t5
    None = None
    Track = {t1, t2, t3, t4, t5}
    Item <- TrackOrAlbum
    InitialQueues <- OneOrThree
    ChunkSize = 2
    MaxSession = 1
    MaxUses = 3

INVARIANT TypeOK
INVARIANT QueueShown
INVARIANT PlayerAgrees
PROPERTY EventuallyShown

CHECK_DEADLOCK FALSE
