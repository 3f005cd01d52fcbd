SPECIFICATION FairSpec

CONSTANTS
    artists = artists
    first = first
    second = second
    elsewhere = elsewhere
    a1 = a1
    a2 = a2
    t1 = t1
    t2 = t2
    q = q
    bad = bad
    NoType = NoType
    NoQuery = NoQuery
    Types = {artists, first, second, elsewhere}
    Offered = {artists, first}
    Browsable = {artists}
    Child <- MCChild
    Parent <- MCParent
    Content <- MCContent
    Queries = {q}
    Unparsable = {bad}
    Matching <- MCMatching
    ChunkSize = 1
    MaxSession = 2
    MaxUses = 2

INVARIANT TypeOK
INVARIANT ListHangsTogether
INVARIANT InAgreement
PROPERTY EventuallyLoaded

CHECK_DEADLOCK FALSE
