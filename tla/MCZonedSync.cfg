SPECIFICATION FairSpec

CONSTANTS
    all = all
    left = left
    Left = Left
    NoZone = NoZone
    p = p
    q = q
    v0 = v0
    v1 = v1
    Default = Default
    Feature = {all, left}
    Zone = {Left}
    General = NoZone
    ZoneOf <- MCZoneOf
    Property = {p, q}
    Values = {v0, v1}
    Initial = v0
    Getters <- MCGetters
    Forgetful = FALSE
    MaxEvents = 2

INVARIANT TypeOK
INVARIANT ZonesAgree
PROPERTY EventuallyInitialized
