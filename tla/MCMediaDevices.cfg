SPECIFICATION Spec

CONSTANTS
    usb1 = usb1
    usb10 = usb10
    x = x
    y = y
    None = None
    Folders = {usb1, usb10}
    Rank <- MCRank
    Files <- MCFiles
    InitialQueues <- MCQueues
    Elsewhere = {elsewhere}
    PrefixOf <- MCPrefixOf
    Models = {m}
    MaxChanges = 2
    MaxMishaps = 1
    MaxConnects = 1

INVARIANT TypeOK
INVARIANT ShowsLiveDevices
INVARIANT TracksFollowDevices
INVARIANT IndexerServes

CHECK_DEADLOCK FALSE
