SPECIFICATION ManagerSpec

CONSTANTS
    media = media
    mediaDebug = mediaDebug
    simulator = simulator
    broken = broken
    malformed = malformed
    builtin = builtin
    app = app
    player = player
    tuner = tuner
    None = None
    Plugin = {media, mediaDebug, simulator, broken, malformed}
    StaticPlugin <- MCStatic
    Object = {app}
    Interface = {player, tuner}
    Interfaces <- MCInterfaces
    Name <- MCName
    Base <- MCBase
    Debug = {mediaDebug}
    LoadDebug = FALSE
    Simulation = {simulator}
    Loads = {media, mediaDebug, simulator, builtin, app}
    MaxFiles = 4
    MaxUnloads = 1

INVARIANT ManagerTypeOK
INVARIANT RightBuildListed
INVARIANT OneObjectEach
