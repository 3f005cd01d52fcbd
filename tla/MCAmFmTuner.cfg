SPECIFICATION TunerSpec
CONSTANTS
    FM = FM
    AM = AM
    t1 = t1
    t2 = t2
    Tuners = {t1, t2}
    Band = {FM, AM}
    FMBand = FM
    Limits <- MCLimits
    Stations <- MCStations
    Frequencies <- MCFrequencies
    NoStation = NoStation
    NoLimits = NoLimits
INVARIANT TunerTypeOK
INVARIANT TunerAgrees
PROPERTY StationFollows

CHECK_DEADLOCK FALSE
