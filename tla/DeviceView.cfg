SPECIFICATION FairSpec
CONSTANTS
    Devices = {d1, d2}
    MaxRuns = 2
    MaxInFlight = 2
    None = None
INVARIANTS
    TypeOK
    OneSocket
    NoLeakedUrl
    LiveIsTrue
PROPERTIES
    FramesGoLive
    LeftViewsStopWatching
