SPECIFICATION FairSpec
CONSTANTS
    InitialBackoff = 1000
    MaxBackoff = 30000
    FailureCap = 5
    MaxInbox = 1
INVARIANTS
    TypeOK
    BackoffTracksFailures
    WorkersEndFirst
PROPERTIES
    StopsUnlessReading
    ReconnectsOnceReachable
