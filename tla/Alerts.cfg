SPECIFICATION FairSpec
CONSTANTS
    Alerts = {a1, a2}
    Streams = {{"badge"}, {"page"}, {"toast"}}
    Resolvers = {"me", "other"}
    QueueSize = 1
    ToastSlots = 1
    ListLimit = 1
    Times = {1, 2}
    MaxFaults = 1
    None = None
INVARIANTS
    TypeOK
    RefetchSeesTheChange
    BadgeCoversKnownAlerts
    LateResolveRefused
PROPERTIES
    ListConverges
