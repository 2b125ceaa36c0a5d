SPECIFICATION FairServerSpec
CONSTANTS
    Conns = {c1, c2}
    IPs = {i1, noaddr}
    EmptyIp = noaddr
    MaxConnsPerIp = 2
    Devices = {d1}
    Viewers = {v1}
    None = None
    OneIdentity = TRUE
    OneWatch = TRUE
    NoOverlap = FALSE
PROPERTIES
    DeadDevicesUnlisted
    WatchersLearn
