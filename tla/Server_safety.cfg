SPECIFICATION ServerSpec
CONSTANTS
    Conns = {c1, c2, c3}
    IPs = {i1, noaddr}
    EmptyIp = noaddr
    MaxConnsPerIp = 3
    Devices = {d1}
    Viewers = {v1}
    None = None
    OneIdentity = TRUE
    OneWatch = TRUE
    NoOverlap = FALSE
SYMMETRY Symmetry
INVARIANTS
    EntriesHoldSlots
    WatchesOwned
PROPERTIES
    RouterSpec
