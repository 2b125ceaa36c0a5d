SPECIFICATION Spec
CONSTANTS
    Conns = {c1, c2, c3}
    Devices = {d1, d2}
    Viewers = {v1, v2}
    None = None
    OneIdentity = FALSE
    OneWatch = FALSE
    NoOverlap = FALSE
SYMMETRY Symmetry
INVARIANTS
    TypeOK
    DeviceEntryOwned
    WatchedDevicesAreRegistered
    NoSilentStarvation
