SPECIFICATION Spec
CONSTANTS
    Conns = {c1, c2, c3, c4}
    Devices = {d1, d2}
    Viewers = {v1, v2}
    None = None
    OneIdentity = TRUE
    OneWatch = TRUE
    NoOverlap = TRUE
SYMMETRY Symmetry
INVARIANTS
    ConnectedDevicesListed
PROPERTIES
    ServiceSpec
