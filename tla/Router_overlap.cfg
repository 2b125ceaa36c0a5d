SPECIFICATION Spec
CONSTANTS
    Conns = {c1, c2, c3}
    Devices = {d1}
    Viewers = {v1}
    None = None
    OneIdentity = TRUE
    OneWatch = TRUE
    NoOverlap = FALSE
SYMMETRY Symmetry
INVARIANTS
    ConnectedDevicesListed
