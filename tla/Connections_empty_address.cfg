SPECIFICATION Spec
CONSTANTS
    Conns = {c1, c2, c3}
    IPs = {i1, i2, noaddr}
    EmptyIp = noaddr
    MaxConnsPerIp = 2
    None = None
INVARIANTS
    IdleCountsNothing
