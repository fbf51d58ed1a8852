SPECIFICATION Spec
CONSTANTS
    Addrs = {a1, a2}
    Nodes = {self, n1, n2}
    Self = self
    Peers = {p1, p2, p3, p4}
    NULL = NULL
    ScanIntervalMin = 1
    LowWater = 1
    PoolPassed = TRUE
    MaxInbound = 2
    MaxTime = 3
    MaxOps = 2
SYMMETRY Symmetry
INVARIANTS
    IpMapConsistent
    ConnectedMapConsistent
    AttemptsEnd
    ScanConsistent
    AddressesTracked
    ScanTimerCovers
PROPERTIES
    FirstConnectionStays
