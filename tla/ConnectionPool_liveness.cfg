SPECIFICATION FairSpec
CONSTANTS
    Addrs = {a1, a2}
    Nodes = {self, n1}
    Self = self
    Peers = {p1, p2, p3}
    NULL = NULL
    ScanIntervalMin = 1
    LowWater = 1
    PoolPassed = TRUE
    MaxInbound = 0
    MaxTime = 3
    MaxOps = 1
PROPERTIES
    ScanEnds
    DueIsTried
