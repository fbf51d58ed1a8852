SPECIFICATION Spec
CONSTANTS
    Addrs = {a1}
    Nodes = {self, n1}
    Self = self
    Peers = {p1, p2}
    NULL = NULL
    ScanIntervalMin = 1
    LowWater = 1
    PoolPassed = FALSE
    MaxInbound = 0
    MaxTime = 1
    MaxOps = 1
INVARIANT PoolInformed
