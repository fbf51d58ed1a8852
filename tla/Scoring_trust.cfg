SPECIFICATION Spec
CONSTANTS
    k1 = k1
    k2 = k2
    k3 = k3
    d1 = d1
    d2 = d2
    i1 = i1
    i2 = i2
    NULL = NULL
    Keys = {k1, k2, k3}
    Domains = {d1, d2}
    Ips = {i1, i2}
    Addresses = {d2}
    ConfigIps = {i1}
    Files <- MCFiles
    ValidatorLists <- MCValidatorLists
    IpLists <- MCIpLists
    Classes = {"text", "blob"}
    Rounds = 3
    MaxReferrals = 2
    FetchJobs = 2
    MaxOps = 3
INVARIANTS
    TrustHasSource
    TrustBounded
    SeedsScored
    UNLRemembered
CHECK_DEADLOCK FALSE
