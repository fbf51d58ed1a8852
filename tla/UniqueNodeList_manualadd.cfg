SPECIFICATION Safety
CONSTANTS
    d1 = d1
    d2 = d2
    f1 = f1
    f2 = f2
    NULL = NULL
    Domains = {d1, d2}
    Addresses = {d2}
    Files = {f1, f2}
    Refers <- MCRefers
    Urls <- MCUrls
    FetchJobs = 1
    FetchInterval = 1
    ScoreDelay = 1
    Removals = TRUE
    MaxTime = 3
    MaxOps = 3
INVARIANT ManualAddScanned
CHECK_DEADLOCK FALSE
