SPECIFICATION Spec
CONSTANTS
    d1 = d1
    d2 = d2
    f1 = f1
    f2 = f2
    NULL = NULL
    Domains = {d1, d2}
    Addresses = {d2}
    Files = {f1, f2}
    Refers <- MCRefers
    Urls <- MCUrls
    FetchJobs = 2
    FetchInterval = 1
    ScoreDelay = 1
    Removals = TRUE
    MaxTime = 2
    MaxOps = 2
INVARIANTS
    JobsCounted
    FetchCovered
    ScoreCovered
    MiscCurrent
PROPERTIES
    DueFetched
    UpdateScored
CHECK_DEADLOCK FALSE
