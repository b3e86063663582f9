\* Two runs, either of which may crash, fail to write or fail to open the lock.
SPECIFICATION FairSpec
CONSTANTS
    r1 = r1
    r2 = r2
    r3 = r3
    c1 = c1
    c2 = c2
    c3 = c3
    s1 = s1
    None = None
    Runs = {r1, r2}
    FastTrack = {r2}
    Configs = {c1}
    Sources = {s1}
    SourceOf <- OneSource
    MaxLists = 2
    BanMinAlive = 0
    LockMayFail = TRUE
    MaxTime = 2
    FailThreshold = 2
    Cooldown = 1
    RecentWindow = 2
    Retention = 1
    MaxRecords = 0
    MinChecked = 1
    BadPerMille = 20
    BadRunsToBan = 2
    BadRunsToDisable = 0
    SourceCooldown = 1
    DisableTerm = 10
PROPERTY EveryRunEnds
CHECK_DEADLOCK FALSE
