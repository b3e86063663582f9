\* Two overlapping full runs and a fast track judge one config of one source.
\* The lock works.
SPECIFICATION Spec
CONSTANTS
    r1 = r1
    r2 = r2
    r3 = r3
    c1 = c1
    c2 = c2
    c3 = c3
    s1 = s1
    None = None
    Runs = {r1, r2, r3}
    FastTrack = {r3}
    Configs = {c1}
    Sources = {s1}
    SourceOf <- OneSource
    MaxLists = 1
    BanMinAlive = 1
    LockMayFail = FALSE
    MaxTime = 2
    FailThreshold = 2
    Cooldown = 2
    RecentWindow = 2
    Retention = 1
    MaxRecords = 0
    MinChecked = 1
    BadPerMille = 20
    BadRunsToBan = 1
    BadRunsToDisable = 2
    SourceCooldown = 1
    DisableTerm = 10
INVARIANT TypeOK
 
 
PROPERTY NewestCopyWins
PROPERTY LiveBanKept
PROPERTY LoneRunKeepsBans
SYMMETRY FullRunSymmetry
CHECK_DEADLOCK FALSE
