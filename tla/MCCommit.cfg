CONSTANTS
    i1 = i1
    i2 = i2
    u1 = u1
    u2 = u2
    w1 = w1
    w2 = w2
    Installer = {i1}
    User = {u1}
    Watcher = {w1}
    None = None
    MaxIndex = 3
    MayStop = TRUE
    Overlap = FALSE
SPECIFICATION FairSpec
INVARIANTS
    InstallExclusive
    InOrder
    CommitInv
    SnapshotIsNewer
    PausedMeansStill
PROPERTIES
    CommitProgress
    WatcherIsTold
    StopsForGood
CHECK_DEADLOCK FALSE
