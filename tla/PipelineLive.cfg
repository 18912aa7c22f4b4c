SPECIFICATION FairSpec
CONSTANTS
    Tasks = {t1, t2}
    Workers = {w1}
    Syncs = {s1}
    NoTask = NoTask
    Free = Free
    Orphan = Orphan
    LockTTL = 2
    SyncLimit = 1
    RunLimit = 1
    MaxFailures = 2
    Faults = TRUE
    Prompt = TRUE
INVARIANTS MutualExclusion
PROPERTIES ImplementsLifecycle LockIsFreed MessageIsSettled RunningEnds
CHECK_DEADLOCK FALSE
