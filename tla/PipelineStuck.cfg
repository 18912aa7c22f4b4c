SPECIFICATION Spec
CONSTANTS
    Tasks = {t1}
    Workers = {w1}
    Syncs = {s1}
    NoTask = NoTask
    Free = Free
    Orphan = Orphan
    LockTTL = 3
    SyncLimit = 1
    RunLimit = 2
    MaxFailures = 0
    Faults = TRUE
    Prompt = TRUE
INVARIANTS RunningIsHandled
CHECK_DEADLOCK FALSE
