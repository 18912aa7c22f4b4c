SPECIFICATION Spec
CONSTANTS
    Tasks = {t1, t2}
    Workers = {w1, w2}
    Syncs = {}
    NoTask = NoTask
    Free = Free
    Orphan = Orphan
    LockTTL = 2
    SyncLimit = 1
    RunLimit = 1
    MaxFailures = 3
    Faults = TRUE
    Prompt = FALSE
SYMMETRY Symmetry
INVARIANTS TypeOK PublishedIsSaved SuccessIsClean RejectedNeverRuns RunningIsExplained
PROPERTIES LifecycleUnlessShared LeaseLostOnlyByOwner
CHECK_DEADLOCK FALSE
