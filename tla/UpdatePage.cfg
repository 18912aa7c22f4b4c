SPECIFICATION PageFairSpec
CONSTANTS
    Tasks = {t1, t2, t3}
    NoTask = NoTask
    MaxStarts = 3
INVARIANTS PageTypeOK PageFollows
PROPERTIES PageSettles
CHECK_DEADLOCK FALSE
