SPECIFICATION FairSpec
CONSTANTS
    Codes = {c1, c2, c3}
    Junk = {junk}
    Padded = {c2}
    Defaults = {c1}
    MaxWorkers = 2
INVARIANTS CodesConserved AnswerIsTrue NobodyWaitsInVain
PROPERTIES ImplementsRun PoolDrains
CHECK_DEADLOCK FALSE
