SPECIFICATION Spec
CONSTANTS
    Funds = {f1, f2}
    Ops = {o1, o2, o3}
    NoOp = NoOp
INVARIANTS DuplicatesExplained CacheIsTrue PageIsTrue
SYMMETRY Requests
CHECK_DEADLOCK FALSE
