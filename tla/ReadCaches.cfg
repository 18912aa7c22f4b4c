CONSTANTS
    Readers = {r1, r2}
    Writers = {w1}
    DetailTTL = 1
    SearchTTL = 3
    WatchlistTTL = 1
    FillLimit = 1
    MaxVersion = 1
    None = None
    Faults = TRUE
SPECIFICATION Spec
INVARIANTS StalenessBounded StaleIsExplained
