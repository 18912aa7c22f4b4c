SPECIFICATION FairSpec
CONSTANTS
    Metadata = {m1, m2}
    Performance = {g1}
    Updates = {u1, u2}
    Imports = {i1, i2}
    Patches = {p1, p2}
    Enriches = {p1}
    Newest = 2
    MaxFailures = 1
    NoFund = NoFund
    None = None
INVARIANT ResponsesAreTrue
PROPERTIES FieldsStay NoPartialFund FundCatchesUp
