SPECIFICATION Spec
CONSTANTS
    Retention = 2
    Ranges = {1, 2}
    LastDay = 3
    Updates = {u1}
    Cleanups = {c1}
    Readers = {r1}
    Lookups = {l1}
    None = None
INVARIANT LookupMissesNothing
PROPERTY RangeIsWhole
