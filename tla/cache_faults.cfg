SPECIFICATION Spec
CONSTANTS
    r1 = r1
    r2 = r2
    r3 = r3
    r4 = r4
    r5 = r5
    c1 = c1
    c2 = c2
    Readers = {r1, r2, r4, r5}
    Query <- MCQuery
    Recomputes = {c1}
    Target <- MCTarget
    CacheTTL <- MCCacheTTL
    MaxRangeDays = 2
    Faults <- AllFaults
    NoRows = NoRows
SYMMETRY Interchangeable
INVARIANTS TypeOK RightRows StaleNeedsRace
