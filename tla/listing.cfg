SPECIFICATION Spec
CONSTANTS
    DefaultLimit = 2
    LimitCap = 2
    NoInt = NoInt
    Asked <- MCAsked
    Catalog <- MCCatalog
    Writers = {w1, w2}
    MaxEntries = 3
    MaxClock = 2
    MaxFaults = 1
    MaxPages = 4
INVARIANTS TypeOK MissedNeedsRace QuietWalkIsExact NoShortPage
PROPERTY WalkEnds
