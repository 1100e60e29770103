SPECIFICATION FairSpec
CONSTANTS
    k1 = k1
    k2 = k2
    Procs = {p1, p2}
    Keys <- MCKeys
    Foreign <- MCForeign
    MaxInstant = 2
    MaxRevision = 2
    MaxFaults = 2
    Null = Null
INVARIANTS
    CatalogIsTrue
PROPERTIES
    HistoryIsKept
    PendingIsPublished
