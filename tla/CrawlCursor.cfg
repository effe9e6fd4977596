SPECIFICATION Spec
CONSTANTS
    Ids <- SparseIds
    Limit = 4
    MaxSkips = 8
    Retries = 1
    Outages = 2
INVARIANTS
    TypeOK
    EachRowSettledOnce
    SkipEndsWithBrokenRow
    GivesUpOnlyInOutage
PROPERTIES
    Terminates
    ImplementsFeed
CHECK_DEADLOCK FALSE
