SPECIFICATION Spec
CONSTANTS
    Ids <- Four
    Keys <- Cars
    Catalogs <- DistinctCars
    Broken = {3}
    Poison = {2}
    PageSize = 3
    Chunk = 1
    MaxFaults = 2
INVARIANTS
    NothingLeftBehind
    CompletedJobStoredAll
PROPERTIES
    EveryRowCollected
    StartNeverGoesBack
CHECK_DEADLOCK FALSE
