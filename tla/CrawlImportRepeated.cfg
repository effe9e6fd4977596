SPECIFICATION Spec
CONSTANTS
    Ids <- Four
    Keys <- Cars
    Catalogs <- RepeatedCars
    Broken = {}
    Poison = {}
    PageSize = 3
    Chunk = 1
    MaxFaults = 1
INVARIANTS
    NothingLeftBehind
CHECK_DEADLOCK FALSE
