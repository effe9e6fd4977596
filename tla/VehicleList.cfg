SPECIFICATION Spec
CONSTANTS
    MaxId = 3
    MaxDay = 2
    PerPage = 2
    MaxFalls = 1
INVARIANTS
    MissesExplained
    AdminReachesAll
