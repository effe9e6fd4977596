SPECIFICATION Spec
CONSTANTS
    MaxId = 3
    MaxDay = 2
    PerPage = 1
    MaxFalls = 1
INVARIANTS
    SyncReceivesNew
