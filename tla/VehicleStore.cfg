SPECIFICATION StoreSpec
CONSTANTS
    a = a
    b = b
    c = c
    Cars <- TwoCars
    Procs <- ThreeProcs
    May <- Roles
    Input <- Given
    Batch = 1
    Old <- OneOld
    Makers = TRUE
    MaxReruns = 1
    Attr <- Colors
INVARIANTS
    StoreTypeOK
PROPERTIES
    StampFallsOnlyLate
    MixedOnlyLate
    AliasLostOnlyBy
    RemapSettles
    RunsEnd
CHECK_DEADLOCK FALSE
