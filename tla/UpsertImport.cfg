SPECIFICATION Spec
CONSTANTS
    Cars <- Two
    Stamps = {0, 1, 2}
    Files <- FourLines
    Tables <- SomeTables
    Chunk = 2
    MaxFaults = 2
INVARIANTS
    RerunReachesSame
    NewestWins
    CountsAddUp
PROPERTIES
    ResetSticks
CHECK_DEADLOCK FALSE
