SPECIFICATION Spec
CONSTANTS
    NoLabel = ""
    Labels <- MCLabels
    Norm <- MCNorm
    Score <- MCScore
    Alias <- MCAlias
    Files <- MCFiles
    Former <- MCFormer
    Listings <- MCListings
    Batch = 2
    Order <- MCOrder
    ReadTorn = FALSE
INVARIANTS
    CodesFormPath
    NamedAsCoded
    SeedCompletes
PROPERTIES
    RemapStable
