SPECIFICATION BCSpec
CONSTANTS
    NumTiles = 2
    TileBlocks = 2
    ChunkBlocks = 2
    AddressLimit = 10
    MediumEnd = 7
    BadBlocks = {3}
    Displacements <- Shifts
    MaxAge = 5
    Roles <- BothRoles
INVARIANT AnswersAreTrue
PROPERTY LeastRecentGoes
