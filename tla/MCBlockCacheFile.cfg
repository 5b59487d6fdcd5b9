SPECIFICATION BCSpec
CONSTANTS
    NumTiles = 2
    TileBlocks = 4
    ChunkBlocks = 2
    AddressLimit = 16
    MediumEnd = 7
    BadBlocks = {}
    Displacements <- NoShift
    MaxAge = 5
    Roles <- FileOnly
INVARIANT OnlyBlocksOfMedium
