SPECIFICATION FSSpec
CONSTANTS
    fileA = fileA
    fileB = fileB
    Inodes <- TwoFiles
    Sizes <- SomeSizes
    ClaimSizes <- SomeClaims
    BlockSize = 2
    ExtentBlocks = 2
    Start = 3
    OldEmpty = FALSE
    StabilityCheck = FALSE
    ReadErrors = TRUE
    MaxChanges = 1
INVARIANTS
    SumsMatchDataAlways
CHECK_DEADLOCK FALSE
SYMMETRY Symmetry
