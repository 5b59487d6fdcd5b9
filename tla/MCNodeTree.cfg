SPECIFICATION NTSpec
CONSTANTS
    Dirs <- SomeDirs
    Leaves <- TwoLeaves
    Root = 1
    Names = {1, 2, 3}
    Iters = {11}
    IterLimit = 1
    MaxOwn = 1
INVARIANTS
    ListsAreSound
    RefsHaveOwners
    IterationIsComplete
