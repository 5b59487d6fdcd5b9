SPECIFICATION NTSpec
CONSTANTS
    Dirs <- SomeDirs
    Leaves <- TwoLeaves
    Root = 1
    Names = {1, 2, 3}
    Iters = {11, 12}
    IterLimit = 2
    MaxOwn = 1
INVARIANTS
    IterationIsComplete
