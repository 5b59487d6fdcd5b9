CONSTANTS
    Threads = {w1, w2}
    Roles <- MMC
    Patient = TRUE
    Events <- DiscFails
SPECIFICATION DJSpec
INVARIANT IdleMeansIdle
CHECK_DEADLOCK FALSE
