CONSTANTS
    Threads = {w1, w2}
    Roles <- MMC
    Patient = TRUE
    Events <- Padding
SPECIFICATION DJSpec
INVARIANT CancelCounts
CHECK_DEADLOCK FALSE
