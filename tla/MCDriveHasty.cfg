CONSTANTS
    Threads = {w1, w2}
    Roles <- BothRoles
    Patient = FALSE
    Events <- Mishaps
SPECIFICATION DJSpec
INVARIANTS OneJobPerDrive SuccessIsReported MarkedWriterIsListed
CHECK_DEADLOCK FALSE
