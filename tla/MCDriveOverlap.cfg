CONSTANTS
    Threads = {w1, w2}
    Roles <- BothRoles
    Patient = FALSE
    Events <- NoEvents
SPECIFICATION DJSpec
INVARIANT IdleMeansIdle
CHECK_DEADLOCK FALSE
