CONSTANTS
    Threads = {w1, w2}
    Roles <- BothRoles
    Patient = TRUE
    Events <- DriveRefuses
SPECIFICATION DJSpec
INVARIANTS IdleMeansIdle FailureIsReported CancelCounts
PROPERTIES JobBecomesIdle
CHECK_DEADLOCK FALSE
