CONSTANTS
    Cap = 3
    MaxBytes = 7
    WriteSizes <- MCWriteSizes
    ReadSizes <- MCReadSizes
SPECIFICATION FairSpec
INVARIANTS InOrder EofIsComplete NoLostWakeup RingInv
PROPERTIES CallsReturn ImplementsStream
CHECK_DEADLOCK FALSE
