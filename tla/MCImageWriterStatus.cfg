CONSTANTS
    Cap = 2
    MaxBytes = 4
    TotalSize = 3
    WriteSizes <- MCWriteSizes
    ReadSizes <- MCReadSizes
    SetSizes <- MCSetSizes
SPECIFICATION IWSpec
INVARIANT AbortedMeansInputError
CHECK_DEADLOCK FALSE
