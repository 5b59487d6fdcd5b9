CONSTANTS
    Cap = 2
    MaxBytes = 4
    TotalSize = 3
    WriteSizes <- MCWriteSizes
    ReadSizes <- MCReadSizes
    SetSizes <- MCSetSizes
SPECIFICATION IWSpec
INVARIANTS IWInv NoUseAfterFree NoLeak CleanEndIsComplete IdleMarkIsReliable
PROPERTIES CancelEndsThread MethodsReturn
CHECK_DEADLOCK FALSE
