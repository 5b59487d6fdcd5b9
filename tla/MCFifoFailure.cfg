CONSTANTS
    Chunk = 2
    Chunks = 3
    InpReadSize = 2
    InputLens <- MCInputLens
    InputFails <- MCFailing
    ReadSizes <- MCChunkwise
    PeekSizes <- MCPeeks
    ThreadFails = FALSE
    ClientFrees = FALSE
SPECIFICATION FifoSpec
INVARIANT FailureIsForwarded
CHECK_DEADLOCK FALSE
