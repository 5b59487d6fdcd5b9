CONSTANTS
    Chunk = 2
    Chunks = 3
    InpReadSize = 4
    InputLens <- MCInputLens
    InputFails <- MCFailing
    ReadSizes <- MCChunkwise
    PeekSizes <- MCPeeks
    ThreadFails = FALSE
    ClientFrees = FALSE
SPECIFICATION FifoSpec
INVARIANT NoOverrun
CHECK_DEADLOCK FALSE
