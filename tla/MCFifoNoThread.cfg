CONSTANTS
    Chunk = 2
    Chunks = 3
    InpReadSize = 2
    InputLens <- MCInputLens
    InputFails <- MCFailing
    ReadSizes <- MCChunkwise
    PeekSizes <- MCPeeks
    ThreadFails = TRUE
    ClientFrees = FALSE
SPECIFICATION FifoSpec
PROPERTY ReadCallReturns
CHECK_DEADLOCK FALSE
