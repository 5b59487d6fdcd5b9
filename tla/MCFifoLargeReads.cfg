CONSTANTS
    Chunk = 2
    Chunks = 3
    InpReadSize = 2
    InputLens <- MCInputLens
    InputFails <- MCFailing
    ReadSizes <- MCDouble
    PeekSizes <- MCPeeks
    ThreadFails = FALSE
    ClientFrees = FALSE
SPECIFICATION FifoSpec
INVARIANT BytesInOrder
CHECK_DEADLOCK FALSE
