CONSTANTS
    Chunk = 2
    Chunks = 3
    InpReadSize = 2
    InputLens <- MCPeekLens
    InputFails <- MCFailing
    ReadSizes <- MCChunkwise
    PeekSizes <- MCPeeks
    ThreadFails = FALSE
    ClientFrees = FALSE
SPECIFICATION FifoSpec
INVARIANT PeekShowsInput
CHECK_DEADLOCK FALSE
