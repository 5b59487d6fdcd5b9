CONSTANTS
    Chunk = 2
    Chunks = 3
    InpReadSize = 2
    InputLens <- MCInputLens
    InputFails <- MCFailing
    ReadSizes <- MCChunkwise
    PeekSizes <- MCPeeks
    ThreadFails = FALSE
    ClientFrees = TRUE
SPECIFICATION FifoSpec
INVARIANTS BytesInOrder MemorySafe EofAfterAllBytes PeekShowsInput
PROPERTIES NobodyPollsForever
CHECK_DEADLOCK FALSE
