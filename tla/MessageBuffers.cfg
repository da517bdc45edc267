CONSTANTS
    HandshakeLen = 3
    PayloadLens <- Payloads
    GarbageLens <- Garbage
    WriteLen = 2
    MaxMessages = 3
    MaxChunk = 10
    MaxWrites = 2
    MaxConnects = 2
SPECIFICATION FairSpec
INVARIANTS FramesIntact WholeMessages
PROPERTY WriteCompletes
CHECK_DEADLOCK FALSE
