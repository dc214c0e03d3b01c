\* The looks at *cip behind 0x8F, 0x9B, 0xC4 and 0xC5 against the rule for peeks.
CONSTANTS
    FileBytes <- DriverBytes
    FileLengths = {7}
    GroupLength = 4
    LongLength = 7
    Files <- SomeFiles
    Bytes <- WindowBytes
    Stale <- Wiped
    Other = 38
    Prefetch = 4
    PrefetchMax = 4
    WindowMax = 7
    OverrunModulus = 65536
    BufferSize = 7
SPECIFICATION DriverSpec
INVARIANT PeeksAreBacked
CHECK_DEADLOCK FALSE
