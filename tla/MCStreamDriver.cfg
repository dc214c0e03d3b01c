\* sdecode8086 on all short files: tmp smaller than the buffer, both used up.
CONSTANTS
    FileBytes <- DriverBytes
    FileLengths = {1, 4, 6}
    GroupLength = 4
    LongLength = 8
    Files <- SomeFiles
    Bytes <- WindowBytes
    Stale <- StaleBytes
    Other = 38
    Prefetch = 4
    PrefetchMax = 4
    WindowMax = 6
    OverrunModulus = 65536
    BufferSize = 11
SPECIFICATION FairDriverSpec
INVARIANTS DriverTypeOK WindowIsBuffer OverrunMeansUsedUp SameAsFlat OverrunOpcodeAtEnd
CHECK_DEADLOCK FALSE
PROPERTIES IsStreamCaller ReachesEnd
