\* The emulator on repeated patterns: two slides of the buffer, a wrap of IP, the end of memory.
CONSTANTS
    PatternBytes <- SomeBytes
    PatternLength = 5
    MemorySize = 22
    Bytes <- AllBytes
    Stale <- AllBytes
    Prefetch = 4
    PrefetchMax = 13
    WindowMax = 13
    OverrunModulus = 4
    BufferSize = 17
    Safety = 4
    IPModulus = 16
    CodeBase = 3
    EntryIP = 2
    Programs <- Patterns
    MaxSteps = 10
SPECIFICATION FairEmuSpec
INVARIANTS EmuTypeOK BufferSane QueueIsMemory DecodesMemoryAtIP ClocksCountFetches IPInStep
PROPERTIES IsStreamCaller AllRun
CHECK_DEADLOCK FALSE
