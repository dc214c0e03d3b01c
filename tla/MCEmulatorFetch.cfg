\* Does the CPU fetch every byte it decodes?
CONSTANTS
    PatternBytes <- FewBytes
    PatternLength = 6
    MemorySize = 22
    Bytes <- FewBytes
    Stale <- FewBytes
    Prefetch = 4
    PrefetchMax = 13
    WindowMax = 13
    OverrunModulus = 4
    BufferSize = 17
    Safety = 4
    IPModulus = 16
    CodeBase = 3
    EntryIP = 2
    Programs <- Patterns
    MaxSteps = 10
SPECIFICATION EmuSpec
INVARIANT FetchesWhatItDecodes
CHECK_DEADLOCK FALSE
