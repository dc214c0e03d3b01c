\* Linear sweep over all short files, to their end.
CONSTANTS
    ShortMax = 5
    LongMax = 7
    Files <- SomeFiles
    Behind <- BehindBytes
    Margin = 6
    OpcodeMax = 6
SPECIFICATION FairSpec
INVARIANTS TypeOK ReachesPastFenceOnlyAtTail OverrunEndsAtPrefetchFence OverlapOnlyAfterNop
PROPERTY Sweeps
CHECK_DEADLOCK FALSE
