\* Do reads stop at the fence?
CONSTANTS
    ShortMax = 4
    LongMax = 4
    Files <- SomeFiles
    Behind <- BehindBytes
    Margin = 6
    OpcodeMax = 6
SPECIFICATION Spec
INVARIANT NoReadPastFence
CHECK_DEADLOCK FALSE
