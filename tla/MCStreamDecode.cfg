\* The streaming core: callbacks that refuse or deliver, stale bytes; every call
\* returns, whatever the callback refuses.
CONSTANTS
    Bytes <- CoreBytes
    Stale <- LeftBytes
    Prefetch = 2
    PrefetchMax = 2
    WindowMax = 6
    OverrunModulus = 2
SPECIFICATION FairSpec
INVARIANTS TypeOK ConsumesWindow OpcodeInWindow StreamEqualsFlat OverrunMeansPrefixes
PROPERTY Returns
