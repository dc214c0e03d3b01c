SPECIFICATION Spec
CONSTANTS
    Inputs <- MCInputs
    Zeros <- MCZeros
    Rounds = 2
INVARIANTS
    TypeOK
    ReadsWhatWasWritten
    PreservesAllButLossy
    NotLonger
    SettlesAfterOneRun
CHECK_DEADLOCK FALSE
