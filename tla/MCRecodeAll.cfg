\* recodeall: the opcodes of two and three bytes, VEX among them, in all modes.
CONSTANTS
    Inputs <- MCInputs
    Modes <- AllModes
    Zeros <- MCZeros
    Rounds = 2
SPECIFICATION Spec
INVARIANTS TypeOK PreservesAllButLossy ReadsWhatWasWritten SettlesAfterOneRun LeftoverSegmentsDoNotShow RepeatedPrefixIsOne
CHECK_DEADLOCK FALSE
