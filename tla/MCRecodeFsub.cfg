SPECIFICATION Spec
CONSTANTS
    Inputs <- FsubInputs
    Zeros <- MCZeros
    Rounds = 1
INVARIANT
    KeepsSubtraction
CHECK_DEADLOCK FALSE
