\* Can every decompiled memory operand be encoded?
CONSTANTS
    Disp8 <- SomeDisp8
    Disp16 <- SomeDisp16
    Disp32 <- SomeDisp32
    Sizes = {2, 4}
SPECIFICATION Spec
INVARIANT DecompiledCanBeEncoded
CHECK_DEADLOCK FALSE
