\* All ModR/M and SIB memory forms through decode, encode and decode.
CONSTANTS
    Disp8 <- SomeDisp8
    Disp16 <- SomeDisp16
    Disp32 <- SomeDisp32
    Sizes = {2, 4}
SPECIFICATION Spec
INVARIANTS AddressTypeOK RecodeKeepsAddress
PROPERTY RecodeIsNoLonger
CHECK_DEADLOCK FALSE
