--------------------------- MODULE MCAddressForm ---------------------------
(***************************************************************************)
(* Displacements around every boundary the encoder tests.                  *)
(***************************************************************************)
EXTENDS AddressForm

SomeDisp8  == {-128, -1, 0, 1, 127}
SomeDisp16 == {0, 1, 127, 128, 255, 32767, 32768, 65407, 65408, 65535}
SomeDisp32 == {-2147483647 - 1, -129, -128, -1, 0, 127, 128, 65535, 2147483647}
=============================================================================
