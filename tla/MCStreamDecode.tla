---------------------------- MODULE MCStreamDecode ----------------------------
(***************************************************************************)
(* Byte sets for the runs of StreamDecode.  Every byte is met as opcode,   *)
(* as prefix, as ModR/M byte and as operand.                               *)
(***************************************************************************)
EXTENDS StreamDecode

(* ES: (as ModR/M a disp16), an opcode the 8086 lacks (as ModR/M a disp8), *)
(* ADD r/m,imm16 (the longest instruction), FWAIT, LES and FADD (as        *)
(* ModR/M, registers).                                                     *)
CoreBytes == {\h26, \h60, \h81, \h9B, \hC4, \hD8}

(* A stale byte is a prefix, an opcode with operands, or an escape that    *)
(* answers both peeks, at 0x9B and, as a register form, behind 0xC4.       *)
LeftBytes == {\h26, \h81, \hD8}
=============================================================================
