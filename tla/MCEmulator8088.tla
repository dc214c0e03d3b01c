--------------------------- MODULE MCEmulator8088 ---------------------------
(***************************************************************************)
(* Small memories for the emulator: a pattern of bytes repeated up to the  *)
(* end of the memory, behind which reads give 0xFF.                        *)
(***************************************************************************)
EXTENDS Emulator8088

CONSTANTS PatternBytes, PatternLength, MemorySize

Repeated(p) == [a \in 0 .. MemorySize - 1 |-> p[(a % PatternLength) + 1]]
Patterns == {Repeated(p) : p \in [1 .. PatternLength -> PatternBytes]}

(* ES: (as ModR/M a disp16), ADD r/m,imm16, an opcode the 8086 lacks, PUSH *)
(* ES, FWAIT, an FPU escape, and what is read behind the memory.           *)
SomeBytes == {\h26, \h81, \h60, \h06, \h9B, \hDB}
AllBytes  == SomeBytes \cup {\hFF}

(* Prefixes and the longest instruction, for runs that end early or check  *)
(* liveness.                                                               *)
FewBytes == {\h26, \h81, \hFF}
=============================================================================
