----------------------------- MODULE Layout8086 -----------------------------
(***************************************************************************)
(* The instruction formats of the 8086 cores (core_level 0, 16-bit operand *)
(* and address size): which bytes are prefixes, which opcodes carry a      *)
(* ModR/M byte, which operands are fetched after it and with what width,   *)
(* and which encodings the core leaves without an opcode.  The formats are *)
(* those of the big switch of src/x86_core.h; the mnemonic and the operand *)
(* structures are represented by the bytes that select them.               *)
(***************************************************************************)
EXTENDS Integers, Sequences

Byte == 0 .. 255

(* The fields of union x86_mrm. *)
Mod(m) == m \div 64
Reg(m) == (m \div 8) % 8
Rm(m)  == m % 8

-----------------------------------------------------------------------------
(* Prefixes: bytes after which the core goes round its decode_next loop.   *)

SegOverrides == {\h26, \h2E, \h36, \h3E}
LockPrefixes == {\hF0}
RepPrefixes  == {\hF2, \hF3}

(* ins->segment, counted ES, CS, SS, DS; NoSegment is the -1 of the entry  *)
(* function.  REPE is 1 and REPNE is 2.                                    *)
NoSegment      == -1
SegmentOf(b)   == (b \div 8) % 4
RepOf(b)       == (b % 2) + 1

(* 0x9B is a prefix when what follows it is an FPU escape (or 0x66, 0x67). *)
WaitOpcode     == \h9B
Waitable(x)    == x \div 8 = \hD8 \div 8 \/ x \div 2 = \h66 \div 2

PrefixBytes == SegOverrides \cup LockPrefixes \cup RepPrefixes \cup {WaitOpcode}

-----------------------------------------------------------------------------
(* Opcodes by the shape of what follows them.                              *)

FPUEscapes == \hD8 .. \hDF

(* Opcodes that look at the next byte with *cip before they decide: POP    *)
(* r/m, whose encodings above 0xC0 are AMD's XOP, and LES and LDS, whose   *)
(* register forms are VEX.  Neither extension exists at core_level 0.      *)
PopRM          == \h8F
FarLoads       == {\hC4, \hC5}
PeekOpcodes    == FarLoads \cup {PopRM}
IsExtension(x) == x \div 64 = 3

(* Opcodes of core_level 1 and above: the 8086 core has no case for them.  *)
Absent == \h60 .. \h6F \cup {\hC8, \hC9, \hF1}

AluRM     == {b \in 0 .. \h3F : b % 8 < 4}
ModRMRow8 == \h80 .. \h8E
ModRMRowC == {\hC0, \hC1, \hC6, \hC7, \hD0, \hD1, \hD2, \hD3}
ModRMRowF == {\hF6, \hF7, \hFE, \hFF}
ModRMOpcodes == AluRM \cup ModRMRow8 \cup ModRMRowC \cup ModRMRowF

(* Widths of the operands fetched after the opcode, in fetch order, for    *)
(* the opcodes without ModR/M.                                             *)
ImmRows0to7(b) ==
    CASE b < \h40 /\ b % 8 = 4 -> <<1>>
      [] b < \h40 /\ b % 8 = 5 -> <<2>>
      [] b \in \h70 .. \h7F    -> <<1>>
      [] OTHER                 -> << >>

ImmRows8toB(b) ==
    CASE b = \h9A                            -> <<2, 2>>
      [] b \in \hA0 .. \hA3 \cup {\hA9}      -> <<2>>
      [] b \in \hB8 .. \hBF                  -> <<2>>
      [] b \in \hB0 .. \hB7 \cup {\hA8}      -> <<1>>
      [] OTHER                               -> << >>

ImmRowsCtoF(b) ==
    CASE b = \hEA                            -> <<2, 2>>
      [] b \in {\hC2, \hCA, \hE8, \hE9}      -> <<2>>
      [] b \in {\hCD, \hD4, \hD5, \hEB}      -> <<1>>
      [] b \in \hE0 .. \hE7                  -> <<1>>
      [] OTHER                               -> << >>

Immediates(b) ==
    CASE b < \h80 -> ImmRows0to7(b)
      [] b \in \h80 .. \hBF -> ImmRows8toB(b)
      [] OTHER -> ImmRowsCtoF(b)

(* Widths of what decode_rm_x86 fetches after the ModR/M byte m.           *)
Displacement(m) ==
    CASE Mod(m) = 3                                    -> << >>
      [] Mod(m) = 2 \/ (Mod(m) = 0 /\ Rm(m) = 6)       -> <<2>>
      [] Mod(m) = 1                                    -> <<1>>
      [] OTHER                                         -> << >>

(* Widths of the immediate a ModR/M opcode fetches last.                   *)
ImmAfterRM(b, m) ==
    CASE b = \h81                                      -> <<2>>
      [] b \in {\h80, \h82, \h83, \hC0, \hC1}          -> <<1>>
      [] b \in {\hC6, \hF6} /\ Reg(m) = 0              -> <<1>>
      [] b \in {\hC7, \hF7} /\ Reg(m) = 0              -> <<2>>
      [] OTHER                                         -> << >>

-----------------------------------------------------------------------------
(* Outcomes.  "OK" is any MXOP_ number of a real instruction; the three    *)
(* others are the library's own: MXOP_UD_NOP is what the entry function    *)
(* puts in ins->opcode before the switch.                                  *)
Outcomes == {"OK", "UD", "UD_NOP", "UD_OVERRUN"}

ShiftOpcodes == {\hC0, \hC1, \hD0, \hD1, \hD2, \hD3}

(* 0xFE and 0xFF: far calls and jumps need a memory operand, and 0xFE has  *)
(* only INC, DEC, PUSH and POP.                                            *)
IncDecGroup(b, m) ==
    IF Reg(m) \in 2 .. 5 /\ (b % 2 = 0 \/ (Reg(m) % 2 = 1 /\ Mod(m) = 3))
    THEN "UD_NOP" ELSE "OK"

(* What a ModR/M opcode makes of its reg field.                            *)
GroupOutcome(b, m) ==
    CASE b \in ShiftOpcodes          -> IF Reg(m) = 6 THEN "UD_NOP" ELSE "OK"
      [] b \in {PopRM, \hC6, \hC7}   -> IF Reg(m) = 0 THEN "OK" ELSE "UD_NOP"
      [] b \in {\hF6, \hF7}          -> IF Reg(m) = 1 THEN "UD" ELSE "OK"
      [] b \in {\hFE, \hFF}          -> IncDecGroup(b, m)
      [] OTHER                       -> "OK"

-----------------------------------------------------------------------------
(* The FPU escapes.  x is the byte after the escape.                       *)

(* Forms whose case steps cip back and decodes x again as a ModR/M byte.   *)
(* 0xDB and 0xDF have a case only for mod 0.                               *)
FPUMemory(b, x) ==
    CASE b = \hDB -> Mod(x) = 0 /\ Reg(x) \notin {4, 6}
      [] b = \hDF -> Mod(x) = 0
      [] OTHER    -> Mod(x) # 3

(* Register forms that have an opcode at fpu_level 0.                      *)
FPURegister(b, x) ==
    CASE b = \hD8 -> TRUE
      [] b = \hD9 -> x \in \hC0 .. \hD0
                           \cup {\hE0, \hE1, \hE4, \hE5}
                           \cup \hE8 .. \hEE \cup \hF0 .. \hFF
      [] b = \hDA -> x = \hE9
      [] b = \hDB -> x \in \hE0 .. \hE3
      [] b = \hDC -> Reg(x) \notin {2, 3}
      [] b = \hDD -> Reg(x) \notin {1, 6, 7}
      [] b = \hDE -> Reg(x) # 2 /\ (Reg(x) = 3 => x = \hD9)
      [] b = \hDF -> Reg(x) = 4

FPUOutcome(b, x) ==
    IF \/ Mod(x) = 3 /\ FPURegister(b, x)
       \/ /\ Mod(x) # 3 /\ FPUMemory(b, x)
          /\ ~(b = \hD9 /\ Reg(x) = 1) /\ ~(b = \hDD /\ Reg(x) = 5)
    THEN "OK" ELSE "UD_NOP"

-----------------------------------------------------------------------------
(* The decoded instruction: what selects the mnemonic and the operands.    *)
(* Before the switch the core resets the prefix fields and the entry       *)
(* function sets the opcode.                                               *)
NoByte == -1

EmptyIns ==
    [op |-> "UD_NOP", lead |-> NoByte, fpu |-> NoByte, rm |-> NoByte,
     args |-> << >>, segment |-> NoSegment, rep |-> 0, lock |-> 0,
     fwait |-> 0, len |-> 0]

(* A little-endian value of the given width at position c (counted from 0) *)
(* of the byte sequence s.                                                 *)
ValueAt(s, c, width) ==
    IF width = 1 THEN s[c + 1] ELSE s[c + 1] + 256 * s[c + 2]
=============================================================================
