----------------------------- MODULE Losses386 -----------------------------
(***************************************************************************)
(* What of an instruction recoding by minx86dec_decodeall and              *)
(* minx86enc_encodeall does not preserve, by the reason: the cases of      *)
(* src/encoreall.c that the structure of the decoder asks too much of.     *)
(***************************************************************************)
EXTENDS EncodeVex

(* What two decodes must share to be the same instruction: immediates, of  *)
(* a byte all, are equal modulo 256, and the target of a jump whatever     *)
(* size it has been given.  Of the prefixes that no operand shows, LOCK    *)
(* and VEX count.                                                          *)
Modulo(i, a) ==
    CASE ~IsImm(a)     -> a
      [] In(Jcc, i.op) -> a.value
      [] OTHER         -> a.value % 256

Operands(i) == [k \in DOMAIN i.argv |-> Modulo(i, i.argv[k])]

Same(i, j) ==
    /\ i.op = j.op /\ i.p.lock = j.p.lock /\ i.vex = j.vex
    /\ Operands(i) = Operands(j)

-----------------------------------------------------------------------------
(* The instructions recoding does not preserve, by the reason.             *)

HasMem(i)   == \E k \in DOMAIN i.argv : IsMem(i.argv[k])
MemoryOf(i) == i.argv[CHOOSE k \in DOMAIN i.argv : IsMem(i.argv[k])]

(* Only NOP has a place for LOCK.                                          *)
DropsLock(i) == i.p.lock = 1 /\ i.op # "NOP"

(* An override of an operand whose segment the encoder does not look at.   *)
DropsOverride(i) ==
    /\ i.op \in Unsegmented386 /\ HasMem(i)
    /\ SegOverride(MemoryOf(i), FALSE) # NoSegment

(* No case in the switch.                                                  *)
Cased ==
    DOMAIN BareCode \cup {"XSTORE", "EXTRACTPS", "MOVQ", "MOVD", "SHLD", "SHRD", "PUSH", "POP"}
    \cup {"CRC32", "MOVBE", "BSWAP", "MOV", "IMUL", "NOP"}
    \cup DOMAIN SizedMemory \cup DOMAIN UnsizedMemory \cup DOMAIN TaskCode
    \cup DOMAIN SseForms \cup DOMAIN RegisterForms \cup DOMAIN LoadForms \cup DOMAIN StoreForms
    \cup DOMAIN Moves \cup DOMAIN LoadCode386 \cup DOMAIN ExtendCode \cup DOMAIN FarLoadCode
    \cup DOMAIN ExchangeCode \cup DOMAIN BitTestCode
    \cup {Cmov[k] : k \in DOMAIN Cmov} \cup {SetCC[k] : k \in DOMAIN SetCC}
    \cup {Jcc[k] : k \in DOMAIN Jcc} \cup DOMAIN BroadcastCode

(* A case, but not for registers, or not for memory.                       *)
NeedsMemory ==
    DOMAIN SizedMemory \cup (DOMAIN UnsizedMemory \ DOMAIN FxMemory) \cup DOMAIN LoadForms
    \cup DOMAIN StoreForms \cup DOMAIN HighMoves \cup DOMAIN LowMoves
    \cup {"CRC32", "MOVBE"} \cup DOMAIN BroadcastCode
NeedsRegister == DOMAIN RegisterForms \cup {"EXTRACTPS", "BSWAP"}

HasNoForm(i) ==
    \/ i.op \notin Cased
    \/ i.op \in NeedsMemory /\ ~HasMem(i)
    \/ i.op \in NeedsRegister /\ HasMem(i)
    \/ i.op \in DOMAIN BitTestCode /\ HasMem(i) /\ IsImm(i.argv[2])
    \/ i.op \in DOMAIN SseForms /\ IsMem(i.argv[1])
    \/ i.vex /\ i.op \in OfMMX

(* The operand has the size of the mode it was decoded in, or of a 0x66,   *)
(* and the encoder writes no 0x66 for it.                                  *)
Sizeless(i) ==
    \/ In(Cmov, i.op) \/ i.op \in {"XSAVE", "XRSTOR"}
    \/ i.op \in {"SHLD", "SHRD"} /\ HasMem(i) /\ IsReg(i.argv[3])
    \/ i.op \in {"LDMXCSR", "STMXCSR", "CLFLUSH"} /\ i.p.data32 = 0

Resizes(i, mode) == Sizeless(i) /\ i.argv # << >> /\ i.argv[1].size \div 4 # mode

(* IMUL with two operands becomes the IMUL of accumulator and r/m.         *)
LosesFactor(i) == i.op = "IMUL" /\ Len(i.argv) = 2

(* The register forms of FXSAVE and FXRSTOR have no operand; one is made.  *)
InventsOperand(i) == i.op \in DOMAIN FxMemory /\ i.argv = << >>

(* Between registers, the form that stores is encoded as the one that      *)
(* loads, MOVQ's too, where the operands have each other's sizes.          *)
SwapsSizes(i) ==
    /\ i.op \in {"MOVDDUP", "MOVHLPS", "MOVLHPS", "MOVQ"}
    /\ ~HasMem(i)
    /\ IF i.op = "MOVQ" THEN i.argv[1].size > i.argv[2].size ELSE i.argv[1].size < i.argv[2].size

(* Two of 0x66, or one and a VEX prefix that implies it, name the entry of *)
(* a table of opcodes that is one too far.  Where that is a scalar one,    *)
(* the decoder takes it for a vector of 32 bytes, which it has not.        *)
Scalarised(i) == i.vex /\ i.op \in {"ADDSD", "MAXSS"} /\ i.argv[1].size = 32
Strays(i) ==
    \/ i.op = "BSWAP" /\ Len(i.argv) > 1
    \/ i.op = "MONITOR" /\ i.argv # << >>
    \/ Scalarised(i)

(* A scaled index without a base register.                                 *)
Unbased(i) == HasMem(i) /\ Len(MemoryOf(i).regs) = 1 /\ MemoryOf(i).scalar # 0

(* A case that does not look at ins->vex.                                  *)
LosesVex(i) ==
    i.vex /\ i.op \in {"MOVLPD", "MOVLPS", "MOVQ", "MOVDQ2Q", "MOVQ2DQ"}

(* A vector of 32 bytes where the bit for it is not written, or is taken   *)
(* from the operand that has 16 or 4.                                      *)
Narrows(i) ==
    /\ i.vex /\ \E k \in DOMAIN i.argv : i.argv[k].size = 32
    /\ \/ i.op \in DOMAIN HorizontalForms \cup {"CVTPS2PD"}
       \/ i.op = "MOVD" /\ ~HasMem(i)

(* Registers from 8 on have a bit in the prefix of two bytes that, turned  *)
(* over, makes it an LDS.                                                  *)
BecomesLDS(i) ==
    /\ i.vex /\ i.op \in DOMAIN ThreeOperandForms \cup {"MOVHLPS"}
    /\ i.argv[2].reg >= 8

Lossy(i, mode) ==
    \/ LosesVex(i) \/ Narrows(i) \/ BecomesLDS(i)
    \/ DropsLock(i) \/ DropsOverride(i) \/ HasNoForm(i) \/ Resizes(i, mode)
    \/ LosesFactor(i) \/ InventsOperand(i) \/ SwapsSizes(i) \/ Strays(i)
    \/ Unbased(i)

-----------------------------------------------------------------------------
(* Instructions that recoding changes without losing any of the above.     *)

(* VMXON is told the operand size, which it has none of: in 32-bit mode    *)
(* 0x66 is written where it was not, and not where it was.                 *)
TurnsPrefix(i, mode) == i.op = "VMXON" /\ mode = 1

(* The segment of an operand that the decoder does not set is looked at.   *)
ReadsUnsetSegment(i) ==
    \/ InventsOperand(i)
    \/ i.op = "NOP" /\ i.argv # << >> /\ IsReg(i.argv[1])

(* The opcodes that two of 0x66 do not name like one.                      *)
CountsPrefixes ==
    {<<\h0F, b>> : b \in {\h14, \h15, \h28, \h29, \h2A, \h2B, \h2C, \h2D} \cup \h54 .. \h5B
                         \cup {\h50, \h5D, \h5F, \hC6, \hD0}}
=============================================================================
