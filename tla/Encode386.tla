----------------------------- MODULE Encode386 -----------------------------
(***************************************************************************)
(* minx86enc_encodeall of src/encoreall.c for the instructions Meaning386  *)
(* decodes: the bytes written, in 16- and in 32-bit mode, for an           *)
(* instruction structure.  Most cases of its switch are alike; a family    *)
(* of them is a table of opcodes here and an operator for its operands.    *)
(***************************************************************************)
EXTENDS Meaning386, Encode8086

NotWritten == << >>

SegmentByte(s) == IF s >= FS THEN \h60 + s ELSE \h26 + 8 * s

(* argv[0] where the decoder did not set it: all 0, which is a 16-bit      *)
(* memory operand of ES, but for what the override prefixes stored.        *)
Unset(i) == [kind |-> "mem", size |-> 0, wide |-> 2, regs |-> << >>, scalar |-> 0, base |-> 0,
             segment |-> i.p.given]
Operand(i) == IF i.argv = << >> THEN Unset(i) ELSE i.argv[1]

-----------------------------------------------------------------------------
(* Prefixes and the ModR/M byte.                                           *)

(* minx86enc_32_overrides: 0x67 where a memory operand has not the address *)
(* size of est, and where the caller asks for it 0x66 by the size of a.    *)
AddrOverride(a, mode) == IF IsMem(a) /\ a.wide \div 4 # mode THEN <<AddrPrefix>> ELSE << >>
DataOverride(a, mode) == IF a.size \div 4 # mode THEN <<DataPrefix>> ELSE << >>
NoOverride == << >>

(* The cases without a call of minx86enc_seg_overrides.                    *)
Unsegmented386 ==
    {"MOVHPD", "MOVHPS", "MOVNTDQA", "MOVNTDQ", "MOVNTI", "MOVNTPD", "MOVNTPS", "MOVNTQ",
     "MOVQ", "MOVSX", "MOVZX", "SHLD", "SHRD"}

SegmentOverrideAny(i, a) ==   \* mutant: registers have one too
    LET b == IF IsMem(a) THEN a ELSE Unset(i)
        s == IF i.op \in Unsegmented386 THEN NoSegment ELSE SegOverride(b, i.p.segment # NoSegment)
    IN  IF s = NoSegment THEN << >> ELSE <<SegmentByte(s)>>

SegmentOverride(i, a) ==
    LET s == IF ~IsMem(a) \/ i.op \in Unsegmented386 THEN NoSegment
             ELSE SegOverride(a, i.p.segment # NoSegment)
    IN  IF s = NoSegment THEN << >> ELSE <<SegmentByte(s)>>

(* minx86enc_encode_memreg with 16- and 32-bit addressing.                 *)
MemReg386(a, reg) == RMBytes(Encode(a.wide, a, FALSE), reg)

ModRM386(a, reg) == IF IsMem(a) THEN MemReg386(a, reg) ELSE RmReg(a, reg)

(* An instruction with the r/m operand rm.                                 *)
Emit(i, mode, size, code, rm, reg) ==
    SegmentOverride(i, rm) \o AddrOverride(rm, mode) \o size \o code \o ModRM386(rm, reg)

-----------------------------------------------------------------------------
(* Opcodes of two bytes, with the prefix that belongs to the opcode.       *)
None(b)  == <<\h0F, b>>
With66(b) == <<\h66, \h0F, b>>
WithF2(b) == <<\hF2, \h0F, b>>
WithF3(b) == <<\hF3, \h0F, b>>

(* Without operands.                                                       *)
SystemCode ==
    [SYSCALL |-> None(\h05), SYSRET |-> None(\h07), SYSENTER |-> None(\h34),
     SYSEXIT |-> None(\h35), WRMSR |-> None(\h30), RDMSR |-> None(\h32), WBINVD |-> None(\h09),
     GETSEC |-> None(\h37), UD2 |-> None(\h0B), FEMMS |-> None(\h0E), EMMS |-> None(\h77),
     RSM |-> None(\hAA), CLTS |-> None(\h06), RDTSC |-> None(\h31), RDPMC |-> None(\h33),
     CPUID |-> None(\hA2), INVD |-> None(\h08)]
MonitorBytes ==
    [op \in {MonitorCode[b] : b \in DOMAIN MonitorCode} \ {"VMMCALL", "VMSAVE"} |->
        Append(None(\h01), CHOOSE b \in DOMAIN MonitorCode : MonitorCode[b] = op)]
FenceCode == [SFENCE |-> Append(None(\hAE), \hF8), MFENCE |-> Append(None(\hAE), \hF0),
              LFENCE |-> Append(None(\hAE), \hE8)]
PadlockCode ==
    [op \in {PadlockA6[b] : b \in DOMAIN PadlockA6} |->
        Append(WithF3(\hA6), CHOOSE b \in DOMAIN PadlockA6 : PadlockA6[b] = op)]
    @@ [op \in {PadlockA7[b] : b \in DOMAIN PadlockA7} \ {"XSTORE"} |->
        Append(WithF3(\hA7), CHOOSE b \in DOMAIN PadlockA7 : PadlockA7[b] = op)]
BareCode == SystemCode @@ MonitorBytes @@ FenceCode @@ PadlockCode

EncodeXstore(i) ==
    (IF i.p.rep = REPNE THEN <<\hF3>> ELSE << >>) \o Append(None(\hA7), \hC0)

(* With a memory operand: opcode and reg field.                            *)
SystemMemory ==
    [LGDT |-> <<None(\h01), 2>>, LIDT |-> <<None(\h01), 3>>, SGDT |-> <<None(\h01), 0>>,
     SIDT |-> <<None(\h01), 1>>, INVLPG |-> <<None(\h01), 7>>, CLFLUSH |-> <<None(\hAE), 7>>,
     LDMXCSR |-> <<None(\hAE), 2>>, STMXCSR |-> <<None(\hAE), 3>>]
PrefetchMemory ==
    [PREFETCH |-> <<None(\h0D), 0>>, PREFETCHW |-> <<None(\h0D), 1>>,
     PREFETCHNTA |-> <<None(\h18), 0>>, PREFETCHT0 |-> <<None(\h18), 1>>,
     PREFETCHT1 |-> <<None(\h18), 2>>, PREFETCHT2 |-> <<None(\h18), 3>>,
     VMXON |-> <<WithF3(\hC7), 6>>]
StateMemory ==
    [VMCLEAR |-> <<With66(\hC7), 6>>, XRSTOR |-> <<None(\hAE), 5>>, XSAVE |-> <<None(\hAE), 4>>,
     VMPTRLD |-> <<None(\hC7), 6>>, VMPTRST |-> <<None(\hC7), 7>>]
FxMemory     == [FXRSTOR |-> <<None(\hAE), 1>>, FXSAVE |-> <<None(\hAE), 0>>]
Cmpxchg8b    == [CMPXCHG8B |-> <<None(\hC7), 1>>]
UnsizedMemory == StateMemory @@ FxMemory @@ Cmpxchg8b
SizedMemory   == SystemMemory @@ PrefetchMemory

(* Those of SizedMemory hand ins->data32 over as the flag that asks for    *)
(* 0x66: with it a descriptor of 6 bytes or a line of 4 counts as dword.   *)
EncodeMemoryOnly(i, mode, form) ==
    LET a    == Operand(i)
        size == IF i.op \in DOMAIN SizedMemory /\ i.p.data32 = 1 THEN DataOverride(a, mode)
                ELSE NoOverride
    IN  IF IsMem(a) THEN Emit(i, mode, size, form[1], a, form[2]) ELSE NotWritten

(* With a register the operand size is looked at, with memory it is not.   *)
TaskCode ==
    [LLDT |-> <<None(\h00), 2>>, LMSW |-> <<None(\h01), 6>>, LTR |-> <<None(\h00), 3>>,
     SLDT |-> <<None(\h00), 0>>, STR |-> <<None(\h00), 1>>, SMSW |-> <<None(\h01), 4>>,
     VERR |-> <<None(\h00), 4>>, VERW |-> <<None(\h00), 5>>]

EncodeTask(i, mode) ==
    LET a    == i.argv[1]
        form == TaskCode[i.op]
    IN  Emit(i, mode, IF IsMem(a) THEN NoOverride ELSE DataOverride(a, mode), form[1], a, form[2])

-----------------------------------------------------------------------------
(* General registers.                                                      *)

(* The register in the reg field comes first.                              *)
BitScanCode == [BSF |-> None(\hBC), LZCNT |-> WithF3(\hBD), POPCNT |-> WithF3(\hB8),
                BSR |-> None(\hBD)]
LimitCode   == [LSL |-> None(\h03), LAR |-> None(\h02)]
ExtendCode  == [MOVSX |-> \hBE, MOVZX |-> \hB6]
FarLoadCode == [LSS |-> None(\hB2), LFS |-> None(\hB4), LGS |-> None(\hB5),
                LES |-> <<\hC4>>, LDS |-> <<\hC5>>]
LoadCode386 == BitScanCode @@ LimitCode

EncodeExtend(i, mode) ==
    LET a == i.argv[1]
        b == i.argv[2]
    IN  Emit(i, mode, DataOverride(a, mode), None(ExtendCode[i.op] + WordBit(b)), b, a.reg)

EncodeFarLoad386(i, mode) ==
    LET a == i.argv[1]
        b == i.argv[2]
    IN  IF IsMem(b) THEN Emit(i, mode, DataOverride(a, mode), FarLoadCode[i.op], b, a.reg)
        ELSE NotWritten

(* No operand size.                                                        *)
EncodeCmovSized(i, mode) ==   \* mutant: with the operand size
    Emit(i, mode, DataOverride(i.argv[2], mode), None(\h40 + Index(Cmov, i.op)), i.argv[2],
         i.argv[1].reg)
EncodeCmov(i, mode) ==
    Emit(i, mode, NoOverride, None(\h40 + Index(Cmov, i.op)), i.argv[2], i.argv[1].reg)
EncodeSetCC(i, mode) ==
    Emit(i, mode, NoOverride, None(\h90 + Index(SetCC, i.op)), i.argv[1], 0)

EncodeCrc32(i, mode) ==
    LET b    == i.argv[2]
        size == IF WordBit(b) = 1 THEN DataOverride(b, mode) ELSE NoOverride
    IN  IF IsMem(b)
        THEN Emit(i, mode, size, <<\hF2, \h0F, \h38, \hF0 + WordBit(b)>>, b, i.argv[1].reg)
        ELSE NotWritten

EncodeMovbe(i, mode) ==
    LET a == i.argv[1]
        b == i.argv[2]
        code(n) == <<\h0F, \h38, \hF0 + n>>
    IN  CASE IsMem(b) -> Emit(i, mode, DataOverride(b, mode), code(0), b, a.reg)
          [] IsMem(a) -> Emit(i, mode, DataOverride(a, mode), code(1), a, b.reg)
          [] OTHER    -> NotWritten

(* r/m comes first.                                                        *)
ExchangeCode == [CMPXCHG |-> \hB0, XADD |-> \hC0]

(* CMPXCHG looks at the size of words only, XADD at that of bytes too.     *)
EncodeExchange(i, mode) ==
    LET a    == i.argv[1]
        size == IF i.op = "XADD" \/ WordBit(a) = 1 THEN DataOverride(a, mode) ELSE NoOverride
    IN  Emit(i, mode, size, None(ExchangeCode[i.op] + WordBit(a)), a, i.argv[2].reg)

(* With a register, and the reg field of the form with an immediate, which *)
(* has no case for memory.                                                 *)
BitTestCode == [BT |-> <<\hA3, 4>>, BTC |-> <<\hBB, 7>>, BTR |-> <<\hB3, 6>>, BTS |-> <<\hAB, 5>>]

EncodeBitTest(i, mode) ==
    LET a    == i.argv[1]
        b    == i.argv[2]
        form == BitTestCode[i.op]
        size == DataOverride(a, mode)
    IN  CASE IsReg(b) -> Emit(i, mode, size, None(form[1]), a, b.reg)
          [] IsImm(b) /\ IsReg(a) ->
                 Emit(i, mode, size, None(\hBA), a, form[2]) \o <<ByteOf(b.value)>>
          [] OTHER -> NotWritten

(* With memory and CL the case hands 0 over for the operand size.          *)
EncodeDoubleShift(i, mode) ==
    LET a     == i.argv[1]
        count == i.argv[3]
        code  == IF i.op = "SHLD" THEN \hA4 ELSE \hAC
        size  == IF IsMem(a) /\ IsReg(count) THEN NoOverride ELSE DataOverride(a, mode)
    IN  IF IsReg(count) THEN Emit(i, mode, size, None(code + 1), a, i.argv[2].reg)
        ELSE Emit(i, mode, size, None(code), a, i.argv[2].reg) \o <<ByteOf(count.value)>>

EncodeBswap(i, mode) ==
    LET a == i.argv[1]
    IN  IF IsReg(a) THEN DataOverride(a, mode) \o None(\hC8 + a.reg) ELSE NotWritten

(* MOV with a control, debug or test register: of operand b, and of a.     *)
SpecialCode == [cr |-> \h20, dr |-> \h21, tr |-> \h24]

EncodeSpecialMove(i) ==
    LET a == i.argv[1]
        b == i.argv[2]
    IN  IF IsReg(b) THEN None(SpecialCode[a.kind] + 2) \o RmReg(b, a.reg)
        ELSE None(SpecialCode[b.kind]) \o RmReg(a, b.reg)

EncodePushPop(i) ==
    None((IF i.argv[1].reg = FS THEN \hA0 ELSE \hA8) + (IF i.op = "PUSH" THEN 0 ELSE 1))

(* IMUL has the form with one operand only: the first is taken for it.     *)
EncodeImul(i, mode) ==
    LET a    == i.argv[1]
        size == IF IsReg(a) \/ WordBit(a) = 1 THEN DataOverride(a, mode) ELSE NoOverride
    IN  Emit(i, mode, size, <<\hF6 + WordBit(a)>>, a, 5)

(* The register form calls minx86enc_seg_overrides too, for a segment that *)
(* decode_rm_ leaves alone.                                                *)
EncodeNop(i, mode) ==
    LET a    == Operand(i)
        code == CASE i.argv = << >> -> <<\h90>>
                  [] IsReg(a) -> SegmentOverride(i, Unset(i)) \o DataOverride(a, mode)
                                 \o None(\h1F) \o RmReg(a, 0)
                  [] IsMem(a) /\ a.regs # << >> ->
                         Emit(i, mode, DataOverride(a, mode), None(\h1F), a, 0)
                  [] OTHER -> <<\h90>>
    IN  (IF i.p.lock = 1 THEN <<\hF0>> ELSE << >>) \o code

(* Short where it reaches; 16 bits where est->addr32 is clear and they do. *)
EncodeJcc386(i, mode, ip) ==
    LET n     == Index(Jcc, i.op)
        delta == i.argv[1].value - ip
    IN  CASE InByte(delta - 2) -> <<\h70 + n, ByteOf(delta - 2)>>
          [] ~InByte(delta - 2) /\ mode = 1 -> None(\h80 + n) \o Dword(delta - 6)
          [] OTHER -> EncodeJcc(n, delta)

-----------------------------------------------------------------------------
(* MMX and SSE.  The register in the reg field comes first.                *)

AddForms    == [ADDPD |-> With66(\h58), ADDPS |-> None(\h58), ADDSD |-> WithF2(\h58),
                ADDSS |-> WithF3(\h58)]
AddSubForms == [ADDSUBPD |-> With66(\hD0), ADDSUBPS |-> WithF2(\hD0)]
AndForms    == [ANDPD |-> With66(\h54), ANDNPD |-> With66(\h55), ANDPS |-> None(\h54),
                ANDNPS |-> None(\h55)]
DivForms    == [DIVSS |-> WithF3(\h5E), DIVSD |-> WithF2(\h5E), DIVPS |-> None(\h5E),
                DIVPD |-> With66(\h5E)]
ComisForms  == [COMISS |-> None(\h2F), COMISD |-> With66(\h2F)]
HorizontalForms == [HADDPD |-> With66(\h7C), HADDPS |-> WithF2(\h7C),
                    HSUBPD |-> With66(\h7D), HSUBPS |-> WithF2(\h7D)]
MaxForms == [MAXPD |-> With66(\h5F), MAXPS |-> None(\h5F), MAXSD |-> WithF2(\h5F),
             MAXSS |-> WithF3(\h5F)]
MinForms == [MINPD |-> With66(\h5D), MINPS |-> None(\h5D), MINSD |-> WithF2(\h5D),
             MINSS |-> WithF3(\h5D)]
DupForm  == [MOVDDUP |-> WithF2(\h12)]

(* Conversions, from dwords and packed doubles, from MMX registers and     *)
(* packed singles, from scalars, and with truncation.                      *)
FromDwords == [CVTDQ2PS |-> None(\h5B), CVTDQ2PD |-> WithF3(\hE6), CVTPD2DQ |-> WithF2(\hE6),
               CVTPD2PS |-> With66(\h5A), CVTPD2PI |-> With66(\h2D)]
FromPacked == [CVTPI2PD |-> With66(\h2A), CVTPI2PS |-> None(\h2A), CVTPS2DQ |-> With66(\h5B),
               CVTPS2PD |-> None(\h5A), CVTPS2PI |-> None(\h2D)]
FromScalar == [CVTSD2SI |-> WithF2(\h2D), CVTSD2SS |-> WithF2(\h5A), CVTSI2SD |-> WithF2(\h2A),
               CVTSI2SS |-> WithF3(\h2A), CVTSS2SD |-> WithF3(\h5A), CVTSS2SI |-> WithF3(\h2D)]
Truncating == [CVTTPD2DQ |-> With66(\hE6), CVTTPD2PI |-> With66(\h2C), CVTTPS2DQ |-> WithF3(\h5B),
               CVTTPS2PI |-> None(\h2C), CVTTSD2SI |-> WithF2(\h2C), CVTTSS2SI |-> WithF3(\h2C)]

(* With an immediate byte, or with XMM0 as the third operand.              *)
ThreeBytes(b2, b3) == <<\h66, \h0F, b2, b3>>
BlendForms  == [BLENDPD |-> ThreeBytes(\h3A, \h0D), BLENDPS |-> ThreeBytes(\h3A, \h0C),
                BLENDVPD |-> ThreeBytes(\h38, \h15), BLENDVPS |-> ThreeBytes(\h38, \h14)]
CmpForms    == [CMPPD |-> With66(\hC2), CMPPS |-> None(\hC2), CMPSD |-> WithF2(\hC2),
                CMPSS |-> WithF3(\hC2)]
DotForms    == [DPPD |-> ThreeBytes(\h3A, \h41), DPPS |-> ThreeBytes(\h3A, \h40)]
InsertForm  == [INSERTPS |-> ThreeBytes(\h3A, \h21)]

SseForms ==
    AddForms @@ AddSubForms @@ AndForms @@ DivForms @@ ComisForms @@ HorizontalForms
    @@ MaxForms @@ MinForms @@ DupForm @@ FromDwords @@ FromPacked @@ FromScalar @@ Truncating
    @@ BlendForms @@ CmpForms @@ DotForms @@ InsertForm

ImmByteOfNone(i) == << >>   \* mutant: not written
ImmByteOf(i) ==
    LET last == i.argv[Len(i.argv)] IN IF IsImm(last) THEN <<ByteOf(last.value)>> ELSE << >>

EncodeSse(i, mode) ==
    IF IsMem(i.argv[1]) THEN NotWritten
    ELSE Emit(i, mode, NoOverride, SseForms[i.op], i.argv[2], i.argv[1].reg) \o ImmByteOf(i)

(* The case for memory takes the first operand for the register.           *)
EncodeExtract(i, mode) ==
    IF IsReg(i.argv[1])
    THEN Emit(i, mode, NoOverride, ThreeBytes(\h3A, \h17), i.argv[1], i.argv[2].reg)
         \o ImmByteOf(i)
    ELSE NotWritten

(* With two registers, or with a memory operand, only.                     *)
RegisterForms ==
    [MASKMOVDQU |-> With66(\hF7), MASKMOVQ |-> None(\hF7), MOVDQ2Q |-> WithF2(\hD6),
     MOVQ2DQ |-> WithF3(\hD6), MOVHLPS |-> None(\h12), MOVLHPS |-> None(\h16),
     MOVMSKPD |-> With66(\h50), MOVMSKPS |-> None(\h50)]
LoadForms  == [LDDQU |-> WithF2(\hF0), MOVNTDQA |-> ThreeBytes(\h38, \h2A)]
StoreForms == [MOVNTDQ |-> With66(\hE7), MOVNTI |-> None(\hC3), MOVNTPD |-> With66(\h2B),
               MOVNTPS |-> None(\h2B), MOVNTQ |-> None(\hE7)]

EncodeRegistersTurned(i, mode) ==   \* mutant: the registers change places
    IF IsMem(i.argv[2]) THEN NotWritten
    ELSE Emit(i, mode, NoOverride, RegisterForms[i.op], i.argv[1], i.argv[2].reg)
EncodeRegisters(i, mode) ==
    IF IsMem(i.argv[2]) THEN NotWritten
    ELSE Emit(i, mode, NoOverride, RegisterForms[i.op], i.argv[2], i.argv[1].reg)
EncodeLoad386(i, mode) ==
    IF ~IsMem(i.argv[2]) THEN NotWritten
    ELSE Emit(i, mode, NoOverride, LoadForms[i.op], i.argv[2], i.argv[1].reg)
EncodeStore(i, mode) ==
    IF ~IsMem(i.argv[1]) THEN NotWritten
    ELSE Emit(i, mode, NoOverride, StoreForms[i.op], i.argv[1], i.argv[2].reg)

(* Moves: the opcodes to load, which moves between registers use too, and  *)
(* to store.  MOVQ and MOVD have them by the kind of the register.         *)
AlignedMoves == [MOVAPD |-> <<With66(\h28), With66(\h29)>>, MOVAPS |-> <<None(\h28), None(\h29)>>]
IntegerMoves == [MOVDQA |-> <<With66(\h6F), With66(\h7F)>>,
                 MOVDQU |-> <<WithF3(\h6F), WithF3(\h7F)>>]
HighMoves    == [MOVHPD |-> <<With66(\h16), With66(\h17)>>, MOVHPS |-> <<None(\h16), None(\h17)>>]
LowMoves     == [MOVLPD |-> <<With66(\h12), With66(\h13)>>, MOVLPS |-> <<None(\h12), None(\h13)>>]
Unaligned    == [MOVUPD |-> <<With66(\h10), With66(\h11)>>, MOVUPS |-> <<None(\h10), None(\h11)>>]
Moves        == AlignedMoves @@ IntegerMoves @@ HighMoves @@ LowMoves @@ Unaligned

IsMMX(a)   == a.kind = "mmx"
MovqOf(i)  == IF \E k \in 1 .. 2 : IsMMX(i.argv[k]) THEN <<None(\h6F), None(\h7F)>>
              ELSE <<WithF3(\h7E), With66(\hD6)>>
MovdOf(i)  == IF \E k \in 1 .. 2 : IsMMX(i.argv[k]) THEN <<None(\h6E), None(\h7E)>>
              ELSE <<With66(\h6E), With66(\h7E)>>

(* The half moves have no form with two registers; the unaligned ones use  *)
(* the opcode that stores for it, with the registers turned.               *)
EncodeMove(i, mode, forms) ==
    LET a == i.argv[1]
        b == i.argv[2]
        registers == ~IsMem(a) /\ ~IsMem(b)
        store     == \/ IsMem(a) \/ IsReg(a)
                     \/ registers /\ i.op \in DOMAIN Unaligned
    IN  CASE registers /\ i.op \in DOMAIN HighMoves \cup DOMAIN LowMoves -> NotWritten
          [] store  -> Emit(i, mode, NoOverride, forms[2], a, b.reg)
          [] OTHER  -> Emit(i, mode, NoOverride, forms[1], b, a.reg)

-----------------------------------------------------------------------------
(* The switch of minx86enc_encodeall; what is not named has no case.       *)
EncodeInteger386(i, mode, ip) ==
    LET op == i.op
    IN  CASE op \in DOMAIN LoadCode386 ->
               Emit(i, mode, DataOverride(i.argv[2], mode), LoadCode386[op], i.argv[2], i.argv[1].reg)
          [] op \in DOMAIN ExtendCode   -> EncodeExtend(i, mode)
          [] op \in DOMAIN FarLoadCode  -> EncodeFarLoad386(i, mode)
          [] op \in DOMAIN ExchangeCode -> EncodeExchange(i, mode)
          [] op \in DOMAIN BitTestCode  -> EncodeBitTest(i, mode)
          [] op \in {"SHLD", "SHRD"}    -> EncodeDoubleShift(i, mode)
          [] op \in {"PUSH", "POP"}     -> EncodePushPop(i)
          [] In(Cmov, op)  -> EncodeCmov(i, mode)
          [] In(SetCC, op) -> EncodeSetCC(i, mode)
          [] In(Jcc, op)   -> EncodeJcc386(i, mode, ip)
          [] op = "CRC32"  -> EncodeCrc32(i, mode)
          [] op = "MOVBE"  -> EncodeMovbe(i, mode)
          [] op = "BSWAP"  -> EncodeBswap(i, mode)
          [] op = "MOV"    -> EncodeSpecialMove(i)
          [] op = "IMUL"   -> EncodeImul(i, mode)
          [] op = "NOP"    -> EncodeNop(i, mode)
          [] OTHER         -> NotWritten

EncodeAll386(i, mode, ip) ==
    LET op == i.op
    IN  CASE op \in DOMAIN BareCode      -> BareCode[op]
          [] op = "XSTORE"               -> EncodeXstore(i)
          [] op \in DOMAIN SizedMemory   -> EncodeMemoryOnly(i, mode, SizedMemory[op])
          [] op \in DOMAIN UnsizedMemory -> EncodeMemoryOnly(i, mode, UnsizedMemory[op])
          [] op \in DOMAIN TaskCode      -> EncodeTask(i, mode)
          [] op \in DOMAIN SseForms      -> EncodeSse(i, mode)
          [] op = "EXTRACTPS"            -> EncodeExtract(i, mode)
          [] op \in DOMAIN RegisterForms -> EncodeRegisters(i, mode)
          [] op \in DOMAIN LoadForms     -> EncodeLoad386(i, mode)
          [] op \in DOMAIN StoreForms    -> EncodeStore(i, mode)
          [] op \in DOMAIN Moves         -> EncodeMove(i, mode, Moves[op])
          [] op = "MOVQ"                 -> EncodeMove(i, mode, MovqOf(i))
          [] op = "MOVD"                 -> EncodeMove(i, mode, MovdOf(i))
          [] OTHER                       -> EncodeInteger386(i, mode, ip)
=============================================================================
