---------------------------- MODULE Encode8086 ----------------------------
(***************************************************************************)
(* minx86enc_encodeall of src/encoreall.c for the instructions the 8086    *)
(* core decodes, with est->data32 and est->addr32 clear as recode8086.c    *)
(* leaves them: the bytes written for an instruction structure.  The       *)
(* encoder does not look at the original bytes; it picks the form itself.  *)
(***************************************************************************)
EXTENDS Meaning8086

ByteOfWhole(v) == v   \* mutant: no truncation to uint8_t
ByteOf(v) == v % 256
Word(v)   == <<v % 256, (v \div 256) % 256>>
Dword(v)  == Word(v) \o Word(v \div 65536)

InByte(v) == v \in -128 .. 127
InWord(v) == v \in -32768 .. 32767

IsMem(a) == a.kind = "mem"
IsReg(a) == a.kind = "reg"
IsImm(a) == a.kind = "imm"
IsST(a)  == a.kind = "st"

Direct(a)      == IsMem(a) /\ a.regs = << >>
Accumulator(a) == IsReg(a) /\ a.reg = AX

(* The `word' most cases compute: bit 0 of the opcode.                     *)
WordBit(a) == IF a.size >= 2 THEN 1 ELSE 0

-----------------------------------------------------------------------------
(* minx86enc_encode_rm_reg, for register a.                                *)
RmReg(a, reg) == <<192 + 8 * reg + a.reg>>

(* minx86enc_encode_memreg: ModR/M byte and displacement of memory a.      *)
DispBytes(c) ==
    CASE c.width = 0 -> << >>
      [] c.width = 1 -> <<ByteOf(c.disp)>>
      [] c.width = 2 -> Word(c.disp)
      [] c.width = 4 -> Dword(c.disp)
SIBBytes(sib) == IF sib = NoSIB THEN << >> ELSE <<64 * sib[1] + 8 * sib[2] + sib[3]>>
RMBytes(c, reg) == <<64 * c.mod + 8 * reg + c.rm>> \o SIBBytes(c.sib) \o DispBytes(c)

MemReg(a, reg) == RMBytes(Encode(2, a, FALSE), reg)

(* minx86enc_encode_memreg_far differs for a SIB byte only.                *)
MemRegFar(a, reg) == MemReg(a, reg)

ModRM(a, reg) == IF IsMem(a) THEN MemReg(a, reg) ELSE RmReg(a, reg)

ImmByte(v, word) == <<ByteOf(v)>>   \* mutant: always one byte

(* An immediate of the operand size `word' says.                           *)
Imm(v, word) == IF word = 1 THEN Word(v) ELSE <<ByteOf(v)>>

-----------------------------------------------------------------------------
(* Prefixes.                                                               *)
Locked   == {"ADD", "OR", "XCHG", "NOP"}
Waiting  == {"FCLEX", "FDISI", "FENI", "FINIT", "FSTENV", "FSTCW", "FSAVE", "FSTSW"}
Repeated == {"MOVS", "CMPS", "STOS", "LODS", "SCAS"}
ToES     == {"STOS", "SCAS"}

ShiftOps == {Shifts[i] : i \in DOMAIN Shifts} \ {"UD_NOP"}
FarOps   == {"JMP_FAR", "CALL_FAR"}

(* The instructions whose memory operand is encoded without a look at its  *)
(* segment.                                                                *)
Unsegmented == {"XCHG", "JMP", "CALL"} \cup FarOps \cup ShiftOps

(* The memory operand whose segment is encoded; of two, as MOVS and CMPS   *)
(* have, the second.  FSTP looks at its first operand only.                *)
MemOf(i) ==
    LET at == {k \in DOMAIN i.argv : IsMem(i.argv[k]) /\ (i.op = "FSTP" => k = 1)}
    IN  IF at = {} THEN << >> ELSE <<i.argv[CHOOSE k \in at : \A j \in at : j <= k]>>

(* minx86enc_seg_overrides, and minx86enc_seg_overrides_es for ES:DI.      *)
SegPrefix(i) ==
    LET a       == MemOf(i)
        forced  == i.segment # NoSegment
        segment == IF a = << >> \/ i.op \in Unsegmented THEN NoSegment
                   ELSE IF i.op \in ToES THEN (IF forced THEN ES ELSE NoSegment)
                   ELSE SegOverride(a[1], forced)
    IN  IF segment = NoSegment THEN << >> ELSE <<\h26 + 8 * segment>>

LockPrefix(i) == IF i.op \in Locked /\ i.lock = 1 THEN <<\hF0>> ELSE << >>
WaitPrefix(i) == IF i.op \in Waiting /\ i.fwait = 1 THEN <<\h9B>> ELSE << >>
RepPrefix(i)  == IF i.op \in Repeated /\ i.rep # 0 THEN <<\hF1 + i.rep>> ELSE << >>

Prefixes(i) == LockPrefix(i) \o WaitPrefix(i) \o RepPrefix(i) \o SegPrefix(i)

-----------------------------------------------------------------------------
(* The arithmetic of ADD to CMP: memory and register in either order, two  *)
(* registers (the second one in the reg field), or an immediate, which is  *)
(* written as a byte when its sign extension gives the word.               *)
ShorthandUnsigned(a, v) == a.size = 2 /\ v < \h100   \* mutant: no sign extension
Shorthand(a, v) == a.size = 2 /\ (v < \h80 \/ v >= \hFF80)

EncodeAlu(n, a, b) ==
    LET word  == WordBit(a)
        short == Shorthand(a, b.value)
    IN  CASE IsMem(b) -> <<8 * n + word + 2>> \o ModRM(b, a.reg)
          [] IsReg(b) -> <<8 * n + word>> \o ModRM(a, b.reg)
          [] IsImm(b) /\ Accumulator(a) /\ ~short ->
                 <<8 * n + 4 + word>> \o Imm(b.value, word)
          [] OTHER -> <<\h80 + word + (IF short THEN 2 ELSE 0)>> \o ModRM(a, n)
                      \o Imm(b.value, IF short THEN 0 ELSE word)

EncodeTest(a, b) ==
    LET word == WordBit(a)
    IN  CASE IsReg(b) -> <<\h84 + word>> \o ModRM(a, b.reg)
          [] IsImm(b) /\ Accumulator(a) -> <<\hA8 + word>> \o Imm(b.value, word)
          [] OTHER -> <<\hF6 + word>> \o ModRM(a, 0) \o Imm(b.value, word)

(* Mutant: of two registers the first one in the reg field.                *)
XchgFormTurning(a, b) ==
    <<\h86 + WordBit(a)>> \o (IF IsReg(a) THEN RmReg(b, a.reg) ELSE MemRegFar(a, b.reg))

XchgForm(a, b) ==
    <<\h86 + WordBit(a)>> \o (IF IsReg(a) THEN RmReg(a, b.reg) ELSE MemRegFar(a, b.reg))

EncodeXchg(a, b) ==
    LET word == WordBit(a)
    IN  CASE IsReg(a) /\ word = 1 /\ a.reg = AX -> <<\h90 + b.reg>>
          [] IsReg(a) /\ word = 1 /\ a.reg # AX /\ b.reg = AX -> <<\h90 + a.reg>>
          [] OTHER -> XchgForm(a, b)

EncodeMov(a, b) ==
    LET word == WordBit(a)
    IN  CASE IsReg(a) /\ IsReg(b) -> <<\h88 + word>> \o ModRM(a, b.reg)
          [] IsReg(a) /\ IsImm(b) -> <<\hB0 + 8 * word + a.reg>> \o Imm(b.value, word)
          [] IsMem(a) /\ IsImm(b) -> <<\hC6 + word>> \o ModRM(a, 0) \o Imm(b.value, word)
          [] IsMem(a) /\ IsReg(b) ->
                 IF Direct(a) /\ Accumulator(b) THEN <<\hA2 + word>> \o Word(a.base)
                 ELSE <<\h88 + word>> \o ModRM(a, b.reg)
          [] IsReg(a) /\ IsMem(b) ->
                 IF Direct(b) /\ Accumulator(a) THEN <<\hA0 + word>> \o Word(b.base)
                 ELSE <<\h8A + word>> \o ModRM(b, a.reg)
          [] a.kind = "sreg" -> <<\h8E>> \o ModRM(b, a.reg)
          [] b.kind = "sreg" -> <<\h8C>> \o ModRM(a, b.reg)

EncodePush(a) ==
    CASE IsReg(a) -> <<\h50 + a.reg>>
      [] IsMem(a) -> <<\hFF>> \o ModRM(a, 6)
      [] a.kind = "sreg" -> <<8 * a.reg + 6>>

EncodePop(a) ==
    CASE IsReg(a) -> <<\h58 + a.reg>>
      [] IsMem(a) -> <<\h8F>> \o ModRM(a, 0)
      [] a.kind = "sreg" -> <<8 * a.reg + 7>>

(* INC (n = 0) and DEC (n = 1).                                            *)
EncodeIncDec(n, a) ==
    IF IsReg(a) /\ WordBit(a) = 1 THEN <<\h40 + 8 * n + a.reg>>
    ELSE <<\hFE + WordBit(a)>> \o ModRM(a, n)

(* LEA, LDS and LES have memory forms only.                                *)
EncodeLoad(code, a, b) == IF IsMem(b) THEN <<code>> \o ModRM(b, a.reg) ELSE << >>

EncodeShift(n, a, b) ==
    LET word == WordBit(a)
    IN  CASE IsReg(b) -> <<\hD2 + word>> \o ModRM(a, n)
          [] IsImm(b) /\ b.value = 1 -> <<\hD0 + word>> \o ModRM(a, n)
          [] IsImm(b) /\ b.value # 1 -> <<\hC0 + word>> \o ModRM(a, n) \o <<ByteOf(b.value)>>

EncodeIn(a, b) ==
    IF IsReg(b) THEN <<\hEC + WordBit(a)>> ELSE <<\hE4 + WordBit(a), ByteOf(b.value)>>
EncodeOut(a, b) ==
    IF IsReg(a) THEN <<\hEE + WordBit(b)>> ELSE <<\hE6 + WordBit(b), ByteOf(a.value)>>

EncodeInt(a) == IF a.value = 3 THEN <<\hCC>> ELSE <<\hCD, ByteOf(a.value)>>

-----------------------------------------------------------------------------
(* Transfers of control.  Targets are absolute in the structure and        *)
(* relative in the encoding: delta is from the start of the instruction,   *)
(* with 32 bits.  A jump the encoder takes for too far gets a 0x66 prefix  *)
(* and 32 bits.                                                            *)
Near(delta) == InWord(delta - 5)

EncodeIndirectJump(n, a) == <<\hFF>> \o ModRM(a, n)

EncodeNear(code, delta) ==
    IF Near(delta) THEN <<code>> \o Word(delta - 3)
    ELSE <<\h66, code>> \o Dword(delta - 6)

(* Mutant: no short form.                                                  *)
EncodeJmpLong(a, ip) ==
    IF ~IsImm(a) THEN EncodeIndirectJump(4, a) ELSE EncodeNear(\hE9, a.value - ip)

EncodeJmp(a, ip) ==
    CASE ~IsImm(a) -> EncodeIndirectJump(4, a)
      [] IsImm(a) /\ InByte(a.value - ip - 2) -> <<\hEB, ByteOf(a.value - ip - 2)>>
      [] OTHER -> EncodeNear(\hE9, a.value - ip)

(* There is no short CALL.                                                 *)
EncodeCall(a, ip) ==
    IF ~IsImm(a) THEN EncodeIndirectJump(2, a) ELSE EncodeNear(\hE8, a.value - ip)

EncodeFar(code, n, a) ==
    IF IsMem(a) THEN <<\hFF>> \o MemRegFar(a, n)
    ELSE <<code>> \o Word(a.value) \o Word(a.segval)

(* Jcc has a form with a longer displacement from the 386 on, which is     *)
(* what the encoder writes.                                                *)
EncodeJcc(n, delta) ==
    CASE InByte(delta - 2) -> <<\h70 + n, ByteOf(delta - 2)>>
      [] ~InByte(delta - 2) /\ Near(delta) -> <<\h0F, \h80 + n>> \o Word(delta - 4)
      [] OTHER -> <<\h66, \h0F, \h80 + n>> \o Dword(delta - 7)

EncodeLoop(code, delta) ==
    IF InByte(delta - 2) THEN <<code, ByteOf(delta - 2)>> ELSE << >>

EncodeReturn(code, argv) ==
    IF argv = << >> THEN <<code + 1>> ELSE <<code>> \o Word(argv[1].value)

-----------------------------------------------------------------------------
(* The FPU.                                                                *)
FpuNoOperand ==
    [F2XM1 |-> \hF0, FABS |-> \hE1, FCHS |-> \hE0, FCOS |-> \hFF, FDECSTP |-> \hF6,
     FINCSTP |-> \hF7, FLD1 |-> \hE8, FLDL2T |-> \hE9, FLDL2E |-> \hEA, FLDPI |-> \hEB,
     FLDLG2 |-> \hEC, FLDLN2 |-> \hED, FLDZ |-> \hEE, FNOP |-> \hD0, FPATAN |-> \hF3,
     FPREM |-> \hF8, FPREM1 |-> \hF5, FPTAN |-> \hF2, FRNDINT |-> \hFC, FSCALE |-> \hFD,
     FSIN |-> \hFE, FSINCOS |-> \hFB, FSQRT |-> \hFA, FTST |-> \hE4, FXAM |-> \hE5,
     FXTRACT |-> \hF4, FYL2X |-> \hF1, FYL2XP1 |-> \hF9]

FpuControl == [FCLEX |-> \hE2, FDISI |-> \hE1, FENI |-> \hE0, FINIT |-> \hE3]

(* FADD to FDIVR: with two registers the one that is not st(0) is encoded. *)
EncodeFpuArith(n, a, b) ==
    CASE IsST(b) /\ a.reg # 0               -> <<\hDC>> \o ModRM(a, n)
      [] IsST(b) /\ a.reg = 0 /\ b.reg # 0 -> <<\hD8>> \o ModRM(b, n)
      [] IsST(b) /\ a.reg = 0 /\ b.reg = 0 -> << >>
      [] IsMem(b) -> <<IF b.size >= 8 THEN \hDC ELSE \hD8>> \o ModRM(b, n)

EncodeFpuPop(n, a) == <<\hDE>> \o ModRM(a, n)
EncodeFpuInt(n, a) == <<IF a.size >= 4 THEN \hDA ELSE \hDE>> \o ModRM(a, n)

(* The stack registers: escape and reg field.                              *)
FpuStackCode == [FLD |-> <<\hD9, 0>>, FXCH |-> <<\hD9, 1>>, FFREE |-> <<\hDD, 0>>,
                 FST |-> <<\hDD, 2>>, FSTP |-> <<\hDD, 3>>, FUCOM |-> <<\hDD, 4>>,
                 FUCOMP |-> <<\hDD, 5>>]

(* Loads and stores of memory: escape and reg field by operand size.       *)
FpuMemCode(op, size) ==
    CASE op = "FLD" /\ size = 10 -> <<\hDB, 5>>
      [] op = "FSTP" /\ size = 10 -> <<\hDB, 7>>
      [] op \in {"FLD", "FST", "FSTP"} /\ size < 10 ->
             <<IF size = 8 THEN \hDD ELSE \hD9, [FLD |-> 0, FST |-> 2, FSTP |-> 3][op]>>
      [] op = "FILD" /\ size = 8 -> <<\hDF, 5>>
      [] op = "FISTTP" /\ size = 8 -> <<\hDD, 1>>
      [] op \in {"FIST", "FISTP"} \/ (op \in {"FILD", "FISTTP"} /\ size < 8) ->
             <<IF size = 4 THEN \hDB ELSE \hDF,
               [FILD |-> 0, FISTTP |-> 1, FIST |-> 2, FISTP |-> 3][op]>>
      [] op \in {"FBLD", "FBSTP"} -> <<\hDF, IF op = "FBLD" THEN 4 ELSE 6>>
      [] op \in {"FRSTOR", "FSAVE", "FSTSW"} ->
             <<\hDD, [FRSTOR |-> 4, FSAVE |-> 6, FSTSW |-> 7][op]>>
      [] op \in {"FLDENV", "FLDCW", "FSTENV", "FSTCW"} ->
             <<\hD9, [FLDENV |-> 4, FLDCW |-> 5, FSTENV |-> 6, FSTCW |-> 7][op]>>

(* Which operand is taken: FLD and the integer loads and stores skip a     *)
(* leading st(0), FBLD and FBSTP expect it, the others take the first.     *)
SkipsST0 == {"FLD", "FILD", "FIST", "FISTP", "FISTTP", "FBLD", "FBSTP"}

EncodeFpuMove(op, argv) ==
    LET a == IF op \in SkipsST0 /\ Len(argv) = 2 THEN argv[2] ELSE argv[1]
        code == IF IsST(a) THEN FpuStackCode[op] ELSE FpuMemCode(op, a.size)
    IN  IF IsReg(a) THEN <<\hDF>> \o ModRM(a, 4) ELSE <<code[1]>> \o ModRM(a, code[2])

FpuMoves == DOMAIN FpuStackCode
            \cup {"FILD", "FIST", "FISTP", "FISTTP", "FBLD", "FBSTP", "FRSTOR", "FSAVE",
                  "FSTSW", "FLDENV", "FLDCW", "FSTENV", "FSTCW"}

-----------------------------------------------------------------------------
(* The switch of minx86enc_encodeall.                                      *)
OneByteCode ==
    [DAA |-> \h27, DAS |-> \h2F, AAA |-> \h37, AAS |-> \h3F, CBW |-> \h98, CWD |-> \h99,
     FWAIT |-> \h9B, PUSHF |-> \h9C, POPF |-> \h9D, SAHF |-> \h9E, LAHF |-> \h9F,
     INTO |-> \hCE, IRET |-> \hCF, SALC |-> \hD6, XLAT |-> \hD7, HLT |-> \hF4, CMC |-> \hF5,
     CLC |-> \hF8, STC |-> \hF9, CLI |-> \hFA, STI |-> \hFB, CLD |-> \hFC, STD |-> \hFD,
     NOP |-> \h90]

StringCode == [MOVS |-> \hA4, CMPS |-> \hA6, STOS |-> \hAA, LODS |-> \hAC, SCAS |-> \hAE]
LoadCode   == [LEA |-> \h8D, LES |-> \hC4, LDS |-> \hC5]
Group3Code == [NOT |-> 2, NEG |-> 3, MUL |-> 4, IMUL |-> 5, DIV |-> 6, IDIV |-> 7]
FpuPopCode == [FADDP |-> 0, FMULP |-> 1, FSUBP |-> 4, FSUBRP |-> 5, FDIVP |-> 6, FDIVRP |-> 7]

(* The index of a mnemonic in one of the tables whose order is that of the *)
(* MXOP_ numbers or of the reg field the case names.                       *)
In(table, op)    == \E k \in DOMAIN table : table[k] = op
Index(table, op) == (CHOOSE k \in DOMAIN table : table[k] = op) - 1

EncodeInteger(i) ==
    LET op == i.op
        a  == i.argv[1]
        b  == i.argv[2]
    IN  CASE In(Alu, op)    -> EncodeAlu(Index(Alu, op), a, b)
          [] op \in ShiftOps -> EncodeShift(Index(Shifts, op), a, b)
          [] op \in DOMAIN Group3Code -> <<\hF6 + WordBit(a)>> \o ModRM(a, Group3Code[op])
          [] op \in DOMAIN LoadCode   -> EncodeLoad(LoadCode[op], a, b)
          [] op \in DOMAIN StringCode -> <<StringCode[op] + WordBit(a)>>
          [] op \in {"INC", "DEC"} -> EncodeIncDec(IF op = "INC" THEN 0 ELSE 1, a)
          [] op = "TEST" -> EncodeTest(a, b)
          [] op = "XCHG" -> EncodeXchg(a, b)
          [] op = "MOV"  -> EncodeMov(a, b)
          [] op = "PUSH" -> EncodePush(a)
          [] op = "POP"  -> EncodePop(a)
          [] op = "IN"   -> EncodeIn(a, b)
          [] op = "OUT"  -> EncodeOut(a, b)
          [] op = "INT"  -> EncodeInt(a)
          [] op \in {"AAM", "AAD"} -> <<IF op = "AAM" THEN \hD4 ELSE \hD5, ByteOf(a.value)>>

EncodeTransfer(i, ip) ==
    LET op == i.op
        a  == i.argv[1]
    IN  CASE In(Jcc, op)       -> EncodeJcc(Index(Jcc, op), a.value - ip)
          [] In(Loops, op)     -> EncodeLoop(\hE0 + Index(Loops, op), a.value - ip)
          [] op = "JMP"        -> EncodeJmp(a, ip)
          [] op = "CALL"       -> EncodeCall(a, ip)
          [] op = "JMP_FAR"    -> EncodeFar(\hEA, 5, a)
          [] op = "CALL_FAR"   -> EncodeFar(\h9A, 3, a)
          [] op = "RET"        -> EncodeReturn(\hC2, i.argv)
          [] op = "RETF"       -> EncodeReturn(\hCA, i.argv)

EncodeFpu(i) ==
    LET op == i.op
        a  == i.argv[1]
    IN  CASE In(FpuArith, op) -> EncodeFpuArith(Index(FpuArith, op), a, i.argv[2])
          [] In(FpuInt, op)   -> EncodeFpuInt(Index(FpuInt, op), a)
          [] op \in DOMAIN FpuPopCode   -> EncodeFpuPop(FpuPopCode[op], a)
          [] op \in DOMAIN FpuNoOperand -> <<\hD9, FpuNoOperand[op]>>
          [] op \in DOMAIN FpuControl   -> <<\hDB, FpuControl[op]>>
          [] op = "FUCOMPP"   -> <<\hDA, \hE9>>
          [] op \in FpuMoves  -> EncodeFpuMove(op, i.argv)

Transfers == {"JMP", "CALL", "RET", "RETF"} \cup FarOps
TransfersTo(op) == op \in Transfers \/ In(Jcc, op) \/ In(Loops, op)

FpuOps == {FpuArith[k] : k \in DOMAIN FpuArith} \cup {FpuInt[k] : k \in DOMAIN FpuInt}
          \cup DOMAIN FpuPopCode \cup DOMAIN FpuNoOperand \cup DOMAIN FpuControl
          \cup {"FUCOMPP"} \cup FpuMoves

(* MXOP_UD, MXOP_UD_NOP and FCOMPP have no case.                           *)
NoCase == {"UD", "UD_NOP", "FCOMPP"}

EncodeCase(i, ip) ==
    CASE i.op \in NoCase -> << >>
      [] i.op \in DOMAIN OneByteCode -> <<OneByteCode[i.op]>>
      [] i.op \in FpuOps   -> EncodeFpu(i)
      [] TransfersTo(i.op) -> EncodeTransfer(i, ip)
      [] OTHER             -> EncodeInteger(i)

AfterPrefixes(i, code) == IF code = << >> THEN << >> ELSE Prefixes(i) \o code

EncodeAll(i, ip) == AfterPrefixes(i, EncodeCase(i, ip))

-----------------------------------------------------------------------------
(* The transfers for which it writes what no 8086 decodes as one.          *)

(* A target further off than the 16-bit displacement, which is computed    *)
(* without wrapping: a 32-bit form follows, which the 8086 has not.        *)
Wraps(i, at) ==
    /\ i.op \in {"JMP", "CALL"} /\ IsImm(i.argv[1])
    /\ ~Near(i.argv[1].value - at)

(* A dropped prefix puts the target of a short jump out of its reach.      *)
Outreaches(i, at) ==
    /\ In(Jcc, i.op) \/ In(Loops, i.op)
    /\ ~InByte(i.argv[1].value - at - 2)
=============================================================================
