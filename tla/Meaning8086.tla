---------------------------- MODULE Meaning8086 ----------------------------
(***************************************************************************)
(* The instruction structure minx86dec_decode8086 fills in: ins->opcode    *)
(* (a mnemonic), the operands ins->argv, and the prefix fields.  FlatDecode *)
(* finds the fields of the encoding; this module says what the cases of    *)
(* the switch of src/x86_core.h make of them at core_level 0.              *)
(***************************************************************************)
EXTENDS Flat8086, MemoryOperand

AX == 0
CX == 1
DX == 2
ES == 0
CS == 1

(* Operands: struct minx86dec_argv of state.h, by regtype.  A size the     *)
(* case does not set is 0.  Memory references are kept modulo 2^16.        *)
RegArg(r, size) == [kind |-> "reg", reg |-> r, size |-> size]
SRegArg(r)      == [kind |-> "sreg", reg |-> r, size |-> 2]
STArg(r)        == [kind |-> "st", reg |-> r, size |-> 0]
ImmArg(v, size) == [kind |-> "imm", value |-> v, size |-> size]
FarArg(offset, segval) == [kind |-> "far", value |-> offset, segval |-> segval]

MemArg(regs, base, segment, size) ==
    [kind |-> "mem", regs |-> regs, base |-> base % 65536,
     segment |-> segment, size |-> size]

(* decode_rm_x86: the operand of a ModR/M byte and its displacement.       *)
RM(d, size) ==
    LET width == Displacement(d.rm)
        mem   == Decode16([mod |-> Mod(d.rm), rm |-> Rm(d.rm),
                           width |-> IF width = << >> THEN 0 ELSE width[1],
                           disp |-> IF width = << >> THEN 0
                                    ELSE IF width[1] = 1 THEN Signed(d.args[1], 8)
                                    ELSE d.args[1],
                           segment |-> d.segment])
    IN  IF Mod(d.rm) = 3
        THEN RegArg(Rm(d.rm), size)
        ELSE MemArg(mem.regs, mem.base, mem.segment, size)

RMReg(d, size) == RegArg(Reg(d.rm), size)
RMImm(d)     == d.args[Len(d.args)]

(* The operand size by the low bit of the opcode.                          *)
WidthOf(b) == 1 + (b % 2)

(* ins->argv with the two operands in the order bit 1 of the opcode says.  *)
Ordered(b, rm, reg) == IF (b \div 2) % 2 = 0 THEN <<rm, reg>> ELSE <<reg, rm>>

(* A relative jump: ip_value, plus what is consumed, plus the byte.        *)
ShortTarget(d, ip) == ImmArg(ip + d.len + Signed(d.args[1], 8), 2)
NearTarget(d, ip)  == ImmArg((ip + d.len + d.args[1]) % 65536, 2)

Segmented(d, default) == IF d.segment # NoSegment THEN d.segment ELSE default

-----------------------------------------------------------------------------
(* Mnemonics by position, as the MXOP_ numbers of opcodes.h are laid out.  *)
Alu    == <<"ADD", "OR", "ADC", "SBB", "AND", "SUB", "XOR", "CMP">>
Shifts == <<"ROL", "ROR", "RCL", "RCR", "SHL", "SHR", "UD_NOP", "SAR">>
Group3 == <<"TEST", "UD", "NOT", "NEG", "MUL", "IMUL", "DIV", "IDIV">>
Group5 == <<"INC", "DEC", "CALL", "CALL_FAR", "JMP", "JMP_FAR", "PUSH", "POP">>
Jcc    == <<"JO", "JNO", "JB", "JNB", "JZ", "JNZ", "JBE", "JA",
            "JS", "JNS", "JP", "JNP", "JL", "JGE", "JLE", "JG">>
Loops  == <<"LOOPNE", "LOOPE", "LOOP", "JCXZ">>

FpuArith  == <<"FADD", "FMUL", "FCOM", "FCOMP", "FSUB", "FSUBR", "FDIV", "FDIVR">>
FpuArithR == <<"FADD", "FMUL", "UD_NOP", "UD_NOP", "FSUBR", "FSUB", "FDIVR", "FDIV">>
FpuArithP == <<"FADDP", "FMULP", "UD_NOP", "FCOMPP", "FSUBP", "FSUBRP", "FDIVP", "FDIVRP">>
FpuInt    == <<"FIADD", "FIMUL", "FICOM", "FICOMP", "FISUB", "FISUBR", "FIDIV", "FIDIVR">>
FpuStack  == <<"FFREE", "UD_NOP", "FST", "FSTP", "FUCOM", "FUCOMP">>

(* Instructions without operands, by their (last) byte.                    *)
PlainOneByte ==
    [b \in {\h27, \h2F, \h37, \h3F, \h90, \hC3, \hCB} \cup \h98 .. \h99 \cup \h9B .. \h9F
           \cup \hCE .. \hCF \cup \hD6 .. \hD7 \cup \hF4 .. \hF5 \cup \hF8 .. \hFD |->
        CASE b < \h40           -> <<"DAA", "DAS", "AAA", "AAS">>[((b \div 8) % 4) + 1]
          [] b = \h90           -> "NOP"
          [] b \in \h98 .. \h99 -> <<"CBW", "CWD">>[b - \h97]
          [] b \in \h9B .. \h9F -> <<"FWAIT", "PUSHF", "POPF", "SAHF", "LAHF">>[b - \h9A]
          [] b = \hC3           -> "RET"
          [] b = \hCB           -> "RETF"
          [] b \in \hCE .. \hCF -> <<"INTO", "IRET">>[b - \hCD]
          [] b \in \hD6 .. \hD7 -> <<"SALC", "XLAT">>[b - \hD5]
          [] b \in \hF4 .. \hF5 -> <<"HLT", "CMC">>[b - \hF3]
          [] b \in \hF8 .. \hFD -> <<"CLC", "STC", "CLI", "STI", "CLD", "STD">>[b - \hF7]]

PlainFpu(x) ==
    CASE x = \hD0            -> "FNOP"
      [] x \in \hE0 .. \hE1  -> <<"FCHS", "FABS">>[x - \hDF]
      [] x \in \hE4 .. \hE5  -> <<"FTST", "FXAM">>[x - \hE3]
      [] x \in \hE8 .. \hEE  -> <<"FLD1", "FLDL2T", "FLDL2E", "FLDPI", "FLDLG2",
                                 "FLDLN2", "FLDZ">>[x - \hE7]
      [] x \in \hF0 .. \hFF  -> <<"F2XM1", "FYL2X", "FPTAN", "FPATAN", "FXTRACT",
                "FPREM1", "FDECSTP", "FINCSTP", "FPREM", "FYL2XP1", "FSQRT",
                "FSINCOS", "FRNDINT", "FSCALE", "FSIN", "FCOS">>[x - \hEF]

PlainControl == <<"FENI", "FDISI", "FCLEX", "FINIT">>

(* FPU memory forms by escape: mnemonic and operand size by the reg field. *)
FpuMemory(b) ==
    CASE b = \hD9 -> << <<"FLD", 4>>, <<"UD_NOP", 0>>, <<"FST", 4>>, <<"FSTP", 4>>,
                       <<"FLDENV", 14>>, <<"FLDCW", 2>>, <<"FSTENV", 14>>, <<"FSTCW", 2>> >>
      [] b = \hDA -> [i \in 1 .. 8 |-> <<FpuInt[i], 4>>]
      [] b = \hDE -> [i \in 1 .. 8 |-> <<FpuInt[i], 2>>]
      [] b = \hDB -> << <<"FILD", 4>>, <<"FISTTP", 4>>, <<"FIST", 4>>, <<"FISTP", 4>>,
                       <<"UD_NOP", 0>>, <<"FLD", 10>>, <<"UD_NOP", 0>>, <<"FSTP", 10>> >>
      [] b = \hDD -> << <<"FLD", 8>>, <<"FISTTP", 8>>, <<"FST", 8>>, <<"FSTP", 8>>,
                       <<"FRSTOR", 108>>, <<"UD_NOP", 0>>, <<"FSAVE", 108>>, <<"FSTSW", 2>> >>
      [] b = \hDF -> << <<"FILD", 2>>, <<"FISTTP", 2>>, <<"FIST", 2>>, <<"FISTP", 2>>,
                       <<"FBLD", 10>>, <<"FILD", 8>>, <<"FBSTP", 10>>, <<"FISTP", 8>> >>

(* The escapes whose cases name st(0) as the first operand of the memory   *)
(* forms.                                                                  *)
NamesST0 == {\hD8, \hDB, \hDC, \hDF}

-----------------------------------------------------------------------------
(* The cases of the switch, by rows of the opcode map: mnemonic and        *)
(* operands for the fields d of an encoding whose opcode is d.lead.        *)

Rows0to3(d) ==
    LET b == d.lead
        n == (b \div 8) + 1
    IN  CASE b % 8 < 4 -> <<Alu[n], Ordered(b, RM(d, WidthOf(b)), RMReg(d, WidthOf(b)))>>
          [] b % 8 \in {4, 5} -> <<Alu[n], <<RegArg(AX, WidthOf(b)),
                                             ImmArg(d.args[1], WidthOf(b))>> >>
          [] b % 8 = 6 -> <<"PUSH", <<SRegArg(n - 1)>> >>
          [] b % 8 = 7 -> <<"POP", <<SRegArg(n - 1)>> >>

Rows4to7(d, ip) ==
    LET b == d.lead
    IN  CASE b \in \h40 .. \h47 -> <<"INC", <<RegArg(b % 8, 2)>> >>
          [] b \in \h48 .. \h4F -> <<"DEC", <<RegArg(b % 8, 2)>> >>
          [] b \in \h50 .. \h57 -> <<"PUSH", <<RegArg(b % 8, 2)>> >>
          [] b \in \h58 .. \h5F -> <<"POP", <<RegArg(b % 8, 2)>> >>
          [] b \in \h70 .. \h7F -> <<Jcc[(b % 16) + 1], <<ShortTarget(d, ip)>> >>

Row8(d) ==
    LET b == d.lead
        w == WidthOf(b)
    IN  CASE b \in \h80 .. \h82 ->
               <<Alu[Reg(d.rm) + 1], <<RM(d, w), ImmArg(RMImm(d), w)>> >>
          [] b = \h83 ->
               <<Alu[Reg(d.rm) + 1], <<RM(d, 2), ImmArg(Signed(RMImm(d), 8), 2)>> >>
          [] b \in \h84 .. \h85 -> <<"TEST", <<RM(d, w), RMReg(d, w)>> >>
          [] b \in \h86 .. \h87 -> <<"XCHG", <<RM(d, w), RMReg(d, w)>> >>
          [] b \in \h88 .. \h8B -> <<"MOV", Ordered(b, RM(d, w), RMReg(d, w))>>
          [] b \in {\h8C, \h8E} -> <<"MOV", Ordered(b, RM(d, 2), SRegArg(Reg(d.rm)))>>
          [] b = \h8D -> <<"LEA", <<RMReg(d, 2), RM(d, 2)>> >>
          [] b = \h8F -> <<"POP", <<RM(d, 2)>> >>

(* The string instructions: DS:SI, which an override moves, and ES:DI.     *)
StringSource(d, size) == MemArg(<<SI>>, 0, Segmented(d, DS), size)
StringDest(size)      == MemArg(<<DI>>, 0, ES, size)

Rows9toB(d) ==
    LET b == d.lead
        w == WidthOf(b)
    IN  CASE b \in \h91 .. \h97 -> <<"XCHG", <<RegArg(AX, 2), RegArg(b % 8, 2)>> >>
          [] b = \h9A -> <<"CALL_FAR", <<FarArg(d.args[1], d.args[2])>> >>
          [] b \in \hA0 .. \hA3 ->
               <<"MOV", Ordered(b, RegArg(AX, w),
                                MemArg(<< >>, d.args[1], Segmented(d, DS), w))>>
          [] b \in \hA4 .. \hA5 -> <<"MOVS", <<StringDest(w), StringSource(d, w)>> >>
          [] b \in \hA6 .. \hA7 -> <<"CMPS", <<StringDest(w), StringSource(d, w)>> >>
          [] b \in \hA8 .. \hA9 -> <<"TEST", <<RegArg(AX, w), ImmArg(d.args[1], w)>> >>
          [] b \in \hAA .. \hAB -> <<"STOS", <<StringDest(w)>> >>
          [] b \in \hAC .. \hAD -> <<"LODS", <<StringSource(d, w)>> >>
          [] b \in \hAE .. \hAF -> <<"SCAS", <<StringDest(w)>> >>
          [] b \in \hB0 .. \hB7 -> <<"MOV", <<RegArg(b % 8, 1), ImmArg(d.args[1], 1)>> >>
          [] b \in \hB8 .. \hBF -> <<"MOV", <<RegArg(b % 8, 2), ImmArg(d.args[1], 2)>> >>

RowsCtoD(d) ==
    LET b == d.lead
        w == WidthOf(b)
    IN  CASE b \in \hC0 .. \hC1 ->
               <<Shifts[Reg(d.rm) + 1], <<RM(d, w), ImmArg(RMImm(d), 1)>> >>
          [] b \in \hD0 .. \hD1 ->
               <<Shifts[Reg(d.rm) + 1], <<RM(d, w), ImmArg(1, 1)>> >>
          [] b \in \hD2 .. \hD3 ->
               <<Shifts[Reg(d.rm) + 1], <<RM(d, w), RegArg(CX, 1)>> >>
          [] b = \hC2 -> <<"RET", <<ImmArg(d.args[1], 2)>> >>
          [] b = \hCA -> <<"RETF", <<ImmArg(d.args[1], 0)>> >>
          [] b = \hC4 -> <<"LES", <<RMReg(d, 2), RM(d, 4)>> >>
          [] b = \hC5 -> <<"LDS", <<RMReg(d, 2), RM(d, 4)>> >>
          [] b \in \hC6 .. \hC7 -> <<"MOV", <<RM(d, w), ImmArg(RMImm(d), w)>> >>
          [] b = \hCC -> <<"INT", <<ImmArg(3, 0)>> >>
          [] b = \hCD -> <<"INT", <<ImmArg(d.args[1], 0)>> >>
          [] b = \hD4 -> <<"AAM", <<ImmArg(d.args[1], 1)>> >>
          [] b = \hD5 -> <<"AAD", <<ImmArg(d.args[1], 1)>> >>

RowE(d, ip) ==
    LET b == d.lead
        w == WidthOf(b)
    IN  CASE b \in \hE0 .. \hE3 -> <<Loops[b - \hE0 + 1], <<ShortTarget(d, ip)>> >>
          [] b \in \hE4 .. \hE5 -> <<"IN", <<RegArg(AX, w), ImmArg(d.args[1], 0)>> >>
          [] b \in \hE6 .. \hE7 -> <<"OUT", <<ImmArg(d.args[1], 0), RegArg(AX, w)>> >>
          [] b = \hE8 -> <<"CALL", <<NearTarget(d, ip)>> >>
          [] b = \hE9 -> <<"JMP", <<NearTarget(d, ip)>> >>
          [] b = \hEA -> <<"JMP_FAR", <<FarArg(d.args[1], d.args[2])>> >>
          [] b = \hEB -> <<"JMP", <<ShortTarget(d, ip)>> >>
          [] b \in \hEC .. \hED -> <<"IN", <<RegArg(AX, w), RegArg(DX, 2)>> >>
          [] b \in \hEE .. \hEF -> <<"OUT", <<RegArg(DX, 2), RegArg(AX, w)>> >>

RowF(d) ==
    LET w   == WidthOf(d.lead)
        far == Reg(d.rm) \in {3, 5}
    IN  CASE d.lead \in \hF6 .. \hF7 ->
               <<Group3[Reg(d.rm) + 1],
                 <<RM(d, w)>> \o (IF Reg(d.rm) = 0 THEN <<ImmArg(RMImm(d), w)>> ELSE << >>)>>
          [] d.lead \in \hFE .. \hFF ->
               <<Group5[Reg(d.rm) + 1], <<RM(d, IF far THEN w + 2 ELSE w)>> >>

(* The escapes.  The forms with a register after 0xDC and 0xDE have st(0)  *)
(* second; of 0xDE only FCOMPP has not.                                    *)
FpuRegisterForm(d) ==
    LET b  == d.lead
        x  == d.fpu
        st == STArg(x % 8)
    IN  CASE b = \hD8 -> <<FpuArith[Reg(x) + 1], <<STArg(0), st>> >>
          [] b = \hDC -> <<FpuArithR[Reg(x) + 1], <<st, STArg(0)>> >>
          [] b = \hDE -> <<FpuArithP[Reg(x) + 1],
                           IF Reg(x) = 3 THEN <<STArg(0), st>> ELSE <<st, STArg(0)>> >>
          [] b = \hD9 /\ Reg(x) = 0 -> <<"FLD", <<st>> >>
          [] b = \hD9 /\ Reg(x) = 1 -> <<"FXCH", <<st>> >>
          [] b = \hD9 /\ Reg(x) > 1 -> <<PlainFpu(x), << >> >>
          [] b = \hDA -> <<"FUCOMPP", << >> >>
          [] b = \hDB -> <<PlainControl[x - \hDF], << >> >>
          [] b = \hDD -> <<FpuStack[Reg(x) + 1], <<st>> >>
          [] b = \hDF -> <<"FSTSW", <<RegArg(AX, 2)>> >>

FpuMemoryForm(d) ==
    LET b    == d.lead
        form == IF b \in {\hD8, \hDC}
                THEN <<FpuArith[Reg(d.rm) + 1], IF b = \hD8 THEN 4 ELSE 8>>
                ELSE FpuMemory(b)[Reg(d.rm) + 1]
    IN  <<form[1], (IF b \in NamesST0 THEN <<STArg(0)>> ELSE << >>) \o <<RM(d, form[2])>> >>

Escape(d) == IF d.rm = NoByte THEN FpuRegisterForm(d) ELSE FpuMemoryForm(d)

Case(d, ip) ==
    LET b == d.lead
    IN  CASE d.op = "UD_NOP"               -> <<"UD_NOP", << >> >>
          [] d.op = "OK" /\ b \in DOMAIN PlainOneByte -> <<PlainOneByte[b], << >> >>
          [] d.op = "OK" /\ b \in FPUEscapes -> Escape(d)
          [] OTHER -> CASE b < \h40           -> Rows0to3(d)
                        [] b \in \h40 .. \h7F -> Rows4to7(d, ip)
                        [] b \in \h80 .. \h8F -> Row8(d)
                        [] b \in \h90 .. \hBF -> Rows9toB(d)
                        [] b \in \hC0 .. \hDF -> RowsCtoD(d)
                        [] b \in \hE0 .. \hEF -> RowE(d, ip)
                        [] b \in \hF0 .. \hFF -> RowF(d)

(* minx86dec_decode8086 of the bytes s at ip_value ip.                     *)
Meaning(s, ip) ==
    LET d == FlatDecode(s)
        c == Case(d, ip)
    IN  [op |-> c[1], argv |-> c[2], segment |-> d.segment, lock |-> d.lock,
         rep |-> d.rep, fwait |-> d.fwait, len |-> d.len]
=============================================================================
