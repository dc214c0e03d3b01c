----------------------------- MODULE Meaning386 -----------------------------
(***************************************************************************)
(* What minx86dec_decodeall (src/coreall.c, src/x86_core.h at core_level   *)
(* 99) makes of the two- and three-byte opcodes, those that begin with     *)
(* 0x0F, in 16- and in 32-bit mode.  It has in addition the one-byte       *)
(* opcodes the encoder writes for such an instruction.  Displacements of   *)
(* four bytes are kept as signed numbers, as MemoryOperand does.           *)
(***************************************************************************)
EXTENDS Meaning8086, FiniteSets, TLC

Mode == {0, 1}      \* state->data32 and state->addr32, which agree

-----------------------------------------------------------------------------
(* Prefixes.                                                               *)

DataPrefix == \h66
AddrPrefix == \h67
FS == 4
GS == 5

Segments386 == SegOverrides \cup {\h64, \h65}
Segment386(b) == IF b \in {\h64, \h65} THEN FS + (b % 2) ELSE SegmentOf(b)

PrefixAt386(s, i) ==
    \/ s[i] \in Segments386 \cup LockPrefixes \cup RepPrefixes \cup {DataPrefix, AddrPrefix}
    \/ s[i] = WaitOpcode /\ i < Len(s) /\ s[i + 1] \in {DataPrefix, AddrPrefix}

Prefixes386(s) ==
    LET n == CHOOSE n \in 0 .. Len(s) : /\ n < Len(s) => ~PrefixAt386(s, n + 1)
                                        /\ \A i \in 1 .. n : PrefixAt386(s, i)
    IN  SubSeq(s, 1, n)

Occurrences(p, b) == Cardinality({i \in DOMAIN p : p[i] = b})

LastOf(p, kind) ==
    LET at == {i \in DOMAIN p : p[i] \in kind}
    IN  IF at = {} THEN NoByte ELSE p[CHOOSE i \in at : \A j \in at : j <= i]

(* The prefix fields of the instruction.  ins->data32 is turned over by    *)
(* every 0x66, and dataprefix32 counts them.  An override by FS or GS does *)
(* not go into argv[].segment, which is "given".                           *)
PrefixFields(p, mode) ==
    LET override == LastOf(p, Segments386)
        given    == LastOf(p, SegOverrides)
        repeat   == LastOf(p, RepPrefixes)
    IN  [data    |-> Occurrences(p, DataPrefix),
         data32  |-> (mode + Occurrences(p, DataPrefix)) % 2,
         addr32  |-> (mode + Occurrences(p, AddrPrefix)) % 2,
         segment |-> IF override = NoByte THEN NoSegment ELSE Segment386(override),
         given   |-> IF given = NoByte THEN ES ELSE SegmentOf(given),
         rep     |-> IF repeat = NoByte THEN 0 ELSE RepOf(repeat),
         lock    |-> IF Occurrences(p, \hF0) > 0 THEN 1 ELSE 0,
         fwait   |-> IF Occurrences(p, WaitOpcode) > 0 THEN 1 ELSE 0]

(* d: the prefix fields p, the opcode bytes and what follows them.         *)
OpcodeLength(rest) == IF rest[1] # \h0F THEN 1 ELSE IF rest[2] \in {\h38, \h3A} THEN 3 ELSE 2

Split(prefixes, rest, size, mode) ==
    [p |-> PrefixFields(prefixes, mode), skipped |-> Len(prefixes) + size,
     opcode |-> SubSeq(rest, 1, size), tail |-> SubSeq(rest, size + 1, Len(rest))]

After(s, prefixes) == SubSeq(s, Len(prefixes) + 1, Len(s))

-----------------------------------------------------------------------------
(* Operands.                                                               *)

DataSize(d) == IF d.p.data32 = 1 THEN 4 ELSE 2
AddrSize(d) == IF d.p.addr32 = 1 THEN 4 ELSE 2

RMByte(d) == d.tail[1]

SIBOf(d) ==
    LET m == RMByte(d)
    IN  IF AddrSize(d) = 4 /\ Mod(m) # 3 /\ Rm(m) = 4
        THEN <<Mod(d.tail[2]), Reg(d.tail[2]), Rm(d.tail[2])>> ELSE NoSIB

WidthOfDisp(d) ==
    IF Mod(RMByte(d)) = 3 THEN 0
    ELSE DispWidth(AddrSize(d), Mod(RMByte(d)), Rm(RMByte(d)), SIBOf(d))

BeforeDisp(d) == IF SIBOf(d) = NoSIB THEN 1 ELSE 2

SignedAt(s, c, width) ==
    CASE width = 1 -> Signed(s[c + 1], 8)
      [] width = 2 -> Signed(ValueAt(s, c, 2), 16)
      [] width = 4 -> ValueAt(s, c, 2) + 65536 * Signed(ValueAt(s, c + 2, 2), 16)

(* decode_rm_ with ins->addr32; "wide" is a->memregsz.  The size is that   *)
(* of the instruction.                                                     *)
EncodedRM(d, width) ==
    [mod |-> Mod(RMByte(d)), rm |-> Rm(RMByte(d)), sib |-> SIBOf(d), width |-> width,
     disp |-> IF width = 0 THEN 0 ELSE SignedAt(d.tail, BeforeDisp(d), width),
     segment |-> d.p.segment]
RMArg(a, wide) ==
    [kind |-> "mem", size |-> 0, wide |-> wide, regs |-> a.regs, scalar |-> a.scalar,
     base |-> IF wide = 2 THEN a.base % 65536 ELSE a.base, segment |-> a.segment]

(* d with what the ModR/M byte would be as a memory operand, and how many  *)
(* bytes it and what belongs to it take.                                   *)
AddRM(d, wide, width) ==
    [mem |-> RMArg(Decode(wide, EncodedRM(d, width)), wide),
     rmLength |-> BeforeDisp(d) + width]
    @@ d
WithRM(d) == AddRM(d, AddrSize(d), WidthOfDisp(d))

Parts(prefixes, rest, mode) == Split(prefixes, rest, OpcodeLength(rest), mode)
Opened(s, prefixes, mode)   == WithRM(Parts(prefixes, After(s, prefixes), mode))

InRM(d, kind, size)  == IF Mod(RMByte(d)) = 3
                        THEN [kind |-> kind, reg |-> Rm(RMByte(d)), size |-> size]
                        ELSE [d.mem EXCEPT !.size = size]
InReg(d, kind, size) == [kind |-> kind, reg |-> Reg(RMByte(d)), size |-> size]
RegisterOnly(d)      == Mod(RMByte(d)) = 3

(* What a case of the switch assigns: the opcode, the operands, and the    *)
(* bytes it fetches after the opcode.                                      *)
Undefined    == [op |-> "UD", argv |-> << >>, fetched |-> 0]
Bare(op)     == [op |-> op, argv |-> << >>, fetched |-> 0]
Peeked(op)   == [op |-> op, argv |-> << >>, fetched |-> 1]
Form(d, op, argv) == [op |-> op, argv |-> argv, fetched |-> d.rmLength]

(* The same with n immediate bytes of the given size.                      *)
ByteAfter(d, k, size) == ImmArg(d.tail[d.rmLength + k], size)
FormImm(d, op, argv) ==
    [op |-> op, argv |-> Append(argv, ByteAfter(d, 1, 1)), fetched |-> d.rmLength + 1]
FormImms(d, op, argv) ==
    [op |-> op, argv |-> argv \o <<ByteAfter(d, 1, 1), ByteAfter(d, 2, 1)>>,
     fetched |-> d.rmLength + 2]

Gpr(d, size) == <<InReg(d, "reg", size), InRM(d, "reg", size)>>
Sse(d)       == <<InReg(d, "sse", 16), InRM(d, "sse", 16)>>

(* MMX registers, or with 0x66 SSE registers.                              *)
PackedKind(d) == IF d.p.data > 0 THEN "sse" ELSE "mmx"
PackedSize(d) == IF d.p.data > 0 THEN 16 ELSE 8
Packed(d) ==
    <<InReg(d, PackedKind(d), PackedSize(d)), InRM(d, PackedKind(d), PackedSize(d))>>

Turned(argv)      == <<argv[2], argv[1]>>
TurnedIf(b, argv) == IF b THEN Turned(argv) ELSE argv
Odd(b)            == b % 2 = 1

(* Two ways the cases look at dataprefix32.                                *)
IfDataOnce(d, op, other) == IF d.p.data = 1 THEN op ELSE other   \* mutant: one, and no more
IfData(d, op, other)  == IF d.p.data > 0 THEN op ELSE other
IfOdd(d, op, other)   == IF Odd(d.p.data) THEN op ELSE other
REPE  == 1      \* 0xF2
REPNE == 2      \* 0xF3
ByRep(d, repe, repne, none) == <<none, repe, repne>>[d.p.rep + 1]

-----------------------------------------------------------------------------
(* 0F 00 to 0F 0F.                                                         *)

TaskTables == <<"SLDT", "STR", "LLDT", "LTR", "VERR", "VERW", "JMPX", "UD">>

(* 0F 01 with a following byte that would be a register form.              *)
MonitorCode ==
    [b \in {\hC1, \hC2, \hC3} |-> <<"VMCALL", "VMLAUNCH", "VMRESUME">>[b - \hC0]]
    @@ (\hC4 :> "VMXOFF") @@ (\hC8 :> "MONITOR") @@ (\hC9 :> "MWAIT")
    @@ (\hD0 :> "XGETBV") @@ (\hD1 :> "XSETBV") @@ (\hD9 :> "VMMCALL")
    @@ (\hDB :> "VMSAVE") @@ (\hDC :> "STGI") @@ (\hDD :> "CLGI")
    @@ (\hF8 :> "SWAPGS") @@ (\hF9 :> "RDTSCP")

OnEAX == (\hD8 :> "VMRUN") @@ (\hDA :> "VMLOAD") @@ (\hDE :> "SKINIT")
EAX == RegArg(AX, 4)
ECX == RegArg(CX, 4)

DescriptorTables(d) ==
    LET reg == Reg(RMByte(d))
        rm(size) == <<InRM(d, "reg", size)>>
    IN  CASE reg < 4 /\ ~RegisterOnly(d) ->
               Form(d, <<"SGDT", "SIDT", "LGDT", "LIDT">>[reg + 1], rm(6))
          [] reg = 4 -> Form(d, "SMSW", rm(2))
          [] reg = 6 -> Form(d, "LMSW", rm(2))
          [] reg = 7 -> Form(d, "INVLPG", rm(4))
          [] OTHER   -> Undefined

Group01(d) ==
    LET b == RMByte(d)
    IN  CASE b \in DOMAIN MonitorCode -> Peeked(MonitorCode[b])
          [] b \in DOMAIN OnEAX       -> [Peeked(OnEAX[b]) EXCEPT !.argv = <<EAX>>]
          [] b = \hDF                 -> [Peeked("INVLPGA") EXCEPT !.argv = <<EAX, ECX>>]
          [] OTHER                    -> DescriptorTables(d)

(* 3DNow: the opcode follows the operands.                                 *)
Suffix3DNow ==
    (\h0C :> "PI2FW") @@ (\h0D :> "PI2FD") @@ (\h1C :> "PF2IW") @@ (\h1D :> "PF2ID")
    @@ (\h86 :> "PFRCPV") @@ (\h87 :> "PFRSQRTV") @@ (\h8A :> "PFNACC") @@ (\h8E :> "PFPNACC")
    @@ (\h90 :> "PFCMPGE") @@ (\h94 :> "PFMIN") @@ (\h96 :> "PFRCP") @@ (\h97 :> "PFRSQRT")
    @@ (\h9A :> "PFSUB") @@ (\h9E :> "PFADD") @@ (\hA0 :> "PFCMPGT") @@ (\hA4 :> "PFMAX")
    @@ (\hA6 :> "PFRCPIT1") @@ (\hA7 :> "PFRSQIT1") @@ (\hAA :> "PFSUBR") @@ (\hAE :> "PFACC")
    @@ (\hB0 :> "PFCMPEQ") @@ (\hB4 :> "PFMUL") @@ (\hB6 :> "PFRCPIT2") @@ (\hB7 :> "PMULHRWA")
    @@ (\hBB :> "PSWAPD") @@ (\hBF :> "PAVGUSB")

Now3D(d) ==
    LET suffix == d.tail[d.rmLength + 1]
    IN  IF suffix \notin DOMAIN Suffix3DNow THEN Undefined
        ELSE [Form(d, Suffix3DNow[suffix], <<InReg(d, "mmx", 8), InRM(d, "mmx", 8)>>)
              EXCEPT !.fetched = @ + 1]

Row0Bare == (\h05 :> "SYSCALL") @@ (\h06 :> "CLTS") @@ (\h07 :> "SYSRET") @@ (\h08 :> "INVD")
            @@ (\h09 :> "WBINVD") @@ (\h0B :> "UD2") @@ (\h0E :> "FEMMS")

TwoByteRow0(d) ==
    LET b   == d.opcode[2]
        reg == Reg(RMByte(d))
    IN  CASE b = \h00 -> IF reg = 7 THEN Undefined
                         ELSE Form(d, TaskTables[reg + 1], <<InRM(d, "reg", 2)>>)
          [] b = \h01 -> Group01(d)
          [] b = \h02 -> Form(d, "LAR", Gpr(d, DataSize(d)))
          [] b = \h03 -> Form(d, "LSL", Gpr(d, DataSize(d)))
          [] b = \h0D -> IF RegisterOnly(d) \/ reg > 1 THEN Undefined
                         ELSE Form(d, <<"PREFETCH", "PREFETCHW">>[reg + 1], <<InRM(d, "reg", 4)>>)
          [] b = \h0F -> Now3D(d)
          [] b \in DOMAIN Row0Bare -> Bare(Row0Bare[b])
          [] OTHER -> Undefined

-----------------------------------------------------------------------------
(* 0F 10 to 0F 2F.                                                         *)

(* The move to or from half an SSE register, with the size of the other.   *)
Half(d) == TurnedIf(Odd(d.opcode[2]), <<InReg(d, "sse", 16), InRM(d, "sse", 8)>>)

LowHalf(d) ==
    CASE d.p.rep = REPNE -> "MOVSLDUP"
      [] d.p.rep = REPE  -> "MOVDDUP"
      [] OTHER -> IfData(d, "MOVLPD", IF RegisterOnly(d) THEN "MOVHLPS" ELSE "MOVLPS")

HighHalf(d) ==
    IF d.p.rep = REPNE THEN "MOVSHDUP"
    ELSE IfData(d, "MOVHPD", IF RegisterOnly(d) THEN "MOVLHPS" ELSE "MOVHPS")

Unpack == <<"UNPCKLPS", "UNPCKLPD", "UNPCKHPS", "UNPCKHPD">>
Hints  == <<"PREFETCHNTA", "PREFETCHT0", "PREFETCHT1", "PREFETCHT2">>

TwoByteRow1(d) ==
    LET b   == d.opcode[2]
        reg == Reg(RMByte(d))
    IN  CASE b \in {\h10, \h11} ->
               Form(d, ByRep(d, "MOVSD", "MOVSS", IfData(d, "MOVUPD", "MOVUPS")),
                    TurnedIf(Odd(b), Sse(d)))
          [] b \in {\h12, \h13} -> Form(d, LowHalf(d), Half(d))
          [] b \in {\h14, \h15} -> Form(d, Unpack[2 * (b % 2) + (d.p.data % 2) + 1], Sse(d))
          [] b \in {\h16, \h17} -> Form(d, HighHalf(d), Half(d))
          [] b = \h18 /\ reg < 4 -> Form(d, Hints[reg + 1], <<InRM(d, "reg", 4)>>)
          [] b = \h1F /\ reg = 0 -> Form(d, "NOP", <<InRM(d, "reg", DataSize(d))>>)
          [] OTHER -> Undefined

(* MOV with a control, debug or test register: one byte follows, whatever  *)
(* its mod field.                                                          *)
SpecialMove(d, kind) ==
    [op |-> "MOV", fetched |-> 1,
     argv |-> TurnedIf((d.opcode[2] \div 2) % 2 = 1,
                       <<RegArg(Rm(RMByte(d)), 4), InReg(d, kind, 4)>>)]

(* A conversion whose integer side is a register, or an MMX register.      *)
FromInt(d) ==
    IF d.p.rep > 0 THEN InRM(d, "reg", 4) ELSE InRM(d, "mmx", 8)
ToInt(d) ==
    IF d.p.rep > 0 THEN InReg(d, "reg", 4) ELSE InReg(d, "mmx", 8)

TwoByteRow2(d) ==
    LET b     == d.opcode[2]
        toInt == <<ToInt(d), InRM(d, "sse", 16)>>
    IN  CASE b \in {\h20, \h22} -> SpecialMove(d, "cr")
          [] b \in {\h21, \h23} -> SpecialMove(d, "dr")
          [] b \in {\h24, \h26} -> SpecialMove(d, "tr")
          [] b \in {\h28, \h29} -> Form(d, IfOdd(d, "MOVAPD", "MOVAPS"), TurnedIf(Odd(b), Sse(d)))
          [] b = \h2A -> Form(d, ByRep(d, "CVTSI2SD", "CVTSI2SS", IfOdd(d, "CVTPI2PD", "CVTPI2PS")),
                              <<InReg(d, "sse", 16), FromInt(d)>>)
          [] b = \h2B -> Form(d, ByRep(d, "MOVNTSD", "MOVNTSS", IfOdd(d, "MOVNTPD", "MOVNTPS")),
                              Turned(Sse(d)))
          [] b = \h2C -> Form(d, ByRep(d, "CVTTSD2SI", "CVTTSS2SI",
                                          IfOdd(d, "CVTTPD2PI", "CVTTPS2PI")), toInt)
          [] b = \h2D -> Form(d, ByRep(d, "CVTSD2SI", "CVTSS2SI",
                                          IfOdd(d, "CVTPD2PI", "CVTPS2PI")), toInt)
          [] b = \h2E -> Form(d, IfData(d, "UCOMISD", "UCOMISS"), Sse(d))
          [] b = \h2F -> Form(d, IfData(d, "COMISD", "COMISS"), Sse(d))
          [] OTHER -> Undefined

-----------------------------------------------------------------------------
(* 0F 30 to 0F 3F, the opcodes of three bytes among them.                  *)

Row3Bare == (\h30 :> "WRMSR") @@ (\h31 :> "RDTSC") @@ (\h32 :> "RDMSR") @@ (\h33 :> "RDPMC")
            @@ (\h34 :> "SYSENTER") @@ (\h35 :> "SYSEXIT") @@ (\h37 :> "GETSEC")

(* MMX, or SSE with 0x66.                                                  *)
Packed38 ==
    [b \in \h00 .. \h0B |->
        <<"PSHUFB", "PHADDW", "PHADDD", "PHADDSW", "PMADDUBSW", "PHSUBW", "PHSUBD", "PHSUBSW",
          "PSIGNB", "PSIGNW", "PSIGND", "PMULHRSW">>[b + 1]]
    @@ [b \in \h1C .. \h1E |-> <<"PABSB", "PABSW", "PABSD">>[b - \h1B]]
    @@ [b \in \h20 .. \h25 |-> <<"PMOVSXBW", "PMOVSXBD", "PMOVSXBQ",
                                 "PMOVSXWD", "PMOVSXWQ", "PMOVSXDQ">>[b - \h1F]]
    @@ [b \in \h28 .. \h29 |-> <<"PMULDQ", "PCMPEQQ">>[b - \h27]]
    @@ [b \in \h30 .. \h35 |-> <<"PMOVZXBW", "PMOVZXBD", "PMOVZXBQ",
                                 "PMOVZXWD", "PMOVZXWQ", "PMOVZXDQ">>[b - \h2F]]

(* Only with 0x66.                                                         *)
Sse38 ==
    (\h17 :> "PTEST") @@ (\hDB :> "AESIMC")
    @@ [b \in \h37 .. \h41 |->
        <<"PCMPGTQ", "PMINSB", "PMINSD", "PMINUW", "PMINUD", "PMAXSB", "PMAXSD", "PMAXUW",
          "PMAXUD", "PMULLD", "PHMINPOSUW">>[b - \h36]]
    @@ [b \in \hDC .. \hDF |-> <<"AESENC", "AESENCLAST", "ASEDEC", "AESDECLAST">>[b - \hDB]]

XMM0 == [kind |-> "sse", reg |-> 0, size |-> 16]

(* With 0xF2, which is REPE here, CRC32, else MOVBE.                       *)
Crc32OrMovbe(d, b) ==
    IF d.p.rep = REPE
    THEN Form(d, "CRC32", <<InReg(d, "reg", 4),
                            InRM(d, "reg", IF Odd(b) THEN DataSize(d) ELSE 1)>>)
    ELSE Form(d, "MOVBE", TurnedIf(Odd(b), Gpr(d, DataSize(d))))

ThreeByte38(d) ==
    LET b   == d.opcode[3]
        has == d.p.data > 0
    IN  CASE b \in DOMAIN Packed38     -> Form(d, Packed38[b], Packed(d))
          [] has /\ b \in DOMAIN Sse38 -> Form(d, Sse38[b], Sse(d))
          [] has /\ b = \h10           -> Form(d, "PBLENDVB", Append(Sse(d), XMM0))
          [] b \in {\h14, \h15}        -> Form(d, IF Odd(b) THEN "BLENDVPD" ELSE "BLENDVPS",
                                               Append(Sse(d), XMM0))
          [] b = \h2A /\ has /\ d.p.rep = 0 -> Form(d, "MOVNTDQA", Sse(d))
          [] b = \h2B                  -> Form(d, "PACKUSDW", Sse(d))
          [] has /\ b \in {\h80, \h81} -> Form(d, IF Odd(b) THEN "INVVPID" ELSE "INVEPT", Gpr(d, 4))
          [] b \in {\hF0, \hF1}        -> Crc32OrMovbe(d, b)
          [] OTHER -> Undefined

Sse3A ==
    [b \in \h08 .. \h0E |-> <<"ROUNDPS", "ROUNDPD", "ROUNDSS", "ROUNDSD",
                              "BLENDPS", "BLENDPD", "PBLENDW">>[b - \h07]]
    @@ [b \in \h40 .. \h42 |-> <<"DPPS", "DPPD", "MPSADBW">>[b - \h3F]]
    @@ [b \in \h60 .. \h63 |-> <<"PCMPESTRM", "PCMPESTRI", "PCMPISTRM", "PCMPISTRI">>[b - \h5F]]
    @@ (\h21 :> "INSERTPS") @@ (\hDF :> "AESKEYGENASSIST")

Extract3A == (\h14 :> "PEXTRB") @@ (\h16 :> "PEXTRD") @@ (\h17 :> "EXTRACTPS")
Insert3A  == (\h20 :> "PINSRB") @@ (\h22 :> "PINSRD")

ThreeByte3A(d) ==
    LET b == d.opcode[3]
    IN  CASE b \in DOMAIN Sse3A     -> FormImm(d, Sse3A[b], Sse(d))
          [] b = \h0F               -> FormImm(d, "PALIGNR", Packed(d))
          [] b \in DOMAIN Extract3A -> FormImm(d, Extract3A[b],
                                               <<InRM(d, "reg", 4), InReg(d, "sse", 16)>>)
          [] b \in DOMAIN Insert3A  -> FormImm(d, Insert3A[b],
                                               <<InReg(d, "sse", 16), InRM(d, "reg", 4)>>)
          [] OTHER -> Undefined

TwoByteRow3(d) ==
    LET b == d.opcode[2]
    IN  CASE b \in DOMAIN Row3Bare -> Bare(Row3Bare[b])
          [] b = \h38 -> ThreeByte38(d)
          [] b = \h3A -> ThreeByte3A(d)
          [] OTHER    -> Undefined

-----------------------------------------------------------------------------
(* 0F 40 to 0F 5F.                                                         *)

Cmov == <<"CMOVO", "CMOVNO", "CMOVC", "CMOVNC", "CMOVZ", "CMOVNZ", "CMOVBE", "CMOVA",
          "CMOVS", "CMOVNS", "CMOVP", "CMOVNP", "CMOVL", "CMOVNL", "CMOVNG", "CMOVG">>

(* Cases that add dataprefix32 to an opcode number, or subtract it: with   *)
(* two prefixes 0x66 they reach past the opcodes they are meant for.       *)
AndByCount(d) ==
    <<"ANDPS", "ANDPD", "ANDNPS", "ANDNPD", "BSWAP">>[d.p.data + 2 * (d.opcode[2] % 2) + 1]
AddByCount(d) == <<"ADDPS", "ADDPD", "ADDSD">>[d.p.data + 1]
MinByCount(d) == <<"MINPS", "MINPD", "MAXSS">>[d.p.data + 1]
MaxByCount(d) == <<"MAXPS", "MAXPD", "MONITOR">>[d.p.data + 1]

Estimate(d) ==
    IF Odd(d.opcode[2]) THEN IF d.p.rep = REPNE THEN "RCPSS" ELSE "RCPPS"
                        ELSE IF d.p.rep = REPNE THEN "RSQRTSS" ELSE "RSQRTPS"

(* The name of the SSE arithmetic instruction of byte 0x51 to 0x5F.        *)
SseArith(d) ==
    LET b == d.opcode[2]
    IN  CASE b = \h51 -> IfData(d, "SQRTPD", ByRep(d, "SQRTSD", "SQRTSS", "SQRTPS"))
          [] b \in {\h52, \h53} -> Estimate(d)
          [] b \in {\h54, \h55} -> AndByCount(d)
          [] b = \h56 -> IfOdd(d, "ORPD", "ORPS")
          [] b = \h57 -> IfOdd(d, "XORPD", "XORPS")
          [] b = \h58 -> ByRep(d, "ADDSD", "ADDSS", AddByCount(d))
          [] b = \h59 -> ByRep(d, "MULSD", "MULSS", IfOdd(d, "MULPD", "MULPS"))
          [] b = \h5A -> ByRep(d, "CVTSD2SS", "CVTSS2SD", IfOdd(d, "CVTPD2PS", "CVTPS2PD"))
          [] b = \h5B -> ByRep(d, "UD", "CVTTPS2DQ", IfOdd(d, "CVTPS2DQ", "CVTDQ2PS"))
          [] b = \h5C -> IfData(d, "SUBPD", ByRep(d, "SUBSD", "SUBSS", "SUBPS"))
          [] b = \h5D -> ByRep(d, "MINSD", "MINSS", MinByCount(d))
          [] b = \h5E -> ByRep(d, "DIVSD", "DIVSS", IfData(d, "DIVPD", "DIVPS"))
          [] b = \h5F -> ByRep(d, "MAXSD", "MAXSS", MaxByCount(d))

TwoByteRow4(d) == Form(d, Cmov[d.opcode[2] - \h3F], Gpr(d, DataSize(d)))

TwoByteRow5(d) ==
    IF d.opcode[2] = \h50
    THEN Form(d, IfOdd(d, "MOVMSKPD", "MOVMSKPS"), <<InReg(d, "reg", 4), InRM(d, "sse", 16)>>)
    ELSE Form(d, SseArith(d), Sse(d))

-----------------------------------------------------------------------------
(* 0F 60 to 0F 7F.                                                         *)

Packed60 == <<"PUNPCKLBW", "PUNPCKLWD", "PUNPCKLDQ", "PACKSSWB", "PCMPGTB", "PCMPGTW", "PCMPGTD",
              "PACKUSWB", "PUNPCKHBW", "PUNPCKHWD", "PUNPCKHDQ", "PACKSSDW">>

(* 0x7E and 0x7F move the other way than 0x6E and 0x6F.                    *)
Stores(d) == d.opcode[2] >= \h70

MoveD(d) ==
    CASE d.p.rep = 0 -> Form(d, "MOVD", TurnedIf(Stores(d),
                                <<InReg(d, PackedKind(d), PackedSize(d)), InRM(d, "reg", 4)>>))
      [] d.p.rep = REPNE /\ Stores(d) -> Form(d, "MOVQ", Sse(d))
      [] OTHER -> Undefined

MoveQ(d) ==
    CASE d.p.rep = REPE  -> Undefined
      [] d.p.rep = REPNE -> Form(d, "MOVDQU", TurnedIf(Stores(d), Sse(d)))
      [] OTHER -> Form(d, IfData(d, "MOVDQA", "MOVQ"), TurnedIf(Stores(d), Packed(d)))

TwoByteRow6(d) ==
    LET b == d.opcode[2]
    IN  CASE b <= \h6B -> Form(d, Packed60[b - \h5F], Packed(d))
          [] b \in {\h6C, \h6D} -> IF d.p.data = 0 THEN Undefined
                                   ELSE Form(d, <<"PUNPCKLQDQ", "PUNPCKHQDQ">>[b - \h6B], Sse(d))
          [] b = \h6E -> MoveD(d)
          [] b = \h6F -> MoveQ(d)

(* The shifts by an immediate, by the reg field.                           *)
ShiftsBy(d) ==
    CASE d.opcode[2] = \h71 -> (2 :> "PSRLW") @@ (4 :> "PSRAW") @@ (6 :> "PSLLW")
      [] d.opcode[2] = \h72 -> (2 :> "PSRLD") @@ (4 :> "PSRAD") @@ (6 :> "PSLLD")
      [] OTHER -> (2 :> "PSRLQ") @@ (6 :> "PSLLQ")
                  @@ IF d.p.data > 0 THEN (3 :> "PSRLDQ") @@ (7 :> "PSLLDQ") ELSE << >>

(* VMREAD and VMWRITE, with 0xF2 INSERTQ, with 0x66 EXTRQ.                 *)
VmAccess(d) ==
    LET odd == Odd(d.opcode[2])
    IN  CASE d.p.rep = REPE -> IF odd THEN Form(d, "INSERTQ", Sse(d)) ELSE FormImms(d, "INSERTQ", Sse(d))
          [] d.p.rep # REPE /\ d.p.data > 0 /\ odd -> Form(d, "EXTRQ", Sse(d))
          [] d.p.rep # REPE /\ d.p.data > 0 /\ ~odd ->
               IF Reg(RMByte(d)) # 0 THEN Undefined ELSE FormImms(d, "EXTRQ", <<InRM(d, "sse", 16)>>)
          [] OTHER -> Form(d, IF odd THEN "VMWRITE" ELSE "VMREAD", TurnedIf(~odd, Gpr(d, 4)))

Horizontal(d) ==
    LET odd == Odd(d.opcode[2])
    IN  CASE d.p.data > 0 -> Form(d, IF odd THEN "HSUBPD" ELSE "HADDPD", Sse(d))
          [] d.p.data = 0 /\ d.p.rep = REPE -> Form(d, IF odd THEN "HSUBPS" ELSE "HADDPS", Sse(d))
          [] OTHER -> Undefined

TwoByteRow7(d) ==
    LET b   == d.opcode[2]
        reg == Reg(RMByte(d))
    IN  CASE b = \h70 -> IF d.p.rep = 0 THEN FormImm(d, "PSHUFW", Packed(d))
                         ELSE FormImm(d, ByRep(d, "PSHUFLW", "PSHUFHW", ""), Sse(d))
          [] b \in \h71 .. \h73 -> IF reg \notin DOMAIN ShiftsBy(d) THEN Undefined
                                   ELSE FormImm(d, ShiftsBy(d)[reg], <<Packed(d)[2]>>)
          [] b \in \h74 .. \h76 -> Form(d, <<"PCMPEQB", "PCMPEQW", "PCMPEQD">>[b - \h73], Packed(d))
          [] b = \h77 -> Bare("EMMS")
          [] b \in {\h78, \h79} -> VmAccess(d)
          [] b \in {\h7C, \h7D} -> Horizontal(d)
          [] b = \h7E -> MoveD(d)
          [] b = \h7F -> MoveQ(d)
          [] OTHER -> Undefined

-----------------------------------------------------------------------------
(* 0F 80 to 0F BF.                                                         *)

(* A relative target is a signed 32-bit number, from the end.              *)
NearJump(d, ip) ==
    LET width == DataSize(d)
    IN  [op |-> Jcc[(d.opcode[2] % 16) + 1], fetched |-> width,
         argv |-> <<ImmArg(ip + d.skipped + width + SignedAt(d.tail, 0, width), AddrSize(d))>>]

SetCC == <<"SETO", "SETNO", "SETB", "SETNB", "SETZ", "SETNZ", "SETBE", "SETA",
           "SETS", "SETNS", "SETP", "SETNP", "SETL", "SETGE", "SETLE", "SETG">>

PushPop(d, segment) ==
    [op |-> IF Odd(d.opcode[2]) THEN "POP" ELSE "PUSH", fetched |-> 0,
     argv |-> <<[kind |-> "sreg", reg |-> segment, size |-> 0]>>]

(* r/m first.                                                              *)
ToRM(d, op, size) == Form(d, op, Turned(Gpr(d, size)))
ByteOrData(d)     == IF Odd(d.opcode[2]) THEN DataSize(d) ELSE 1

DoubleShift(d) ==
    LET op   == IF d.opcode[2] >= \hA8 THEN "SHRD" ELSE "SHLD"
        argv == Turned(Gpr(d, DataSize(d)))
    IN  IF Odd(d.opcode[2]) THEN Form(d, op, Append(argv, RegArg(CX, 1)))
        ELSE FormImm(d, op, argv)

(* VIA Padlock, by the byte after 0xA6 and after 0xA7.                     *)
PadlockA6 == (\hC0 :> "MONTMUL") @@ (\hC8 :> "XSHA1") @@ (\hD0 :> "XSHA256")
PadlockA7 == (\hC0 :> "XSTORE") @@ (\hC8 :> "XCRYPTECB") @@ (\hD0 :> "XCRYPTCBC")
             @@ (\hD8 :> "XCRYPTCTR") @@ (\hE0 :> "XCRYPTCFB") @@ (\hE8 :> "XCRYPTOFB")
Padlock(d, names) ==
    IF /\ RMByte(d) \in DOMAIN names
       /\ d.p.rep = REPNE \/ (d.p.rep = 0 /\ names[RMByte(d)] = "XSTORE")
    THEN Peeked(names[RMByte(d)]) ELSE Undefined

(* The register form of FXSAVE and FXRSTOR leaves the ModR/M byte where it *)
(* is; of the fences only the byte itself is passed over.                  *)
SaveGroup(d) ==
    LET reg   == Reg(RMByte(d))
        state == <<InRM(d, "reg", DataSize(d))>>
    IN  CASE reg < 2 -> LET op == <<"FXSAVE", "FXRSTOR">>[reg + 1]
                        IN  IF RegisterOnly(d) THEN Bare(op)
                            ELSE Form(d, op, <<InRM(d, "reg", 512)>>)
          [] reg \in {2, 3} -> Form(d, <<"LDMXCSR", "STMXCSR">>[reg - 1], state)
          [] reg = 6 -> Peeked("MFENCE")
          [] reg \in {4, 5, 7} /\ ~RegisterOnly(d) ->
               Form(d, <<"XSAVE", "XRSTOR", "", "CLFLUSH">>[reg - 3], state)
          [] reg = 5 /\ RegisterOnly(d) -> Peeked("LFENCE")
          [] reg = 7 /\ RegisterOnly(d) -> Peeked("SFENCE")
          [] OTHER -> Undefined

FarLoad386 == (\hB2 :> "LSS") @@ (\hB4 :> "LFS") @@ (\hB5 :> "LGS")
BitTest    == (\hA3 :> "BT") @@ (\hAB :> "BTS") @@ (\hB3 :> "BTR") @@ (\hBB :> "BTC")

Extend(d, op) ==
    Form(d, op, <<InReg(d, "reg", DataSize(d)), InRM(d, "reg", (d.opcode[2] % 2) + 1)>>)

TwoByteRowA(d) ==
    LET b == d.opcode[2]
    IN  CASE b \in {\hA0, \hA1} -> PushPop(d, FS)
          [] b \in {\hA8, \hA9} -> PushPop(d, GS)
          [] b = \hA2 -> Bare("CPUID")
          [] b \in DOMAIN BitTest -> ToRM(d, BitTest[b], DataSize(d))
          [] b \in {\hA4, \hA5, \hAC, \hAD} -> DoubleShift(d)
          [] b = \hA6 -> Padlock(d, PadlockA6)
          [] b = \hA7 -> Padlock(d, PadlockA7)
          [] b = \hAA -> Bare("RSM")
          [] b = \hAE -> SaveGroup(d)
          [] b = \hAF -> Form(d, "IMUL", Gpr(d, DataSize(d)))

TwoByteRowB(d) ==
    LET b   == d.opcode[2]
        reg == Reg(RMByte(d))
    IN  CASE b \in {\hB0, \hB1} -> ToRM(d, "CMPXCHG", ByteOrData(d))
          [] b \in DOMAIN FarLoad386 ->
               IF RegisterOnly(d) THEN Undefined
               ELSE Form(d, FarLoad386[b],
                         <<InReg(d, "reg", DataSize(d)), InRM(d, "reg", DataSize(d) + 2)>>)
          [] b \in DOMAIN BitTest -> ToRM(d, BitTest[b], DataSize(d))
          [] b \in {\hB6, \hB7} -> Extend(d, "MOVZX")
          [] b \in {\hBE, \hBF} -> Extend(d, "MOVSX")
          [] b = \hB8 -> Form(d, "POPCNT", Gpr(d, DataSize(d)))
          [] b = \hBA -> IF reg < 4 THEN Undefined
                         ELSE FormImm(d, <<"BT", "BTS", "BTR", "BTC">>[reg - 3],
                                      <<InRM(d, "reg", DataSize(d))>>)
          [] b = \hBC -> Form(d, "BSF", Gpr(d, DataSize(d)))
          [] b = \hBD -> Form(d, IF d.p.rep = REPNE THEN "LZCNT" ELSE "BSR", Gpr(d, DataSize(d)))
          [] OTHER -> Undefined

-----------------------------------------------------------------------------
(* 0F C0 to 0F FF.                                                         *)

CompareExchange(d) ==
    LET reg == Reg(RMByte(d))
        op  == CASE reg = 1 -> "CMPXCHG8B"
                 [] reg = 6 -> IF d.p.rep = REPNE THEN "VMXON" ELSE IfData(d, "VMCLEAR", "VMPTRLD")
                 [] reg = 7 -> "VMPTRST"
                 [] OTHER -> "UD"
    IN  Form(d, op, <<InRM(d, "reg", 8)>>)

(* The immediate of CMPxx has no size.                                     *)
SseCompare(d) ==
    [op      |-> ByRep(d, "CMPSD", "CMPSS", IfData(d, "CMPPD", "CMPPS")),
     argv    |-> Append(Sse(d), ByteAfter(d, 1, 0)),
     fetched |-> d.rmLength + 1]

TwoByteRowC(d) ==
    LET b      == d.opcode[2]
        packed == Packed(d)
    IN  CASE b \in {\hC0, \hC1} -> ToRM(d, "XADD", ByteOrData(d))
          [] b = \hC2 -> SseCompare(d)
          [] b = \hC3 -> IF d.p.data > 0 THEN Undefined ELSE ToRM(d, "MOVNTI", 4)
          [] b = \hC4 -> FormImm(d, "PINSRW", <<packed[1], InRM(d, "reg", 4)>>)
          [] b = \hC5 -> FormImm(d, "PEXTRW", <<InReg(d, "reg", 4), packed[2]>>)
          [] b = \hC6 -> IF d.p.rep > 0 THEN Undefined
                         ELSE FormImm(d, <<"SHUFPS", "SHUFPD", "SQRTPS">>[d.p.data + 1], Sse(d))
          [] b = \hC7 -> CompareExchange(d)
          [] OTHER -> [Bare("BSWAP") EXCEPT !.argv = <<RegArg(b % 8, DataSize(d))>>]

PackedD == <<"", "PSRLW", "PSRLD", "PSRLQ", "PADDQ", "PMULLW", "", "", "PSUBUSB", "PSUBUSW",
             "PMINUB", "PAND", "PADDUSB", "PADDUSW", "PMAXUB", "PANDN">>
PackedE == <<"PAVGB", "PSRAW", "PSRAD", "PAVGW", "PMULHUW", "PMULHW", "", "", "PSUBSB", "PSUBSW",
             "PMINSW", "POR", "PADDSB", "PADDSW", "PMAXSW", "PXOR">>
PackedF == <<"", "PSLLW", "PSLLD", "PSLLQ", "", "PMADDWD", "PSADBW", "", "PSUBB", "PSUBW",
             "PSUBD", "PSUBQ", "PADDB", "PADDW", "PADDD", "UD">>

(* These look at the repeat prefix, and are undefined with one.            *)
Unrepeated == {\hDA, \hDE, \hEA, \hEB, \hEE, \hF5}

PackedRow(d, names) ==
    IF d.opcode[2] \in Unrepeated /\ d.p.rep > 0 THEN Undefined
    ELSE Form(d, names[(d.opcode[2] % 16) + 1], Packed(d))

(* ADDSUBPD and ADDSUBPS: by the number of prefixes and the repeat prefix. *)
AddSub(d) ==
    CASE d.p.data = 1 /\ d.p.rep = 0 -> Form(d, "ADDSUBPD", Sse(d))
      [] d.p.data = 0 /\ d.p.rep = REPE -> Form(d, "ADDSUBPS", Sse(d))
      [] OTHER -> Undefined

MoveQuad(d) ==
    CASE d.p.rep = REPE  -> Form(d, "MOVDQ2Q", <<InReg(d, "mmx", 8), InRM(d, "sse", 16)>>)
      [] d.p.rep = REPNE -> Form(d, "MOVQ2DQ", <<InReg(d, "sse", 8), InRM(d, "mmx", 16)>>)
      [] d.p.rep = 0 /\ d.p.data > 0 ->
           Form(d, "MOVQ", <<InRM(d, "sse", 16), InReg(d, "sse", 8)>>)
      [] OTHER -> Undefined

(* A mask or a product in a general register.                              *)
InGeneral(d, op) == Form(d, op, <<InReg(d, "reg", 4), Packed(d)[2]>>)

TwoByteRowD(d) ==
    CASE d.opcode[2] = \hD0 -> AddSub(d)
      [] d.opcode[2] = \hD6 -> MoveQuad(d)
      [] d.opcode[2] = \hD7 -> InGeneral(d, "PMOVMSKB")
      [] OTHER -> PackedRow(d, PackedD)

ConvertRounding(d) ==
    LET op == ByRep(d, "CVTPD2DQ", "CVTDQ2PD", IfData(d, "CVTTPD2DQ", "UD"))
    IN  Form(d, op, Sse(d))

StreamingStore(d) ==
    IF d.p.rep > 0 THEN Undefined
    ELSE Form(d, IfData(d, "MOVNTDQ", "MOVNTQ"), Turned(Packed(d)))

TwoByteRowE(d) ==
    CASE d.opcode[2] = \hE6 -> ConvertRounding(d)
      [] d.opcode[2] = \hE7 -> StreamingStore(d)
      [] OTHER -> PackedRow(d, PackedE)

TwoByteRowF(d) ==
    CASE d.opcode[2] = \hF0 -> Form(d, "LDDQU", Sse(d))
      [] d.opcode[2] = \hF4 -> InGeneral(d, "PMULUDQ")
      [] d.opcode[2] = \hF7 -> Form(d, IfData(d, "MASKMOVDQU", "MASKMOVQ"), Packed(d))
      [] OTHER -> PackedRow(d, PackedF)

-----------------------------------------------------------------------------
(* Opcodes of one byte.                                                    *)

OneByte(d, ip) ==
    LET b == d.opcode[1]
    IN  CASE b \in \h70 .. \h7F ->
               [op |-> Jcc[b - \h6F], fetched |-> 1,
                argv |-> <<ImmArg(ip + d.skipped + 1 + SignedAt(d.tail, 0, 1), AddrSize(d))>>]
          [] b = \h90 -> Bare("NOP")
          [] b \in {\hC4, \hC5} ->
               Form(d, IF Odd(b) THEN "LDS" ELSE "LES",
                    <<InReg(d, "reg", DataSize(d)), InRM(d, "reg", DataSize(d) + 2)>>)
          [] b \in {\hF6, \hF7} /\ Reg(RMByte(d)) = 5 ->
               Form(d, "IMUL", <<InRM(d, "reg", IF Odd(b) THEN DataSize(d) ELSE 1)>>)

TwoByte(d, ip) ==
    LET row == d.opcode[2] \div 16
    IN  CASE row = 0 -> TwoByteRow0(d) [] row = 1 -> TwoByteRow1(d)
          [] row = 2 -> TwoByteRow2(d) [] row = 3 -> TwoByteRow3(d)
          [] row = 4 -> TwoByteRow4(d) [] row = 5 -> TwoByteRow5(d)
          [] row = 6 -> TwoByteRow6(d) [] row = 7 -> TwoByteRow7(d)
          [] row = 8 -> NearJump(d, ip)
          [] row = 9 -> Form(d, SetCC[(d.opcode[2] % 16) + 1], <<InRM(d, "reg", 1)>>)
          [] row = 10 -> TwoByteRowA(d) [] row = 11 -> TwoByteRowB(d)
          [] row = 12 -> TwoByteRowC(d) [] row = 13 -> TwoByteRowD(d)
          [] row = 14 -> TwoByteRowE(d) [] row = 15 -> TwoByteRowF(d)

(* Of what a case assigns, what is in the instruction: an undefined opcode *)
(* is stepped over by one byte, or by two when no prefix stands before.    *)
Instruction(d, c, undefined) ==
    [op   |-> c.op,
     argv |-> IF c.op = "UD" THEN << >> ELSE c.argv,
     p    |-> d.p,
     len  |-> IF c.op = "UD" THEN undefined ELSE d.skipped + c.fetched]

Outcome(d, first, ip) ==
    Instruction(d, IF Len(d.opcode) = 1 THEN OneByte(d, ip) ELSE TwoByte(d, ip),
                IF first = \h0F THEN 2 ELSE 1)

(* minx86dec_decodeall of the bytes s at ip_value ip.                      *)
Meaning386(s, mode, ip) ==
    Outcome(Opened(s, Prefixes386(s), mode), s[1], ip)
=============================================================================
