----------------------------- MODULE MeaningVex -----------------------------
(***************************************************************************)
(* The VEX instructions of src/x86_core.h: 0xC4 and 0xC5 with a byte after *)
(* them that would be the register form of LES and LDS.  The bits of that  *)
(* prefix say what 0x66, 0xF2 and 0xF3 say before 0x0F, and name one more  *)
(* register and the width of all.                                          *)
(***************************************************************************)
EXTENDS Meaning386

(* union minx86dec_vex, where bits that stand inverted are turned over.    *)
Flipped(b) == ((b \div 128) * 128) + (b % 8) + 8 * (15 - ((b \div 8) % 16))
VexByte(b) ==
    [v |-> (Flipped(b) \div 8) % 16, l |-> (b \div 4) % 2, pp |-> b % 4]

(* dataprefix32 and ins->rep as the prefix of that pp would leave them.    *)
Implied(p, pp) ==
    CASE pp = 0 -> p
      [] pp = 1 -> [p EXCEPT !.data = @ + 1, !.data32 = 1 - @]
      [] pp = 2 -> [p EXCEPT !.rep = REPNE]
      [] pp = 3 -> [p EXCEPT !.rep = REPE]

IsVex(s) ==
    LET n == Len(Prefixes386(s)) IN s[n + 1] \in {\hC4, \hC5} /\ s[n + 2] >= \hC0

(* d as Opened has it, with the table m of opcodes, v and the vector size. *)
SplitVex(prefixes, rest, size, vex, mode) ==
    [p       |-> Implied(PrefixFields(prefixes, mode), vex.pp),
     v       |-> vex.v,
     l       |-> vex.l,
     vector  |-> 16 * (1 + vex.l),
     m       |-> IF size = 2 THEN 1 ELSE rest[2] % 32,
     opcode  |-> <<\h0F, rest[size + 1]>>,
     skipped |-> Len(prefixes) + size + 1,
     tail    |-> SubSeq(rest, size + 2, Len(rest))]

PartsVex(prefixes, rest, size, mode) ==
    SplitVex(prefixes, rest, size, VexByte(rest[size]), mode)
OpenedAfter(prefixes, rest, mode) ==
    WithRM(PartsVex(prefixes, rest, IF rest[1] = \hC5 THEN 2 ELSE 3, mode))
OpenedVex(s, prefixes, mode) == OpenedAfter(prefixes, After(s, prefixes), mode)

VexSse(d, size) == [kind |-> "sse", reg |-> d.v, size |-> size]
Vectors(d)      == <<InReg(d, "sse", d.vector), InRM(d, "sse", d.vector)>>

(* Destination, the register of the prefix, r/m.                           *)
Three(d, size)  == <<InReg(d, "sse", size), VexSse(d, size), InRM(d, "sse", size)>>
FormThree(d, op) == IF op = "UD" THEN Undefined ELSE Form(d, op, Three(d, d.vector))

(* The fourth register stands in the upper half of a byte.                 *)
FormFour(d, op) ==
    LET fourth == d.tail[d.rmLength + 1] \div 16
    IN  [op |-> op, fetched |-> d.rmLength + 1,
         argv |-> Append(Three(d, d.vector), [kind |-> "sse", reg |-> fourth, size |-> d.vector])]

-----------------------------------------------------------------------------
(* m = 1: the opcodes behind 0x0F.                                         *)

MoveHalf(d) ==
    LET b  == d.opcode[2]
        op == ByRep(d, "MOVDDUP", "MOVSLDUP", IfData(d, "MOVLPD", "MOVLPS"))
    IN  IF op = "MOVLPS" /\ RegisterOnly(d) /\ ~Odd(b) THEN FormThree(d, "MOVHLPS")
        ELSE Form(d, op, TurnedIf(Odd(b),
                             <<InReg(d, "sse", d.vector), InRM(d, "sse", d.vector \div 2)>>))

VexMoves(d) ==
    LET b == d.opcode[2]
    IN  CASE b \in {\h6E, \h7E} /\ d.p.rep = 0 ->
               Form(d, "MOVD", TurnedIf(b = \h7E, <<InReg(d, "sse", d.vector), InRM(d, "reg", 4)>>))
          [] b = \h7E /\ d.p.rep = REPNE -> Form(d, "MOVQ", Vectors(d))
          [] b \in {\h6F, \h7F} /\ d.p.rep # REPE ->
               LET op == ByRep(d, "", "MOVDQU", IfData(d, "MOVDQA", "MOVQ"))
               IN  Form(d, op, TurnedIf(b = \h7F, IF op = "MOVQ"
                            THEN <<InReg(d, "mmx", 8), InRM(d, "mmx", 8)>> ELSE Vectors(d)))
          [] OTHER -> Undefined

(* The conversions: the narrow side has half the vector, or 16 bytes.      *)
VexPrecision(d) ==
    LET size(wide) == IF wide THEN d.vector ELSE 16
        op         == SseArith(d)
        double     == op = "CVTPD2PS"
        scalar     == d.p.rep > 0
    IN  Form(d, op, <<InReg(d, "sse", size(~scalar /\ ~double)),
                      InRM(d, "sse", size(~scalar /\ double))>>)

VexRounding(d) ==
    LET half(b) == IF b THEN d.vector \div 2 ELSE d.vector
        op == ByRep(d, "CVTPD2DQ", "CVTDQ2PD", IfData(d, "CVTTPD2DQ", "UD"))
    IN  IF op = "UD" THEN Undefined
        ELSE Form(d, op, <<InReg(d, "sse", half(op = "CVTPD2DQ")),
                           InRM(d, "sse", half(op = "CVTDQ2PD"))>>)

VexCompareOrdered(d) ==
    LET size == IF d.p.data > 0 THEN 8 ELSE 4
    IN  IF d.v # 0 \/ d.l = 1 THEN Undefined
        ELSE Form(d, IfData(d, "COMISD", "COMISS"), <<InReg(d, "sse", size), InRM(d, "sse", size)>>)

VexCompare(d) ==
    IF d.l = 1 /\ d.p.rep > 0 THEN Undefined
    ELSE [op      |-> SseCompare(d).op,
          argv    |-> Append(Three(d, d.vector), ByteAfter(d, 1, 8)),
          fetched |-> d.rmLength + 1]

VexHorizontal(d) ==
    LET odd == Odd(d.opcode[2])
    IN  IfData(d, IF odd THEN "HSUBPD" ELSE "HADDPD",
                  ByRep(d, IF odd THEN "HSUBPS" ELSE "HADDPS", "UD", "UD"))

(* ADD and MAX of scalars have no wide form.                               *)
VexTwoByte(d) ==
    LET b == d.opcode[2]
    IN  CASE b \in {\h12, \h13} -> MoveHalf(d)
          [] b \in {\h28, \h29} -> Form(d, IfOdd(d, "MOVAPD", "MOVAPS"), TurnedIf(Odd(b), Vectors(d)))
          [] b \in {\h2A, \h2C, \h2D} -> TwoByteRow2(d)
          [] b = \h2F -> VexCompareOrdered(d)
          [] b \in {\h54, \h55, \h5D, \h5E} -> FormThree(d, SseArith(d))
          [] b \in {\h58, \h5F} /\ ~(d.l = 1 /\ d.p.rep > 0) -> FormThree(d, SseArith(d))
          [] b = \h5A -> VexPrecision(d)
          [] b = \h5B /\ d.p.rep # REPE -> Form(d, SseArith(d), Vectors(d))
          [] b \in {\h6E, \h6F, \h7E, \h7F} -> VexMoves(d)
          [] b \in {\h7C, \h7D} -> FormThree(d, VexHorizontal(d))
          [] b = \hC2 -> VexCompare(d)
          [] b = \hD0 -> FormThree(d, AddSub(d).op)
          [] b = \hD6 -> MoveQuad(d)
          [] b = \hE6 -> VexRounding(d)
          [] b = \hF0 -> Form(d, "LDDQU", Vectors(d))
          [] OTHER -> Undefined

-----------------------------------------------------------------------------
(* m = 2 and m = 3: the opcodes behind 0x0F 0x38 and 0x0F 0x3A.            *)

Broadcast(d, op, size, kind, narrow) ==
    Form(d, op, <<InReg(d, "sse", size), InRM(d, kind, narrow)>>)

Vex38(d) ==
    LET b == d.opcode[2]
    IN  CASE d.p.data = 0 -> Undefined
          [] b = \h18 /\ d.v = 0 -> Broadcast(d, "BROADCASTSS", d.vector, "reg", 4)
          [] b = \h19 /\ d.v = 0 /\ d.l = 1 -> Broadcast(d, "BROADCASTSD", 32, "reg", 8)
          [] b = \h1A /\ d.v = 0 /\ d.l = 1 -> Broadcast(d, "BROADCASTF128", 32, "reg", 16)
          [] b = \hDB -> Form(d, "AESIMC", Sse(d))
          [] b \in \hDC .. \hDF ->
               FormThree(d, <<"AESENC", "AESENCLAST", "ASEDEC", "AESDECLAST">>[b - \hDB])
          [] OTHER -> Undefined

VexImmediate == (\h0C :> "BLENDPS") @@ (\h0D :> "BLENDPD") @@ (\h40 :> "DPPS") @@ (\h41 :> "DPPD")

(* The scalar ones of them at 0x6A have no wide form.                      *)
VexFour ==
    (\h4A :> "BLENDVPS") @@ (\h4B :> "BLENDVPD")
    @@ [b \in \h5C .. \h5F |->
           <<"VFMADDSUBPS", "VFMADDSUBPD", "VFMSUBADDPS", "VFMSUBADDPD">>[b - \h5B]]
    @@ [b \in \h68 .. \h6F |->
           <<"VFMADDPS", "VFMADDPD", "VFMADDSS", "VFMADDSD",
             "VFMSUBPS", "VFMSUBPD", "VFMSUBSS", "VFMSUBSD">>[b - \h67]]
    @@ (\h78 :> "VFNMADDPS") @@ (\h79 :> "VFNMADDPD")
    @@ (\h7C :> "VFNMSUBPS") @@ (\h7D :> "VFNMSUBPD")

Vex3A(d) ==
    LET b == d.opcode[2]
    IN  CASE b \in DOMAIN VexImmediate ->
               FormImm(d, VexImmediate[b], Three(d, IF b >= \h40 THEN 16 ELSE d.vector))
          [] b \in {\h48, \h49} ->
               LET four == FormFour(d, IF Odd(b) THEN "VPERMIL2PD" ELSE "VPERMIL2PS")
               IN  [four EXCEPT !.argv = Append(@, ImmArg(d.tail[d.rmLength + 1] % 16, 0))]
          [] b \in DOMAIN VexFour /\ ~(b \in {\h6A, \h6B} /\ d.l = 1) -> FormFour(d, VexFour[b])
          [] b = \hDF -> FormImm(d, "AESKEYGENASSIST", Sse(d))
          [] OTHER -> Undefined

-----------------------------------------------------------------------------
(* The tables; opcodes that are not defined are stepped over by one byte.  *)
VexRow(d) ==
    CASE d.m = 1 -> VexTwoByte(d) [] d.m = 2 -> Vex38(d) [] d.m = 3 -> Vex3A(d)
      [] OTHER -> Undefined
OutcomeVex(d) == Instruction(d, VexRow(d), 1)

(* minx86dec_decodeall, for these and for those of Meaning386.  "vex" is   *)
(* whether ins->vex.raw is other than 0.                                   *)
MeaningOfVex(s, mode) ==
    [vex |-> TRUE] @@ OutcomeVex(OpenedVex(s, Prefixes386(s), mode))

MeaningAll(s, mode, ip) ==
    IF IsVex(s) THEN MeaningOfVex(s, mode)
    ELSE [vex |-> FALSE] @@ Meaning386(s, mode, ip)
=============================================================================
