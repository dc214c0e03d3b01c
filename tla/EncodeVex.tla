----------------------------- MODULE EncodeVex -----------------------------
(***************************************************************************)
(* The halves of the cases of minx86enc_encodeall (src/encoreall.c) that   *)
(* write a VEX prefix: those for three or four operands, and those for     *)
(* ins->vex.raw other than 0.  The opcode is that of the other half.       *)
(***************************************************************************)
EXTENDS Encode386, MeaningVex

(* pp for the prefix of the other half, but for ANDPS and ANDNPS.          *)
ImpliedBy(code) == CASE code[1] = \h66 -> 1 [] code[1] = \hF3 -> 2 [] code[1] = \hF2 -> 3
                     [] OTHER -> 0
PPOf(op, code)  == IF op \in {"ANDPS", "ANDNPS"} THEN 3 ELSE ImpliedBy(code)

(* (reg ^ 7) << 3, added to the upper bits of a byte.                      *)
Register3(reg) == 8 * (8 * (reg \div 8) + 7 - (reg % 8))
WideBit(a)     == IF a.size = 32 THEN 4 ELSE 0

(* The prefixes of two and of three bytes, with register v.                *)
VexPrefixWhole(pp, v, wide) == <<\hC5, \hC0 + Register3(v) + wide + pp>>   \* mutant: uncut
VexPrefix(pp, v, wide)    == <<\hC5, (\hC0 + Register3(v) + wide + pp) % 256>>
VexPrefix3(m, pp, v, wide) == <<\hC4, \hE0 + m, (\h40 + Register3(v) + wide + pp) % 256>>

OpcodeByte(code) == code[Len(code)]

(* minx86enc_seg_overrides is not called by these.                         *)
UnsegmentedVex == DOMAIN CmpForms \cup DOMAIN DivForms

EmitVex(i, mode, code, rm, reg) ==
    (IF i.op \in UnsegmentedVex THEN << >> ELSE SegmentOverride(i, rm))
    \o AddrOverride(rm, mode) \o code \o ModRM386(rm, reg)

-----------------------------------------------------------------------------
(* Three registers, or two and memory; HADD and HSUB have no width.        *)
ThreeOperandForms == AddForms @@ AddSubForms @@ AndForms @@ DivForms @@ MaxForms @@ MinForms
                     @@ CmpForms @@ HorizontalForms

EncodeThree(i, mode) ==
    LET a    == i.argv[1]
        form == ThreeOperandForms[i.op]
        wide == IF i.op \in DOMAIN HorizontalForms THEN 0 ELSE WideBit(a)
    IN  EmitVex(i, mode, VexPrefix(PPOf(i.op, form), i.argv[2].reg, wide) \o <<OpcodeByte(form)>>,
                i.argv[3], a.reg)
        \o ImmByteOf(i)

(* With an opcode of three bytes and a fourth operand.                     *)
FourOperandForms == [BLENDPD |-> \h0D, BLENDPS |-> \h0C, DPPD |-> \h41, DPPS |-> \h40,
                     BLENDVPD |-> \h4B, BLENDVPS |-> \h4A]

(* The memory forms of BLENDVPD and BLENDVPS write 0x66 as well.           *)
EncodeFour(i, mode) ==
    LET a    == i.argv[1]
        c    == i.argv[3]
        d    == i.argv[4]
        size == IF i.op \in {"BLENDVPD", "BLENDVPS"} /\ IsMem(c) THEN DataOverride(c, mode)
                ELSE NoOverride
    IN  EmitVex(i, mode, size \o VexPrefix3(3, 1, i.argv[2].reg, WideBit(a))
                         \o <<FourOperandForms[i.op]>>, c, a.reg)
        \o IF IsImm(d) THEN <<ByteOf(d.value)>> ELSE <<(16 * d.reg) % 256>>

EncodeMovhlps(i) ==
    VexPrefix(0, i.argv[2].reg, WideBit(i.argv[1])) \o <<\h12>> \o RmReg(i.argv[3], i.argv[1].reg)

-----------------------------------------------------------------------------
(* Two operands.  Between single and double the prefix has register 1.     *)
ScalarPrecision == {"CVTSD2SS", "CVTSS2SD", "CVTSI2SD", "CVTSI2SS"}
OfMMX == {"CVTPD2PI", "CVTPI2PD", "CVTPI2PS", "CVTPS2PI", "CVTTPD2PI", "CVTTPS2PI"}

TwoOperandForms == ComisForms @@ FromDwords @@ FromPacked @@ FromScalar @@ Truncating @@ DupForm
                   @@ [LDDQU |-> LoadForms["LDDQU"]]
TwoOperandMoves == AlignedMoves @@ IntegerMoves @@ [MOVD |-> <<With66(\h6E), With66(\h7E)>>]

(* The operand that says how wide the instruction is.                      *)
WidthOfVex(i) ==
    CASE i.op \in DOMAIN ComisForms -> 0
      [] i.op \in DOMAIN DupForm \cup DOMAIN IntegerMoves \cup {"CVTDQ2PD", "LDDQU"} ->
             WideBit(i.argv[1])
      [] i.op = "MOVD" ->
             IF IsMem(i.argv[2]) THEN WideBit(i.argv[1])
             ELSE IF IsMem(i.argv[1]) THEN WideBit(i.argv[2]) ELSE 0
      [] i.op \in DOMAIN AlignedMoves /\ IsMem(i.argv[1]) -> WideBit(i.argv[1])
      [] OTHER -> WideBit(i.argv[2])

EncodeTwo(i, mode, form, rm, reg) ==
    LET v == IF i.op \in ScalarPrecision THEN 1 ELSE 0
    IN  EmitVex(i, mode, VexPrefix(PPOf(i.op, form), v, WidthOfVex(i)) \o <<OpcodeByte(form)>>, rm, reg)

EncodeVexMove(i, mode, forms) ==
    LET a == i.argv[1]
        b == i.argv[2]
    IN  IF IsMem(a) \/ IsReg(a) THEN EncodeTwo(i, mode, forms[2], a, b.reg)
        ELSE EncodeTwo(i, mode, forms[1], b, a.reg)

(* Broadcasts, from memory only.                                           *)
BroadcastCode == [BROADCASTSS |-> \h18, BROADCASTSD |-> \h19, BROADCASTF128 |-> \h1A]

EncodeBroadcast(i, mode) ==
    LET a == i.argv[1]
        b == i.argv[2]
    IN  IF ~IsMem(b) THEN NotWritten
        ELSE EmitVex(i, mode, VexPrefix3(2, 1, 0, WideBit(a)) \o <<BroadcastCode[i.op]>>, b, a.reg)

-----------------------------------------------------------------------------
(* minx86enc_encodeall, for VEX and for the rest.                          *)
EncodeVex(i, mode, ip) ==
    LET op == i.op
        b  == i.argv[2]
    IN  CASE op \in DOMAIN ThreeOperandForms -> EncodeThree(i, mode)
          [] op \in DOMAIN FourOperandForms  -> EncodeFour(i, mode)
          [] op = "MOVHLPS"                  -> EncodeMovhlps(i)
          [] op \in OfMMX                    -> NotWritten
          [] op = "LDDQU" /\ ~IsMem(b)       -> NotWritten
          [] op = "MOVDDUP" /\ IsMem(i.argv[1]) -> NotWritten
          [] op \in DOMAIN TwoOperandForms   -> EncodeTwo(i, mode, TwoOperandForms[op], b, i.argv[1].reg)
          [] op \in DOMAIN TwoOperandMoves   -> EncodeVexMove(i, mode, TwoOperandMoves[op])
          [] OTHER                           -> EncodeAll386(i, mode, ip)

EncodeAny(i, mode, ip) ==
    CASE i.op \in DOMAIN BroadcastCode -> EncodeBroadcast(i, mode)
      [] i.vex /\ i.op # "UD"          -> EncodeVex(i, mode, ip)
      [] OTHER                         -> EncodeAll386(i, mode, ip)
=============================================================================
