--------------------------- MODULE PreserveProofs ---------------------------
(***************************************************************************)
(* Proofs that recode8086.c preserves what it recodes, for every set of    *)
(* inputs: the second decode finds the instruction of the first one        *)
(* exactly if Lossy names no reason why not, and a second run over what    *)
(* the first one wrote changes nothing more.                               *)
(*                                                                         *)
(* Row by row, what the switch makes of an opcode has the Verdict of the   *)
(* encoder's case for it (AllVerdicts).  The prefixes that were written    *)
(* are found again (ReadsBack), so that a lost segment shows exactly where *)
(* no operand names one; together they give PreservesAllButLossy           *)
(* (Preserved).                                                            *)
(*                                                                         *)
(* For the second run the same verdict is used once more: an instruction   *)
(* that was kept is encoded as the one it came from (KeptSettles), one     *)
(* that was lost has become another whose encoding is what was written     *)
(* (LostSettles).  That the bytes of a second run are what the first wrote *)
(* is an invariant of its own (OwnOutput).                                 *)
(***************************************************************************)
EXTENDS RecodeProofs

-----------------------------------------------------------------------------
(* The verdict for each row of the switch.                                 *)

LEMMA MadeOf ==
    ASSUME NEW d, NEW i, NEW at, Made(i, d, at), NEW op, NEW v, Case(d, at) = <<op, v>>
    PROVE  i.op = op /\ i.argv = v
BY DEF Made

LEMMA RowOperands ==
    ASSUME NEW d, NEW x, Fields(d, x), TakesModRM(d.lead, x)
    PROVE  /\ d.rm = x /\ Reg(d.rm) \in 0 .. 7
           /\ \A w : /\ Sized(RM(d, w), w) /\ RMReg(d, w) = RegArg(Reg(d.rm), w)
                     /\ Sized(RMReg(d, w), w)
                     /\ ~IsMem(RM(d, w)) => \E r \in 0 .. 7 : RM(d, w) = RegArg(r, w)
           /\ Mod(x) # 3 => \A w : IsMem(RM(d, w))
<1>1. Addressed(d, x) /\ d.rm = x /\ x \in Byte
  BY DEF Fields, Addressed
<1>2. Reg(x) \in 0 .. 7
  BY <1>1, FieldsAre
<1>3. ASSUME NEW w PROVE Sized(RM(d, w), w) /\ (Mod(x) # 3 => RM(d, w).kind = "mem")
  BY <1>1, SizedOperands
<1>4. ASSUME NEW w PROVE RMReg(d, w) = RegArg(Reg(d.rm), w)
  BY DEF RMReg
<1>5. ASSUME NEW w PROVE Sized(RMReg(d, w), w)
  BY <1>1, <1>2, <1>4, SizedRegister
<1>6. ASSUME NEW w, ~IsMem(RM(d, w)) PROVE \E r \in 0 .. 7 : RM(d, w) = RegArg(r, w)
  BY <1>3, <1>6, SizedKinds
<1>7. Mod(x) # 3 => \A w : IsMem(RM(d, w))
  BY <1>3 DEF IsMem
<1>8. QED
  BY <1>1, <1>2, <1>3, <1>4, <1>5, <1>6, <1>7

(* ADD to CMP.                                                             *)
LEMMA VerdictRowAlu ==
    ASSUME NEW d, NEW x, Fields(d, x), d.lead < \h40, d.lead % 8 < 4, NEW i, NEW at, Made(i, d, at)
    PROVE  Verdict(i, at)
<1> DEFINE b == d.lead
           w == WidthOf(d.lead)
           n == (d.lead \div 8) + 1
<1>1. /\ Case(d, at) = <<Alu[n], Ordered(b, RM(d, w), RMReg(d, w))>>
      /\ TakesModRM(b, x) /\ w \in {1, 2}
  BY CaseAlu
<1>2. n \in 1 .. 8
  <2>0. b \in 0 .. 255
    BY DEF Fields, Byte
  <2>1. b \in Int /\ 0 <= b /\ b < 64
    BY <2>0
  <2> HIDE DEF b
  <2>2. (b \div 8) \in 0 .. 7
    BY <2>1
  <2>3. QED
    BY <2>2 DEF b
<1> HIDE DEF n, w
<1>3. Alu[n] \in AluOps
  BY <1>2 DEF Alu, AluOps
<1>4. i.op = Alu[n] /\ i.argv = Ordered(b, RM(d, w), RMReg(d, w))
  BY <1>1, MadeOf
<1> DEFINE a == RM(d, w)
           r == Reg(d.rm)
<1>5. /\ r \in 0 .. 7 /\ Sized(a, w) /\ RMReg(d, w) = RegArg(r, w)
      /\ ~IsMem(a) => \E q \in 0 .. 7 : a = RegArg(q, w)
  BY <1>1, RowOperands
<1>6. i.argv = <<a, RegArg(r, w)>> \/ i.argv = <<RegArg(r, w), a>>
  BY <1>4, <1>5 DEF Ordered
<1>7. i.op \in AluOps
  BY <1>3, <1>4
<1> HIDE DEF a, r, b
<1>8. CASE i.argv = <<a, RegArg(r, w)>> \/ (IsMem(a) /\ i.argv = <<RegArg(r, w), a>>)
  BY <1>1, <1>5, <1>7, <1>8, VerdictAlu
<1>9. CASE ~IsMem(a) /\ i.argv = <<RegArg(r, w), a>>
  <2>1. PICK q \in 0 .. 7 : a = RegArg(q, w)
    BY <1>5, <1>9
  <2>2. Sized(RegArg(r, w), w) /\ i.argv = <<RegArg(r, w), RegArg(q, w)>>
    BY <1>5, <1>9, <2>1, SizedRegister
  <2> DEFINE c == RegArg(r, w)
  <2>3. Sized(c, w) /\ i.argv = <<c, RegArg(q, w)>>
    BY <2>2
  <2> HIDE DEF c
  <2>4. QED
    BY <1>1, <1>7, <2>3, VerdictAlu
<1>10. QED
  BY <1>6, <1>8, <1>9

(* Of what stands in one byte or in a word.                                *)
LEMMA NumberIn ==
    ASSUME NEW v
    PROVE  /\ v \in Byte => Number(v, 1) /\ Number(v, 2) /\ v >= 0 /\ v \in Int
           /\ v \in Word16 => Number(v, 2) /\ v >= 0 /\ v \in Int
<1>1. v \in Byte => v \in Int /\ 0 <= v /\ v < 256
  BY DEF Byte
<1>2. v \in Word16 => v \in Int /\ 0 <= v /\ v < 65536
  BY DEF Word16
<1>3. QED
  BY <1>1, <1>2 DEF Number

LEMMA SizedAccumulator ==
    ASSUME NEW w
    PROVE  Sized(RegArg(AX, w), w) /\ AX \in 0 .. 7
<1>1. AX \in 0 .. 7
  BY DEF AX
<1>2. QED
  BY <1>1, SizedRegister

LEMMA VerdictRowAluNumber ==
    ASSUME NEW d, NEW x, Fields(d, x), Ranged(d, x), d.lead < \h40, d.lead % 8 \in {4, 5},
           NEW i, NEW at, Made(i, d, at)
    PROVE  Verdict(i, at)
<1> DEFINE b == d.lead
           w == WidthOf(d.lead)
           n == (d.lead \div 8) + 1
           v == d.args[1]
<1>1. /\ Case(d, at) = <<Alu[n], <<RegArg(AX, w), ImmArg(v, w)>> >>
      /\ w \in {1, 2} /\ b \in 0 .. \h3F /\ OperandWidths(b, x) = <<w>>
  BY CaseAluNumber
<1>2. n \in 1 .. 8
  <2>0. b \in 0 .. 255
    BY DEF Fields, Byte
  <2>1. b \in Int /\ 0 <= b /\ b < 64
    BY <2>0
  <2> HIDE DEF b
  <2>2. (b \div 8) \in 0 .. 7
    BY <2>1
  <2>3. QED
    BY <2>2 DEF b
<1>3. Number(v, w)
  <2>1. CASE w = 1
    <3>1. v \in Byte
      BY <1>1, <2>1, RangedFirst
    <3>2. QED
      BY <2>1, <3>1, NumberIn
  <2>2. CASE w = 2
    <3>1. v \in Word16
      BY <1>1, <2>2, RangedFirst
    <3>2. QED
      BY <2>2, <3>1, NumberIn
  <2>3. QED
    BY <1>1, <2>1, <2>2
<1> HIDE DEF n, w, b, v
<1>4. Alu[n] \in AluOps
  BY <1>2 DEF Alu, AluOps
<1>5. i.op \in AluOps /\ i.argv = <<RegArg(AX, w), ImmArg(v, w)>>
  BY <1>1, <1>4, MadeOf
<1> DEFINE c == RegArg(AX, w)
<1>6. Sized(c, w)
  BY SizedAccumulator
<1>8. i.argv = <<c, ImmArg(v, w)>>
  BY <1>5
<1> HIDE DEF c
<1>7. QED
  BY <1>1, <1>3, <1>5, <1>6, <1>8, VerdictAluNumber

(* PUSH and POP of segment registers.                                      *)
LEMMA VerdictRowSegment ==
    ASSUME NEW d, NEW x, Fields(d, x), d.lead \in {\h06, \h07, \h0E, \h0F, \h16, \h17, \h1E, \h1F},
           NEW i, NEW at, Made(i, d, at)
    PROVE  Verdict(i, at)
<1>1. ASSUME NEW r \in 0 .. 3, d.lead \in {8 * r + 6, 8 * r + 7}
      PROVE  Verdict(i, at)
  <2>1. Case(d, at) = <<IF d.lead = 8 * r + 6 THEN "PUSH" ELSE "POP", <<SRegArg(r)>> >>
    BY <1>1, CaseSegment
  <2>2. i.op = (IF d.lead = 8 * r + 6 THEN "PUSH" ELSE "POP") /\ i.argv = <<SRegArg(r)>>
    BY <2>1, MadeOf
  <2>3. (i.op = "PUSH" \/ i.op = "POP") /\ i.argv = <<SRegArg(r)>>
    BY <2>2
  <2>4. QED
    BY <2>3, VerdictSegmentStack
<1>2. \E r \in 0 .. 3 : d.lead \in {8 * r + 6, 8 * r + 7}
  <2> DEFINE b == d.lead
  <2>1. b \in {8 * 0 + 6, 8 * 0 + 7} \/ b \in {8 * 1 + 6, 8 * 1 + 7} \/ b \in {8 * 2 + 6, 8 * 2 + 7}
        \/ b \in {8 * 3 + 6, 8 * 3 + 7}
    OBVIOUS
  <2> HIDE DEF b
  <2>2. 0 \in 0 .. 3 /\ 1 \in 0 .. 3 /\ 2 \in 0 .. 3 /\ 3 \in 0 .. 3
    OBVIOUS
  <2>3. QED
    BY <2>1, <2>2 DEF b
<1>3. QED
  BY <1>1, <1>2

(* INC, DEC, PUSH and POP of a register.                                   *)
LEMMA VerdictRow4 ==
    ASSUME NEW d, NEW x, Fields(d, x), d.lead \in \h40 .. \h5F, NEW i, NEW at, Made(i, d, at)
    PROVE  Verdict(i, at)
<1> DEFINE b == d.lead
           r == b % 8
           a == RegArg(r, 2)
<1>1. /\ b < \h48 => Case(d, at) = <<"INC", <<a>> >>
      /\ b >= \h48 /\ b < \h50 => Case(d, at) = <<"DEC", <<a>> >>
      /\ b >= \h50 /\ b < \h58 => Case(d, at) = <<"PUSH", <<a>> >>
      /\ b >= \h58 => Case(d, at) = <<"POP", <<a>> >>
  BY Case4to5
<1>2. b \in Int /\ r \in 0 .. 7
  OBVIOUS
<1> HIDE DEF b, r
<1>3. Sized(a, 2)
  BY <1>2, SizedRegister
<1> HIDE DEF a
<1>4. i.argv = <<a>> /\ (i.op = "INC" \/ i.op = "DEC" \/ i.op = "PUSH" \/ i.op = "POP")
  <2>1. CASE b < \h48
    BY <1>1, <2>1, MadeOf
  <2>2. CASE b >= \h48 /\ b < \h50
    BY <1>1, <2>2, MadeOf
  <2>3. CASE b >= \h50 /\ b < \h58
    BY <1>1, <2>3, MadeOf
  <2>4. CASE b >= \h58
    BY <1>1, <2>4, MadeOf
  <2>5. QED
    BY <1>2, <2>1, <2>2, <2>3, <2>4
<1>5. CASE i.op = "INC" \/ i.op = "DEC"
  BY <1>3, <1>4, <1>5, VerdictIncDec
<1>6. CASE i.op = "PUSH" \/ i.op = "POP"
  BY <1>3, <1>4, <1>6, VerdictStack
<1>7. QED
  BY <1>4, <1>5, <1>6

LEMMA VerdictRow7 ==
    ASSUME NEW d, NEW x, Fields(d, x), Ranged(d, x), d.lead \in \h70 .. \h7F, NEW i, NEW at \in Int, Made(i, d, at)
    PROVE  Verdict(i, at)
<1>1. Case(d, at) = <<Jcc[(d.lead % 16) + 1], <<ShortTarget(d, at)>> >>
  BY CaseJcc
<1>2. d.args[1] \in Byte
  <2>1. d.lead \in WithByte
    BY DEF WithByte
  <2>2. QED
    BY <2>1, RangedBare
<1>3. Signed(d.args[1], 8) \in Int /\ d.len \in Int
  BY SMTT(30), <1>2, SignExtended DEF Fields
<1> DEFINE v == at + d.len + Signed(d.args[1], 8)
<1>4. v \in Int /\ ShortTarget(d, at) = ImmArg(v, 2)
  BY <1>3 DEF ShortTarget
<1>5. In(Jcc, i.op)
  <2>1. (d.lead % 16) + 1 \in 1 .. 16
    OBVIOUS
  <2>2. i.op = Jcc[(d.lead % 16) + 1]
    BY <1>1, MadeOf
  <2>3. DOMAIN Jcc = 1 .. 16
    BY DEF Jcc
  <2>4. QED
    BY <2>1, <2>2, <2>3 DEF In
<1>6. i.argv = <<ImmArg(v, 2)>>
  BY <1>1, <1>4, MadeOf
<1> HIDE DEF v
<1>7. QED
  BY <1>4, <1>5, <1>6, VerdictBranch

(* The rows of the ModR/M byte from 0x80 to 0x8F.                           *)
LEMMA Row8Takes ==
    ASSUME NEW d, NEW x, Fields(d, x), d.lead \in \h80 .. \h8E
    PROVE  TakesModRM(d.lead, x) /\ WidthOf(d.lead) \in {1, 2} /\ d.lead \in Int
<1>1. d.lead \in Freely /\ d.lead \notin {\hF6, \hF7}
  BY DEF Freely, ModRMOpcodes, ModRMRow8, ShiftOpcodes
<1>2. TakesModRM(d.lead, x)
  BY <1>1, FreelyOK
<1>3. d.lead \in Int
  OBVIOUS
<1> DEFINE b == d.lead
<1>4. b \in Int
  BY <1>3
<1> HIDE DEF b
<1>5. WidthOf(b) \in {1, 2}
  BY <1>4 DEF WidthOf
<1>6. QED
  BY <1>2, <1>3, <1>5 DEF b

LEMMA AluName ==
    ASSUME NEW r \in 0 .. 7
    PROVE  Alu[r + 1] \in AluOps
  BY DEF Alu, AluOps

LEMMA VerdictRow80 ==
    ASSUME NEW d, NEW x, Fields(d, x), Ranged(d, x), d.lead \in \h80 .. \h82, NEW i, NEW at, Made(i, d, at)
    PROVE  Verdict(i, at)
<1> DEFINE w == WidthOf(d.lead)
           a == RM(d, w)
           v == RMImm(d)
           op == Alu[Reg(d.rm) + 1]
<1>1. Case(d, at) = <<op, <<a, ImmArg(v, w)>> >>
  BY CaseRow8
<1>2. TakesModRM(d.lead, x) /\ w \in {1, 2}
  BY Row8Takes
<1>3. Sized(a, w) /\ Reg(d.rm) \in 0 .. 7
  BY <1>2, RowOperands
<1>4. Number(v, w)
  <2>1. CASE d.lead = \h81
    <3>1. w = 2
      BY <2>1 DEF WidthOf
    <3>2. ImmAfterRM(d.lead, x) = << 2 >>
      BY <2>1, ImmediateWidths
    <3>3. v \in Word16
      BY <1>2, <3>2, RangedAfterRM
    <3>4. QED
      BY <3>1, <3>3, NumberIn
  <2>2. CASE d.lead # \h81
    <3>1. d.lead \in {\h80, \h82}
      BY <2>2
    <3>2. ImmAfterRM(d.lead, x) = << 1 >>
      BY <3>1, ImmediateWidths
    <3>3. v \in Byte
      BY <1>2, <3>2, RangedAfterRM
    <3>4. QED
      BY <1>2, <3>3, NumberIn
  <2>3. QED
    BY <2>1, <2>2
<1>5. op \in AluOps
  BY <1>3, AluName
<1> HIDE DEF a, w, v, op
<1>6. i.op = op /\ i.argv = <<a, ImmArg(v, w)>>
  BY <1>1, MadeOf
<1>7. QED
  BY <1>2, <1>3, <1>4, <1>5, <1>6, VerdictAluNumber

LEMMA VerdictRow83 ==
    ASSUME NEW d, NEW x, Fields(d, x), Ranged(d, x), d.lead = \h83, NEW i, NEW at, Made(i, d, at)
    PROVE  Verdict(i, at)
<1> DEFINE a == RM(d, 2)
           v == Signed(RMImm(d), 8)
           op == Alu[Reg(d.rm) + 1]
<1>0. d.lead \in \h80 .. \h8E
  OBVIOUS
<1>1. Case(d, at) = <<op, <<a, ImmArg(v, 2)>> >>
  BY <1>0, CaseRow8
<1>2. TakesModRM(d.lead, x)
  BY <1>0, Row8Takes
<1>3. Sized(a, 2) /\ Reg(d.rm) \in 0 .. 7
  BY <1>2, RowOperands
<1>4. Number(v, 2)
  <2>1. ImmAfterRM(d.lead, x) = << 1 >>
    BY ImmediateWidths
  <2>2. RMImm(d) \in Byte
    BY <1>2, <2>1, RangedAfterRM
  <2>3. v \in Int /\ -128 <= v /\ v < 128
    BY <2>2, SignExtended
  <2> HIDE DEF v
  <2>4. QED
    BY <2>3 DEF Number
<1>5. op \in AluOps
  BY <1>3, AluName
<1> HIDE DEF a, v, op
<1>6. i.op = op /\ i.argv = <<a, ImmArg(v, 2)>>
  BY <1>1, MadeOf
<1>7. QED
  BY <1>3, <1>4, <1>5, <1>6, VerdictAluNumber

(* An operand of the ModR/M byte and a register, in either order.          *)
LEMMA EitherOrder ==
    ASSUME NEW i, NEW w, NEW a, NEW r \in 0 .. 7, ~IsMem(a) => \E q \in 0 .. 7 : a = RegArg(q, w),
           i.argv = <<RegArg(r, w), a>>
    PROVE  IsMem(a) \/ \E c, q : q \in 0 .. 7 /\ Sized(c, w) /\ i.argv = <<c, RegArg(q, w)>>
<1>1. CASE ~IsMem(a)
  <2>1. PICK q \in 0 .. 7 : a = RegArg(q, w)
    BY <1>1
  <2>2. Sized(RegArg(r, w), w) /\ i.argv = <<RegArg(r, w), RegArg(q, w)>>
    BY <2>1, SizedRegister
  <2>3. QED
    BY <2>2
<1>2. QED
  BY <1>1

LEMMA VerdictRow84 ==
    ASSUME NEW d, NEW x, Fields(d, x), d.lead \in \h84 .. \h8B, NEW i, NEW at, Made(i, d, at)
    PROVE  Verdict(i, at)
<1> DEFINE b == d.lead
           w == WidthOf(d.lead)
           a == RM(d, w)
           r == Reg(d.rm)
<1>0. b \in \h80 .. \h8E /\ b \in Int
  OBVIOUS
<1>1. /\ b \in \h84 .. \h85 => Case(d, at) = <<"TEST", <<a, RMReg(d, w)>> >>
      /\ b \in \h86 .. \h87 => Case(d, at) = <<"XCHG", <<a, RMReg(d, w)>> >>
      /\ b \in \h88 .. \h89 => Case(d, at) = <<"MOV", <<a, RMReg(d, w)>> >>
      /\ b \in \h8A .. \h8B => Case(d, at) = <<"MOV", <<RMReg(d, w), a>> >>
  BY <1>0, CaseRow8
<1>2. TakesModRM(b, x) /\ w \in {1, 2}
  BY <1>0, Row8Takes
<1>3. /\ Sized(a, w) /\ r \in 0 .. 7 /\ RMReg(d, w) = RegArg(r, w)
      /\ ~IsMem(a) => \E q \in 0 .. 7 : a = RegArg(q, w)
  BY <1>2, RowOperands
<1>4. b \in \h84 .. \h85 \/ b \in \h86 .. \h87 \/ b \in \h88 .. \h89 \/ b \in \h8A .. \h8B
  OBVIOUS
<1> HIDE DEF a, w, r, b
<1>5. CASE b \in \h84 .. \h85
  <2>1. i.op = "TEST" /\ i.argv = <<a, RegArg(r, w)>>
    BY <1>1, <1>3, <1>5, MadeOf
  <2>2. QED
    BY <1>2, <1>3, <2>1, VerdictTest
<1>6. CASE b \in \h86 .. \h87
  <2>1. i.op = "XCHG" /\ i.argv = <<a, RegArg(r, w)>>
    BY <1>1, <1>3, <1>6, MadeOf
  <2>2. QED
    BY <1>2, <1>3, <2>1, VerdictXchg
<1>7. CASE b \in \h88 .. \h89
  <2>1. i.op = "MOV" /\ i.argv = <<a, RegArg(r, w)>>
    BY <1>1, <1>3, <1>7, MadeOf
  <2>2. QED
    BY <1>2, <1>3, <2>1, VerdictMov
<1>8. CASE b \in \h8A .. \h8B
  <2>1. i.op = "MOV" /\ i.argv = <<RegArg(r, w), a>>
    BY <1>1, <1>3, <1>8, MadeOf
  <2>2. CASE IsMem(a)
    BY <1>2, <1>3, <2>1, <2>2, VerdictMov
  <2>3. CASE ~IsMem(a)
    <3>1. PICK c, q : q \in 0 .. 7 /\ Sized(c, w) /\ i.argv = <<c, RegArg(q, w)>>
      BY <1>3, <2>1, <2>3, EitherOrder
    <3>2. QED
      BY <1>2, <2>1, <3>1, VerdictMov
  <2>4. QED
    BY <2>2, <2>3
<1>9. QED
  BY <1>4, <1>5, <1>6, <1>7, <1>8

LEMMA VerdictRow8C ==
    ASSUME NEW d, NEW x, Fields(d, x), d.lead \in \h8C .. \h8E, NEW i, NEW at, Made(i, d, at)
    PROVE  Verdict(i, at)
<1> DEFINE b == d.lead
           a == RM(d, 2)
           r == Reg(d.rm)
<1>0. b \in \h80 .. \h8E
  OBVIOUS
<1>1. /\ b = \h8C => Case(d, at) = <<"MOV", <<a, SRegArg(r)>> >>
      /\ b = \h8E => Case(d, at) = <<"MOV", <<SRegArg(r), a>> >>
      /\ b = \h8D => Case(d, at) = <<"LEA", <<RMReg(d, 2), a>> >>
  BY <1>0, CaseRow8
<1>2. TakesModRM(b, x)
  BY <1>0, Row8Takes
<1>3. Sized(a, 2) /\ r \in 0 .. 7 /\ RMReg(d, 2) = RegArg(r, 2)
  BY <1>2, RowOperands
<1>4. b = \h8C \/ b = \h8D \/ b = \h8E
  OBVIOUS
<1> HIDE DEF a, r, b
<1>5. CASE b = \h8C
  <2>1. i.op = "MOV" /\ i.argv = <<a, SRegArg(r)>>
    BY <1>1, <1>5, MadeOf
  <2>2. QED
    BY <1>3, <2>1, VerdictMovSegment
<1>6. CASE b = \h8E
  <2>1. i.op = "MOV" /\ i.argv = <<SRegArg(r), a>>
    BY <1>1, <1>6, MadeOf
  <2>2. QED
    BY <1>3, <2>1, VerdictMovSegment
<1>7. CASE b = \h8D
  <2> DEFINE z == 2
  <2>1. i.op = "LEA" /\ i.argv = <<RegArg(r, 2), a>>
    BY <1>1, <1>3, <1>7, MadeOf
  <2>2. ((i.op = "LEA" /\ z = 2) \/ (i.op \in {"LES", "LDS"} /\ z = 4)) /\ Sized(a, z)
    BY <1>3, <2>1
  <2> HIDE DEF z
  <2>3. QED
    BY <1>3, <2>1, <2>2, VerdictLoad
<1>8. QED
  BY <1>4, <1>5, <1>6, <1>7

LEMMA VerdictRowPeek ==
    ASSUME NEW d, NEW x, Fields(d, x), d.lead \in PeekOpcodes, d.op # "UD_NOP", NEW i, NEW at, Made(i, d, at)
    PROVE  Verdict(i, at)
<1> DEFINE b == d.lead
           r == Reg(d.rm)
<1>1. /\ b = \h8F => Case(d, at) = <<"POP", <<RM(d, 2)>> >>
      /\ b = \hC4 => Case(d, at) = <<"LES", <<RMReg(d, 2), RM(d, 4)>> >>
      /\ b = \hC5 => Case(d, at) = <<"LDS", <<RMReg(d, 2), RM(d, 4)>> >>
  BY CasePeek
<1>2. TakesModRM(b, x)
  BY PeekFields
<1>3. /\ r \in 0 .. 7 /\ RMReg(d, 2) = RegArg(r, 2)
      /\ Sized(RM(d, 2), 2) /\ Sized(RM(d, 4), 4)
  BY <1>2, RowOperands
<1>4. b = \h8F \/ b = \hC4 \/ b = \hC5
  BY DEF PeekOpcodes, FarLoads, PopRM
<1> DEFINE a == RM(d, 2)
           c == RM(d, 4)
<1>5. Sized(a, 2) /\ Sized(c, 4)
  BY <1>3
<1>6. /\ b = \h8F => i.op = "POP" /\ i.argv = <<a>>
      /\ b = \hC4 => i.op = "LES" /\ i.argv = <<RegArg(r, 2), c>>
      /\ b = \hC5 => i.op = "LDS" /\ i.argv = <<RegArg(r, 2), c>>
  BY <1>1, <1>3, MadeOf
<1> HIDE DEF a, c, r, b
<1>7. CASE b = \h8F
  BY <1>5, <1>6, <1>7, VerdictStack
<1>8. CASE b = \hC4
  <2>1. i.op \in {"LES", "LDS"} /\ i.argv = <<RegArg(r, 2), c>>
    BY <1>6, <1>8
  <2>2. QED
    BY <1>3, <1>5, <2>1, VerdictLoad
<1>9. CASE b = \hC5
  <2>1. i.op \in {"LES", "LDS"} /\ i.argv = <<RegArg(r, 2), c>>
    BY <1>6, <1>9
  <2>2. QED
    BY <1>3, <1>5, <2>1, VerdictLoad
<1>10. QED
  BY <1>4, <1>7, <1>8, <1>9

(* The rows without a ModR/M byte from 0x90 to 0xBF.                        *)
LEMMA BareRow9 ==
    ASSUME NEW d, NEW x, Fields(d, x), d.lead \in Bare, d.lead \notin DOMAIN PlainOneByte, d.lead \in \h90 .. \hBF, NEW at
    PROVE  Case(d, at) = Rows9toB(d) /\ WidthOf(d.lead) \in {1, 2} /\ d.lead \in Int
<1>1. d.lead \in Int
  OBVIOUS
<1>2. QED
  BY <1>1, BareCase

LEMMA VerdictRowXchg ==
    ASSUME NEW d, NEW x, Fields(d, x), d.lead \in \h91 .. \h97, NEW i, NEW at, Made(i, d, at)
    PROVE  Verdict(i, at)
<1> DEFINE b == d.lead
           r == d.lead % 8
           a == RegArg(AX, 2)
<1>1. d.lead \in Bare /\ d.lead \notin DOMAIN PlainOneByte /\ d.lead \in \h90 .. \hBF /\ b \in Int
  BY DEF Bare, Singles, PlainOneByte
<1>2. Case(d, at) = <<"XCHG", <<a, RegArg(r, 2)>> >>
  <2>1. Case(d, at) = Rows9toB(d)
    BY <1>1, BareRow9
  <2>2. Rows9toB(d) = <<"XCHG", <<a, RegArg(r, 2)>> >>
    BY <1>1, Rows9toBIs
  <2>3. QED
    BY <2>1, <2>2
<1>3. r \in 0 .. 7
  <2> HIDE DEF b
  <2>1. b % 8 \in 0 .. 7
    BY <1>1
  <2>2. QED
    BY <2>1 DEF b
<1>4. Sized(a, 2)
  BY SizedAccumulator
<1> HIDE DEF a, b, r
<1>5. i.op = "XCHG" /\ i.argv = <<a, RegArg(r, 2)>>
  BY <1>2, MadeOf
<1>6. QED
  BY <1>3, <1>4, <1>5, VerdictXchg

LEMMA VerdictRowFar ==
    ASSUME NEW d, NEW x, Fields(d, x), Ranged(d, x), d.lead \in {\h9A, \hEA}, NEW i, NEW at, Made(i, d, at)
    PROVE  Verdict(i, at)
<1> DEFINE v == d.args[1]
           g == d.args[2]
<1>1. d.lead \in Bare /\ d.lead \in WithFar /\ d.lead \notin DOMAIN PlainOneByte /\ d.lead \in Int
  BY DEF Bare, WithFar, PlainOneByte
<1>2. v \in Word16 /\ g \in Word16
  BY <1>1, RangedBare
<1>3. /\ d.lead = \h9A => Case(d, at) = <<"CALL_FAR", <<FarArg(v, g)>> >>
      /\ d.lead = \hEA => Case(d, at) = <<"JMP_FAR", <<FarArg(v, g)>> >>
  <2>1. d.lead = \h9A => Case(d, at) = Rows9toB(d)
    BY <1>1, BareCase
  <2>2. d.lead = \hEA => Case(d, at) = RowE(d, at)
    BY <1>1, BareCase
  <2>3. d.lead = \h9A => Rows9toB(d) = <<"CALL_FAR", <<FarArg(v, g)>> >>
    BY <1>1, Rows9toBIs
  <2>4. d.lead = \hEA => RowE(d, at) = <<"JMP_FAR", <<FarArg(v, g)>> >>
    BY <1>1, RowEIs
  <2>5. QED
    BY <2>1, <2>2, <2>3, <2>4
<1> HIDE DEF v, g
<1>4. i.op \in {"JMP_FAR", "CALL_FAR"} /\ i.argv = <<FarArg(v, g)>>
  BY <1>3, MadeOf
<1>5. QED
  BY <1>2, <1>4, VerdictFar

LEMMA VerdictRowMovDirect ==
    ASSUME NEW d, NEW x, Fields(d, x), Ranged(d, x), d.lead \in \hA0 .. \hA3, NEW i, NEW at, Made(i, d, at)
    PROVE  Verdict(i, at)
<1> DEFINE b == d.lead
           w == WidthOf(d.lead)
           v == d.args[1]
           g == Segmented(d, DS)
           a == MemArg(<< >>, v, g, w)
<1>1. d.lead \in Bare /\ d.lead \in WithWord /\ d.lead \notin DOMAIN PlainOneByte /\ d.lead \in \h90 .. \hBF
  BY DEF Bare, WithWord, PlainOneByte
<1>2. v \in Word16
  BY <1>1, RangedBare
<1>3. Case(d, at) = Rows9toB(d) /\ w \in {1, 2} /\ d.lead \in Int
  BY <1>1, BareRow9
<1>4. Rows9toB(d) = <<"MOV", Ordered(b, RegArg(AX, w), a)>>
  BY <1>3, Rows9toBIs
<1>5. Sized(a, w) /\ IsMem(a)
  <2>1. Sized(a, w)
    BY <1>2, SizedDirect
  <2>2. IsMem(a)
    BY DEF IsMem, MemArg
  <2>3. QED
    BY <2>1, <2>2
<1>6. AX \in 0 .. 7
  BY SizedAccumulator
<1> HIDE DEF a, w, v, b, g
<1>7. i.op = "MOV" /\ i.argv = Ordered(b, RegArg(AX, w), a)
  BY <1>3, <1>4, MadeOf
<1>8. i.argv = <<a, RegArg(AX, w)>> \/ i.argv = <<RegArg(AX, w), a>>
  BY <1>7 DEF Ordered
<1>9. QED
  BY <1>3, <1>5, <1>6, <1>7, <1>8, VerdictMov

LEMMA VerdictRowString ==
    ASSUME NEW d, NEW x, Fields(d, x), d.lead \in \hA4 .. \hA7 \cup \hAA .. \hAF, NEW i, NEW at, Made(i, d, at)
    PROVE  Verdict(i, at)
<1> DEFINE b == d.lead
           w == WidthOf(d.lead)
           g == Segmented(d, DS)
<1>1. d.lead \in Bare /\ d.lead \notin DOMAIN PlainOneByte /\ d.lead \in \h90 .. \hBF
  BY DEF Bare, Singles, PlainOneByte
<1>2. Case(d, at) = Rows9toB(d) /\ w \in {1, 2} /\ b \in Int
  BY <1>1, BareRow9
<1>3. StringSource(d, w) = MemArg(<<SI>>, 0, g, w)
  BY DEF StringSource
<1>4. /\ b \in \hA4 .. \hA5 => Rows9toB(d) = <<"MOVS", <<StringDest(w), MemArg(<<SI>>, 0, g, w)>> >>
      /\ b \in \hA6 .. \hA7 => Rows9toB(d) = <<"CMPS", <<StringDest(w), MemArg(<<SI>>, 0, g, w)>> >>
      /\ b \in \hAA .. \hAB => Rows9toB(d) = <<"STOS", <<StringDest(w)>> >>
      /\ b \in \hAC .. \hAD => Rows9toB(d) = <<"LODS", <<MemArg(<<SI>>, 0, g, w)>> >>
      /\ b \in \hAE .. \hAF => Rows9toB(d) = <<"SCAS", <<StringDest(w)>> >>
  BY <1>2, <1>3, Rows9toBIs
<1>5. b \in \hA4 .. \hA5 \/ b \in \hA6 .. \hA7 \/ b \in \hAA .. \hAB \/ b \in \hAC .. \hAD \/ b \in \hAE .. \hAF
  OBVIOUS
<1> HIDE DEF b, w, g
<1>6. CASE b \in \hA4 .. \hA5 \/ b \in \hA6 .. \hA7
  <2>1. i.op \in {"MOVS", "CMPS"} /\ i.argv = <<StringDest(w), MemArg(<<SI>>, 0, g, w)>>
    BY <1>2, <1>4, <1>6, MadeOf
  <2>2. QED
    BY <1>2, <2>1, VerdictStrings
<1>7. CASE b \in \hAA .. \hAB \/ b \in \hAE .. \hAF
  <2>1. (i.op = "STOS" \/ i.op = "SCAS") /\ i.argv = <<StringDest(w)>>
    BY <1>2, <1>4, <1>7, MadeOf
  <2>2. i.op \in ToES
    BY <2>1 DEF ToES
  <2>3. QED
    BY <1>2, <2>1, <2>2, VerdictString
<1>8. CASE b \in \hAC .. \hAD
  <2>1. i.op = "LODS" /\ i.argv = <<MemArg(<<SI>>, 0, g, w)>>
    BY <1>2, <1>4, <1>8, MadeOf
  <2>2. QED
    BY <1>2, <2>1, VerdictString
<1>9. QED
  BY <1>5, <1>6, <1>7, <1>8

LEMMA VerdictRowTestNumber ==
    ASSUME NEW d, NEW x, Fields(d, x), Ranged(d, x), d.lead \in \hA8 .. \hA9, NEW i, NEW at, Made(i, d, at)
    PROVE  Verdict(i, at)
<1> DEFINE w == WidthOf(d.lead)
           v == d.args[1]
           a == RegArg(AX, w)
<1>1. d.lead \in Bare /\ d.lead \notin DOMAIN PlainOneByte /\ d.lead \in \h90 .. \hBF
  BY DEF Bare, WithByte, WithWord, PlainOneByte
<1>2. Case(d, at) = Rows9toB(d) /\ w \in {1, 2} /\ d.lead \in Int
  BY <1>1, BareRow9
<1>3. Rows9toB(d) = <<"TEST", <<a, ImmArg(v, w)>> >>
  BY <1>2, Rows9toBIs
<1>4. Number(v, w) /\ v >= 0
  <2>1. CASE d.lead = \hA8
    <3>1. d.lead \in WithByte
      BY <2>1 DEF WithByte
    <3>2. v \in Byte
      BY <3>1, RangedBare
    <3>3. QED
      BY <1>2, <3>2, NumberIn
  <2>2. CASE d.lead = \hA9
    <3>1. d.lead \in WithWord
      BY <2>2 DEF WithWord
    <3>2. v \in Word16
      BY <3>1, RangedBare
    <3>3. w = 2
      BY <2>2 DEF WidthOf
    <3>4. QED
      BY <3>2, <3>3, NumberIn
  <2>3. QED
    BY <2>1, <2>2
<1>5. Sized(a, w)
  BY SizedAccumulator
<1> HIDE DEF w, v, a
<1>6. i.op = "TEST" /\ i.argv = <<a, ImmArg(v, w)>>
  BY <1>2, <1>3, MadeOf
<1>7. QED
  BY <1>2, <1>4, <1>5, <1>6, VerdictTestNumber

LEMMA VerdictRowMovNumber ==
    ASSUME NEW d, NEW x, Fields(d, x), Ranged(d, x), d.lead \in \hB0 .. \hBF, NEW i, NEW at, Made(i, d, at)
    PROVE  Verdict(i, at)
<1> DEFINE b == d.lead
           r == d.lead % 8
           v == d.args[1]
<1>1. d.lead \in Bare /\ d.lead \notin DOMAIN PlainOneByte /\ d.lead \in \h90 .. \hBF /\ b \in Int
  BY DEF Bare, WithByte, WithWord, PlainOneByte
<1>2. Case(d, at) = Rows9toB(d)
  BY <1>1, BareRow9
<1>3. /\ b \in \hB0 .. \hB7 => Rows9toB(d) = <<"MOV", <<RegArg(r, 1), ImmArg(v, 1)>> >>
      /\ b \in \hB8 .. \hBF => Rows9toB(d) = <<"MOV", <<RegArg(r, 2), ImmArg(v, 2)>> >>
  BY <1>1, Rows9toBIs
<1>4. r \in 0 .. 7
  <2> HIDE DEF b
  <2>1. b % 8 \in 0 .. 7
    BY <1>1
  <2>2. QED
    BY <2>1 DEF b
<1>5. b \in \hB0 .. \hB7 \/ b \in \hB8 .. \hBF
  OBVIOUS
<1>6. /\ b \in \hB0 .. \hB7 => Number(v, 1) /\ v >= 0
      /\ b \in \hB8 .. \hBF => Number(v, 2) /\ v >= 0
  <2>1. b \in \hB0 .. \hB7 => v \in Byte
    BY RangedBare DEF WithByte
  <2>2. b \in \hB8 .. \hBF => v \in Word16
    BY RangedBare DEF WithWord
  <2>3. QED
    BY <2>1, <2>2, NumberIn
<1> HIDE DEF b, r, v
<1>7. ASSUME NEW w \in {1, 2}, i.op = "MOV", i.argv = <<RegArg(r, w), ImmArg(v, w)>>, Number(v, w), v >= 0
      PROVE  Verdict(i, at)
  <2> DEFINE a == RegArg(r, w)
  <2>1. Sized(a, w)
    BY <1>4, SizedRegister
  <2>2. i.argv = <<a, ImmArg(v, w)>>
    BY <1>7
  <2> HIDE DEF a
  <2>3. QED
    BY <1>7, <2>1, <2>2, VerdictMovNumber
<1>8. CASE b \in \hB0 .. \hB7
  <2>1. i.op = "MOV" /\ i.argv = <<RegArg(r, 1), ImmArg(v, 1)>>
    BY <1>2, <1>3, <1>8, MadeOf
  <2>2. 1 \in {1, 2}
    OBVIOUS
  <2>3. QED
    BY <1>6, <1>7, <1>8, <2>1, <2>2
<1>9. CASE b \in \hB8 .. \hBF
  <2>1. i.op = "MOV" /\ i.argv = <<RegArg(r, 2), ImmArg(v, 2)>>
    BY <1>2, <1>3, <1>9, MadeOf
  <2>2. 2 \in {1, 2}
    OBVIOUS
  <2>3. QED
    BY <1>6, <1>7, <1>9, <2>1, <2>2
<1>10. QED
  BY <1>5, <1>8, <1>9

LEMMA VerdictRowNop ==
    ASSUME NEW d, d.op = "UD_NOP", NEW i, NEW at, Made(i, d, at)
    PROVE  Verdict(i, at)
<1>1. Case(d, at) = <<"UD_NOP", << >> >>
  BY DEF Case
<1>2. i.op = "UD_NOP"
  BY <1>1, MadeOf
<1>3. QED
  BY <1>2, VerdictNoCase DEF NoCase

LEMMA VerdictRowPlain ==
    ASSUME NEW d, NEW x, Fields(d, x), d.lead \in DOMAIN PlainOneByte, NEW i, NEW at, Made(i, d, at)
    PROVE  Verdict(i, at)
<1> DEFINE op == PlainOneByte[d.lead]
<1>1. Case(d, at) = <<op, << >> >>
  BY CasePlain
<1>2. op \in DOMAIN OneByteCode \/ op = "RET" \/ op = "RETF"
  BY PlainNames
<1> HIDE DEF op
<1>3. i.op = op /\ i.argv = << >>
  BY <1>1, MadeOf
<1>4. CASE op \in DOMAIN OneByteCode
  BY <1>3, <1>4, VerdictOneByte
<1>5. CASE op = "RET" \/ op = "RETF"
  BY <1>3, <1>5, VerdictPlainReturn
<1>6. QED
  BY <1>2, <1>4, <1>5

LEMMA ShiftReg ==
    ASSUME NEW d, NEW x, Fields(d, x), d.lead \in ShiftOpcodes, d.op # "UD_NOP"
    PROVE  Reg(d.rm) # 6 /\ TakesModRM(d.lead, x) /\ d.lead \in ModRMOpcodes /\ WidthOf(d.lead) \in {1, 2}
<1> DEFINE b == d.lead
<1>1. b \in {\hC0, \hC1, \hD0, \hD1, \hD2, \hD3} /\ b \in ModRMOpcodes /\ b \in Int
  BY DEF ShiftOpcodes, ModRMOpcodes, ModRMRowC
<1>2. TakesModRM(b, x) /\ d.op = GroupOutcome(b, x) /\ WidthOf(b) \in {1, 2} /\ d.rm = x
  BY <1>1, GroupFields, GroupCase
<1> HIDE DEF b
<1>3. GroupOutcome(b, x) = IF Reg(x) = 6 THEN "UD_NOP" ELSE "OK"
  <2>1. b \notin {PopRM, \hC6, \hC7, \hF6, \hF7, \hFE, \hFF}
    BY <1>1 DEF PopRM
  <2>2. QED
    BY <2>1 DEF GroupOutcome, b
<1>4. Reg(x) # 6
  BY <1>2, <1>3
<1>5. QED
  BY <1>1, <1>2, <1>4 DEF b

LEMMA ShiftName ==
    ASSUME NEW r \in 0 .. 7, r # 6
    PROVE  Shifts[r + 1] \in ShiftOps
  BY DEF Shifts, ShiftOps

LEMMA VerdictRowShift ==
    ASSUME NEW d, NEW x, Fields(d, x), Ranged(d, x), d.lead \in ShiftOpcodes, d.op # "UD_NOP",
           NEW i, NEW at, Made(i, d, at)
    PROVE  Verdict(i, at)
<1> DEFINE b == d.lead
           w == WidthOf(d.lead)
           a == RM(d, w)
           r == Reg(d.rm)
           v == RMImm(d)
           op == Shifts[Reg(d.rm) + 1]
<1>1. r # 6 /\ TakesModRM(b, x) /\ b \in ModRMOpcodes /\ w \in {1, 2}
  BY ShiftReg
<1>2. /\ b \in \hC0 .. \hC1 => Case(d, at) = <<op, <<a, ImmArg(v, 1)>> >>
      /\ b \in \hD0 .. \hD1 => Case(d, at) = <<op, <<a, ImmArg(1, 1)>> >>
      /\ b \in \hD2 .. \hD3 => Case(d, at) = <<op, <<a, RegArg(CX, 1)>> >>
  BY <1>1, CaseGroup
<1>3. Sized(a, w) /\ r \in 0 .. 7
  BY <1>1, RowOperands
<1>4. op \in ShiftOps
  BY <1>1, <1>3, ShiftName
<1>5. b \in \hC0 .. \hC1 \/ b \in \hD0 .. \hD1 \/ b \in \hD2 .. \hD3
  BY DEF ShiftOpcodes
<1>6. b \in \hC0 .. \hC1 => v \in Byte
  <2>1. b \in \hC0 .. \hC1 => b \in {\hC0, \hC1}
    OBVIOUS
  <2>2. b \in {\hC0, \hC1} => ImmAfterRM(b, x) = << 1 >>
    <3> HIDE DEF b
    <3>1. QED
      BY ImmediateWidths
  <2>3. QED
    BY <1>1, <2>1, <2>2, RangedAfterRM
<1>7. 1 \in Byte
  BY DEF Byte
<1> HIDE DEF b, w, a, r, v, op
<1>8. CASE b \in \hC0 .. \hC1
  <2>1. i.op = op /\ i.argv = <<a, ImmArg(v, 1)>>
    BY <1>2, <1>8, MadeOf
  <2>2. \E u \in Byte : i.argv = <<a, ImmArg(u, 1)>>
    BY <1>6, <1>8, <2>1
  <2>3. QED
    BY <1>1, <1>3, <1>4, <2>1, <2>2, VerdictShift
<1>9. CASE b \in \hD0 .. \hD1
  <2>1. i.op = op /\ i.argv = <<a, ImmArg(1, 1)>>
    BY <1>2, <1>9, MadeOf
  <2>2. \E u \in Byte : i.argv = <<a, ImmArg(u, 1)>>
    BY <1>7, <2>1
  <2>3. QED
    BY <1>1, <1>3, <1>4, <2>1, <2>2, VerdictShift
<1>10. CASE b \in \hD2 .. \hD3
  <2>1. i.op = op /\ i.argv = <<a, RegArg(CX, 1)>>
    BY <1>2, <1>10, MadeOf
  <2>2. QED
    BY <1>1, <1>3, <1>4, <2>1, VerdictShift
<1>11. QED
  BY <1>5, <1>8, <1>9, <1>10

LEMMA VerdictRowMovImm ==
    ASSUME NEW d, NEW x, Fields(d, x), Ranged(d, x), d.lead \in {\hC6, \hC7}, d.op # "UD_NOP",
           NEW i, NEW at, Made(i, d, at)
    PROVE  Verdict(i, at)
<1> DEFINE b == d.lead
           w == WidthOf(d.lead)
           a == RM(d, w)
           v == RMImm(d)
<1>1. b \in ModRMOpcodes /\ b \in \hC6 .. \hC7
  BY DEF ModRMOpcodes, ModRMRowC
<1>2. TakesModRM(b, x) /\ d.op = GroupOutcome(b, x) /\ w \in {1, 2}
  BY <1>1, GroupFields, GroupCase
<1>3. Case(d, at) = <<"MOV", <<a, ImmArg(v, w)>> >>
  BY <1>1, CaseGroup
<1>4. Sized(a, w)
  BY <1>2, RowOperands
<1>5. Reg(x) = 0
  <2> HIDE DEF b
  <2>1. b \notin ShiftOpcodes /\ b \in {PopRM, \hC6, \hC7} /\ b \notin {\hF6, \hF7} /\ b \notin {\hFE, \hFF}
    BY <1>1 DEF ShiftOpcodes, PopRM
  <2>2. GroupOutcome(b, x) = IF Reg(x) = 0 THEN "OK" ELSE "UD_NOP"
    BY <2>1 DEF GroupOutcome
  <2>3. QED
    BY <1>2, <2>2
<1>6. Number(v, w) /\ v >= 0
  <2>1. CASE b = \hC6
    <3>1. ImmAfterRM(b, x) = << 1 >>
      BY <1>5, <2>1, ImmediateWidths
    <3>2. v \in Byte
      BY <1>2, <3>1, RangedAfterRM
    <3>3. QED
      BY <1>2, <3>2, NumberIn
  <2>2. CASE b = \hC7
    <3>1. ImmAfterRM(b, x) = << 2 >>
      BY <1>5, <2>2, ImmediateWidths
    <3>2. v \in Word16
      BY <1>2, <3>1, RangedAfterRM
    <3>3. w = 2
      BY <2>2 DEF WidthOf
    <3>4. QED
      BY <3>2, <3>3, NumberIn
  <2>3. QED
    BY <2>1, <2>2
<1> HIDE DEF b, w, a, v
<1>7. i.op = "MOV" /\ i.argv = <<a, ImmArg(v, w)>>
  BY <1>3, MadeOf
<1>8. QED
  BY <1>2, <1>4, <1>6, <1>7, VerdictMovNumber

(* The rows without a ModR/M byte from 0xC0 on.                             *)
LEMMA VerdictRowReturn ==
    ASSUME NEW d, NEW x, Fields(d, x), Ranged(d, x), d.lead \in {\hC2, \hCA}, NEW i, NEW at, Made(i, d, at)
    PROVE  Verdict(i, at)
<1> DEFINE v == d.args[1]
<1>1. d.lead \in Bare /\ d.lead \in WithWord /\ d.lead \notin DOMAIN PlainOneByte /\ d.lead \in \hC0 .. \hDF /\ d.lead \in Int
  BY DEF Bare, WithWord, PlainOneByte
<1>2. v \in Word16
  BY <1>1, RangedBare
<1>3. Case(d, at) = RowsCtoD(d)
  BY <1>1, BareCase
<1>4. /\ d.lead = \hC2 => RowsCtoD(d) = <<"RET", <<ImmArg(v, 2)>> >>
      /\ d.lead = \hCA => RowsCtoD(d) = <<"RETF", <<ImmArg(v, 0)>> >>
  BY <1>1, RowsCtoDIs
<1> HIDE DEF v
<1>5. \/ i.op = "RET" /\ i.argv = <<ImmArg(v, 2)>>
      \/ i.op = "RETF" /\ i.argv = <<ImmArg(v, 0)>>
  BY <1>3, <1>4, MadeOf
<1>6. QED
  BY <1>2, <1>5, VerdictReturn

LEMMA VerdictRowInterrupt ==
    ASSUME NEW d, NEW x, Fields(d, x), Ranged(d, x), d.lead \in {\hCC, \hCD, \hD4, \hD5}, NEW i, NEW at, Made(i, d, at)
    PROVE  Verdict(i, at)
<1> DEFINE v == IF d.lead = \hCC THEN 3 ELSE d.args[1]
<1>1. d.lead \in Bare /\ d.lead \notin DOMAIN PlainOneByte /\ d.lead \in \hC0 .. \hDF /\ d.lead \in Int
  BY DEF Bare, WithByte, Singles, PlainOneByte
<1>2. v \in Byte
  <2>1. CASE d.lead = \hCC
    BY <2>1 DEF Byte
  <2>2. CASE d.lead # \hCC
    <3>1. d.lead \in WithByte
      BY <2>2 DEF WithByte
    <3>2. d.args[1] \in Byte
      BY <3>1, RangedBare
    <3>3. QED
      BY <2>2, <3>2
  <2>3. QED
    BY <2>1, <2>2
<1>3. Case(d, at) = RowsCtoD(d)
  BY <1>1, BareCase
<1>4. /\ d.lead \in {\hCC, \hCD} => RowsCtoD(d) = <<"INT", <<ImmArg(v, 0)>> >>
      /\ d.lead = \hD4 => RowsCtoD(d) = <<"AAM", <<ImmArg(v, 1)>> >>
      /\ d.lead = \hD5 => RowsCtoD(d) = <<"AAD", <<ImmArg(v, 1)>> >>
  BY <1>1, RowsCtoDIs
<1> HIDE DEF v
<1>5. \/ i.op = "INT" /\ i.argv = <<ImmArg(v, 0)>>
      \/ i.op \in {"AAM", "AAD"} /\ i.argv = <<ImmArg(v, 1)>>
  BY <1>3, <1>4, MadeOf
<1>6. QED
  BY <1>2, <1>5, VerdictInterrupt

LEMMA VerdictRowPort ==
    ASSUME NEW d, NEW x, Fields(d, x), Ranged(d, x), d.lead \in \hE4 .. \hE7 \cup \hEC .. \hEF, NEW i, NEW at, Made(i, d, at)
    PROVE  Verdict(i, at)
<1> DEFINE b == d.lead
           w == WidthOf(d.lead)
           v == d.args[1]
<1>1. d.lead \in Bare /\ d.lead \notin DOMAIN PlainOneByte /\ d.lead \in \hE0 .. \hEF /\ d.lead \in Int
  BY DEF Bare, WithByte, Singles, PlainOneByte
<1>2. Case(d, at) = RowE(d, at) /\ w \in {1, 2}
  BY <1>1, BareCase
<1>3. /\ b \in \hE4 .. \hE5 => RowE(d, at) = <<"IN", <<RegArg(AX, w), ImmArg(v, 0)>> >>
      /\ b \in \hE6 .. \hE7 => RowE(d, at) = <<"OUT", <<ImmArg(v, 0), RegArg(AX, w)>> >>
      /\ b \in \hEC .. \hED => RowE(d, at) = <<"IN", <<RegArg(AX, w), RegArg(DX, 2)>> >>
      /\ b \in \hEE .. \hEF => RowE(d, at) = <<"OUT", <<RegArg(DX, 2), RegArg(AX, w)>> >>
  BY <1>1, RowEIs
<1>4. b \in \hE4 .. \hE7 => v \in Byte
  BY RangedBare DEF WithByte
<1>5. (b \in \hE4 .. \hE5 \/ b \in \hE6 .. \hE7) \/ (b \in \hEC .. \hED \/ b \in \hEE .. \hEF)
  OBVIOUS
<1>6. b \in \hE4 .. \hE5 \/ b \in \hE6 .. \hE7 => b \in \hE4 .. \hE7
  OBVIOUS
<1> HIDE DEF b, w, v
<1>7. CASE b \in \hE4 .. \hE5 \/ b \in \hE6 .. \hE7
  <2>1. \/ i.op = "IN" /\ i.argv = <<RegArg(AX, w), ImmArg(v, 0)>>
        \/ i.op = "OUT" /\ i.argv = <<ImmArg(v, 0), RegArg(AX, w)>>
    BY <1>2, <1>3, <1>7, MadeOf
  <2>2. v \in Byte
    BY <1>4, <1>6, <1>7
  <2>3. QED
    BY <1>2, <2>1, <2>2, VerdictPort
<1>8. CASE b \in \hEC .. \hED \/ b \in \hEE .. \hEF
  <2>1. \/ i.op = "IN" /\ i.argv = <<RegArg(AX, w), RegArg(DX, 2)>>
        \/ i.op = "OUT" /\ i.argv = <<RegArg(DX, 2), RegArg(AX, w)>>
    BY <1>2, <1>3, <1>8, MadeOf
  <2>2. QED
    BY <1>2, <2>1, VerdictPortCount
<1>9. QED
  BY <1>5, <1>7, <1>8

LEMMA TargetNumbers ==
    ASSUME NEW d, NEW x, Fields(d, x), Ranged(d, x), NEW at \in Int
    PROVE  /\ d.lead \in WithByte => \E v \in Int : ShortTarget(d, at) = ImmArg(v, 2)
           /\ d.lead \in WithWord => \E v \in Int : NearTarget(d, at) = ImmArg(v, 2)
<1>1. d.len \in Int
  BY DEF Fields
<1>2. ASSUME d.lead \in WithByte PROVE \E v \in Int : ShortTarget(d, at) = ImmArg(v, 2)
  <2>1. d.args[1] \in Byte
    BY <1>2, RangedBare
  <2>2. Signed(d.args[1], 8) \in Int
    BY <2>1, SignExtended
  <2> DEFINE v == at + d.len + Signed(d.args[1], 8)
  <2>3. v \in Int
    BY <1>1, <2>2
  <2>4. ShortTarget(d, at) = ImmArg(v, 2)
    BY DEF ShortTarget
  <2> HIDE DEF v
  <2>5. QED
    BY <2>3, <2>4
<1>3. ASSUME d.lead \in WithWord PROVE \E v \in Int : NearTarget(d, at) = ImmArg(v, 2)
  <2>1. d.args[1] \in Int
    <3>1. d.args[1] \in Word16
      BY <1>3, RangedBare
    <3>2. QED
      BY <3>1, NumberIn
  <2> DEFINE u == at + d.len + d.args[1]
             v == u % 65536
  <2>2. u \in Int
    BY <1>1, <2>1
  <2>3. NearTarget(d, at) = ImmArg(v, 2)
    BY DEF NearTarget
  <2> HIDE DEF u
  <2>4. v \in Int
    BY <2>2
  <2> HIDE DEF v
  <2>5. QED
    BY <2>3, <2>4
<1>4. QED
  BY <1>2, <1>3

LEMMA VerdictRowLoop ==
    ASSUME NEW d, NEW x, Fields(d, x), Ranged(d, x), d.lead \in \hE0 .. \hE3, NEW i, NEW at \in Int, Made(i, d, at)
    PROVE  Verdict(i, at)
<1> DEFINE t == ShortTarget(d, at)
           n == d.lead - \hE0 + 1
           op == Loops[d.lead - \hE0 + 1]
<1>1. d.lead \in Bare /\ d.lead \in WithByte /\ d.lead \notin DOMAIN PlainOneByte /\ d.lead \in \hE0 .. \hEF /\ d.lead \in Int
  BY DEF Bare, WithByte, PlainOneByte
<1>2. Case(d, at) = RowE(d, at)
  BY <1>1, BareCase
<1>3. RowE(d, at) = <<op, <<t>> >>
  BY <1>1, RowEIs
<1>4. PICK v \in Int : t = ImmArg(v, 2)
  BY <1>1, TargetNumbers
<1>5. In(Loops, op)
  <2>1. n \in 1 .. 4
    OBVIOUS
  <2>2. DOMAIN Loops = 1 .. 4
    BY DEF Loops
  <2>3. op = Loops[n]
    OBVIOUS
  <2> HIDE DEF op, n
  <2>4. QED
    BY <2>1, <2>2, <2>3 DEF In
<1> HIDE DEF t, op
<1>6. i.op = op /\ i.argv = <<t>>
  BY <1>2, <1>3, MadeOf
<1>7. i.argv = <<ImmArg(v, 2)>> /\ In(Loops, i.op)
  BY <1>4, <1>5, <1>6
<1>8. QED
  BY <1>7, VerdictBranch

LEMMA VerdictRowJump ==
    ASSUME NEW d, NEW x, Fields(d, x), Ranged(d, x), d.lead \in {\hE8, \hE9, \hEB}, NEW i, NEW at \in Int, Made(i, d, at)
    PROVE  Verdict(i, at)
<1>1. d.lead \in Bare /\ d.lead \notin DOMAIN PlainOneByte /\ d.lead \in \hE0 .. \hEF /\ d.lead \in Int
  BY DEF Bare, WithByte, WithWord, PlainOneByte
<1>2. Case(d, at) = RowE(d, at)
  BY <1>1, BareCase
<1>3. /\ d.lead = \hE8 => RowE(d, at) = <<"CALL", <<NearTarget(d, at)>> >>
      /\ d.lead = \hE9 => RowE(d, at) = <<"JMP", <<NearTarget(d, at)>> >>
      /\ d.lead = \hEB => RowE(d, at) = <<"JMP", <<ShortTarget(d, at)>> >>
  BY <1>1, RowEIs
<1>4. /\ d.lead \in {\hE8, \hE9} => \E v \in Int : NearTarget(d, at) = ImmArg(v, 2)
      /\ d.lead = \hEB => \E v \in Int : ShortTarget(d, at) = ImmArg(v, 2)
  <2>1. d.lead \in {\hE8, \hE9} => d.lead \in WithWord
    BY DEF WithWord
  <2>2. d.lead = \hEB => d.lead \in WithByte
    BY DEF WithByte
  <2>3. QED
    BY <2>1, <2>2, TargetNumbers
<1>5. \E v \in Int : i.op \in {"JMP", "CALL"} /\ i.argv = <<ImmArg(v, 2)>>
  <2>1. CASE d.lead = \hE8
    <3>1. i.op = "CALL" /\ i.argv = <<NearTarget(d, at)>>
      BY <1>2, <1>3, <2>1, MadeOf
    <3>2. PICK v \in Int : NearTarget(d, at) = ImmArg(v, 2)
      BY <1>4, <2>1
    <3>3. QED
      BY <3>1, <3>2
  <2>2. CASE d.lead = \hE9
    <3>1. i.op = "JMP" /\ i.argv = <<NearTarget(d, at)>>
      BY <1>2, <1>3, <2>2, MadeOf
    <3>2. PICK v \in Int : NearTarget(d, at) = ImmArg(v, 2)
      BY <1>4, <2>2
    <3>3. QED
      BY <3>1, <3>2
  <2>3. CASE d.lead = \hEB
    <3>1. i.op = "JMP" /\ i.argv = <<ShortTarget(d, at)>>
      BY <1>2, <1>3, <2>3, MadeOf
    <3>2. PICK v \in Int : ShortTarget(d, at) = ImmArg(v, 2)
      BY <1>4, <2>3
    <3>3. QED
      BY <3>1, <3>2
  <2>4. QED
    BY <2>1, <2>2, <2>3
<1>6. PICK v \in Int : i.op \in {"JMP", "CALL"} /\ i.argv = <<ImmArg(v, 2)>>
  BY <1>5
<1>7. QED
  BY <1>6, VerdictJump

(* The group of 0xF6 and 0xF7.                                              *)
LEMMA Group3Name ==
    ASSUME NEW r \in 0 .. 7
    PROVE  /\ r = 0 => Group3[r + 1] = "TEST"
           /\ r = 1 => Group3[r + 1] \in NoCase
           /\ r > 1 => Group3[r + 1] \in DOMAIN Group3Code
  BY DEF Group3, Group3Code, NoCase

LEMMA VerdictRow3 ==
    ASSUME NEW d, NEW x, Fields(d, x), Ranged(d, x), d.lead \in {\hF6, \hF7}, d.op # "UD_NOP",
           NEW i, NEW at, Made(i, d, at)
    PROVE  Verdict(i, at)
<1> DEFINE b == d.lead
           w == WidthOf(d.lead)
           a == RM(d, w)
           v == RMImm(d)
           r == Reg(d.rm)
           op == Group3[Reg(d.rm) + 1]
<1>1. b \in ModRMOpcodes /\ b \in \hF6 .. \hF7
  BY DEF ModRMOpcodes, ModRMRowF
<1>2. TakesModRM(b, x) /\ w \in {1, 2} /\ d.rm = x
  BY <1>1, GroupFields, GroupCase
<1>3. /\ r + 1 = 1 => Case(d, at) = <<op, <<a, ImmArg(v, w)>> >>
      /\ r + 1 # 1 => Case(d, at) = <<op, <<a>> >>
  BY <1>1, CaseGroup
<1>4. Sized(a, w) /\ r \in 0 .. 7
  BY <1>2, RowOperands
<1>5. /\ r = 0 => op = "TEST"
      /\ r = 1 => op \in NoCase
      /\ r > 1 => op \in DOMAIN Group3Code
  BY <1>4, Group3Name
<1>6. r = 0 => Number(v, w) /\ v >= 0
  <2> SUFFICES ASSUME r = 0 PROVE Number(v, w) /\ v >= 0
    OBVIOUS
  <2>0. Reg(x) = 0
    BY <1>2
  <2>1. CASE b = \hF6
    <3>1. ImmAfterRM(b, x) = << 1 >>
      BY <2>0, <2>1, ImmediateWidths
    <3>2. v \in Byte
      BY <1>2, <3>1, RangedAfterRM
    <3>3. QED
      BY <1>2, <3>2, NumberIn
  <2>2. CASE b = \hF7
    <3>1. ImmAfterRM(b, x) = << 2 >>
      BY <2>0, <2>2, ImmediateWidths
    <3>2. v \in Word16
      BY <1>2, <3>1, RangedAfterRM
    <3>3. w = 2
      BY <2>2 DEF WidthOf
    <3>4. QED
      BY <3>2, <3>3, NumberIn
  <2>3. QED
    BY <2>1, <2>2
<1>7. r = 0 \/ r = 1 \/ r > 1
  BY <1>4
<1> HIDE DEF b, w, a, v, op, r
<1>8. CASE r = 0
  <2>1. Case(d, at) = <<op, <<a, ImmArg(v, w)>> >> /\ op = "TEST"
    BY <1>3, <1>5, <1>8
  <2>2. i.op = "TEST" /\ i.argv = <<a, ImmArg(v, w)>>
    BY <2>1, MadeOf
  <2>3. QED
    BY <1>2, <1>4, <1>6, <1>8, <2>2, VerdictTestNumber
<1>9. CASE r = 1
  <2>1. Case(d, at) = <<op, <<a>> >> /\ op \in NoCase
    BY <1>3, <1>5, <1>9
  <2>2. i.op \in NoCase
    BY <2>1, MadeOf
  <2>3. QED
    BY <2>2, VerdictNoCase
<1>10. CASE r > 1
  <2>0. r + 1 # 1
    BY <1>4, <1>10
  <2>1. Case(d, at) = <<op, <<a>> >> /\ op \in DOMAIN Group3Code
    BY <1>3, <1>5, <1>10, <2>0
  <2>2. i.op \in DOMAIN Group3Code /\ i.argv = <<a>>
    BY <2>1, MadeOf
  <2>3. QED
    BY <1>2, <1>4, <2>2, VerdictGroup3
<1>11. QED
  BY <1>7, <1>8, <1>9, <1>10

(* The group of 0xFE and 0xFF.                                              *)
LEMMA Group5Name ==
    ASSUME NEW r \in 0 .. 7
    PROVE  /\ r \in {0, 1} => Group5[r + 1] = "INC" \/ Group5[r + 1] = "DEC"
           /\ r \in {2, 4} => Group5[r + 1] \in {"JMP", "CALL"}
           /\ r \in {3, 5} => Group5[r + 1] \in {"JMP_FAR", "CALL_FAR"}
           /\ r \in {6, 7} => Group5[r + 1] = "PUSH" \/ Group5[r + 1] = "POP"
           /\ r \in {0, 1} \/ r \in {2, 4} \/ r \in {3, 5} \/ r \in {6, 7}
<1>1. r = 0 \/ r = 1 \/ r = 2 \/ r = 3 \/ r = 4 \/ r = 5 \/ r = 6 \/ r = 7
  OBVIOUS
<1>2. QED
  BY <1>1 DEF Group5

LEMMA VerdictRow5 ==
    ASSUME NEW d, NEW x, Fields(d, x), d.lead \in {\hFE, \hFF}, d.op # "UD_NOP", NEW i, NEW at, Made(i, d, at)
    PROVE  Verdict(i, at)
<1> DEFINE b == d.lead
           w == WidthOf(d.lead)
           r == Reg(d.rm)
           op == Group5[Reg(d.rm) + 1]
           a == RM(d, w)
           c == RM(d, w + 2)
<1>1. b \in ModRMOpcodes /\ b \in \hFE .. \hFF /\ b \in Int
  BY DEF ModRMOpcodes, ModRMRowF
<1>2. TakesModRM(b, x) /\ w \in {1, 2} /\ d.rm = x /\ d.op = GroupOutcome(b, x)
  BY <1>1, GroupFields, GroupCase
<1>3. /\ r + 1 \in {4, 6} => Case(d, at) = <<op, <<c>> >>
      /\ r + 1 \notin {4, 6} => Case(d, at) = <<op, <<a>> >>
  BY <1>1, CaseGroup
<1>4. /\ Sized(a, w) /\ Sized(c, w + 2) /\ r \in 0 .. 7
      /\ Mod(x) # 3 => IsMem(c)
  BY <1>2, RowOperands
<1>5. r \in 2 .. 5 => w = 2
  <2>1. GroupOutcome(b, x) = IncDecGroup(b, x)
    <3> HIDE DEF b
    <3>1. b \notin ShiftOpcodes /\ b \notin {PopRM, \hC6, \hC7} /\ b \notin {\hF6, \hF7} /\ b \in {\hFE, \hFF}
      BY <1>1 DEF ShiftOpcodes, PopRM
    <3>2. QED
      BY <3>1 DEF GroupOutcome
  <2>2. r \in 2 .. 5 => b % 2 # 0
    BY <1>2, <2>1 DEF IncDecGroup
  <2> HIDE DEF b, r
  <2>3. b % 2 \in {0, 1}
    BY <1>1
  <2>4. QED
    BY <2>2, <2>3 DEF WidthOf, b
<1>6. r \in {3, 5} => Mod(x) # 3
  <2>1. GroupOutcome(b, x) = IncDecGroup(b, x)
    <3> HIDE DEF b
    <3>1. b \notin ShiftOpcodes /\ b \notin {PopRM, \hC6, \hC7} /\ b \notin {\hF6, \hF7} /\ b \in {\hFE, \hFF}
      BY <1>1 DEF ShiftOpcodes, PopRM
    <3>2. QED
      BY <3>1 DEF GroupOutcome
  <2>2. QED
    BY <1>2, <2>1 DEF IncDecGroup
<1>7. /\ r \in {0, 1} => op = "INC" \/ op = "DEC"
      /\ r \in {2, 4} => op \in {"JMP", "CALL"}
      /\ r \in {3, 5} => op \in {"JMP_FAR", "CALL_FAR"}
      /\ r \in {6, 7} => op = "PUSH" \/ op = "POP"
      /\ r \in {0, 1} \/ r \in {2, 4} \/ r \in {3, 5} \/ r \in {6, 7}
  BY <1>4, Group5Name
<1> HIDE DEF b, w, a, c, op, r
<1>8. CASE r \in {0, 1} \/ r \in {6, 7}
  <2>1. r + 1 \notin {4, 6}
    BY <1>8
  <2>2. i.op = op /\ i.argv = <<a>>
    BY <1>3, <2>1, MadeOf
  <2>3. CASE r \in {0, 1}
    BY <1>2, <1>4, <1>7, <2>2, <2>3, VerdictIncDec
  <2>4. CASE r \in {6, 7}
    BY <1>2, <1>4, <1>7, <2>2, <2>4, VerdictStack
  <2>5. QED
    BY <1>8, <2>3, <2>4
<1>9. CASE r \in {2, 4}
  <2>1. r + 1 \notin {4, 6} /\ r \in 2 .. 5
    BY <1>9
  <2>2. i.op = op /\ i.argv = <<a>>
    BY <1>3, <2>1, MadeOf
  <2>3. Sized(a, 2)
    BY <1>4, <1>5, <2>1
  <2>4. QED
    BY <1>7, <1>9, <2>2, <2>3, VerdictIndirect
<1>10. CASE r \in {3, 5}
  <2>1. r + 1 \in {4, 6} /\ r \in 2 .. 5
    BY <1>10
  <2>2. i.op = op /\ i.argv = <<c>>
    BY <1>3, <2>1, MadeOf
  <2>3. w + 2 = 4
    BY <1>5, <2>1
  <2>4. Sized(c, 4) /\ IsMem(c)
    BY <1>4, <1>6, <1>10, <2>3
  <2>5. QED
    BY <1>7, <1>10, <2>2, <2>4, VerdictFarMemory
<1>11. QED
  BY <1>7, <1>8, <1>9, <1>10

(* The escapes with a register of the stack.                                *)
LEMMA RegisterMade ==
    ASSUME NEW d, NEW x, Fields(d, x), d.lead \in FPUEscapes, d.op # "UD_NOP", Mod(x) = 3,
           NEW i, NEW at, Made(i, d, at)
    PROVE  /\ i.op = FpuRegisterForm(d)[1] /\ i.argv = FpuRegisterForm(d)[2]
           /\ FPURegister(d.lead, x) /\ d.fpu = x
           /\ Reg(x) \in 0 .. 7 /\ x % 8 \in 0 .. 7
  BY CaseEscape DEF Made, Rm

LEMMA RegisterNames ==
    ASSUME NEW n \in 0 .. 7
    PROVE  /\ FpuArith[n + 1] \in ArithNames
           /\ n \notin {2, 3} => FpuArithR[n + 1] \in {"FADD", "FMUL", "FSUB", "FSUBR", "FDIV", "FDIVR"}
           /\ n \notin {2, 3} => FpuArithP[n + 1] \in PopNames
           /\ FpuArithP[4] \in NoCase
           /\ n \notin {1, 6, 7} => FpuStack[n + 1] \in {"FLD", "FXCH", "FFREE", "FST", "FSTP", "FUCOM", "FUCOMP"}
           /\ FpuInt[n + 1] \in IntNames
<1>1. n = 0 \/ n = 1 \/ n = 2 \/ n = 3 \/ n = 4 \/ n = 5 \/ n = 6 \/ n = 7
  OBVIOUS
<1>2. FpuArith[n + 1] \in ArithNames
  BY <1>1 DEF FpuArith, ArithNames
<1>3. n \notin {2, 3} => FpuArithR[n + 1] \in {"FADD", "FMUL", "FSUB", "FSUBR", "FDIV", "FDIVR"}
  BY <1>1 DEF FpuArithR
<1>4. n \notin {2, 3} => FpuArithP[n + 1] \in PopNames
  BY <1>1 DEF FpuArithP, PopNames
<1>5. FpuArithP[4] \in NoCase
  BY DEF FpuArithP, NoCase
<1>6. n \notin {1, 6, 7} => FpuStack[n + 1] \in {"FLD", "FXCH", "FFREE", "FST", "FSTP", "FUCOM", "FUCOMP"}
  BY <1>1 DEF FpuStack
<1>7. FpuInt[n + 1] \in IntNames
  BY <1>1 DEF FpuInt, IntNames
<1>8. QED
  BY <1>2, <1>3, <1>4, <1>5, <1>6, <1>7

LEMMA VerdictRowStack ==
    ASSUME NEW d, NEW x, Fields(d, x), d.lead \in {\hD8, \hDC, \hDD, \hDE}, d.op # "UD_NOP", Mod(x) = 3,
           NEW i, NEW at, Made(i, d, at)
    PROVE  Verdict(i, at)
<1> DEFINE b == d.lead
           r == x % 8
           n == Reg(x)
<1>1. b \in FPUEscapes
  BY DEF FPUEscapes
<1>2. /\ i.op = FpuRegisterForm(d)[1] /\ i.argv = FpuRegisterForm(d)[2]
      /\ FPURegister(b, x) /\ d.fpu = x /\ n \in 0 .. 7 /\ r \in 0 .. 7
  BY <1>1, RegisterMade
<1>3. /\ b = \hD8 => FpuRegisterForm(d) = <<FpuArith[n + 1], <<STArg(0), STArg(r)>> >>
      /\ b = \hDC => FpuRegisterForm(d) = <<FpuArithR[n + 1], <<STArg(r), STArg(0)>> >>
      /\ b = \hDE /\ n # 3 => FpuRegisterForm(d) = <<FpuArithP[n + 1], <<STArg(r), STArg(0)>> >>
      /\ b = \hDE /\ n = 3 => FpuRegisterForm(d) = <<FpuArithP[n + 1], <<STArg(0), STArg(r)>> >>
      /\ b = \hDD => FpuRegisterForm(d) = <<FpuStack[n + 1], <<STArg(r)>> >>
  BY <1>2, RegisterForms
<1>4. /\ b = \hDC => n \notin {2, 3}
      /\ b = \hDD => n \notin {1, 6, 7}
      /\ b = \hDE => n # 2
  <2>1. FPURegister(b, x)
    BY <1>2
  <2> HIDE DEF b, n
  <2>2. b = \hDC => n \notin {2, 3}
    BY <2>1 DEF FPURegister, n
  <2>3. b = \hDD => n \notin {1, 6, 7}
    BY <2>1 DEF FPURegister, n
  <2>4. b = \hDE => n # 2
    BY <2>1 DEF FPURegister, n
  <2>5. QED
    BY <2>2, <2>3, <2>4
<1> HIDE DEF b, r, n
<1>5. CASE b = \hD8
  <2>1. i.op = FpuArith[n + 1] /\ i.argv = <<STArg(0), STArg(r)>>
    BY <1>2, <1>3, <1>5
  <2>2. i.op \in ArithNames
    BY <1>2, <2>1, RegisterNames
  <2>3. QED
    BY <1>2, <2>1, <2>2, VerdictToTop
<1>6. CASE b = \hDC
  <2>1. i.op = FpuArithR[n + 1] /\ i.argv = <<STArg(r), STArg(0)>>
    BY <1>2, <1>3, <1>6
  <2>2. i.op \in {"FADD", "FMUL", "FSUB", "FSUBR", "FDIV", "FDIVR"}
    BY <1>2, <1>4, <1>6, <2>1, RegisterNames
  <2>3. QED
    BY <1>2, <2>1, <2>2, VerdictFromTop
<1>7. CASE b = \hDD
  <2>1. i.op = FpuStack[n + 1] /\ i.argv = <<STArg(r)>>
    BY <1>2, <1>3, <1>7
  <2>2. i.op \in {"FLD", "FXCH", "FFREE", "FST", "FSTP", "FUCOM", "FUCOMP"}
    BY <1>2, <1>4, <1>7, <2>1, RegisterNames
  <2>3. QED
    BY <1>2, <2>1, <2>2, VerdictStackMove
<1>8. CASE b = \hDE /\ n # 3
  <2>1. i.op = FpuArithP[n + 1] /\ i.argv = <<STArg(r), STArg(0)>>
    BY <1>2, <1>3, <1>8
  <2>2. n \notin {2, 3}
    BY <1>4, <1>8
  <2>3. i.op \in PopNames
    BY <1>2, <2>1, <2>2, RegisterNames
  <2>4. QED
    BY <1>2, <2>1, <2>3, VerdictPop
<1>9. CASE b = \hDE /\ n = 3
  <2>1. i.op = FpuArithP[n + 1]
    BY <1>2, <1>3, <1>9
  <2>2. n + 1 = 4
    BY <1>9
  <2>3. i.op \in NoCase
    BY <1>2, <2>1, <2>2, RegisterNames
  <2>4. QED
    BY <2>3, VerdictNoCase
<1>10. QED
  BY <1>5, <1>6, <1>7, <1>8, <1>9 DEF b

LEMMA VerdictRowD9 ==
    ASSUME NEW d, NEW x, Fields(d, x), d.lead = \hD9, d.op # "UD_NOP", Mod(x) = 3,
           NEW i, NEW at, Made(i, d, at)
    PROVE  Verdict(i, at)
<1> DEFINE r == x % 8
           n == Reg(x)
<1>1. d.lead \in FPUEscapes
  BY DEF FPUEscapes
<1>2. /\ i.op = FpuRegisterForm(d)[1] /\ i.argv = FpuRegisterForm(d)[2]
      /\ FPURegister(d.lead, x) /\ d.fpu = x /\ n \in 0 .. 7 /\ r \in 0 .. 7
  BY <1>1, RegisterMade
<1>3. /\ n = 0 => FpuRegisterForm(d) = <<"FLD", <<STArg(r)>> >>
      /\ n = 1 => FpuRegisterForm(d) = <<"FXCH", <<STArg(r)>> >>
      /\ n > 1 => FpuRegisterForm(d) = <<PlainFpu(x), << >> >>
  BY <1>2, RegisterForms
<1>4. n > 1 => PlainFpu(x) \in DOMAIN FpuNoOperand
  <2>1. x \in \hC0 .. \hD0 \cup {\hE0, \hE1, \hE4, \hE5} \cup \hE8 .. \hEE \cup \hF0 .. \hFF
    BY <1>2 DEF FPURegister
  <2>2. n > 1 => x \notin \hC0 .. \hCF
    BY DEF Reg
  <2>3. n > 1 => x \in {\hD0, \hE0, \hE1, \hE4, \hE5} \cup \hE8 .. \hEE \cup \hF0 .. \hFF
    BY <2>1, <2>2
  <2>4. QED
    BY <2>3, PlainFpuNames
<1>5. n = 0 \/ n = 1 \/ n > 1
  BY <1>2
<1> HIDE DEF r, n
<1>6. CASE n = 0 \/ n = 1
  <2>1. (i.op = "FLD" \/ i.op = "FXCH") /\ i.argv = <<STArg(r)>>
    BY <1>2, <1>3, <1>6
  <2>2. QED
    BY <1>2, <2>1, VerdictStackMove
<1>7. CASE n > 1
  <2>1. i.op = PlainFpu(x) /\ i.argv = << >>
    BY <1>2, <1>3, <1>7
  <2>2. i.op \in DOMAIN FpuNoOperand
    BY <1>4, <1>7, <2>1
  <2>3. QED
    BY <2>1, <2>2, VerdictPlainFpu
<1>8. QED
  BY <1>5, <1>6, <1>7

LEMMA VerdictRowControl ==
    ASSUME NEW d, NEW x, Fields(d, x), d.lead \in {\hDA, \hDB, \hDF}, d.op # "UD_NOP", Mod(x) = 3,
           NEW i, NEW at, Made(i, d, at)
    PROVE  Verdict(i, at)
<1>1. d.lead \in FPUEscapes
  BY DEF FPUEscapes
<1>2. /\ i.op = FpuRegisterForm(d)[1] /\ i.argv = FpuRegisterForm(d)[2]
      /\ FPURegister(d.lead, x) /\ d.fpu = x
  BY <1>1, RegisterMade
<1>3. /\ d.lead = \hDA => FpuRegisterForm(d) = <<"FUCOMPP", << >> >>
      /\ d.lead = \hDB => FpuRegisterForm(d) = <<PlainControl[x - \hDF], << >> >>
      /\ d.lead = \hDF => FpuRegisterForm(d) = <<"FSTSW", <<RegArg(AX, 2)>> >>
  BY <1>2, RegisterForms
<1>4. CASE d.lead = \hDA
  <2>1. i.op = "FUCOMPP" /\ i.argv = << >>
    BY <1>2, <1>3, <1>4
  <2>2. QED
    BY <2>1, VerdictPlainFpu
<1>5. CASE d.lead = \hDB
  <2>1. x \in \hE0 .. \hE3
    BY <1>2, <1>5 DEF FPURegister
  <2>2. PlainControl[x - \hDF] \in {"FCLEX", "FDISI", "FENI", "FINIT"}
    BY <2>1 DEF PlainControl
  <2>3. i.op \in {"FCLEX", "FDISI", "FENI", "FINIT"} /\ i.argv = << >>
    BY <1>2, <1>3, <1>5, <2>2
  <2>4. QED
    BY <2>3, VerdictPlainFpu
<1>6. CASE d.lead = \hDF
  <2>1. i.op = "FSTSW" /\ i.argv = <<RegArg(AX, 2)>>
    BY <1>2, <1>3, <1>6
  <2>2. QED
    BY <2>1, VerdictStatus
<1>7. QED
  BY <1>4, <1>5, <1>6

(* The escapes with a memory operand: the forms of the loads and stores.    *)
Move(b, n, op, w) ==
    /\ FormIs(b, n, op, w) /\ op \in FpuMoves
    /\ b \in {\hDB, \hDF} => op \in SkipsST0
    /\ CodeIs(op, w, b, n) /\ (op = "FISTP" => w # 8)

LEMMA MovesOfD9 ==
    ASSUME NEW n \in 0 .. 7, n # 1
    PROVE  \E op, w : Move(\hD9, n, op, w)
<1>1. Move(\hD9, 0, "FLD", 4)
  <2>1. FormIs(\hD9, 0, "FLD", 4)
    BY MemoryNames DEF FormIs
  <2>2. CodeIs("FLD", 4, \hD9, 0)
    BY MemoryCodes DEF CodeIs
  <2>3. "FLD" \in FpuMoves /\ (\hD9 \in {\hDB, \hDF} => "FLD" \in SkipsST0)
    BY FpuTablesAre DEF SkipsST0
  <2>4. QED
    BY <2>1, <2>2, <2>3 DEF Move
<1>2. Move(\hD9, 2, "FST", 4)
  <2>1. FormIs(\hD9, 2, "FST", 4)
    BY MemoryNames DEF FormIs
  <2>2. CodeIs("FST", 4, \hD9, 2)
    BY MemoryCodes DEF CodeIs
  <2>3. "FST" \in FpuMoves /\ (\hD9 \in {\hDB, \hDF} => "FST" \in SkipsST0)
    BY FpuTablesAre DEF SkipsST0
  <2>4. QED
    BY <2>1, <2>2, <2>3 DEF Move
<1>3. Move(\hD9, 3, "FSTP", 4)
  <2>1. FormIs(\hD9, 3, "FSTP", 4)
    BY MemoryNames DEF FormIs
  <2>2. CodeIs("FSTP", 4, \hD9, 3)
    BY MemoryCodes DEF CodeIs
  <2>3. "FSTP" \in FpuMoves /\ (\hD9 \in {\hDB, \hDF} => "FSTP" \in SkipsST0)
    BY FpuTablesAre DEF SkipsST0
  <2>4. QED
    BY <2>1, <2>2, <2>3 DEF Move
<1>4. Move(\hD9, 4, "FLDENV", 14)
  <2>1. FormIs(\hD9, 4, "FLDENV", 14)
    BY MemoryNames DEF FormIs
  <2>2. CodeIs("FLDENV", 14, \hD9, 4)
    BY MemoryCodes DEF CodeIs
  <2>3. "FLDENV" \in FpuMoves /\ (\hD9 \in {\hDB, \hDF} => "FLDENV" \in SkipsST0)
    BY FpuTablesAre DEF SkipsST0
  <2>4. QED
    BY <2>1, <2>2, <2>3 DEF Move
<1>5. Move(\hD9, 5, "FLDCW", 2)
  <2>1. FormIs(\hD9, 5, "FLDCW", 2)
    BY MemoryNames DEF FormIs
  <2>2. CodeIs("FLDCW", 2, \hD9, 5)
    BY MemoryCodes DEF CodeIs
  <2>3. "FLDCW" \in FpuMoves /\ (\hD9 \in {\hDB, \hDF} => "FLDCW" \in SkipsST0)
    BY FpuTablesAre DEF SkipsST0
  <2>4. QED
    BY <2>1, <2>2, <2>3 DEF Move
<1>6. Move(\hD9, 6, "FSTENV", 14)
  <2>1. FormIs(\hD9, 6, "FSTENV", 14)
    BY MemoryNames DEF FormIs
  <2>2. CodeIs("FSTENV", 14, \hD9, 6)
    BY MemoryCodes DEF CodeIs
  <2>3. "FSTENV" \in FpuMoves /\ (\hD9 \in {\hDB, \hDF} => "FSTENV" \in SkipsST0)
    BY FpuTablesAre DEF SkipsST0
  <2>4. QED
    BY <2>1, <2>2, <2>3 DEF Move
<1>7. Move(\hD9, 7, "FSTCW", 2)
  <2>1. FormIs(\hD9, 7, "FSTCW", 2)
    BY MemoryNames DEF FormIs
  <2>2. CodeIs("FSTCW", 2, \hD9, 7)
    BY MemoryCodes DEF CodeIs
  <2>3. "FSTCW" \in FpuMoves /\ (\hD9 \in {\hDB, \hDF} => "FSTCW" \in SkipsST0)
    BY FpuTablesAre DEF SkipsST0
  <2>4. QED
    BY <2>1, <2>2, <2>3 DEF Move
<1>8. n = 0 \/ n = 2 \/ n = 3 \/ n = 4 \/ n = 5 \/ n = 6 \/ n = 7
  OBVIOUS
<1>9. QED
  BY <1>1, <1>2, <1>3, <1>4, <1>5, <1>6, <1>7, <1>8

LEMMA MovesOfDB ==
    ASSUME NEW n \in 0 .. 7, n # 4, n # 6, n # 7
    PROVE  \E op, w : Move(\hDB, n, op, w)
<1>1. Move(\hDB, 0, "FILD", 4)
  <2>1. FormIs(\hDB, 0, "FILD", 4)
    BY MemoryNames DEF FormIs
  <2>2. CodeIs("FILD", 4, \hDB, 0)
    BY MemoryCodes DEF CodeIs
  <2>3. "FILD" \in FpuMoves /\ (\hDB \in {\hDB, \hDF} => "FILD" \in SkipsST0)
    BY FpuTablesAre DEF SkipsST0
  <2>4. QED
    BY <2>1, <2>2, <2>3 DEF Move
<1>2. Move(\hDB, 1, "FISTTP", 4)
  <2>1. FormIs(\hDB, 1, "FISTTP", 4)
    BY MemoryNames DEF FormIs
  <2>2. CodeIs("FISTTP", 4, \hDB, 1)
    BY MemoryCodes DEF CodeIs
  <2>3. "FISTTP" \in FpuMoves /\ (\hDB \in {\hDB, \hDF} => "FISTTP" \in SkipsST0)
    BY FpuTablesAre DEF SkipsST0
  <2>4. QED
    BY <2>1, <2>2, <2>3 DEF Move
<1>3. Move(\hDB, 2, "FIST", 4)
  <2>1. FormIs(\hDB, 2, "FIST", 4)
    BY MemoryNames DEF FormIs
  <2>2. CodeIs("FIST", 4, \hDB, 2)
    BY MemoryCodes DEF CodeIs
  <2>3. "FIST" \in FpuMoves /\ (\hDB \in {\hDB, \hDF} => "FIST" \in SkipsST0)
    BY FpuTablesAre DEF SkipsST0
  <2>4. QED
    BY <2>1, <2>2, <2>3 DEF Move
<1>4. Move(\hDB, 3, "FISTP", 4)
  <2>1. FormIs(\hDB, 3, "FISTP", 4)
    BY MemoryNames DEF FormIs
  <2>2. CodeIs("FISTP", 4, \hDB, 3)
    BY MemoryCodes DEF CodeIs
  <2>3. "FISTP" \in FpuMoves /\ (\hDB \in {\hDB, \hDF} => "FISTP" \in SkipsST0)
    BY FpuTablesAre DEF SkipsST0
  <2>4. QED
    BY <2>1, <2>2, <2>3 DEF Move
<1>5. Move(\hDB, 5, "FLD", 10)
  <2>1. FormIs(\hDB, 5, "FLD", 10)
    BY MemoryNames DEF FormIs
  <2>2. CodeIs("FLD", 10, \hDB, 5)
    BY MemoryCodes DEF CodeIs
  <2>3. "FLD" \in FpuMoves /\ (\hDB \in {\hDB, \hDF} => "FLD" \in SkipsST0)
    BY FpuTablesAre DEF SkipsST0
  <2>4. QED
    BY <2>1, <2>2, <2>3 DEF Move
<1>6. n = 0 \/ n = 1 \/ n = 2 \/ n = 3 \/ n = 5
  OBVIOUS
<1>7. QED
  BY <1>1, <1>2, <1>3, <1>4, <1>5, <1>6

LEMMA MovesOfDD ==
    ASSUME NEW n \in 0 .. 7, n # 5
    PROVE  \E op, w : Move(\hDD, n, op, w)
<1>1. Move(\hDD, 0, "FLD", 8)
  <2>1. FormIs(\hDD, 0, "FLD", 8)
    BY MemoryNames DEF FormIs
  <2>2. CodeIs("FLD", 8, \hDD, 0)
    BY MemoryCodes DEF CodeIs
  <2>3. "FLD" \in FpuMoves /\ (\hDD \in {\hDB, \hDF} => "FLD" \in SkipsST0)
    BY FpuTablesAre DEF SkipsST0
  <2>4. QED
    BY <2>1, <2>2, <2>3 DEF Move
<1>2. Move(\hDD, 1, "FISTTP", 8)
  <2>1. FormIs(\hDD, 1, "FISTTP", 8)
    BY MemoryNames DEF FormIs
  <2>2. CodeIs("FISTTP", 8, \hDD, 1)
    BY MemoryCodes DEF CodeIs
  <2>3. "FISTTP" \in FpuMoves /\ (\hDD \in {\hDB, \hDF} => "FISTTP" \in SkipsST0)
    BY FpuTablesAre DEF SkipsST0
  <2>4. QED
    BY <2>1, <2>2, <2>3 DEF Move
<1>3. Move(\hDD, 2, "FST", 8)
  <2>1. FormIs(\hDD, 2, "FST", 8)
    BY MemoryNames DEF FormIs
  <2>2. CodeIs("FST", 8, \hDD, 2)
    BY MemoryCodes DEF CodeIs
  <2>3. "FST" \in FpuMoves /\ (\hDD \in {\hDB, \hDF} => "FST" \in SkipsST0)
    BY FpuTablesAre DEF SkipsST0
  <2>4. QED
    BY <2>1, <2>2, <2>3 DEF Move
<1>4. Move(\hDD, 3, "FSTP", 8)
  <2>1. FormIs(\hDD, 3, "FSTP", 8)
    BY MemoryNames DEF FormIs
  <2>2. CodeIs("FSTP", 8, \hDD, 3)
    BY MemoryCodes DEF CodeIs
  <2>3. "FSTP" \in FpuMoves /\ (\hDD \in {\hDB, \hDF} => "FSTP" \in SkipsST0)
    BY FpuTablesAre DEF SkipsST0
  <2>4. QED
    BY <2>1, <2>2, <2>3 DEF Move
<1>5. Move(\hDD, 4, "FRSTOR", 108)
  <2>1. FormIs(\hDD, 4, "FRSTOR", 108)
    BY MemoryNames DEF FormIs
  <2>2. CodeIs("FRSTOR", 108, \hDD, 4)
    BY MemoryCodes DEF CodeIs
  <2>3. "FRSTOR" \in FpuMoves /\ (\hDD \in {\hDB, \hDF} => "FRSTOR" \in SkipsST0)
    BY FpuTablesAre DEF SkipsST0
  <2>4. QED
    BY <2>1, <2>2, <2>3 DEF Move
<1>6. Move(\hDD, 6, "FSAVE", 108)
  <2>1. FormIs(\hDD, 6, "FSAVE", 108)
    BY MemoryNames DEF FormIs
  <2>2. CodeIs("FSAVE", 108, \hDD, 6)
    BY MemoryCodes DEF CodeIs
  <2>3. "FSAVE" \in FpuMoves /\ (\hDD \in {\hDB, \hDF} => "FSAVE" \in SkipsST0)
    BY FpuTablesAre DEF SkipsST0
  <2>4. QED
    BY <2>1, <2>2, <2>3 DEF Move
<1>7. Move(\hDD, 7, "FSTSW", 2)
  <2>1. FormIs(\hDD, 7, "FSTSW", 2)
    BY MemoryNames DEF FormIs
  <2>2. CodeIs("FSTSW", 2, \hDD, 7)
    BY MemoryCodes DEF CodeIs
  <2>3. "FSTSW" \in FpuMoves /\ (\hDD \in {\hDB, \hDF} => "FSTSW" \in SkipsST0)
    BY FpuTablesAre DEF SkipsST0
  <2>4. QED
    BY <2>1, <2>2, <2>3 DEF Move
<1>8. n = 0 \/ n = 1 \/ n = 2 \/ n = 3 \/ n = 4 \/ n = 6 \/ n = 7
  OBVIOUS
<1>9. QED
  BY <1>1, <1>2, <1>3, <1>4, <1>5, <1>6, <1>7, <1>8

LEMMA MovesOfDF ==
    ASSUME NEW n \in 0 .. 7, n # 7
    PROVE  \E op, w : Move(\hDF, n, op, w)
<1>1. Move(\hDF, 0, "FILD", 2)
  <2>1. FormIs(\hDF, 0, "FILD", 2)
    BY MemoryNames DEF FormIs
  <2>2. CodeIs("FILD", 2, \hDF, 0)
    BY MemoryCodes DEF CodeIs
  <2>3. "FILD" \in FpuMoves /\ (\hDF \in {\hDB, \hDF} => "FILD" \in SkipsST0)
    BY FpuTablesAre DEF SkipsST0
  <2>4. QED
    BY <2>1, <2>2, <2>3 DEF Move
<1>2. Move(\hDF, 1, "FISTTP", 2)
  <2>1. FormIs(\hDF, 1, "FISTTP", 2)
    BY MemoryNames DEF FormIs
  <2>2. CodeIs("FISTTP", 2, \hDF, 1)
    BY MemoryCodes DEF CodeIs
  <2>3. "FISTTP" \in FpuMoves /\ (\hDF \in {\hDB, \hDF} => "FISTTP" \in SkipsST0)
    BY FpuTablesAre DEF SkipsST0
  <2>4. QED
    BY <2>1, <2>2, <2>3 DEF Move
<1>3. Move(\hDF, 2, "FIST", 2)
  <2>1. FormIs(\hDF, 2, "FIST", 2)
    BY MemoryNames DEF FormIs
  <2>2. CodeIs("FIST", 2, \hDF, 2)
    BY MemoryCodes DEF CodeIs
  <2>3. "FIST" \in FpuMoves /\ (\hDF \in {\hDB, \hDF} => "FIST" \in SkipsST0)
    BY FpuTablesAre DEF SkipsST0
  <2>4. QED
    BY <2>1, <2>2, <2>3 DEF Move
<1>4. Move(\hDF, 3, "FISTP", 2)
  <2>1. FormIs(\hDF, 3, "FISTP", 2)
    BY MemoryNames DEF FormIs
  <2>2. CodeIs("FISTP", 2, \hDF, 3)
    BY MemoryCodes DEF CodeIs
  <2>3. "FISTP" \in FpuMoves /\ (\hDF \in {\hDB, \hDF} => "FISTP" \in SkipsST0)
    BY FpuTablesAre DEF SkipsST0
  <2>4. QED
    BY <2>1, <2>2, <2>3 DEF Move
<1>5. Move(\hDF, 4, "FBLD", 10)
  <2>1. FormIs(\hDF, 4, "FBLD", 10)
    BY MemoryNames DEF FormIs
  <2>2. CodeIs("FBLD", 10, \hDF, 4)
    BY MemoryCodes DEF CodeIs
  <2>3. "FBLD" \in FpuMoves /\ (\hDF \in {\hDB, \hDF} => "FBLD" \in SkipsST0)
    BY FpuTablesAre DEF SkipsST0
  <2>4. QED
    BY <2>1, <2>2, <2>3 DEF Move
<1>6. Move(\hDF, 5, "FILD", 8)
  <2>1. FormIs(\hDF, 5, "FILD", 8)
    BY MemoryNames DEF FormIs
  <2>2. CodeIs("FILD", 8, \hDF, 5)
    BY MemoryCodes DEF CodeIs
  <2>3. "FILD" \in FpuMoves /\ (\hDF \in {\hDB, \hDF} => "FILD" \in SkipsST0)
    BY FpuTablesAre DEF SkipsST0
  <2>4. QED
    BY <2>1, <2>2, <2>3 DEF Move
<1>7. Move(\hDF, 6, "FBSTP", 10)
  <2>1. FormIs(\hDF, 6, "FBSTP", 10)
    BY MemoryNames DEF FormIs
  <2>2. CodeIs("FBSTP", 10, \hDF, 6)
    BY MemoryCodes DEF CodeIs
  <2>3. "FBSTP" \in FpuMoves /\ (\hDF \in {\hDB, \hDF} => "FBSTP" \in SkipsST0)
    BY FpuTablesAre DEF SkipsST0
  <2>4. QED
    BY <2>1, <2>2, <2>3 DEF Move
<1>8. n = 0 \/ n = 1 \/ n = 2 \/ n = 3 \/ n = 4 \/ n = 5 \/ n = 6
  OBVIOUS
<1>9. QED
  BY <1>1, <1>2, <1>3, <1>4, <1>5, <1>6, <1>7, <1>8

LEMMA LostForms ==
    FormIs(\hDB, 7, "FSTP", 10) /\ FormIs(\hDF, 7, "FISTP", 8)
<1>1. FormIs(\hDB, 7, "FSTP", 10)
  BY MemoryNames DEF FormIs
<1>2. FormIs(\hDF, 7, "FISTP", 8)
  BY MemoryNames DEF FormIs
<1>3. QED
  BY <1>1, <1>2

LEMMA MemoryMade ==
    ASSUME NEW d, NEW x, Fields(d, x), d.lead \in FPUEscapes, d.op # "UD_NOP", Mod(x) # 3,
           NEW i, NEW at, Made(i, d, at)
    PROVE  /\ i.op = FpuMemoryForm(d)[1] /\ i.argv = FpuMemoryForm(d)[2]
           /\ FPUMemory(d.lead, x) /\ Reg(d.rm) = Reg(x) /\ Reg(x) \in 0 .. 7
           /\ ~(d.lead = \hD9 /\ Reg(x) = 1) /\ ~(d.lead = \hDD /\ Reg(x) = 5)
           /\ \A w : Sized(RM(d, w), w) /\ IsMem(RM(d, w))
<1>1. /\ Case(d, at)[1] = FpuMemoryForm(d)[1] /\ Case(d, at)[2] = FpuMemoryForm(d)[2]
      /\ FPUMemory(d.lead, x) /\ d.rm = x /\ Reg(x) \in 0 .. 7
      /\ ~(d.lead = \hD9 /\ Reg(x) = 1) /\ ~(d.lead = \hDD /\ Reg(x) = 5)
      /\ TakesModRM(d.lead, x)
  BY CaseEscape
<1>2. \A w : Sized(RM(d, w), w) /\ IsMem(RM(d, w))
  BY <1>1, RowOperands
<1>3. i.op = FpuMemoryForm(d)[1] /\ i.argv = FpuMemoryForm(d)[2]
  BY <1>1 DEF Made
<1>4. QED
  BY <1>1, <1>2, <1>3

LEMMA VerdictRowMoves ==
    ASSUME NEW d, NEW x, Fields(d, x), d.lead \in {\hD9, \hDB, \hDD, \hDF}, d.op # "UD_NOP", Mod(x) # 3,
           NEW i, NEW at, Made(i, d, at)
    PROVE  Verdict(i, at)
<1> DEFINE b == d.lead
           n == Reg(x)
<1>1. b \in FPUEscapes
  BY DEF FPUEscapes
<1>2. /\ i.op = FpuMemoryForm(d)[1] /\ i.argv = FpuMemoryForm(d)[2]
      /\ FPUMemory(b, x) /\ Reg(d.rm) = n /\ n \in 0 .. 7
      /\ ~(b = \hD9 /\ n = 1) /\ ~(b = \hDD /\ n = 5)
      /\ \A w : Sized(RM(d, w), w) /\ IsMem(RM(d, w))
  BY <1>1, MemoryMade
<1>3. b = \hDB => n # 4 /\ n # 6
  BY <1>2 DEF FPUMemory
<1>4. ASSUME NEW op, NEW w, FormIs(b, n, op, w)
      PROVE  /\ i.op = op
             /\ b \in {\hD9, \hDD} => i.argv = <<RM(d, w)>>
             /\ b \in {\hDB, \hDF} => i.argv = <<STArg(0), RM(d, w)>>
  <2> DEFINE f == FpuMemory(b)[n + 1]
  <2>1. f = <<op, w>>
    BY <1>4 DEF FormIs
  <2>2. /\ b \in {\hDB, \hDF} => FpuMemoryForm(d) = <<f[1], <<STArg(0), RM(d, f[2])>> >>
        /\ b \in {\hD9, \hDD} => FpuMemoryForm(d) = <<f[1], <<RM(d, f[2])>> >>
    BY <1>1, <1>2, MemoryForms
  <2> HIDE DEF f
  <2>3. f[1] = op /\ f[2] = w
    BY <2>1
  <2>4. QED
    BY <1>2, <2>2, <2>3
<1> HIDE DEF b, n
<1>5. ASSUME NEW op, NEW w, Move(b, n, op, w) PROVE Verdict(i, at)
  <2>1. FormIs(b, n, op, w) /\ op \in FpuMoves /\ CodeIs(op, w, b, n) /\ (op = "FISTP" => w # 8)
        /\ (b \in {\hDB, \hDF} => op \in SkipsST0)
    BY <1>5 DEF Move
  <2> DEFINE a == RM(d, w)
  <2>2. Sized(a, w) /\ IsMem(a)
    BY <1>2
  <2>3. /\ i.op = op
        /\ b \in {\hD9, \hDD} => i.argv = <<a>>
        /\ b \in {\hDB, \hDF} => i.argv = <<STArg(0), a>>
    BY <1>4, <2>1
  <2> HIDE DEF a
  <2>4. b \in {\hD9, \hDB, \hDD, \hDF}
    BY DEF b
  <2>5. \/ b \in {\hD9, \hDD} /\ i.argv = <<a>>
        \/ b \in {\hDB, \hDF} /\ i.op \in SkipsST0 /\ i.argv = <<STArg(0), a>>
    BY <2>1, <2>3, <2>4
  <2>6. i.op \in FpuMoves /\ CodeIs(i.op, w, b, n) /\ FormIs(b, n, i.op, w) /\ (i.op = "FISTP" => w # 8)
    BY <2>1, <2>3
  <2>7. QED
    BY <1>2, <2>2, <2>4, <2>5, <2>6, VerdictMemoryMove
<1>6. CASE b = \hDB /\ n = 7
  <2>1. FormIs(b, n, "FSTP", 10)
    BY <1>6, LostForms
  <2> DEFINE a == RM(d, 10)
  <2>2. i.op = "FSTP" /\ i.argv = <<STArg(0), a>>
    BY <1>4, <1>6, <2>1
  <2> HIDE DEF a
  <2>3. QED
    BY <2>2, VerdictStoreExtended
<1>7. CASE b = \hDF /\ n = 7
  <2>1. FormIs(b, n, "FISTP", 8)
    BY <1>7, LostForms
  <2> DEFINE a == RM(d, 8)
  <2>2. i.op = "FISTP" /\ i.argv = <<STArg(0), a>>
    BY <1>4, <1>7, <2>1
  <2>3. Sized(a, 8) /\ IsMem(a)
    BY <1>2
  <2> HIDE DEF a
  <2>4. QED
    BY <2>2, <2>3, VerdictStoreLong
<1>8. CASE b = \hD9
  <2>1. \E op, w : Move(b, n, op, w)
    BY <1>2, <1>8, MovesOfD9
  <2>2. QED
    BY <1>5, <2>1
<1>9. CASE b = \hDB /\ n # 7
  <2>1. \E op, w : Move(b, n, op, w)
    BY <1>2, <1>3, <1>9, MovesOfDB
  <2>2. QED
    BY <1>5, <2>1
<1>10. CASE b = \hDD
  <2>1. \E op, w : Move(b, n, op, w)
    BY <1>2, <1>10, MovesOfDD
  <2>2. QED
    BY <1>5, <2>1
<1>11. CASE b = \hDF /\ n # 7
  <2>1. \E op, w : Move(b, n, op, w)
    BY <1>2, <1>11, MovesOfDF
  <2>2. QED
    BY <1>5, <2>1
<1>12. QED
  BY <1>6, <1>7, <1>8, <1>9, <1>10, <1>11 DEF b

LEMMA VerdictRowArith ==
    ASSUME NEW d, NEW x, Fields(d, x), d.lead \in {\hD8, \hDA, \hDC, \hDE}, d.op # "UD_NOP", Mod(x) # 3,
           NEW i, NEW at, Made(i, d, at)
    PROVE  Verdict(i, at)
<1> DEFINE b == d.lead
           n == Reg(x)
<1>1. b \in FPUEscapes
  BY DEF FPUEscapes
<1>2. /\ i.op = FpuMemoryForm(d)[1] /\ i.argv = FpuMemoryForm(d)[2]
      /\ Reg(d.rm) = n /\ n \in 0 .. 7
      /\ \A w : Sized(RM(d, w), w) /\ IsMem(RM(d, w))
  BY <1>1, MemoryMade
<1>3. CASE b \in {\hD8, \hDC}
  <2> DEFINE w == IF b = \hD8 THEN 4 ELSE 8
             a == RM(d, w)
  <2>1. FpuMemoryForm(d) = <<FpuArith[n + 1], <<STArg(0), a>> >>
    BY <1>1, <1>2, <1>3, MemoryForms
  <2>2. w \in {4, 8} /\ Sized(a, w) /\ IsMem(a)
    BY <1>2
  <2> HIDE DEF a, w
  <2>3. i.op = FpuArith[n + 1] /\ i.argv = <<STArg(0), a>>
    BY <1>2, <2>1
  <2>4. i.op \in ArithNames
    BY <1>2, <2>3, RegisterNames
  <2>5. QED
    BY <2>2, <2>3, <2>4, VerdictMemoryArith
<1>4. CASE b \in {\hDA, \hDE}
  <2> DEFINE w == IF b = \hDA THEN 4 ELSE 2
             a == RM(d, w)
             f == FpuMemory(b)[n + 1]
  <2>1. FpuMemoryForm(d) = <<f[1], <<RM(d, f[2])>> >>
    BY <1>1, <1>2, <1>4, MemoryForms
  <2>2. f[1] = FpuInt[n + 1] /\ f[2] = w
    <3>1. n + 1 \in 1 .. 8
      BY <1>2
    <3>2. CASE b = \hDA
      BY <3>1, <3>2 DEF FpuMemory
    <3>3. CASE b = \hDE
      BY <3>1, <3>3 DEF FpuMemory
    <3>4. QED
      BY <1>4, <3>2, <3>3
  <2>3. w \in {2, 4} /\ Sized(a, w) /\ IsMem(a)
    BY <1>2
  <2>4. FpuMemoryForm(d) = <<FpuInt[n + 1], <<a>> >>
    BY <2>1, <2>2
  <2> HIDE DEF a, w, f
  <2>5. i.op = FpuInt[n + 1] /\ i.argv = <<a>>
    BY <1>2, <2>4
  <2>6. i.op \in IntNames
    BY <1>2, <2>5, RegisterNames
  <2>7. QED
    BY <2>3, <2>5, <2>6, VerdictMemoryInteger
<1>5. QED
  BY <1>3, <1>4

(* The verdicts of all the rows.                                            *)
LEMMA LowVerdicts ==
    ASSUME NEW d, NEW x, Fields(d, x), Ranged(d, x), d.lead < \h80, NEW i, NEW at \in Int, Made(i, d, at)
    PROVE  Verdict(i, at)
<1> DEFINE b == d.lead
<1>1. CASE d.op = "UD_NOP"
  BY <1>1, VerdictRowNop
<1>2. CASE b \in DOMAIN PlainOneByte
  BY <1>2, VerdictRowPlain
<1>3. CASE b < \h40 /\ b % 8 < 4
  BY <1>3, VerdictRowAlu
<1>4. CASE b < \h40 /\ b % 8 \in {4, 5}
  BY <1>4, VerdictRowAluNumber
<1>5. CASE b \in {\h06, \h07, \h0E, \h0F, \h16, \h17, \h1E, \h1F}
  BY <1>5, VerdictRowSegment
<1>6. CASE b \in \h40 .. \h5F
  BY <1>6, VerdictRow4
<1>7. CASE b \in \h70 .. \h7F
  BY <1>7, VerdictRow7
<1>8. d.op # "UD_NOP" => b \notin \h60 .. \h6F
  BY AbsentIsNop DEF Absent
<1>9. b \in 0 .. \h7F /\ b \notin Plain
  <2>1. b \in 0 .. 255 /\ b \notin Plain
    BY DEF Fields, Byte
  <2> HIDE DEF b
  <2>2. QED
    BY <2>1 DEF b
<1>10. {\h27, \h2F, \h37, \h3F} \subseteq DOMAIN PlainOneByte
  BY DEF PlainOneByte
<1> HIDE DEF b
<1>11. \/ d.op = "UD_NOP" \/ b \in DOMAIN PlainOneByte
       \/ (b < \h40 /\ b % 8 < 4) \/ (b < \h40 /\ b % 8 \in {4, 5})
       \/ b \in {\h06, \h07, \h0E, \h0F, \h16, \h17, \h1E, \h1F}
       \/ b \in \h40 .. \h5F \/ b \in \h70 .. \h7F
  <2>1. CASE b < \h40
    <3>1. b % 8 < 4 \/ b % 8 \in {4, 5} \/ b \in {\h06, \h0E, \h16, \h1E, \h26, \h2E, \h36, \h3E}
          \/ b \in {\h07, \h0F, \h17, \h1F, \h27, \h2F, \h37, \h3F}
      BY <1>9, <2>1
    <3>2. b \notin {\h26, \h2E, \h36, \h3E}
      BY <1>9 DEF Plain, SegOverrides
    <3>3. QED
      BY <1>10, <2>1, <3>1, <3>2
  <2>2. CASE b >= \h40
    BY <1>8, <1>9, <2>2
  <2>3. QED
    BY <1>9, <2>1, <2>2
<1>12. QED
  BY <1>1, <1>2, <1>3, <1>4, <1>5, <1>6, <1>7, <1>11 DEF b

LEMMA MiddleVerdicts ==
    ASSUME NEW d, NEW x, Fields(d, x), Ranged(d, x), d.lead \in \h80 .. \hBF, NEW i, NEW at \in Int, Made(i, d, at)
    PROVE  Verdict(i, at)
<1> DEFINE b == d.lead
<1>0. CASE d.op = "UD_NOP"
  BY <1>0, VerdictRowNop
<1>1. CASE b \in DOMAIN PlainOneByte
  BY <1>1, VerdictRowPlain
<1>2. CASE b \in \h80 .. \h82
  BY <1>2, VerdictRow80
<1>15. CASE b = \h83
  BY <1>15, VerdictRow83
<1>3. CASE b \in \h84 .. \h8B
  BY <1>3, VerdictRow84
<1>4. CASE b \in \h8C .. \h8E
  BY <1>4, VerdictRow8C
<1>5. CASE b = \h8F /\ d.op # "UD_NOP"
  BY <1>5, VerdictRowPeek DEF PeekOpcodes, PopRM
<1>6. CASE b \in \h91 .. \h97
  BY <1>6, VerdictRowXchg
<1>7. CASE b = \h9A
  BY <1>7, VerdictRowFar
<1>8. CASE b \in \hA0 .. \hA3
  BY <1>8, VerdictRowMovDirect
<1>9. CASE b \in \hA4 .. \hA7 \cup \hAA .. \hAF
  BY <1>9, VerdictRowString
<1>10. CASE b \in \hA8 .. \hA9
  BY <1>10, VerdictRowTestNumber
<1>11. CASE b \in \hB0 .. \hBF
  BY <1>11, VerdictRowMovNumber
<1>12. {\h90, \h98, \h99, \h9B, \h9C, \h9D, \h9E, \h9F} \subseteq DOMAIN PlainOneByte
  BY DEF PlainOneByte
<1>13. b \in \h80 .. \hBF
  OBVIOUS
<1> HIDE DEF b
<1>14. QED
  BY <1>0, <1>1, <1>2, <1>3, <1>4, <1>5, <1>6, <1>7, <1>8, <1>9, <1>10, <1>11, <1>12, <1>13, <1>15 DEF b

LEMMA HighVerdicts ==
    ASSUME NEW d, NEW x, Fields(d, x), Ranged(d, x), d.lead >= \hC0, d.lead \notin FPUEscapes,
           NEW i, NEW at \in Int, Made(i, d, at)
    PROVE  Verdict(i, at)
<1> DEFINE b == d.lead
<1>1. CASE d.op = "UD_NOP"
  BY <1>1, VerdictRowNop
<1>2. CASE b \in DOMAIN PlainOneByte
  BY <1>2, VerdictRowPlain
<1>3. CASE b \in ShiftOpcodes /\ d.op # "UD_NOP"
  BY <1>3, VerdictRowShift
<1>4. CASE b \in {\hC2, \hCA}
  BY <1>4, VerdictRowReturn
<1>5. CASE b \in {\hC4, \hC5} /\ d.op # "UD_NOP"
  BY <1>5, VerdictRowPeek DEF PeekOpcodes, FarLoads
<1>6. CASE b \in {\hC6, \hC7} /\ d.op # "UD_NOP"
  BY <1>6, VerdictRowMovImm
<1>7. CASE b \in {\hCC, \hCD, \hD4, \hD5}
  BY <1>7, VerdictRowInterrupt
<1>8. CASE b \in \hE0 .. \hE3
  BY <1>8, VerdictRowLoop
<1>9. CASE b \in \hE4 .. \hE7 \cup \hEC .. \hEF
  BY <1>9, VerdictRowPort
<1>10. CASE b \in {\hE8, \hE9, \hEB}
  BY <1>10, VerdictRowJump
<1>11. CASE b = \hEA
  BY <1>11, VerdictRowFar
<1>13. CASE b \in {\hF6, \hF7} /\ d.op # "UD_NOP"
  BY <1>13, VerdictRow3
<1>14. CASE b \in {\hFE, \hFF} /\ d.op # "UD_NOP"
  BY <1>14, VerdictRow5
<1>15. {\hC3, \hCB, \hCE, \hCF, \hD6, \hD7, \hF4, \hF5} \cup \hF8 .. \hFD \subseteq DOMAIN PlainOneByte
  BY DEF PlainOneByte
<1>16. d.op # "UD_NOP" => b \notin {\hC8, \hC9, \hF1}
  BY AbsentIsNop DEF Absent
<1>17. b \in \hC0 .. \hFF /\ b \notin {\hF0, \hF2, \hF3} /\ b \notin \hD8 .. \hDF
  <2>1. b \in 0 .. 255 /\ b \notin Plain /\ b >= \hC0 /\ b \notin FPUEscapes
    BY DEF Fields, Byte
  <2> HIDE DEF b
  <2>2. QED
    BY <2>1 DEF Plain, LockPrefixes, RepPrefixes, FPUEscapes
<1>18. ShiftOpcodes = {\hC0, \hC1, \hD0, \hD1, \hD2, \hD3}
  BY DEF ShiftOpcodes
<1> HIDE DEF b
<1>19. QED
  BY <1>1, <1>2, <1>3, <1>4, <1>5, <1>6, <1>7, <1>8, <1>9, <1>10, <1>11, <1>13, <1>14,
     <1>15, <1>16, <1>17, <1>18 DEF b

LEMMA EscapeVerdicts ==
    ASSUME NEW d, NEW x, Fields(d, x), d.lead \in FPUEscapes, d.op # "UD_NOP", NEW i, NEW at, Made(i, d, at)
    PROVE  Verdict(i, at)
<1>1. \/ d.lead \in {\hD8, \hDC, \hDD, \hDE} \/ d.lead = \hD9 \/ d.lead \in {\hDA, \hDB, \hDF}
  BY DEF FPUEscapes
<1>2. d.lead \in {\hD9, \hDB, \hDD, \hDF} \/ d.lead \in {\hD8, \hDA, \hDC, \hDE}
  BY DEF FPUEscapes
<1>3. CASE Mod(x) = 3
  BY <1>1, <1>3, VerdictRowStack, VerdictRowD9, VerdictRowControl
<1>4. CASE Mod(x) # 3
  BY <1>2, <1>4, VerdictRowMoves, VerdictRowArith
<1>5. QED
  BY <1>3, <1>4

LEMMA AllVerdicts ==
    ASSUME NEW d, NEW x, Fields(d, x), Ranged(d, x), NEW i, NEW at \in Int, Made(i, d, at)
    PROVE  Verdict(i, at)
<1>1. d.lead \in Int /\ 0 <= d.lead /\ d.lead <= 255
  <2>1. d.lead \in Byte
    BY DEF Fields
  <2>2. QED
    BY <2>1 DEF Byte
<1>2. CASE d.op = "UD_NOP"
  BY <1>2, VerdictRowNop
<1>3. CASE d.op # "UD_NOP" /\ d.lead \in FPUEscapes
  BY <1>3, EscapeVerdicts
<1>4. CASE d.op # "UD_NOP" /\ d.lead \notin FPUEscapes
  <2>1. CASE d.lead < \h80
    BY <1>4, <2>1, LowVerdicts
  <2>2. CASE d.lead \in \h80 .. \hBF
    BY <1>4, <2>2, MiddleVerdicts
  <2>3. CASE d.lead >= \hC0
    BY <1>4, <2>3, HighVerdicts
  <2>4. QED
    BY <1>1, <2>1, <2>2, <2>3
<1>5. QED
  BY <1>2, <1>3, <1>4

-----------------------------------------------------------------------------
(* The prefixes that were written, read back.                              *)

Among(b, v) == \E k \in 1 .. Len(v) : v[k] = b

LEMMA AmongJoined ==
    ASSUME NEW S, NEW u \in Seq(S), NEW v \in Seq(S), NEW b
    PROVE  Among(b, u \o v) <=> Among(b, u) \/ Among(b, v)
<1> DEFINE p == u \o v
<1>1. /\ Len(p) = Len(u) + Len(v) /\ Len(u) \in Nat /\ Len(v) \in Nat
      /\ \A k \in 1 .. Len(u) : p[k] = u[k]
      /\ \A k \in 1 .. Len(v) : p[k + Len(u)] = v[k]
  BY Joined
<1> HIDE DEF p
<1>2. ASSUME NEW k \in 1 .. Len(p), p[k] = b PROVE Among(b, u) \/ Among(b, v)
  <2>1. CASE k <= Len(u)
    <3>1. k \in 1 .. Len(u)
      BY <1>1, <2>1
    <3>2. u[k] = b
      BY <1>1, <1>2, <3>1
    <3>3. QED
      BY <3>1, <3>2 DEF Among
  <2>2. CASE ~(k <= Len(u))
    <3> DEFINE m == k - Len(u)
    <3>1. m \in 1 .. Len(v) /\ m + Len(u) = k
      BY <1>1, <2>2
    <3> HIDE DEF m
    <3>2. v[m] = b
      BY <1>1, <1>2, <3>1
    <3>3. QED
      BY <3>1, <3>2 DEF Among
  <2>3. QED
    BY <2>1, <2>2
<1>3. ASSUME NEW k \in 1 .. Len(u), u[k] = b PROVE Among(b, p)
  <2>1. k \in 1 .. Len(p) /\ p[k] = b
    BY <1>1, <1>3
  <2>2. QED
    BY <2>1 DEF Among
<1>4. ASSUME NEW k \in 1 .. Len(v), v[k] = b PROVE Among(b, p)
  <2>1. k + Len(u) \in 1 .. Len(p)
    BY <1>1
  <2>2. p[k + Len(u)] = b
    BY <1>1, <1>4
  <2>3. QED
    BY <2>1, <2>2 DEF Among
<1>5. Among(b, p) => Among(b, u) \/ Among(b, v)
  BY <1>2 DEF Among
<1>6. Among(b, u) => Among(b, p)
  BY <1>3 DEF Among
<1>7. Among(b, v) => Among(b, p)
  BY <1>4 DEF Among
<1>8. QED
  BY <1>5, <1>6, <1>7 DEF p

LEMMA AmongOne ==
    ASSUME NEW b
    PROVE  ~Among(b, << >>) /\ \A c : Among(b, <<c>>) <=> c = b
<1>1. ~Among(b, << >>)
  BY DEF Among
<1>2. ASSUME NEW c PROVE Among(b, <<c>>) <=> c = b
  <2>1. Len(<<c>>) = 1 /\ <<c>>[1] = c /\ \A k \in 1 .. 1 : k = 1
    OBVIOUS
  <2>2. QED
    BY <2>1 DEF Among
<1>3. QED
  BY <1>1, <1>2

LEMMA AmongFour ==
    ASSUME NEW S, NEW u \in Seq(S), NEW v \in Seq(S), NEW w \in Seq(S), NEW t \in Seq(S), NEW b
    PROVE  Among(b, u \o v \o w \o t) <=> Among(b, u) \/ Among(b, v) \/ Among(b, w) \/ Among(b, t)
<1> DEFINE p == u \o v
           q == p \o w
<1>1. p \in Seq(S) /\ (Among(b, p) <=> Among(b, u) \/ Among(b, v))
  BY Joined, AmongJoined
<1> HIDE DEF p
<1>2. q \in Seq(S) /\ (Among(b, q) <=> Among(b, p) \/ Among(b, w))
  BY <1>1, Joined, AmongJoined
<1> HIDE DEF q
<1>3. Among(b, q \o t) <=> Among(b, q) \/ Among(b, t)
  BY <1>2, AmongJoined
<1>4. QED
  BY <1>1, <1>2, <1>3 DEF p, q

(* Where the last prefix of a kind stands.                                 *)
LEMMA LastIs ==
    ASSUME NEW s, PrefixLength(s) \in Nat, NEW kind
    PROVE  LET n == PrefixLength(s)
           IN  \/ LastPrefix(s, kind) = NoByte /\ \A k \in 1 .. n : s[k] \notin kind
               \/ \E k \in 1 .. n : s[k] \in kind /\ LastPrefix(s, kind) = s[k]
<1> DEFINE n == PrefixLength(s)
           at == {k \in 1 .. n : s[k] \in kind}
<1>1. LastPrefix(s, kind) = IF at = {} THEN NoByte ELSE s[CHOOSE k \in at : \A j \in at : j <= k]
  BY DEF LastPrefix
<1>2. CASE at = {}
  BY <1>1, <1>2
<1>3. CASE at # {}
  <2> DEFINE T == {n - k : k \in at}
  <2>1. T \subseteq Nat /\ T # {}
    BY <1>3
  <2>2. PICK l \in T : \A m \in T : l <= m
    <3> HIDE DEF T
    <3>1. QED
      BY <2>1, LeastOf
  <2>3. PICK k \in at : l = n - k
    BY <2>2
  <2>4. \A j \in at : j <= k
    <3> SUFFICES ASSUME NEW j \in at PROVE j <= k
      OBVIOUS
    <3>1. n - j \in T
      OBVIOUS
    <3>2. n - k <= n - j
      BY <2>2, <2>3, <3>1
    <3>3. QED
      BY <3>2
  <2> DEFINE c == CHOOSE m \in at : \A j \in at : j <= m
  <2>5. c \in at
    BY <2>4
  <2> HIDE DEF c
  <2>6. s[c] \in kind /\ c \in 1 .. n
    BY <2>5
  <2>7. LastPrefix(s, kind) = s[c]
    BY <1>1, <1>3 DEF c
  <2>8. QED
    BY <2>6, <2>7
<1>4. QED
  BY <1>2, <1>3

(* The prefixes of s are p.                                                *)
Leads(s, p) ==
    /\ PrefixLength(s) = Len(p) /\ Len(p) \in Nat
    /\ \A k \in 1 .. Len(p) : s[k] = p[k]

LEMMA SeenAmong ==
    ASSUME NEW s, NEW p, Leads(s, p), NEW kind
    PROVE  /\ Seen(s, kind) \in {0, 1}
           /\ Seen(s, kind) = 1 <=> \E b \in kind : Among(b, p)
<1>1. PrefixLength(s) = Len(p) /\ \A k \in 1 .. Len(p) : s[k] = p[k]
  BY DEF Leads
<1>2. Seen(s, kind) = IF \E k \in 1 .. Len(p) : s[k] \in kind THEN 1 ELSE 0
  BY <1>1 DEF Seen
<1>3. (\E k \in 1 .. Len(p) : s[k] \in kind) <=> \E b \in kind : Among(b, p)
  BY <1>1 DEF Among
<1>4. QED
  BY <1>2, <1>3

LEMMA LastAmong ==
    ASSUME NEW s, NEW p, Leads(s, p), NEW kind
    PROVE  \/ LastPrefix(s, kind) = NoByte /\ \A b \in kind : ~Among(b, p)
           \/ LastPrefix(s, kind) \in kind /\ Among(LastPrefix(s, kind), p)
<1>1. PrefixLength(s) = Len(p) /\ Len(p) \in Nat /\ \A k \in 1 .. Len(p) : s[k] = p[k]
  BY DEF Leads
<1>2. \/ LastPrefix(s, kind) = NoByte /\ \A k \in 1 .. Len(p) : s[k] \notin kind
      \/ \E k \in 1 .. Len(p) : s[k] \in kind /\ LastPrefix(s, kind) = s[k]
  BY <1>1, LastIs
<1>3. CASE LastPrefix(s, kind) = NoByte /\ \A k \in 1 .. Len(p) : s[k] \notin kind
  BY <1>1, <1>3 DEF Among
<1>4. CASE \E k \in 1 .. Len(p) : s[k] \in kind /\ LastPrefix(s, kind) = s[k]
  BY <1>1, <1>4 DEF Among
<1>5. QED
  BY <1>2, <1>3, <1>4

(* Which bytes Prefixes(i) holds.                                          *)
LEMMA AmongPrefixes ==
    ASSUME NEW i, i.rep \in 0 .. 2, SegPrefix(i) \in {<< >>} \cup OverrideBytes, NEW b
    PROVE  Among(b, Prefixes(i)) <=>
             \/ b = \hF0 /\ i.op \in Locked /\ i.lock = 1
             \/ b = WaitOpcode /\ i.op \in Waiting /\ i.fwait = 1
             \/ b = \hF1 + i.rep /\ i.op \in Repeated /\ i.rep # 0
             \/ Among(b, SegPrefix(i))
<1> DEFINE u == LockPrefix(i)
           v == WaitPrefix(i)
           w == RepPrefix(i)
           t == SegPrefix(i)
<1>1. Prefixes(i) = u \o v \o w \o t
  BY DEF Prefixes
<1>2. Plain \subseteq Byte /\ {WaitOpcode} \subseteq Byte
  BY PlainIsByte
<1>3. u \in Seq(Byte)
  BY <1>2, LockPrefixIs, Widened
<1>4. v \in Seq(Byte)
  BY <1>2, WaitPrefixIs, Widened
<1>5. w \in Seq(Byte)
  BY <1>2, RepPrefixIs, Widened
<1>6. t \in Seq(Byte)
  BY <1>2, SegPrefixIs, Widened
<1>7. Among(b, u) <=> b = \hF0 /\ i.op \in Locked /\ i.lock = 1
  <2>1. CASE i.op \in Locked /\ i.lock = 1
    <3>1. u = <<\hF0>>
      BY <2>1 DEF LockPrefix
    <3>2. QED
      BY <2>1, <3>1, AmongOne
  <2>2. CASE ~(i.op \in Locked /\ i.lock = 1)
    <3>1. u = << >>
      BY <2>2 DEF LockPrefix
    <3>2. QED
      BY <2>2, <3>1, AmongOne
  <2>3. QED
    BY <2>1, <2>2
<1>8. Among(b, v) <=> b = WaitOpcode /\ i.op \in Waiting /\ i.fwait = 1
  <2>1. CASE i.op \in Waiting /\ i.fwait = 1
    <3>1. v = <<WaitOpcode>>
      BY <2>1 DEF WaitPrefix, WaitOpcode
    <3>2. QED
      BY <2>1, <3>1, AmongOne
  <2>2. CASE ~(i.op \in Waiting /\ i.fwait = 1)
    <3>1. v = << >>
      BY <2>2 DEF WaitPrefix
    <3>2. QED
      BY <2>2, <3>1, AmongOne
  <2>3. QED
    BY <2>1, <2>2
<1>9. Among(b, w) <=> b = \hF1 + i.rep /\ i.op \in Repeated /\ i.rep # 0
  <2>1. CASE i.op \in Repeated /\ i.rep # 0
    <3>1. w = <<\hF1 + i.rep>>
      BY <2>1 DEF RepPrefix
    <3> DEFINE c == \hF1 + i.rep
    <3> HIDE DEF c
    <3>2. Among(b, <<c>>) <=> b = c
      BY AmongOne
    <3>3. w = <<c>>
      BY <3>1 DEF c
    <3>4. Among(b, w) <=> b = c
      BY <3>2, <3>3
    <3>5. QED
      BY <2>1, <3>4 DEF c
  <2>2. CASE ~(i.op \in Repeated /\ i.rep # 0)
    <3>1. w = << >>
      BY <2>2 DEF RepPrefix
    <3>2. QED
      BY <2>2, <3>1, AmongOne
  <2>3. QED
    BY <2>1, <2>2
<1> HIDE DEF u, v, w, t
<1>10. Among(b, u \o v \o w \o t) <=> Among(b, u) \/ Among(b, v) \/ Among(b, w) \/ Among(b, t)
  BY <1>3, <1>4, <1>5, <1>6, AmongFour
<1>11. QED
  BY <1>1, <1>7, <1>8, <1>9, <1>10 DEF t

LEMMA AmongSegment ==
    ASSUME NEW i, SegPrefix(i) \in {<< >>} \cup OverrideBytes, NEW b, Among(b, SegPrefix(i))
    PROVE  b \in SegOverrides /\ SegPrefix(i) = <<b>>
<1>1. SegPrefix(i) # << >>
  BY AmongOne
<1>2. PICK c \in SegOverrides : SegPrefix(i) = <<c>>
  BY <1>1 DEF OverrideBytes, SegOverrides
<1>3. c = b
  BY <1>2, AmongOne
<1>4. QED
  BY <1>2, <1>3

(* What the prefix fields are of the bytes that Prefixes(i) begins.        *)
LEMMA FieldsReadBack ==
    ASSUME NEW i, i.rep \in 0 .. 2, i.lock \in {0, 1}, i.fwait \in {0, 1},
           SegPrefix(i) \in {<< >>} \cup OverrideBytes,
           NEW s, Leads(s, Prefixes(i))
    PROVE  LET d == FlatDecode(s)
           IN  /\ i.op \in Locked => d.lock = i.lock
               /\ i.op \notin Locked => d.lock = 0
               /\ i.op \in Waiting => d.fwait = i.fwait
               /\ i.op \notin Waiting => d.fwait = 0
               /\ i.op \in Repeated => d.rep = i.rep
               /\ SegPrefix(i) = << >> => d.segment = NoSegment
               /\ \A b \in SegOverrides : SegPrefix(i) = <<b>> => d.segment = SegmentOf(b)
<1> DEFINE d == FlatDecode(s)
           p == Prefixes(i)
<1>1. /\ d.segment = SegmentPut(s) /\ d.rep = RepPut(s)
      /\ d.lock = Seen(s, LockPrefixes) /\ d.fwait = Seen(s, {WaitOpcode})
  BY DEF FlatDecode
<1>2. \A b : Among(b, p) <=>
             \/ b = \hF0 /\ i.op \in Locked /\ i.lock = 1
             \/ b = WaitOpcode /\ i.op \in Waiting /\ i.fwait = 1
             \/ b = \hF1 + i.rep /\ i.op \in Repeated /\ i.rep # 0
             \/ Among(b, SegPrefix(i))
  BY AmongPrefixes
<1>3. \A b : Among(b, SegPrefix(i)) => b \in SegOverrides /\ SegPrefix(i) = <<b>>
  BY AmongSegment
<1>4. Leads(s, p)
  OBVIOUS
<1> HIDE DEF p
<1>5. d.lock \in {0, 1} /\ (d.lock = 1 <=> i.op \in Locked /\ i.lock = 1)
  <2>1. d.lock \in {0, 1} /\ (d.lock = 1 <=> \E b \in LockPrefixes : Among(b, p))
    BY <1>1, <1>4, SeenAmong
  <2>2. (\E b \in LockPrefixes : Among(b, p)) <=> Among(\hF0, p)
    BY DEF LockPrefixes
  <2>3. ~Among(\hF0, SegPrefix(i)) /\ \hF0 # \hF1 + i.rep
    BY <1>3 DEF SegOverrides
  <2>4. QED
    BY <1>2, <2>1, <2>2, <2>3 DEF WaitOpcode
<1>6. d.fwait \in {0, 1} /\ (d.fwait = 1 <=> i.op \in Waiting /\ i.fwait = 1)
  <2>1. d.fwait \in {0, 1} /\ (d.fwait = 1 <=> \E b \in {WaitOpcode} : Among(b, p))
    BY <1>1, <1>4, SeenAmong
  <2>2. (\E b \in {WaitOpcode} : Among(b, p)) <=> Among(WaitOpcode, p)
    OBVIOUS
  <2>3. ~Among(WaitOpcode, SegPrefix(i)) /\ WaitOpcode # \hF1 + i.rep /\ WaitOpcode # \hF0
    BY <1>3 DEF SegOverrides, WaitOpcode
  <2>4. QED
    BY <1>2, <2>1, <2>2, <2>3
<1>7. i.op \in Repeated => d.rep = i.rep
  <2> SUFFICES ASSUME i.op \in Repeated PROVE d.rep = i.rep
    OBVIOUS
  <2> DEFINE c == LastPrefix(s, RepPrefixes)
  <2>1. \/ c = NoByte /\ \A b \in RepPrefixes : ~Among(b, p)
        \/ c \in RepPrefixes /\ Among(c, p)
    BY <1>4, LastAmong
  <2>2. d.rep = IF c = NoByte THEN 0 ELSE RepOf(c)
    BY <1>1 DEF RepPut
  <2> HIDE DEF c
  <2>3. CASE c = NoByte /\ \A b \in RepPrefixes : ~Among(b, p)
    <3>1. d.rep = 0
      BY <2>2, <2>3
    <3>2. i.rep # 0 => \hF1 + i.rep \in RepPrefixes
      BY DEF RepPrefixes
    <3>3. i.rep # 0 => Among(\hF1 + i.rep, p)
      BY <1>2
    <3>4. QED
      BY <2>3, <3>1, <3>2, <3>3
  <2>4. CASE c \in RepPrefixes /\ Among(c, p)
    <3>1. c # NoByte /\ c # \hF0 /\ c # WaitOpcode /\ c \notin SegOverrides
      BY <2>4 DEF RepPrefixes, NoByte, WaitOpcode, SegOverrides
    <3>2. c = \hF1 + i.rep
      BY <1>2, <1>3, <2>4, <3>1
    <3>3. c \in {\hF2, \hF3}
      BY <2>4 DEF RepPrefixes
    <3>4. RepOf(c) = i.rep
      BY <3>2, <3>3 DEF RepOf
    <3>5. QED
      BY <2>2, <3>1, <3>4
  <2>5. QED
    BY <2>1, <2>3, <2>4
<1>8. /\ SegPrefix(i) = << >> => d.segment = NoSegment
      /\ \A b \in SegOverrides : SegPrefix(i) = <<b>> => d.segment = SegmentOf(b)
  <2> DEFINE c == LastPrefix(s, SegOverrides)
  <2>1. \/ c = NoByte /\ \A b \in SegOverrides : ~Among(b, p)
        \/ c \in SegOverrides /\ Among(c, p)
    BY <1>4, LastAmong
  <2>2. d.segment = IF c = NoByte THEN NoSegment ELSE SegmentOf(c)
    BY <1>1 DEF SegmentPut
  <2> HIDE DEF c
  <2>3. CASE c = NoByte /\ \A b \in SegOverrides : ~Among(b, p)
    <3>1. d.segment = NoSegment
      BY <2>2, <2>3
    <3>2. ASSUME NEW b \in SegOverrides, SegPrefix(i) = <<b>> PROVE FALSE
      <4>1. Among(b, SegPrefix(i))
        BY <3>2, AmongOne
      <4>2. QED
        BY <1>2, <2>3, <3>2, <4>1
    <3>3. QED
      BY <3>1, <3>2
  <2>4. CASE c \in SegOverrides /\ Among(c, p)
    <3>1. c # NoByte /\ c # \hF0 /\ c # WaitOpcode /\ c # \hF1 + i.rep
      BY <2>4 DEF SegOverrides, NoByte, WaitOpcode
    <3>2. Among(c, SegPrefix(i))
      BY <1>2, <2>4, <3>1
    <3>3. SegPrefix(i) = <<c>>
      BY <1>3, <3>2
    <3>4. d.segment = SegmentOf(c)
      BY <2>2, <3>1
    <3>5. <<c>> # << >>
      OBVIOUS
    <3>6. ASSUME NEW b \in SegOverrides, SegPrefix(i) = <<b>> PROVE d.segment = SegmentOf(b)
      <4>1. b = c
        BY <3>3, <3>6
      <4>2. QED
        BY <3>4, <4>1
    <3>7. QED
      BY <3>3, <3>5, <3>6
  <2>5. QED
    BY <2>1, <2>3, <2>4
<1>9. QED
  BY <1>5, <1>6, <1>7, <1>8

-----------------------------------------------------------------------------
(* The segment an operand is found again in.                               *)

(* Operand a is where an instruction with override t finds it.             *)
Steady(a, t) == IsMem(a) => a.segment = DefaultSegment(a.regs, t)

LEMMA AnewMemory ==
    ASSUME NEW a, Proper(a), IsMem(a), NEW t
    PROVE  /\ Anew(a, t).segment = DefaultSegment(a.regs, t)
           /\ a.segment = DefaultSegment(a.regs, t) => Anew(a, t) = a
           /\ Anew(a, t).kind = "mem" /\ a.regs \in Addressing
<1>1. Operand(a) /\ a.kind = "mem"
  BY DEF Proper, IsMem
<1>2. PICK v \in Addressing, b \in Word16 : \E g, w : a = MemArg(v, b, g, w)
  BY <1>1 DEF Operand, RegArg
<1>3. PICK g, w : a = MemArg(v, b, g, w)
  BY <1>2
<1>4. b % 65536 = b
  BY <1>2 DEF Word16
<1>5. a.regs = v /\ a.base = b /\ a.segment = g /\ a.size = w
  BY <1>3, <1>4 DEF MemArg
<1>6. Anew(a, t) = MemArg(v, b, DefaultSegment(v, t), w)
  BY <1>1, <1>5 DEF Anew
<1>7. Anew(a, t).segment = DefaultSegment(v, t) /\ Anew(a, t).kind = "mem"
  BY <1>6 DEF MemArg
<1>8. g = DefaultSegment(v, t) => Anew(a, t) = a
  BY <1>3, <1>6
<1>9. QED
  BY <1>2, <1>5, <1>7, <1>8

LEMMA AnewSteady ==
    ASSUME NEW a, Proper(a), NEW t
    PROVE  /\ Steady(a, t) => Anew(a, t) = a
           /\ ~Steady(a, t) => Anew(a, t) # a /\ IsMem(a) /\ IsMem(Anew(a, t))
<1>1. CASE IsMem(a)
  BY <1>1, AnewMemory DEF Steady, IsMem
<1>2. CASE ~IsMem(a)
  <2>1. Anew(a, t) = a
    BY <1>2 DEF Anew, IsMem
  <2>2. QED
    BY <1>2, <2>1 DEF Steady
<1>3. QED
  BY <1>1, <1>2

(* Without an override it is there exactly if its own is not needed.       *)
LEMMA OverrideNeeded ==
    ASSUME NEW a, NEW g \in -1 .. 3, a.segment = DefaultSegment(a.regs, g)
    PROVE  SegOverride(a, FALSE) = NoSegment <=> a.segment = DefaultSegment(a.regs, NoSegment)
<1> DEFINE s == \E k \in DOMAIN a.regs : a.regs[k] \in {SP, BP}
           t == \E k \in DOMAIN a.regs : a.regs[k] \in {BP, SP}
<1>1. s <=> t
  OBVIOUS
<1>2. DefaultSegment(a.regs, NoSegment) = IF t THEN SS ELSE DS
  BY DEF DefaultSegment
<1>3. SegOverride(a, FALSE) = IF (a.segment = DS /\ ~s) \/ (a.segment = SS /\ s) THEN NoSegment ELSE a.segment
  BY DEF SegOverride
<1>4. a.segment # NoSegment
  <2>1. CASE g = NoSegment
    BY <1>2, <2>1 DEF SS, DS, NoSegment
  <2>2. CASE g # NoSegment
    BY <2>2 DEF DefaultSegment
  <2>3. QED
    BY <2>1, <2>2
<1> HIDE DEF s, t
<1>5. CASE t
  BY <1>1, <1>2, <1>3, <1>4, <1>5 DEF SS, DS
<1>6. CASE ~t
  BY <1>1, <1>2, <1>3, <1>4, <1>6 DEF SS, DS
<1>7. QED
  BY <1>5, <1>6

(* t is the override of the bytes SegPrefix(i) is written to.              *)
Overridden(i, t) ==
    /\ SegPrefix(i) = << >> => t = NoSegment
    /\ \A b \in SegOverrides : SegPrefix(i) = <<b>> => t = SegmentOf(b)

LEMMA OverrideBack ==
    ASSUME NEW i, NEW t, Overridden(i, t), NEW g \in -1 .. 3,
           SegPrefix(i) = IF g = NoSegment THEN << >> ELSE <<\h26 + 8 * g>>
    PROVE  t = g
<1>1. CASE g = NoSegment
  BY <1>1 DEF Overridden
<1>2. CASE g # NoSegment
  <2> DEFINE b == \h26 + 8 * g
  <2>1. g = 0 \/ g = 1 \/ g = 2 \/ g = 3
    BY <1>2 DEF NoSegment
  <2>2. b \in SegOverrides /\ SegmentOf(b) = g
    BY <2>1 DEF SegOverrides, SegmentOf
  <2>3. SegPrefix(i) = <<b>>
    BY <1>2
  <2> HIDE DEF b
  <2>4. QED
    BY <2>2, <2>3 DEF Overridden
<1>3. QED
  BY <1>1, <1>2

(* What the encoder puts before an instruction whose operands are governed *)
(* by its override.                                                        *)
LEMMA SegmentBack ==
    ASSUME NEW i, i.segment \in -1 .. 3, Governed(i.op, i.argv, i.segment), NEW t, Overridden(i, t)
    PROVE  /\ MemOf(i) = << >> \/ i.op \in Unsegmented => t = NoSegment
           /\ MemOf(i) # << >> /\ i.op \notin Unsegmented \cup ToES =>
                t = i.segment /\ \E a : MemOf(i) = <<a>> /\ Steady(a, t)
<1> DEFINE a == MemOf(i)
           forced == i.segment # NoSegment
           segment == IF a = << >> \/ i.op \in Unsegmented THEN NoSegment
                      ELSE IF i.op \in ToES THEN (IF forced THEN ES ELSE NoSegment)
                      ELSE SegOverride(a[1], forced)
<1>1. SegPrefix(i) = IF segment = NoSegment THEN << >> ELSE <<\h26 + 8 * segment>>
  BY DEF SegPrefix
<1>2. ASSUME a = << >> \/ i.op \in Unsegmented PROVE t = NoSegment
  <2>1. segment = NoSegment
    BY <1>2
  <2> HIDE DEF segment
  <2>2. SegPrefix(i) = << >>
    BY <1>1, <2>1
  <2>3. QED
    BY <2>2 DEF Overridden
<1>3. ASSUME a # << >>, i.op \notin Unsegmented \cup ToES
      PROVE  t = i.segment /\ \E m : MemOf(i) = <<m>> /\ Steady(m, t)
  <2>1. PICK m : a = <<m>> /\ m.segment = DefaultSegment(m.regs, i.segment)
    BY <1>3, GovernedMemory
  <2>2. a[1] = m
    BY <2>1
  <2>3. SegOverride(m, i.segment # NoSegment) = i.segment
    BY <2>1, RegularPrefix
  <2>4. segment = i.segment
    BY <1>3, <2>2, <2>3
  <2> HIDE DEF segment, a
  <2>5. t = i.segment
    BY <1>1, <2>4, OverrideBack
  <2>6. Steady(m, t)
    BY <2>1, <2>5 DEF Steady
  <2>7. QED
    BY <2>1, <2>5, <2>6 DEF a
<1>4. QED
  BY <1>2, <1>3

(* A memory operand whose segment is lost.                                 *)
Dropped(i) ==
    /\ i.op \in Unsegmented
    /\ MemOf(i) # << >>
    /\ SegOverride(MemOf(i)[1], FALSE) # NoSegment

(* An instruction i that was decoded, and the override t of its encoding.  *)
Setting(i, t) == i.segment \in -1 .. 3 /\ Governed(i.op, i.argv, i.segment) /\ Overridden(i, t)

LEMMA SteadyOrDropped ==
    ASSUME NEW i, NEW t, Setting(i, t), NEW a, IsMem(a), MemOf(i) = <<a>>, i.op \notin ToES
    PROVE  Steady(a, t) <=> ~Dropped(i)
<1>1. MemOf(i) # << >> /\ MemOf(i)[1] = a
  OBVIOUS
<1>2. CASE i.op \in Unsegmented
  <2>1. t = NoSegment
    BY <1>2, SegmentBack DEF Setting
  <2>2. a.segment = DefaultSegment(a.regs, i.segment)
    <3>1. PICK m : MemOf(i) = <<m>> /\ m.segment = DefaultSegment(m.regs, i.segment)
      BY <1>1, GovernedMemory DEF Setting
    <3>2. m = a
      BY <3>1
    <3>3. QED
      BY <3>1, <3>2
  <2>3. SegOverride(a, FALSE) = NoSegment <=> a.segment = DefaultSegment(a.regs, NoSegment)
    BY <2>2, OverrideNeeded DEF Setting
  <2>4. QED
    BY <1>1, <1>2, <2>1, <2>3 DEF Dropped, Steady
<1>3. CASE i.op \notin Unsegmented
  <2>1. PICK m : MemOf(i) = <<m>> /\ Steady(m, t)
    BY <1>1, <1>3, SegmentBack DEF Setting
  <2>2. m = a
    BY <2>1
  <2>3. QED
    BY <1>3, <2>1, <2>2 DEF Dropped
<1>4. QED
  BY <1>2, <1>3

LEMMA NoneDropped ==
    ASSUME NEW i, MemOf(i) = << >> \/ i.op \notin Unsegmented
    PROVE  ~Dropped(i)
BY DEF Dropped

LEMMA MemOfNone == ASSUME NEW i, i.argv = << >> PROVE MemOf(i) = << >>
<1> DEFINE at == {k \in DOMAIN i.argv : IsMem(i.argv[k]) /\ (i.op = "FSTP" => k = 1)}
<1>1. at = {}
  OBVIOUS
<1>2. QED
  BY <1>1 DEF MemOf

LEMMA OperandsEqual ==
    ASSUME NEW i, NEW j, j.op = i.op
    PROVE  /\ j.argv = i.argv => Operands(i) = Operands(j)
           /\ i.op # "XCHG" => \A p, q : i.argv = <<p>> /\ j.argv = <<q>>
                => (Operands(i) = Operands(j) <=> Modulo(p) = Modulo(q))
           /\ i.op # "XCHG" => \A p, q, r, s : i.argv = <<p, q>> /\ j.argv = <<r, s>>
                => (Operands(i) = Operands(j) <=> Modulo(p) = Modulo(r) /\ Modulo(q) = Modulo(s))
           /\ i.op = "XCHG" => \A p, q, r, s : i.argv = <<p, q>> /\ j.argv = <<r, s>>
                => (Operands(i) = Operands(j) <=> {Modulo(p), Modulo(q)} = {Modulo(r), Modulo(s)})
<1> DEFINE A == [k \in DOMAIN i.argv |-> Modulo(i.argv[k])]
           B == [k \in DOMAIN j.argv |-> Modulo(j.argv[k])]
<1>1. /\ Operands(i) = IF i.op = "XCHG" THEN {A[1], A[2]} ELSE A
      /\ Operands(j) = IF i.op = "XCHG" THEN {B[1], B[2]} ELSE B
  BY DEF Operands
<1>2. j.argv = i.argv => A = B
  OBVIOUS
<1>3. ASSUME NEW p, NEW q, i.argv = <<p>>, j.argv = <<q>>
      PROVE  A = B <=> Modulo(p) = Modulo(q)
  <2>1. DOMAIN i.argv = {1} /\ DOMAIN j.argv = {1} /\ i.argv[1] = p /\ j.argv[1] = q
    BY <1>3
  <2>2. A[1] = Modulo(p) /\ B[1] = Modulo(q) /\ A = [k \in {1} |-> Modulo(p)] /\ B = [k \in {1} |-> Modulo(q)]
    BY <2>1
  <2>3. QED
    BY <2>2
<1>4. ASSUME NEW p, NEW q, NEW r, NEW s, i.argv = <<p, q>>, j.argv = <<r, s>>
      PROVE  /\ A[1] = Modulo(p) /\ A[2] = Modulo(q) /\ B[1] = Modulo(r) /\ B[2] = Modulo(s)
             /\ A = B <=> Modulo(p) = Modulo(r) /\ Modulo(q) = Modulo(s)
  <2>1. DOMAIN <<p, q>> = 1 .. 2 /\ DOMAIN <<r, s>> = 1 .. 2 /\ 1 .. 2 = {1, 2}
    OBVIOUS
  <2>2. /\ DOMAIN i.argv = {1, 2} /\ DOMAIN j.argv = {1, 2}
        /\ i.argv[1] = p /\ i.argv[2] = q /\ j.argv[1] = r /\ j.argv[2] = s
    BY <1>4, <2>1
  <2>3. /\ A[1] = Modulo(p) /\ A[2] = Modulo(q) /\ B[1] = Modulo(r) /\ B[2] = Modulo(s)
        /\ A = [k \in {1, 2} |-> IF k = 1 THEN Modulo(p) ELSE Modulo(q)]
        /\ B = [k \in {1, 2} |-> IF k = 1 THEN Modulo(r) ELSE Modulo(s)]
    BY <2>2
  <2>4. QED
    BY <2>3
<1> HIDE DEF A, B
<1>5. QED
  BY <1>1, <1>2, <1>3, <1>4

LEMMA ModuloOf ==
    ASSUME NEW a
    PROVE  ~IsImm(a) => Modulo(a) = a
BY DEF Modulo

(* The instruction with operands u that was found for i shows the loss of  *)
(* an override in its operands, and nothing else.                          *)
ShowsDropped(i, u) == \A j : j.op = i.op /\ j.argv = u => (Operands(i) = Operands(j) <=> ~Dropped(i))

LEMMA ShownEqual ==
    ASSUME NEW i, ~Dropped(i)
    PROVE  ShowsDropped(i, i.argv)
<1>1. ASSUME NEW j, j.op = i.op, j.argv = i.argv PROVE Operands(i) = Operands(j)
  BY <1>1, OperandsEqual
<1>2. QED
  BY <1>1 DEF ShowsDropped

LEMMA ShownOne ==
    ASSUME NEW i, NEW p, i.op # "XCHG", i.argv = <<p>>, NEW q, Modulo(p) = Modulo(q) <=> ~Dropped(i)
    PROVE  ShowsDropped(i, <<q>>)
<1>1. ASSUME NEW j, j.op = i.op, j.argv = <<q>> PROVE Operands(i) = Operands(j) <=> Modulo(p) = Modulo(q)
  BY <1>1, OperandsEqual
<1>2. QED
  BY <1>1 DEF ShowsDropped

LEMMA ShownTwo ==
    ASSUME NEW i, NEW p, NEW q, i.op # "XCHG", i.argv = <<p, q>>, NEW r, NEW s,
           Modulo(p) = Modulo(r) /\ Modulo(q) = Modulo(s) <=> ~Dropped(i)
    PROVE  ShowsDropped(i, <<r, s>>)
<1>1. ASSUME NEW j, j.op = i.op, j.argv = <<r, s>>
      PROVE  Operands(i) = Operands(j) <=> Modulo(p) = Modulo(r) /\ Modulo(q) = Modulo(s)
  BY <1>1, OperandsEqual
<1>2. QED
  BY <1>1 DEF ShowsDropped

LEMMA ShownXchg ==
    ASSUME NEW i, NEW p, NEW q, i.op = "XCHG", i.argv = <<p, q>>, NEW r, NEW s,
           {Modulo(p), Modulo(q)} = {Modulo(r), Modulo(s)} <=> ~Dropped(i)
    PROVE  ShowsDropped(i, <<r, s>>)
<1>1. ASSUME NEW j, j.op = i.op, j.argv = <<r, s>>
      PROVE  Operands(i) = Operands(j) <=> {Modulo(p), Modulo(q)} = {Modulo(r), Modulo(s)}
  BY <1>1, OperandsEqual
<1>2. QED
  BY <1>1 DEF ShowsDropped

(* A single operand.                                                       *)
LEMMA BeforeOne ==
    ASSUME NEW i, NEW t, Setting(i, t), NEW p, Proper(p), i.op # "XCHG", IsMem(p) => i.op \notin ToES,
           i.argv = <<p>>
    PROVE  ShowsDropped(i, <<Anew(p, t)>>)
<1>1. MemOf(i) = IF p.kind = "mem" THEN <<p>> ELSE << >>
  BY MemOfOne
<1>2. CASE IsMem(p)
  <2>1. MemOf(i) = <<p>>
    BY <1>1, <1>2 DEF IsMem
  <2>2. Steady(p, t) <=> ~Dropped(i)
    BY <1>2, <2>1, SteadyOrDropped
  <2>3. /\ Steady(p, t) => Anew(p, t) = p
        /\ ~Steady(p, t) => Anew(p, t) # p /\ IsMem(Anew(p, t))
    BY AnewSteady
  <2>4. ~IsImm(p) /\ (IsMem(Anew(p, t)) => ~IsImm(Anew(p, t)))
    BY <1>2 DEF IsMem, IsImm
  <2>5. Modulo(p) = Modulo(Anew(p, t)) <=> ~Dropped(i)
    BY <2>2, <2>3, <2>4, ModuloOf
  <2>6. QED
    BY <2>5, ShownOne
<1>3. CASE ~IsMem(p)
  <2>1. MemOf(i) = << >>
    BY <1>1, <1>3 DEF IsMem
  <2>2. ~Dropped(i)
    BY <2>1, NoneDropped
  <2>3. Anew(p, t) = p
    BY <1>3 DEF Anew, IsMem
  <2>4. QED
    BY <2>2, <2>3, ShownEqual
<1>4. QED
  BY <1>2, <1>3

(* Two operands, of which at most one is memory.                           *)
LEMMA ModuloAnew ==
    ASSUME NEW p, NEW t, Proper(p)
    PROVE  /\ Modulo(p) = Modulo(Anew(p, t)) <=> Steady(p, t)
           /\ IsMem(p) => IsMem(Modulo(p)) /\ IsMem(Modulo(Anew(p, t)))
           /\ ~IsMem(p) => Anew(p, t) = p /\ ~IsMem(Modulo(p)) /\ Steady(p, t)
<1>1. CASE IsMem(p)
  <2>1. /\ Steady(p, t) => Anew(p, t) = p
        /\ ~Steady(p, t) => Anew(p, t) # p /\ IsMem(Anew(p, t))
    BY AnewSteady
  <2>2. ~IsImm(p) /\ (IsMem(Anew(p, t)) => ~IsImm(Anew(p, t)))
    BY <1>1 DEF IsMem, IsImm
  <2>3. IsMem(Anew(p, t))
    BY <1>1, <2>1
  <2>4. Modulo(p) = p /\ Modulo(Anew(p, t)) = Anew(p, t)
    BY <2>2, <2>3, ModuloOf
  <2>5. QED
    BY <1>1, <2>1, <2>3, <2>4
<1>2. CASE ~IsMem(p)
  <2>1. Anew(p, t) = p /\ Steady(p, t)
    BY <1>2 DEF Anew, IsMem, Steady
  <2>2. ~IsMem(Modulo(p))
    <3>1. CASE IsImm(p)
      <4>1. Modulo(p).kind = "imm"
        BY <3>1 DEF Modulo, IsImm
      <4>2. QED
        BY <4>1 DEF IsMem
    <3>2. CASE ~IsImm(p)
      BY <1>2, <3>2, ModuloOf
    <3>3. QED
      BY <3>1, <3>2
  <2>3. QED
    BY <1>2, <2>1, <2>2
<1>3. QED
  BY <1>1, <1>2

LEMMA BeforeTwo ==
    ASSUME NEW i, NEW t, Setting(i, t), NEW p, NEW q, Proper(p), Proper(q), ~(IsMem(p) /\ IsMem(q)),
           i.op \notin ToES, i.argv = <<p, q>>, i.op # "FSTP"
    PROVE  ShowsDropped(i, <<Anew(p, t), Anew(q, t)>>)
<1>1. MemOf(i) = IF q.kind = "mem" /\ i.op # "FSTP" THEN <<q>>
                 ELSE IF p.kind = "mem" THEN <<p>> ELSE << >>
  BY MemOfTwo
<1>2. (Steady(p, t) /\ Steady(q, t)) <=> ~Dropped(i)
  <2>1. CASE IsMem(q)
    <3>1. MemOf(i) = <<q>>
      BY <1>1, <2>1 DEF IsMem
    <3>2. Steady(p, t)
      BY <2>1 DEF Steady
    <3>3. QED
      BY <2>1, <3>1, <3>2, SteadyOrDropped
  <2>2. CASE IsMem(p)
    <3>1. MemOf(i) = <<p>>
      BY <1>1, <2>2 DEF IsMem
    <3>2. Steady(q, t)
      BY <2>2 DEF Steady
    <3>3. QED
      BY <2>2, <3>1, <3>2, SteadyOrDropped
  <2>3. CASE ~IsMem(p) /\ ~IsMem(q)
    <3>1. MemOf(i) = << >>
      BY <1>1, <2>3 DEF IsMem
    <3>2. QED
      BY <2>3, <3>1, NoneDropped DEF Steady
  <2>4. QED
    BY <2>1, <2>2, <2>3
<1>3. /\ Modulo(p) = Modulo(Anew(p, t)) <=> Steady(p, t)
      /\ IsMem(p) => IsMem(Modulo(p)) /\ IsMem(Modulo(Anew(p, t)))
      /\ ~IsMem(p) => Anew(p, t) = p /\ ~IsMem(Modulo(p)) /\ Steady(p, t)
  BY ModuloAnew
<1>4. /\ Modulo(q) = Modulo(Anew(q, t)) <=> Steady(q, t)
      /\ IsMem(q) => IsMem(Modulo(q)) /\ IsMem(Modulo(Anew(q, t)))
      /\ ~IsMem(q) => Anew(q, t) = q /\ ~IsMem(Modulo(q)) /\ Steady(q, t)
  BY ModuloAnew
<1>5. CASE i.op # "XCHG"
  BY <1>2, <1>3, <1>4, <1>5, ShownTwo
<1>6. CASE i.op = "XCHG"
  <2> DEFINE a == Modulo(p)
             b == Modulo(q)
             c == Modulo(Anew(p, t))
             e == Modulo(Anew(q, t))
  <2>1. (a = c /\ b = e) <=> ~Dropped(i)
    BY <1>2, <1>3, <1>4
  <2>2. {a, b} = {c, e} => a = c /\ b = e
    <3>1. CASE IsMem(p)
      <4>1. IsMem(a) /\ IsMem(c) /\ ~IsMem(b) /\ b = e
        BY <1>3, <1>4, <3>1
      <4> HIDE DEF a, b, c, e
      <4>2. QED
        BY <4>1
    <3>2. CASE IsMem(q)
      <4>1. IsMem(b) /\ IsMem(e) /\ ~IsMem(a) /\ a = c
        BY <1>3, <1>4, <3>2
      <4> HIDE DEF a, b, c, e
      <4>2. QED
        BY <4>1
    <3>3. CASE ~IsMem(p) /\ ~IsMem(q)
      BY <1>3, <1>4, <3>3
    <3>4. QED
      BY <3>1, <3>2, <3>3
  <2>3. {a, b} = {c, e} <=> ~Dropped(i)
    <3> HIDE DEF a, b, c, e
    <3>1. QED
      BY <2>1, <2>2
  <2>4. QED
    BY <1>6, <2>3, ShownXchg
<1>7. QED
  BY <1>5, <1>6

LEMMA StringsToES ==
    ASSUME NEW i, NEW at, i.op \in ToES, NEW f, ReadsAs(f, EncodeCase(i, at), i.op)
    PROVE  \E w : Case(f, at)[2] = <<StringDest(w)>>
<1>1. i.op \in DOMAIN StringCode
  BY TablesAre DEF ToES
<1>2. EncodeCase(i, at) = << StringCode[i.op] + WordBit(i.argv[1]) >>
  BY <1>1, IntegerDispatch
<1>3. PICK w \in {1, 2} : WordBit(i.argv[1]) = w - 1
  BY DEF WordBit
<1>4. Parsed(f, << StringCode[i.op] + (w - 1) >>)
  BY <1>2, <1>3, ReadsAsIs
<1>5. CASE i.op = "STOS"
  <2>1. Parsed(f, << \hAA + (w - 1) >>)
    BY <1>4, <1>5, StringCodes
  <2>2. Gives(f, at, "STOS", <<StringDest(w)>>)
    BY <2>1, StringBack
  <2>3. QED
    BY <2>2 DEF Gives
<1>6. CASE i.op = "SCAS"
  <2>1. Parsed(f, << \hAE + (w - 1) >>)
    BY <1>4, <1>6, StringCodes
  <2>2. Gives(f, at, "SCAS", <<StringDest(w)>>)
    BY <2>1, StringBack
  <2>3. QED
    BY <2>2 DEF Gives
<1>7. QED
  BY <1>5, <1>6 DEF ToES

LEMMA KeptBefore ==
    ASSUME NEW i, NEW at, ~Odd(i, at), NEW f, ReadsAs(f, EncodeCase(i, at), i.op), Setting(i, f.segment),
           AsBefore(i.op, i.argv, Case(f, at)[2], f.segment)
    PROVE  ShowsDropped(i, Case(f, at)[2])
<1> DEFINE u == Case(f, at)[2]
           t == f.segment
<1>1. i.op \in ToES => \E w : u = <<StringDest(w)>>
  BY StringsToES
<1>2. i.op = "FSTP" => Len(i.argv) # 2
  BY DEF Odd, MisreadsStore
<1>3. \/ i.op # "XCHG" /\ i.argv = << >> /\ u = << >>
      \/ \E p : /\ i.op # "XCHG" /\ (IsMem(p) => i.op \notin ToES \cup ShiftOps)
                /\ i.argv = <<p>> /\ Proper(p) /\ u = <<Anew(p, t)>>
      \/ \E p, q : /\ i.argv = <<p, q>> /\ Proper(p) /\ Proper(q) /\ ~(IsMem(p) /\ IsMem(q))
                   /\ (i.op \in Unsegmented => ~IsMem(q))
                   /\ u = <<Anew(p, t), Anew(q, t)>>
  BY DEF AsBefore
<1>4. Setting(i, t)
  OBVIOUS
<1>5. ShowsDropped(i, u)
  <2> HIDE DEF u, t
  <2>1. CASE i.argv = << >> /\ u = << >>
    BY <2>1, MemOfNone, NoneDropped, ShownEqual
  <2>2. CASE \E p : /\ i.op # "XCHG" /\ (IsMem(p) => i.op \notin ToES \cup ShiftOps)
                    /\ i.argv = <<p>> /\ Proper(p) /\ u = <<Anew(p, t)>>
    <3>1. PICK p : /\ i.op # "XCHG" /\ (IsMem(p) => i.op \notin ToES \cup ShiftOps)
                   /\ i.argv = <<p>> /\ Proper(p) /\ u = <<Anew(p, t)>>
      BY <2>2
    <3>2. ShowsDropped(i, <<Anew(p, t)>>)
      BY <1>4, <3>1, BeforeOne
    <3>3. QED
      BY <3>1, <3>2
  <2>3. CASE \E p, q : /\ i.argv = <<p, q>> /\ Proper(p) /\ Proper(q) /\ ~(IsMem(p) /\ IsMem(q))
                       /\ (i.op \in Unsegmented => ~IsMem(q))
                       /\ u = <<Anew(p, t), Anew(q, t)>>
    <3>1. PICK p, q : /\ i.argv = <<p, q>> /\ Proper(p) /\ Proper(q) /\ ~(IsMem(p) /\ IsMem(q))
                      /\ (i.op \in Unsegmented => ~IsMem(q))
                      /\ u = <<Anew(p, t), Anew(q, t)>>
      BY <2>3
    <3>2. \A a, b, c : <<a, b>> # <<c>>
      OBVIOUS
    <3>3. i.op \notin ToES
      BY <1>1, <3>1, <3>2
    <3>4. i.op # "FSTP"
      <4>1. Len(i.argv) = 2
        BY <3>1
      <4>2. QED
        BY <1>2, <4>1
    <3>5. ShowsDropped(i, <<Anew(p, t), Anew(q, t)>>)
      BY <1>4, <3>1, <3>3, <3>4, BeforeTwo
    <3>6. QED
      BY <3>1, <3>5
  <2>4. QED
    BY <1>3, <2>1, <2>2, <2>3
<1>6. QED
  BY <1>5

LEMMA KeptStrings ==
    ASSUME NEW i, NEW t, Setting(i, t), NEW u, AsStrings(i.op, i.argv, u, t)
    PROVE  ShowsDropped(i, u)
<1>1. CASE \E w : i.op \in ToES /\ i.argv = <<StringDest(w)>> /\ u = i.argv
  <2>1. i.op \notin Unsegmented
    BY <1>1, ShiftIs DEF ToES, Unsegmented, FarOps, ShiftOps
  <2>2. QED
    BY <1>1, <2>1, NoneDropped, ShownEqual
<1>2. CASE \E w, q : /\ i.op \in {"MOVS", "CMPS"} /\ i.argv = <<StringDest(w), q>> /\ IsMem(q) /\ Operand(q)
                     /\ u = <<StringDest(w), Anew(q, t)>>
  <2>1. PICK w, q : /\ i.op \in {"MOVS", "CMPS"} /\ i.argv = <<StringDest(w), q>> /\ IsMem(q) /\ Operand(q)
                    /\ u = <<StringDest(w), Anew(q, t)>>
    BY <1>2
  <2>2. i.op \notin Unsegmented /\ i.op \notin ToES /\ i.op # "FSTP"
    BY <2>1, ShiftIs DEF ToES, Unsegmented, FarOps, ShiftOps
  <2>3. MemOf(i) = <<q>>
    BY <2>1, <2>2, MemOfTwo DEF IsMem
  <2>4. ~Dropped(i)
    BY <2>2, NoneDropped
  <2>5. Steady(q, t)
    BY <2>1, <2>2, <2>3, <2>4, SteadyOrDropped
  <2>6. Proper(q)
    BY <2>1 DEF Proper
  <2>7. Anew(q, t) = q
    BY <2>5, <2>6, AnewSteady
  <2>8. u = i.argv
    BY <2>1, <2>7
  <2>9. QED
    BY <2>4, <2>8, ShownEqual
<1>3. QED
  BY <1>1, <1>2 DEF AsStrings

LEMMA ResignedModulo ==
    ASSUME NEW w \in {1, 2}, NEW x, Number(x, w)
    PROVE  Modulo(ImmArg(x, w)) = Modulo(ImmArg(Resigned(x, w), w))
<1>1. x \in Int
  BY DEF Number
<1>2. \A v : Modulo(ImmArg(v, w)) = ImmArg(v % (2 ^ (8 * w)), w)
  <2>1. ASSUME NEW v PROVE Modulo(ImmArg(v, w)) = ImmArg(v % (2 ^ (8 * w)), w)
    <3>1. IsImm(ImmArg(v, w)) /\ ImmArg(v, w).size > 0 /\ ImmArg(v, w).size = w /\ ImmArg(v, w).value = v
      BY DEF IsImm, ImmArg
    <3>2. [ImmArg(v, w) EXCEPT !.value = v % (2 ^ (8 * w))] = ImmArg(v % (2 ^ (8 * w)), w)
      BY DEF ImmArg
    <3>3. QED
      BY <3>1, <3>2 DEF Modulo
  <2>2. QED
    BY <2>1
<1>3. CASE w = 1
  BY <1>3 DEF Resigned
<1>4. CASE w = 2
  <2>1. \A v \in Int : v % (2 ^ (8 * 2)) = v % 65536
    OBVIOUS
  <2>2. Resigned(x, 2) \in Int /\ Resigned(x, 2) % 65536 = x % 65536
    BY <1>1 DEF Resigned
  <2>3. QED
    BY <1>1, <1>2, <1>4, <2>1, <2>2
<1>5. QED
  BY <1>3, <1>4

LEMMA KeptSigned ==
    ASSUME NEW i, NEW t, Setting(i, t), NEW u, AsSigned(i.op, i.argv, u, t)
    PROVE  ShowsDropped(i, u)
<1>1. PICK p, x, w : /\ i.op \in AluOps /\ w \in {1, 2} /\ Number(x, w) /\ Sized(p, w)
                     /\ i.argv = <<p, ImmArg(x, w)>> /\ u = <<Anew(p, t), ImmArg(Resigned(x, w), w)>>
  BY DEF AsSigned
<1>2. i.op \notin Unsegmented /\ i.op \notin ToES /\ i.op # "FSTP" /\ i.op # "XCHG"
  BY <1>1, ShiftIs DEF AluOps, ToES, Unsegmented, FarOps, ShiftOps
<1>3. ~Dropped(i)
  BY <1>2, NoneDropped
<1>4. Proper(p) /\ ~IsMem(ImmArg(x, w)) /\ ImmArg(x, w).kind # "mem"
  BY <1>1, ProperKinds DEF IsMem, ImmArg
<1>5. Steady(p, t)
  <2>1. CASE IsMem(p)
    <3>1. MemOf(i) = <<p>>
      BY <1>1, <1>4, <2>1, MemOfTwo DEF IsMem
    <3>2. QED
      BY <1>2, <1>3, <2>1, <3>1, SteadyOrDropped
  <2>2. CASE ~IsMem(p)
    BY <2>2 DEF Steady
  <2>3. QED
    BY <2>1, <2>2
<1>6. Anew(p, t) = p
  BY <1>4, <1>5, AnewSteady
<1>7. Modulo(ImmArg(x, w)) = Modulo(ImmArg(Resigned(x, w), w))
  BY <1>1, ResignedModulo
<1>8. ShowsDropped(i, <<Anew(p, t), ImmArg(Resigned(x, w), w)>>)
  BY <1>1, <1>2, <1>3, <1>6, <1>7, ShownTwo
<1>9. QED
  BY <1>1, <1>8

LEMMA KeptTarget ==
    ASSUME NEW i, NEW at, NEW u, AsTarget(i.op, i.argv, u, at)
    PROVE  ShowsDropped(i, u)
<1>1. PICK x \in Int : i.op \in {"JMP", "CALL"} /\ i.argv = <<ImmArg(x, 2)>> /\ u = <<ImmArg(x % 65536, 2)>>
  BY DEF AsTarget
<1>2. MemOf(i) = << >>
  <2>1. ImmArg(x, 2).kind # "mem"
    BY DEF ImmArg
  <2>2. QED
    BY <1>1, <2>1, MemOfOne
<1>3. ~Dropped(i)
  BY <1>2, NoneDropped
<1>4. Modulo(ImmArg(x, 2)) = Modulo(ImmArg(x % 65536, 2))
  <2>1. \A v : Modulo(ImmArg(v, 2)) = ImmArg(v % (2 ^ (8 * 2)), 2)
    <3>1. ASSUME NEW v PROVE Modulo(ImmArg(v, 2)) = ImmArg(v % (2 ^ (8 * 2)), 2)
      <4>1. IsImm(ImmArg(v, 2)) /\ ImmArg(v, 2).size > 0 /\ ImmArg(v, 2).size = 2 /\ ImmArg(v, 2).value = v
        BY DEF IsImm, ImmArg
      <4>2. [ImmArg(v, 2) EXCEPT !.value = v % (2 ^ (8 * 2))] = ImmArg(v % (2 ^ (8 * 2)), 2)
        BY DEF ImmArg
      <4>3. QED
        BY <4>1, <4>2 DEF Modulo
    <3>2. QED
      BY <3>1
  <2>2. x % (2 ^ (8 * 2)) = (x % 65536) % (2 ^ (8 * 2))
    OBVIOUS
  <2>3. QED
    BY <2>1, <2>2
<1>5. ShowsDropped(i, <<ImmArg(x % 65536, 2)>>)
  BY <1>1, <1>3, <1>4, ShownOne
<1>6. QED
  BY <1>1, <1>5

LEMMA KeptTurned ==
    ASSUME NEW i, NEW u, AsTurned(i.op, i.argv, u)
    PROVE  ShowsDropped(i, u)
<1>1. PICK r \in 1 .. 7 : /\ i.op = "XCHG" /\ i.argv = <<RegArg(r, 2), RegArg(AX, 2)>>
                          /\ u = <<RegArg(AX, 2), RegArg(r, 2)>>
  BY DEF AsTurned
<1>2. RegArg(r, 2).kind # "mem" /\ RegArg(AX, 2).kind # "mem"
  BY DEF RegArg
<1>3. MemOf(i) = << >>
  BY <1>1, <1>2, MemOfTwo
<1>4. ~Dropped(i)
  BY <1>3, NoneDropped
<1>5. ShowsDropped(i, <<RegArg(AX, 2), RegArg(r, 2)>>)
  <2> DEFINE a == RegArg(r, 2)
             b == RegArg(AX, 2)
  <2> HIDE DEF a, b
  <2>1. i.op = "XCHG" /\ i.argv = <<a, b>> /\ {Modulo(a), Modulo(b)} = {Modulo(b), Modulo(a)}
    BY <1>1 DEF a, b
  <2>2. ShowsDropped(i, <<b, a>>)
    BY <1>4, <2>1, ShownXchg
  <2>3. QED
    BY <2>2 DEF a, b
<1>6. QED
  BY <1>1, <1>5

LEMMA KeptShows ==
    ASSUME NEW i, NEW at, ~Odd(i, at), NEW f, ReadsAs(f, EncodeCase(i, at), i.op), Setting(i, f.segment),
           Kept(i, f, at)
    PROVE  Case(f, at)[1] = i.op /\ ShowsDropped(i, Case(f, at)[2])
<1> DEFINE u == Case(f, at)[2]
           t == f.segment
<1>1. /\ Case(f, at)[1] = i.op
      /\ \/ AsBefore(i.op, i.argv, u, t) \/ AsStrings(i.op, i.argv, u, t) \/ AsSigned(i.op, i.argv, u, t)
         \/ AsTarget(i.op, i.argv, u, at) \/ AsTurned(i.op, i.argv, u)
  BY DEF Kept
<1>2. QED
  BY <1>1, KeptBefore, KeptStrings, KeptSigned, KeptTarget, KeptTurned

-----------------------------------------------------------------------------
(* The transfers of control of one or two bytes, and the returns: none of  *)
(* them has a memory operand, so that no prefix is written for it.         *)

ShortOps == {"JO", "JNO", "JB", "JNB", "JZ", "JNZ", "JBE", "JA", "JS", "JNS", "JP", "JNP", "JL", "JGE",
             "JLE", "JG", "LOOPNE", "LOOPE", "LOOP", "JCXZ", "RET", "RETF"}

Memoryless(v) ==
    \/ v = << >>
    \/ \E p : v = <<p>> /\ p.kind # "mem"
    \/ \E p, q : v = <<p, q>> /\ p.kind # "mem" /\ q.kind # "mem"

Bound(c) == c[1] \in ShortOps => Memoryless(c[2])

LEMMA MemorylessIs == ASSUME NEW i, Memoryless(i.argv) PROVE MemOf(i) = << >>
<1>1. CASE i.argv = << >>
  BY <1>1, MemOfNone
<1>2. CASE \E p : i.argv = <<p>> /\ p.kind # "mem"
  BY <1>2, MemOfOne
<1>3. CASE \E p, q : i.argv = <<p, q>> /\ p.kind # "mem" /\ q.kind # "mem"
  BY <1>3, MemOfTwo
<1>4. QED
  BY <1>1, <1>2, <1>3 DEF Memoryless

LEMMA BoundBy ==
    ASSUME NEW op, NEW v
    PROVE  /\ op \notin ShortOps => Bound(<<op, v>>)
           /\ Memoryless(v) => Bound(<<op, v>>)
  BY DEF Bound

LEMMA OtherNames ==
    \A k \in 1 .. 8 : /\ Alu[k] \notin ShortOps /\ Shifts[k] \notin ShortOps
                      /\ Group3[k] \notin ShortOps /\ Group5[k] \notin ShortOps
                      /\ FpuArith[k] \notin ShortOps /\ FpuInt[k] \notin ShortOps
<1>1. \A k \in 1 .. 8 : Alu[k] \notin ShortOps /\ Shifts[k] \notin ShortOps
  BY DEF Alu, Shifts, ShortOps
<1>2. \A k \in 1 .. 8 : Group3[k] \notin ShortOps /\ Group5[k] \notin ShortOps
  BY DEF Group3, Group5, ShortOps
<1>3. \A k \in 1 .. 8 : FpuArith[k] \notin ShortOps /\ FpuInt[k] \notin ShortOps
  BY DEF FpuArith, FpuInt, ShortOps
<1>4. QED
  BY <1>1, <1>2, <1>3

LEMMA OtherMemoryNames ==
    ASSUME NEW b \in {\hD9, \hDA, \hDB, \hDD, \hDE, \hDF}, NEW k \in 1 .. 8
    PROVE  FpuMemory(b)[k][1] \notin ShortOps
<1>1. CASE b \in {\hDA, \hDE}
  <2>1. FpuMemory(b)[k][1] = FpuInt[k]
    BY <1>1 DEF FpuMemory
  <2>2. QED
    BY <2>1, OtherNames
<1>2. CASE b = \hD9
  <2>1. FpuMemory(b)[k][1] \in {"FLD", "UD_NOP", "FST", "FSTP", "FLDENV", "FLDCW", "FSTENV", "FSTCW"}
    BY <1>2 DEF FpuMemory
  <2>2. QED
    BY <2>1 DEF ShortOps
<1>3. CASE b = \hDB
  <2>1. FpuMemory(b)[k][1] \in {"FILD", "FISTTP", "FIST", "FISTP", "UD_NOP", "FLD", "FSTP"}
    BY <1>3 DEF FpuMemory
  <2>2. QED
    BY <2>1 DEF ShortOps
<1>4. CASE b = \hDD
  <2>1. FpuMemory(b)[k][1] \in {"FLD", "FISTTP", "FST", "FSTP", "FRSTOR", "UD_NOP", "FSAVE", "FSTSW"}
    BY <1>4 DEF FpuMemory
  <2>2. QED
    BY <2>1 DEF ShortOps
<1>5. CASE b = \hDF
  <2>1. FpuMemory(b)[k][1] \in {"FILD", "FISTTP", "FIST", "FISTP", "FBLD", "FBSTP"}
    BY <1>5 DEF FpuMemory
  <2>2. QED
    BY <2>1 DEF ShortOps
<1>6. QED
  BY <1>1, <1>2, <1>3, <1>4, <1>5

LEMMA MemorylessArgs ==
    /\ \A r, w : RegArg(r, w).kind # "mem"
    /\ \A r : SRegArg(r).kind # "mem" /\ STArg(r).kind # "mem"
    /\ \A v, w : ImmArg(v, w).kind # "mem" /\ FarArg(v, w).kind # "mem"
  BY DEF RegArg, SRegArg, STArg, ImmArg, FarArg

LEMMA FpuBound ==
    ASSUME NEW d, d.lead \in FPUEscapes, d.fpu \in Byte, d.rm # NoByte => Reg(d.rm) \in 0 .. 7
    PROVE  Bound(Escape(d))
<1>1. CASE d.rm # NoByte
  <2> DEFINE n == Reg(d.rm) + 1
             f == FpuMemory(d.lead)[n]
             v1 == <<STArg(0), RM(d, IF d.lead = \hD8 THEN 4 ELSE 8)>>
             v2 == <<STArg(0), RM(d, f[2])>>
             v3 == <<RM(d, f[2])>>
  <2>1. /\ d.lead \in {\hD8, \hDC} => FpuMemoryForm(d) = <<FpuArith[n], v1>>
        /\ d.lead \in {\hDB, \hDF} => FpuMemoryForm(d) = <<f[1], v2>>
        /\ d.lead \in {\hD9, \hDA, \hDD, \hDE} => FpuMemoryForm(d) = <<f[1], v3>>
    BY MemoryForms
  <2>2. n \in 1 .. 8
    BY <1>1
  <2> HIDE DEF n, v1, v2, v3
  <2>3. FpuArith[n] \notin ShortOps
    BY <2>2, OtherNames
  <2>4. d.lead \in {\hD9, \hDA, \hDB, \hDD, \hDE, \hDF} => f[1] \notin ShortOps
    BY <2>2, OtherMemoryNames
  <2> HIDE DEF f
  <2>5. Escape(d) = FpuMemoryForm(d)
    BY <1>1 DEF Escape
  <2>6. d.lead \in {\hD8, \hDC} \/ d.lead \in {\hDB, \hDF} \/ d.lead \in {\hD9, \hDA, \hDD, \hDE}
    BY DEF FPUEscapes
  <2>7. QED
    BY <2>1, <2>3, <2>4, <2>5, <2>6, BoundBy
<1>2. CASE d.rm = NoByte
  <2> DEFINE b == d.lead
             x == d.fpu
             st == STArg(x % 8)
             z == STArg(0)
             n == Reg(x)
             r1 == <<FpuArith[n + 1], <<z, st>> >>
             r2 == <<FpuArithR[n + 1], <<st, z>> >>
             r3 == <<FpuArithP[n + 1], IF n = 3 THEN <<z, st>> ELSE <<st, z>> >>
             r4 == <<"FLD", <<st>> >>
             r5 == <<"FXCH", <<st>> >>
             r6 == <<PlainFpu(x), << >> >>
             r7 == <<"FUCOMPP", << >> >>
             r8 == <<PlainControl[x - \hDF], << >> >>
             r9 == <<FpuStack[n + 1], <<st>> >>
             r10 == <<"FSTSW", <<RegArg(AX, 2)>> >>
             row == CASE b = \hD8 -> r1 [] b = \hDC -> r2 [] b = \hDE -> r3
                      [] b = \hD9 /\ n = 0 -> r4 [] b = \hD9 /\ n = 1 -> r5 [] b = \hD9 /\ n > 1 -> r6
                      [] b = \hDA -> r7 [] b = \hDB -> r8 [] b = \hDD -> r9 [] b = \hDF -> r10
  <2>1. Escape(d) = row
    BY <1>2 DEF Escape, FpuRegisterForm
  <2>2. n \in 0 .. 7 /\ b \in \hD8 .. \hDF
    BY FieldsAre DEF FPUEscapes
  <2>3. st.kind # "mem" /\ z.kind # "mem" /\ RegArg(AX, 2).kind # "mem"
    BY MemorylessArgs
  <2>4. Memoryless(<< >>) /\ Memoryless(<<RegArg(AX, 2)>>)
    BY <2>3 DEF Memoryless
  <2> HIDE DEF b, x, st, z, n
  <2>5. Memoryless(<<st>>) /\ Memoryless(<<z, st>>) /\ Memoryless(<<st, z>>)
    BY <2>3 DEF Memoryless
  <2>6. Memoryless(IF n = 3 THEN <<z, st>> ELSE <<st, z>>)
    BY <2>5
  <2>7. /\ Bound(r1) /\ Bound(r2) /\ Bound(r3) /\ Bound(r4) /\ Bound(r5)
        /\ Bound(r6) /\ Bound(r7) /\ Bound(r8) /\ Bound(r9) /\ Bound(r10)
    BY <2>4, <2>5, <2>6, BoundBy
  <2> HIDE DEF r1, r2, r3, r4, r5, r6, r7, r8, r9, r10
  <2>8. row \in {r1, r2, r3, r4, r5, r6, r7, r8, r9, r10}
    BY <2>2
  <2> HIDE DEF row
  <2>9. QED
    BY <2>1, <2>7, <2>8
<1>3. QED
  BY <1>1, <1>2

LEMMA LowBound ==
    ASSUME NEW d, d.lead \in 0 .. \h3F
    PROVE  Bound(Rows0to3(d))
<1> DEFINE b == d.lead
           n == (b \div 8) + 1
           v1 == Ordered(b, RM(d, WidthOf(b)), RMReg(d, WidthOf(b)))
           v2 == <<RegArg(AX, WidthOf(b)), ImmArg(d.args[1], WidthOf(b))>>
           v3 == <<SRegArg(n - 1)>>
           k == b % 8
           row == CASE k < 4 -> <<Alu[n], v1>> [] k \in {4, 5} -> <<Alu[n], v2>>
                    [] k = 6 -> <<"PUSH", v3>> [] k = 7 -> <<"POP", v3>>
<1>1. Rows0to3(d) = row
  BY DEF Rows0to3
<1>2. k \in 0 .. 7 /\ n \in 1 .. 8
  <2> HIDE DEF b
  <2>1. QED
    BY DEF b
<1>3. Alu[n] \notin ShortOps /\ "PUSH" \notin ShortOps /\ "POP" \notin ShortOps
  BY <1>2, OtherNames DEF ShortOps
<1> HIDE DEF k, n, v1, v2, v3
<1>4. Bound(<<Alu[n], v1>>) /\ Bound(<<Alu[n], v2>>) /\ Bound(<<"PUSH", v3>>) /\ Bound(<<"POP", v3>>)
  BY <1>3, BoundBy
<1>5. row \in {<<Alu[n], v1>>, <<Alu[n], v2>>, <<"PUSH", v3>>, <<"POP", v3>>}
  BY <1>2
<1> HIDE DEF row
<1>6. QED
  BY <1>1, <1>4, <1>5

LEMMA Rows4to7Bound ==
    ASSUME NEW d, d.lead \in \h40 .. \h5F \cup \h70 .. \h7F, NEW at
    PROVE  Bound(Rows4to7(d, at))
<1> DEFINE b == d.lead
           p == RegArg(b % 8, 2)
           q == ShortTarget(d, at)
           j == Jcc[(b % 16) + 1]
           row == CASE b \in \h40 .. \h47 -> <<"INC", <<p>> >> [] b \in \h48 .. \h4F -> <<"DEC", <<p>> >>
                    [] b \in \h50 .. \h57 -> <<"PUSH", <<p>> >> [] b \in \h58 .. \h5F -> <<"POP", <<p>> >>
                    [] b \in \h70 .. \h7F -> <<j, <<q>> >>
<1>1. Rows4to7(d, at) = row
  BY DEF Rows4to7
<1>2. p.kind # "mem" /\ q.kind # "mem"
  BY MemorylessArgs DEF ShortTarget
<1> HIDE DEF p, q, j
<1>3. Memoryless(<<p>>) /\ Memoryless(<<q>>)
  BY <1>2 DEF Memoryless
<1>4. /\ Bound(<<"INC", <<p>> >>) /\ Bound(<<"DEC", <<p>> >>) /\ Bound(<<"PUSH", <<p>> >>)
      /\ Bound(<<"POP", <<p>> >>) /\ Bound(<<j, <<q>> >>)
  BY <1>3, BoundBy
<1>5. row \in {<<"INC", <<p>> >>, <<"DEC", <<p>> >>, <<"PUSH", <<p>> >>, <<"POP", <<p>> >>, <<j, <<q>> >>}
  OBVIOUS
<1> HIDE DEF row
<1>6. QED
  BY <1>1, <1>4, <1>5

LEMMA Row8Bound ==
    ASSUME NEW d, d.lead \in \h80 .. \h8F, Reg(d.rm) \in 0 .. 7
    PROVE  Bound(Row8(d))
<1> DEFINE b == d.lead
           w == WidthOf(b)
           op == Alu[Reg(d.rm) + 1]
           v1 == <<RM(d, w), ImmArg(RMImm(d), w)>>
           v2 == <<RM(d, 2), ImmArg(Signed(RMImm(d), 8), 2)>>
           v3 == <<RM(d, w), RMReg(d, w)>>
           v5 == Ordered(b, RM(d, w), RMReg(d, w))
           v6 == Ordered(b, RM(d, 2), SRegArg(Reg(d.rm)))
           v7 == <<RMReg(d, 2), RM(d, 2)>>
           v8 == <<RM(d, 2)>>
           row == CASE b \in \h80 .. \h82 -> <<op, v1>> [] b = \h83 -> <<op, v2>>
                    [] b \in \h84 .. \h85 -> <<"TEST", v3>>
                    [] b \in \h86 .. \h87 -> <<"XCHG", v3>> [] b \in \h88 .. \h8B -> <<"MOV", v5>>
                    [] b \in {\h8C, \h8E} -> <<"MOV", v6>> [] b = \h8D -> <<"LEA", v7>>
                    [] b = \h8F -> <<"POP", v8>>
<1>1. Row8(d) = row
  BY DEF Row8
<1>2. op \notin ShortOps
  BY OtherNames
<1>3. /\ "TEST" \notin ShortOps /\ "XCHG" \notin ShortOps /\ "MOV" \notin ShortOps
      /\ "LEA" \notin ShortOps /\ "POP" \notin ShortOps
  BY DEF ShortOps
<1> HIDE DEF op, v1, v2, v3, v5, v6, v7, v8
<1>4. /\ Bound(<<op, v1>>) /\ Bound(<<op, v2>>) /\ Bound(<<"TEST", v3>>) /\ Bound(<<"XCHG", v3>>)
      /\ Bound(<<"MOV", v5>>) /\ Bound(<<"MOV", v6>>) /\ Bound(<<"LEA", v7>>) /\ Bound(<<"POP", v8>>)
  BY <1>2, <1>3, BoundBy
<1>5. row \in {<<op, v1>>, <<op, v2>>, <<"TEST", v3>>, <<"XCHG", v3>>, <<"MOV", v5>>, <<"MOV", v6>>,
               <<"LEA", v7>>, <<"POP", v8>>}
  OBVIOUS
<1> HIDE DEF row
<1>6. QED
  BY <1>1, <1>4, <1>5

LEMMA Rows9toBBound ==
    ASSUME NEW d, d.lead \in \h91 .. \h97 \cup {\h9A} \cup \hA0 .. \hBF
    PROVE  Bound(Rows9toB(d))
<1> DEFINE b == d.lead
           w == WidthOf(b)
           row == Rows9toB(d)
           v1 == <<RegArg(AX, 2), RegArg(b % 8, 2)>>
           v2 == <<FarArg(d.args[1], d.args[2])>>
           v3 == Ordered(b, RegArg(AX, w), MemArg(<< >>, d.args[1], Segmented(d, DS), w))
           v4 == <<StringDest(w), StringSource(d, w)>>
           v6 == <<RegArg(AX, w), ImmArg(d.args[1], w)>>
           v7 == <<StringDest(w)>>
           v8 == <<StringSource(d, w)>>
           v10 == <<RegArg(b % 8, 1), ImmArg(d.args[1], 1)>>
           v11 == <<RegArg(b % 8, 2), ImmArg(d.args[1], 2)>>
<1>1. b \in Int
  OBVIOUS
<1>2. /\ b \in \h91 .. \h97 => row = <<"XCHG", v1>>
      /\ b = \h9A => row = <<"CALL_FAR", v2>>
      /\ b \in \hA0 .. \hA3 => row = <<"MOV", v3>>
      /\ b \in \hA4 .. \hA5 => row = <<"MOVS", v4>>
      /\ b \in \hA6 .. \hA7 => row = <<"CMPS", v4>>
      /\ b \in \hA8 .. \hA9 => row = <<"TEST", v6>>
      /\ b \in \hAA .. \hAB => row = <<"STOS", v7>>
      /\ b \in \hAC .. \hAD => row = <<"LODS", v8>>
      /\ b \in \hAE .. \hAF => row = <<"SCAS", v7>>
      /\ b \in \hB0 .. \hB7 => row = <<"MOV", v10>>
      /\ b \in \hB8 .. \hBF => row = <<"MOV", v11>>
  BY <1>1, Rows9toBIs
<1>3. /\ "XCHG" \notin ShortOps /\ "CALL_FAR" \notin ShortOps /\ "MOV" \notin ShortOps
      /\ "MOVS" \notin ShortOps /\ "CMPS" \notin ShortOps /\ "TEST" \notin ShortOps
      /\ "STOS" \notin ShortOps /\ "LODS" \notin ShortOps /\ "SCAS" \notin ShortOps
  BY DEF ShortOps
<1> HIDE DEF row, v1, v2, v3, v4, v6, v7, v8, v10, v11
<1>4. \E op, v : row = <<op, v>> /\ op \notin ShortOps
  BY <1>2, <1>3
<1>5. QED
  BY <1>4, BoundBy DEF row

LEMMA RowsCtoDBound ==
    ASSUME NEW d, d.lead \in \hC0 .. \hC2 \cup \hC4 .. \hC7 \cup {\hCA, \hCC, \hCD} \cup \hD0 .. \hD5,
           d.lead \notin {\hC2, \hCA, \hCC, \hCD, \hD4, \hD5} => Reg(d.rm) \in 0 .. 7
    PROVE  Bound(RowsCtoD(d))
<1> DEFINE b == d.lead
           w == WidthOf(b)
           op == Shifts[Reg(d.rm) + 1]
           v1 == <<RM(d, w), ImmArg(RMImm(d), 1)>>
           v2 == <<RM(d, w), ImmArg(1, 1)>>
           v3 == <<RM(d, w), RegArg(CX, 1)>>
           v4 == <<ImmArg(d.args[1], 2)>>
           v5 == <<ImmArg(d.args[1], 0)>>
           v6 == <<RMReg(d, 2), RM(d, 4)>>
           v8 == <<RM(d, w), ImmArg(RMImm(d), w)>>
           v9 == <<ImmArg(3, 0)>>
           v11 == <<ImmArg(d.args[1], 1)>>
           row == RowsCtoD(d)
<1>1. b \in Int
  OBVIOUS
<1>2. /\ b \in \hC0 .. \hC1 => row = <<op, v1>>
      /\ b \in \hD0 .. \hD1 => row = <<op, v2>>
      /\ b \in \hD2 .. \hD3 => row = <<op, v3>>
      /\ b = \hC2 => row = <<"RET", v4>>
      /\ b = \hCA => row = <<"RETF", v5>>
      /\ b = \hC4 => row = <<"LES", v6>>
      /\ b = \hC5 => row = <<"LDS", v6>>
      /\ b \in \hC6 .. \hC7 => row = <<"MOV", v8>>
      /\ b = \hCC => row = <<"INT", v9>>
      /\ b = \hCD => row = <<"INT", v5>>
      /\ b = \hD4 => row = <<"AAM", v11>>
      /\ b = \hD5 => row = <<"AAD", v11>>
  BY <1>1, RowsCtoDIs
<1>3. b \notin {\hC2, \hCA, \hCC, \hCD, \hD4, \hD5} => op \notin ShortOps
  BY OtherNames
<1>4. /\ "LES" \notin ShortOps /\ "LDS" \notin ShortOps /\ "MOV" \notin ShortOps
      /\ "INT" \notin ShortOps /\ "AAM" \notin ShortOps /\ "AAD" \notin ShortOps
  BY DEF ShortOps
<1>5. Memoryless(v4) /\ Memoryless(v5)
  BY MemorylessArgs DEF Memoryless
<1> HIDE DEF row, op, v1, v2, v3, v4, v5, v6, v8, v9, v11
<1>6. CASE b \in {\hC2, \hCA, \hCD}
  BY <1>2, <1>5, <1>6, BoundBy DEF row
<1>7. CASE b \in {\hCC, \hD4, \hD5}
  BY <1>2, <1>4, <1>7, BoundBy DEF row
<1>8. CASE b \in \hC0 .. \hC1 \cup \hC4 .. \hC7 \cup \hD0 .. \hD3
  <2>1. \E o, v : row = <<o, v>> /\ o \notin ShortOps
    BY <1>2, <1>3, <1>4, <1>8
  <2>2. QED
    BY <2>1, BoundBy DEF row
<1>9. QED
  BY <1>6, <1>7, <1>8

LEMMA RowEBound ==
    ASSUME NEW d, d.lead \in \hE0 .. \hEF, NEW at
    PROVE  Bound(RowE(d, at))
<1> DEFINE b == d.lead
           w == WidthOf(b)
           row == RowE(d, at)
           op == Loops[b - \hE0 + 1]
           v1 == <<ShortTarget(d, at)>>
           v2 == <<RegArg(AX, w), ImmArg(d.args[1], 0)>>
           v3 == <<ImmArg(d.args[1], 0), RegArg(AX, w)>>
           v4 == <<NearTarget(d, at)>>
           v6 == <<FarArg(d.args[1], d.args[2])>>
           v8 == <<RegArg(AX, w), RegArg(DX, 2)>>
           v9 == <<RegArg(DX, 2), RegArg(AX, w)>>
<1>1. row \in {<<op, v1>>, <<"IN", v2>>, <<"OUT", v3>>, <<"CALL", v4>>, <<"JMP", v4>>, <<"JMP_FAR", v6>>,
               <<"JMP", v1>>, <<"IN", v8>>, <<"OUT", v9>>}
  <2> HIDE DEF w
  <2>1. QED
    BY RowEIs DEF w
<1>2. Memoryless(v1)
  BY MemorylessArgs DEF Memoryless, ShortTarget
<1>3. /\ "IN" \notin ShortOps /\ "OUT" \notin ShortOps /\ "CALL" \notin ShortOps
      /\ "JMP" \notin ShortOps /\ "JMP_FAR" \notin ShortOps
  BY DEF ShortOps
<1> HIDE DEF row, op, v1, v2, v3, v4, v6, v8, v9
<1>4. Bound(<<op, v1>>)
  BY <1>2, BoundBy
<1>5. row = <<op, v1>> \/ \E o, v : row = <<o, v>> /\ o \notin ShortOps
  BY <1>1, <1>3
<1>6. QED
  BY <1>4, <1>5, BoundBy DEF row

LEMMA RowFBound ==
    ASSUME NEW d, d.lead \in {\hF6, \hF7, \hFE, \hFF}, Reg(d.rm) \in 0 .. 7
    PROVE  Bound(RowF(d))
<1> DEFINE w == WidthOf(d.lead)
           n == Reg(d.rm) + 1
           far == Reg(d.rm) \in {3, 5}
           v1 == <<RM(d, w)>> \o (IF Reg(d.rm) = 0 THEN <<ImmArg(RMImm(d), w)>> ELSE << >>)
           v2 == <<RM(d, IF far THEN w + 2 ELSE w)>>
           row == CASE d.lead \in \hF6 .. \hF7 -> <<Group3[n], v1>> [] d.lead \in \hFE .. \hFF -> <<Group5[n], v2>>
<1>1. RowF(d) = row
  BY DEF RowF
<1>2. Group3[n] \notin ShortOps /\ Group5[n] \notin ShortOps
  BY OtherNames
<1> HIDE DEF n, v1, v2
<1>3. Bound(<<Group3[n], v1>>) /\ Bound(<<Group5[n], v2>>)
  BY <1>2, BoundBy
<1>4. row \in {<<Group3[n], v1>>, <<Group5[n], v2>>}
  OBVIOUS
<1> HIDE DEF row
<1>5. QED
  BY <1>1, <1>3, <1>4

LEMMA ShortRows ==
    ASSUME NEW d, NEW x, Fields(d, x), NEW i, NEW at, Made(i, d, at), i.op \in ShortOps
    PROVE  MemOf(i) = << >>
<1> DEFINE b == d.lead
           c == Case(d, at)
<1>1. SUFFICES Bound(c)
  BY MemorylessIs DEF Made, Bound
<1>2. b \in Byte /\ b \notin Plain /\ x \in Byte /\ d.op = OutcomeOf(b, x)
  BY DEF Fields
<1>3. TakesModRM(b, x) => Reg(d.rm) \in 0 .. 7
  BY ModRMFields
<1>4. \A op : Bound(<<op, << >> >>)
  BY BoundBy DEF Memoryless
<1>5. CASE d.op = "UD_NOP"
  BY <1>4, <1>5 DEF Case
<1>6. CASE d.op # "UD_NOP" /\ b \in FPUEscapes
  <2>1. b \notin DOMAIN PlainOneByte /\ b \notin Absent
    BY <1>6, PlainBytes, Kinds
  <2>2. d.op = "OK"
    <3>1. d.op = FPUOutcome(b, x)
      BY <1>2, <1>6, OutcomeKinds
    <3>2. QED
      BY <1>6, <3>1 DEF FPUOutcome
  <2>3. c = Escape(d)
    BY <1>6, <2>1, <2>2 DEF Case
  <2>4. d.fpu \in Byte
    BY <1>2, <1>6 DEF Fields
  <2>5. d.rm # NoByte => Reg(d.rm) \in 0 .. 7
    BY <1>3 DEF Fields
  <2>6. QED
    BY <1>6, <2>3, <2>4, <2>5, FpuBound
<1>7. CASE d.op # "UD_NOP" /\ b \notin FPUEscapes /\ d.op = "OK" /\ b \in DOMAIN PlainOneByte
  BY <1>4, <1>7 DEF Case
<1>8. CASE d.op # "UD_NOP" /\ b \notin FPUEscapes /\ (d.op = "OK" => b \notin DOMAIN PlainOneByte)
  <2>1. b \notin DOMAIN PlainOneByte
    <3>1. b \in DOMAIN PlainOneByte => b \notin ModRMOpcodes /\ b \notin PeekOpcodes
      BY PlainBytes
    <3>2. b \notin ModRMOpcodes /\ b \notin PeekOpcodes => d.op \in {"OK", "UD_NOP"}
      BY <1>2, <1>8 DEF OutcomeOf
    <3>3. QED
      BY <1>8, <3>1, <3>2
  <2>2. b \notin Absent
    BY <1>2, <1>8, OutcomeKinds
  <2>3. c = IF b < \h40 THEN Rows0to3(d)
            ELSE IF b < \h80 THEN Rows4to7(d, at)
            ELSE IF b < \h90 THEN Row8(d)
            ELSE IF b < \hC0 THEN Rows9toB(d)
            ELSE IF b < \hE0 THEN RowsCtoD(d)
            ELSE IF b < \hF0 THEN RowE(d, at) ELSE RowF(d)
    BY <1>2, <1>8, <2>1, CaseRows
  <2>4. /\ b \in \h80 .. \h8F \cup {\hF6, \hF7, \hFE, \hFF} => Reg(d.rm) \in 0 .. 7
        /\ b \in \hC0 .. \hC1 \cup \hC4 .. \hC7 \cup \hD0 .. \hD3 => Reg(d.rm) \in 0 .. 7
    BY <1>3, <1>8, AddressedRows
  <2>5. CASE b \in 0 .. \h3F
    BY <2>3, <2>5, LowBound
  <2>6. CASE b \in \h40 .. \h5F \cup \h70 .. \h7F
    BY <2>3, <2>6, Rows4to7Bound
  <2>7. CASE b \in \h80 .. \h8F
    BY <2>3, <2>4, <2>7, Row8Bound
  <2>8. CASE b \in \h91 .. \h97 \cup {\h9A} \cup \hA0 .. \hBF
    BY <2>3, <2>8, Rows9toBBound
  <2>9. CASE b \in \hC0 .. \hC2 \cup \hC4 .. \hC7 \cup {\hCA, \hCC, \hCD} \cup \hD0 .. \hD5
    <3>1. b \notin {\hC2, \hCA, \hCC, \hCD, \hD4, \hD5} => b \in \hC0 .. \hC1 \cup \hC4 .. \hC7 \cup \hD0 .. \hD3
      BY <2>9
    <3>2. b \notin {\hC2, \hCA, \hCC, \hCD, \hD4, \hD5} => Reg(d.rm) \in 0 .. 7
      BY <2>4, <3>1
    <3>3. c = RowsCtoD(d)
      BY <2>3, <2>9
    <3>4. QED
      BY <2>9, <3>2, <3>3, RowsCtoDBound
  <2>10. CASE b \in \hE0 .. \hEF
    BY <2>3, <2>10, RowEBound
  <2>11. CASE b \in {\hF6, \hF7, \hFE, \hFF}
    BY <2>3, <2>4, <2>11, RowFBound
  <2>12. QED
    BY <1>2, <1>8, <2>1, <2>2, <2>5, <2>6, <2>7, <2>8, <2>9, <2>10, <2>11, RowBytes
<1>9. QED
  BY <1>5, <1>6, <1>7, <1>8

-----------------------------------------------------------------------------
(* An encoding that is decoded as another instruction from its first byte. *)

LEMMA BareTransfers ==
    ASSUME NEW i, TransfersTo(i.op), i.op \in ShortOps => MemOf(i) = << >>
    PROVE  Prefixes(i) = << >> /\ SegPrefix(i) = << >>
<1>1. i.op \notin Locked /\ i.op \notin Waiting /\ i.op \notin Repeated
  BY TransfersAre DEF TransfersTo, Transfers, FarOps, Locked, Waiting, Repeated
<1>2. i.op \in ShortOps \/ i.op \in Unsegmented
  BY TransfersAre DEF TransfersTo, Transfers, FarOps, ShortOps, Unsegmented
<1>3. SegPrefix(i) = << >>
  BY <1>2 DEF SegPrefix
<1>4. LockPrefix(i) = << >> /\ WaitPrefix(i) = << >> /\ RepPrefix(i) = << >>
  BY <1>1 DEF LockPrefix, WaitPrefix, RepPrefix
<1>5. << >> \o << >> \o << >> \o << >> = << >>
  OBVIOUS
<1>6. QED
  BY <1>3, <1>4, <1>5 DEF Prefixes

LEMMA FirstOfSeveral ==
    ASSUME NEW S, NEW v \in Seq(S), NEW a \in S, NEW b \in S, NEW c \in S
    PROVE  /\ (<<a, b>> \o v)[1] = a /\ (<<a, b, c>> \o v)[1] = a
           /\ Len(<<a, b>> \o v) = 2 + Len(v) /\ Len(<<a, b, c>> \o v) = 3 + Len(v) /\ Len(v) \in Nat
<1> DEFINE u == <<a, b>>
           w == <<a, b, c>>
<1>1. u \in Seq(S) /\ Len(u) = 2 /\ u[1] = a /\ w \in Seq(S) /\ Len(w) = 3 /\ w[1] = a
  OBVIOUS
<1> HIDE DEF u, w
<1>2. 1 \in 1 .. Len(u) /\ 1 \in 1 .. Len(w)
  BY <1>1
<1>3. (u \o v)[1] = u[1] /\ Len(u \o v) = Len(u) + Len(v) /\ Len(v) \in Nat
  BY ZenonT(60), <1>1, <1>2, Joined
<1>4. (w \o v)[1] = w[1] /\ Len(w \o v) = Len(w) + Len(v)
  BY ZenonT(60), <1>1, <1>2, Joined
<1>5. Len(u \o v) = 2 + Len(v) /\ Len(w \o v) = 3 + Len(v)
  BY <1>1, <1>3, <1>4
<1>6. QED
  BY <1>1, <1>3, <1>4, <1>5 DEF u, w

LEMMA FirstOfLong ==
    ASSUME NEW a, NEW b, NEW c, NEW x
    PROVE  /\ (<<a, b>> \o Word(x))[1] = a /\ (<<a, b>> \o Dword(x))[1] = a
           /\ (<<a, b, c>> \o Dword(x))[1] = a
           /\ Len(<<a, b>> \o Word(x)) = 4 /\ Len(<<a, b>> \o Dword(x)) = 6
           /\ Len(<<a, b, c>> \o Dword(x)) = 7
<1> DEFINE u == Word(x)
           v == Word(x \div 65536)
           S == {a, b, c, u[1], u[2], v[1], v[2]}
<1>1. u \in Seq(S) /\ v \in Seq(S) /\ Len(u) = 2 /\ Len(v) = 2
  <2>1. \A r, s : <<r, s>> \in Seq({a, b, c, r, s} \cup S) /\ <<r, s>>[1] = r /\ <<r, s>>[2] = s
    OBVIOUS
  <2>2. \E r, s : u = <<r, s>>
    BY DEF Word
  <2>3. \E r, s : v = <<r, s>>
    BY DEF Word
  <2> HIDE DEF u, v
  <2>4. ASSUME NEW r, NEW s, NEW z, z = <<r, s>> PROVE z \in Seq({z[1], z[2]}) /\ Len(z) = 2
    BY <2>4
  <2>5. u \in Seq({u[1], u[2]}) /\ v \in Seq({v[1], v[2]}) /\ Len(u) = 2 /\ Len(v) = 2
    BY <2>2, <2>3, <2>4
  <2>6. {u[1], u[2]} \subseteq S /\ {v[1], v[2]} \subseteq S
    OBVIOUS
  <2> HIDE DEF S
  <2>7. QED
    BY <2>5, <2>6, Widened
<1>2. a \in S /\ b \in S /\ c \in S
  OBVIOUS
<1>3. Dword(x) = u \o v
  BY DEF Dword
<1> HIDE DEF S, v
<1>4. u \o v \in Seq(S) /\ Len(u \o v) = 4
  <2> HIDE DEF u
  <2>1. u \o v \in Seq(S) /\ Len(u \o v) = Len(u) + Len(v)
    BY <1>1, Joined
  <2>2. Len(u) + Len(v) = 4
    BY <1>1
  <2>3. QED
    BY <2>1, <2>2
<1>5. /\ (<<a, b>> \o u)[1] = a /\ (<<a, b>> \o (u \o v))[1] = a /\ (<<a, b, c>> \o (u \o v))[1] = a
      /\ Len(<<a, b>> \o u) = 4 /\ Len(<<a, b>> \o (u \o v)) = 6 /\ Len(<<a, b, c>> \o (u \o v)) = 7
  BY <1>1, <1>2, <1>4, FirstOfSeveral
<1>6. QED
  BY <1>3, <1>5 DEF u

LEMMA InRange ==
    ASSUME NEW lo \in Int, NEW hi \in Int, NEW v \in Int, lo <= v, v <= hi
    PROVE  v \in lo .. hi
OBVIOUS

(* What a short form reaches a near one reaches.                           *)
LEMMA ShortIsNear ==
    ASSUME NEW x \in Int, InByte(x - 2)
    PROVE  Near(x)
<1> DEFINE lo == -32768
           hi == 32767
           v == x - 5
<1>1. x - 2 >= -128 /\ x - 2 <= 127
  BY DEF InByte
<1>2. lo \in Int /\ hi \in Int /\ v \in Int
  OBVIOUS
<1>3. lo <= v /\ v <= hi
  BY <1>1
<1> HIDE DEF lo, hi, v
<1>4. v \in lo .. hi
  BY <1>2, <1>3, InRange
<1>5. \A y : InWord(y) <=> y \in lo .. hi
  BY DEF InWord, lo, hi
<1>6. InWord(v)
  BY <1>4, <1>5
<1>7. QED
  BY <1>6 DEF Near, v

(* A transfer that is too far for its forms begins with 0x66, or with 0x0F.*)
LEMMA FarOff ==
    ASSUME NEW i, NEW at \in Int, Wraps(i, at) \/ Outreaches(i, at), Verdict(i, at),
           EncodeCase(i, at) # << >>
    PROVE  /\ TransfersTo(i.op) /\ i.op # "UD_NOP" /\ i.op # "POP"
           /\ EncodeCase(i, at)[1] \in {\h66, \h0F} /\ Len(EncodeCase(i, at)) > 2
<1> DEFINE e == EncodeCase(i, at)
           a == i.argv[1]
<1>1. CASE Wraps(i, at)
  <2>1. i.op \in {"JMP", "CALL"} /\ IsImm(a) /\ ~Near(a.value - at)
    BY <1>1 DEF Wraps
  <2>2. TransfersTo(i.op) /\ i.op # "UD_NOP" /\ i.op # "POP"
    BY <2>1 DEF TransfersTo, Transfers
  <2>3. \A b, v : ~Near(v) => EncodeNear(b, v)[1] = \h66 /\ Len(EncodeNear(b, v)) > 2
    BY FirstOfLong DEF EncodeNear
  <2>4. CASE i.op = "CALL"
    <3>1. e = EncodeNear(\hE8, a.value - at)
      BY <2>1, <2>4, TransferDispatch DEF EncodeCall
    <3>2. QED
      BY <2>1, <2>2, <2>3, <3>1
  <2>5. CASE i.op = "JMP"
    <3>1. a.value \in Int
      <4>1. ~Outreaches(i, at)
        BY <2>5, TransfersAre DEF Outreaches
      <4>2. Odd(i, at)
        BY <1>1 DEF Odd
      <4>3. QED
        BY <2>5, <4>1, <4>2 DEF Verdict
    <3>2. ~InByte(a.value - at - 2)
      <4>1. a.value - at \in Int
        BY <3>1
      <4>2. ~Near(a.value - at)
        BY <2>1
      <4>3. QED
        BY <4>1, <4>2, ShortIsNear
    <3>3. e = EncodeJmp(a, at)
      BY <2>5, TransferDispatch
    <3>4. EncodeJmp(a, at) = EncodeNear(\hE9, a.value - at)
      BY <2>1, <3>2 DEF EncodeJmp
    <3>5. QED
      BY <2>1, <2>2, <2>3, <3>3, <3>4
  <2>6. QED
    BY <2>1, <2>4, <2>5
<1>2. CASE Outreaches(i, at)
  <2>1. (In(Jcc, i.op) \/ In(Loops, i.op)) /\ ~InByte(a.value - at - 2)
    BY <1>2 DEF Outreaches
  <2>2. TransfersTo(i.op) /\ i.op # "UD_NOP" /\ i.op # "POP"
    BY <2>1, TransfersAre DEF TransfersTo
  <2>3. CASE In(Jcc, i.op)
    <3> DEFINE n == Index(Jcc, i.op)
               v == a.value - at
    <3>1. e = EncodeJcc(n, v)
      BY <2>3, TransferDispatch
    <3>2. ~InByte(v - 2)
      BY <2>1
    <3> HIDE DEF n, v
    <3>3. \/ EncodeJcc(n, v) = <<\h0F, \h80 + n>> \o Word(v - 4)
          \/ EncodeJcc(n, v) = <<\h66, \h0F, \h80 + n>> \o Dword(v - 7)
      BY <3>2 DEF EncodeJcc
    <3>4. EncodeJcc(n, v)[1] \in {\h66, \h0F} /\ Len(EncodeJcc(n, v)) > 2
      BY <3>3, FirstOfLong
    <3>5. QED
      BY <2>2, <3>1, <3>4
  <2>4. CASE In(Loops, i.op)
    <3>1. e = EncodeLoop(\hE0 + Index(Loops, i.op), a.value - at)
      BY <2>4, TransferDispatch
    <3>2. e = << >>
      BY <2>1, <3>1 DEF EncodeLoop
    <3>3. QED
      BY <3>2
  <2>5. QED
    BY <2>1, <2>3, <2>4
<1>3. QED
  BY <1>1, <1>2

(* The instruction at the start of c when its first byte is no prefix.     *)
LEMMA ByFirst ==
    ASSUME NEW c \in Seq(Byte), Len(c) > 0, NEW at,
           c[1] \in {\h66, \h0F} \/ (c[1] = WaitOpcode /\ Len(c) > 1 /\ ~Waitable(c[2]))
    PROVE  LET j == Meaning(c \o Zeros, at)
           IN  /\ c[1] = \h66 => j.op = "UD_NOP"
               /\ c[1] = \h0F => j.op = "POP"
               /\ c[1] = WaitOpcode => j.op = "FWAIT"
               /\ j.len \in {1, 2}
<1> DEFINE s == c \o Zeros
           d == FlatDecode(s)
           j == Meaning(s, at)
<1>1. /\ s \in Seq(Byte) /\ Len(s) \in Nat /\ Len(s) >= Len(c) + 8 /\ Len(c) \in Nat
      /\ \A k \in 1 .. Len(c) : s[k] = c[k]
  BY PaddedIs
<1>2. Whole(s)
  BY PaddedIsWhole
<1> HIDE DEF s
<1>3. s[1] = c[1] /\ (Len(c) > 1 => s[2] = c[2])
  BY <1>1
<1>4. ~PrefixAt(s, 1)
  <2>1. s[1] \notin SegOverrides \cup LockPrefixes \cup RepPrefixes
    BY <1>3 DEF SegOverrides, LockPrefixes, RepPrefixes, WaitOpcode
  <2>2. s[1] = WaitOpcode => ~Waitable(s[1 + 1])
    BY <1>3 DEF WaitOpcode
  <2>3. QED
    BY <2>1, <2>2 DEF PrefixAt
<1>5. PrefixLength(s) = 0
  <2>1. 1 \in 1 .. Len(s)
    BY <1>1
  <2>2. PrefixLength(s) \in 0 .. 1 - 1
    BY <1>1, <1>4, <2>1, PrefixesEnd
  <2>3. QED
    BY <2>2
<1>6. Fields(d, Second(s)) /\ d.lead = c[1]
  <2>1. Fields(d, Second(s)) /\ d.lead = Opcode(s)
    BY <1>2, FieldsOfWhole
  <2>2. Opcode(s) = s[1]
    BY <1>5 DEF Opcode
  <2>3. QED
    BY <1>3, <2>1, <2>2
<1>7. j.op = Case(d, at)[1]
  BY MeaningIs DEF Made
<1>14. d.op # "UD_NOP" => d.len = PrefixLength(s) + InsSize(d.lead, Second(s))
  BY <1>2, FieldsOfWhole
<1>15. d.op = "UD_NOP" => d.len = 2
  BY <1>2, FieldsOfWhole
<1>16. c[1] # \h66 => InsSize(c[1], Second(s)) = 1
  <2>1. d.lead = \h0F \/ d.lead = \h9B => d.lead \in Singles /\ d.lead \in Bare
    BY DEF Bare, Singles
  <2>2. d.lead \in Bare /\ d.lead \in Singles => InsSize(d.lead, Second(s)) = 1
    BY <1>6, BareFieldsAre
  <2>3. QED
    BY <1>6, <2>1, <2>2 DEF WaitOpcode
<1>17. j.len = d.len
  BY MeaningIs
<1> HIDE DEF j
<1>18. j.len \in {1, 2}
  <2>1. CASE d.op = "UD_NOP"
    BY <1>15, <1>17, <2>1
  <2>2. CASE d.op # "UD_NOP"
    <3>1. c[1] # \h66
      <4>1. \h66 \in Absent
        BY DEF Absent
      <4>2. c[1] = \h66 => d.op = "UD_NOP"
        BY <1>6, <4>1, OutcomeKinds DEF Fields
      <4>3. QED
        BY <2>2, <4>2
    <3>2. d.len = 0 + 1
      BY <1>5, <1>6, <1>14, <1>16, <2>2, <3>1
    <3>3. QED
      BY <1>17, <3>2
  <2>3. QED
    BY <2>1, <2>2
<1>8. ASSUME c[1] = \h66 PROVE j.op = "UD_NOP"
  <2>1. \h66 \in Absent
    BY DEF Absent
  <2>2. d.op = "UD_NOP"
    BY <1>6, <1>8, <2>1, OutcomeKinds DEF Fields
  <2>3. QED
    BY <1>7, <1>8, <2>2 DEF Case
<1>9. ASSUME c[1] = \h0F PROVE j.op = "POP"
  <2>1. Case(d, at) = <<"POP", <<SRegArg(1)>> >>
    <3>1. 1 \in 0 .. 3 /\ d.lead \in {8 * 1 + 6, 8 * 1 + 7} /\ d.lead # 8 * 1 + 6
      BY <1>6, <1>9
    <3>2. QED
      BY <1>6, <3>1, CaseSegment
  <2>2. QED
    BY <1>7, <1>9, <2>1 DEF WaitOpcode
<1>10. ASSUME c[1] = WaitOpcode PROVE j.op = "FWAIT"
  <2>1. \h9B \in DOMAIN PlainOneByte /\ PlainOneByte[\h9B] = "FWAIT"
    BY DEF PlainOneByte
  <2>2. Case(d, at) = <<"FWAIT", << >> >>
    BY <1>6, <1>10, <2>1, CasePlain DEF WaitOpcode
  <2>3. QED
    BY <1>7, <1>10, <2>2 DEF WaitOpcode
<1>11. QED
  BY <1>8, <1>9, <1>10, <1>18 DEF s, j

-----------------------------------------------------------------------------
(* What was written, decoded, beside the instruction it was written for.   *)

(* A transfer that is too far is decoded as another instruction.           *)
LEMMA FarDiffers ==
    ASSUME NEW i, NEW at \in Int, Wraps(i, at) \/ Outreaches(i, at), Verdict(i, at),
           EncodeCase(i, at) # << >>, EncodeCase(i, at) \in Seq(Byte),
           i.op \in ShortOps => MemOf(i) = << >>
    PROVE  LET j == Meaning(EncodeAll(i, at) \o Zeros, at)
           IN  j.op # i.op /\ j.len # Len(EncodeAll(i, at))
<1> DEFINE e == EncodeCase(i, at)
<1>1. TransfersTo(i.op) /\ i.op # "UD_NOP" /\ i.op # "POP" /\ e[1] \in {\h66, \h0F} /\ Len(e) > 2
  BY FarOff
<1>2. EncodeAll(i, at) = Prefixes(i) \o e
  BY DEF EncodeAll, AfterPrefixes
<1>3. Prefixes(i) = << >>
  BY <1>1, BareTransfers
<1> HIDE DEF e
<1>4. e \in Seq(Byte) /\ e # << >>
  BY DEF e
<1>5. << >> \o e = e /\ Len(e) > 0
  BY <1>4
<1>6. EncodeAll(i, at) = e
  BY <1>2, <1>3, <1>5
<1>7. LET j == Meaning(e \o Zeros, at)
      IN  /\ e[1] = \h66 => j.op = "UD_NOP"
          /\ e[1] = \h0F => j.op = "POP"
          /\ e[1] = WaitOpcode => j.op = "FWAIT"
          /\ j.len \in {1, 2}
  BY <1>1, <1>4, <1>5, ByFirst
<1>8. QED
  BY <1>1, <1>6, <1>7

LEMMA FourParts ==
    ASSUME NEW x, NEW v
    PROVE  << >> \o <<x>> \o << >> \o v = <<x>> \o v
<1>1. << >> \o <<x>> = <<x>> /\ <<x>> \o << >> = <<x>>
  OBVIOUS
<1>2. QED
  BY <1>1

LEMMA TwoAhead ==
    ASSUME NEW x \in Byte, NEW y \in Byte, NEW e \in Seq(Byte)
    PROVE  LET c == <<x>> \o <<y>> \o e
           IN  c \in Seq(Byte) /\ Len(c) = 2 + Len(e) /\ Len(e) \in Nat /\ c[1] = x /\ c[2] = y
<1>1. <<x>> \in Seq(Byte) /\ <<y>> \in Seq(Byte)
  OBVIOUS
<1>2. QED
  BY <1>1

(* The 0x9B that an override parts from its escape is decoded on its own.  *)
LEMMA SplitDiffers ==
    ASSUME NEW i, NEW at, SplitsWait(i), EncodeCase(i, at) # << >>, EncodeCase(i, at) \in Seq(Byte),
           SegPrefix(i) \in {<< >>} \cup OverrideBytes
    PROVE  LET j == Meaning(EncodeAll(i, at) \o Zeros, at)
           IN  j.op # i.op /\ j.len # Len(EncodeAll(i, at))
<1> DEFINE e == EncodeCase(i, at)
<1>1. i.fwait = 1 /\ i.op \in Waiting /\ SegPrefix(i) # << >>
  BY DEF SplitsWait
<1>2. i.op \notin Locked /\ i.op \notin Repeated /\ i.op # "FWAIT"
  BY <1>1 DEF Locked, Repeated, Waiting
<1>3. PICK y \in {\h26, \h2E, \h36, \h3E} : SegPrefix(i) = <<y>>
  BY <1>1 DEF OverrideBytes
<1>4. LockPrefix(i) = << >> /\ WaitPrefix(i) = <<WaitOpcode>> /\ RepPrefix(i) = << >>
  BY <1>1, <1>2 DEF LockPrefix, WaitPrefix, RepPrefix, WaitOpcode
<1>5. Prefixes(i) = <<WaitOpcode>> \o <<y>>
  BY <1>3, <1>4, FourParts DEF Prefixes
<1>6. EncodeAll(i, at) = <<WaitOpcode>> \o <<y>> \o e
  BY <1>5 DEF EncodeAll, AfterPrefixes
<1>7. y \in Byte /\ WaitOpcode \in Byte /\ ~Waitable(y)
  BY DEF Byte, WaitOpcode, Waitable, FPUEscapes, SegOverrides, LockPrefixes, RepPrefixes
<1> DEFINE c == <<WaitOpcode>> \o <<y>> \o e
<1>8. c \in Seq(Byte) /\ Len(c) > 2 /\ c[1] = WaitOpcode /\ c[2] = y
  <2>1. e \in Seq(Byte) /\ e # << >>
    OBVIOUS
  <2> HIDE DEF e
  <2>2. Len(e) > 0
    BY <2>1
  <2>3. QED
    BY <1>7, <2>1, <2>2, TwoAhead
<1> HIDE DEF c, e
<1>9. LET j == Meaning(c \o Zeros, at)
      IN  /\ c[1] = \h66 => j.op = "UD_NOP"
          /\ c[1] = \h0F => j.op = "POP"
          /\ c[1] = WaitOpcode => j.op = "FWAIT"
          /\ j.len \in {1, 2}
  <2>1. Len(c) > 0 /\ Len(c) > 1
    BY <1>8
  <2>2. QED
    BY <1>7, <1>8, <2>1, ByFirst
<1>10. QED
  BY <1>2, <1>6, <1>8, <1>9 DEF c

(* What stands behind its prefixes is read back as it was written.         *)
LEMMA ReadsBack ==
    ASSUME NEW i, NEW at, Stands(EncodeCase(i, at)), ~SplitsWait(i),
           i.segment \in -1 .. 3, i.rep \in 0 .. 2, i.lock \in {0, 1}, i.fwait \in {0, 1},
           SegPrefix(i) \in {<< >>} \cup OverrideBytes,
           i.op \in Waiting => EncodeCase(i, at)[1] \in FPUEscapes,
           i.op \in ShortOps => MemOf(i) = << >>,
           Governed(i.op, i.argv, i.segment)
    PROVE  LET f == FlatDecode(EncodeAll(i, at) \o Zeros)
           IN  /\ ReadsAs(f, EncodeCase(i, at), i.op) /\ Setting(i, f.segment)
               /\ i.op \in Locked => f.lock = i.lock
               /\ i.op \notin Locked => f.lock = 0
               /\ i.op \in Waiting => f.fwait = i.fwait
               /\ i.op \notin Waiting => f.fwait = 0
               /\ i.op \in Repeated => f.rep = i.rep
<1> DEFINE e == EncodeCase(i, at)
           p == Prefixes(i)
           s == p \o e \o Zeros
           f == FlatDecode(s)
<1>1. e # << >>
  BY DEF Stands
<1>2. EncodeAll(i, at) = p \o e
  BY <1>1 DEF EncodeAll, AfterPrefixes
<1>3. p \in Seq(Byte) /\ (p \in Seq(Plain) \/ (p = <<WaitOpcode>> /\ e[1] \in FPUEscapes))
  <2>1. CASE i.fwait # 1 \/ i.op \notin Waiting
    BY <2>1, PrefixesAre
  <2>2. CASE i.fwait = 1 /\ i.op \in Waiting
    <3>1. SegPrefix(i) = << >>
      BY <2>2 DEF SplitsWait
    <3>2. p \in Seq(Byte) /\ p = <<WaitOpcode>>
      BY <2>2, <3>1, PrefixesAre
    <3>3. QED
      BY <2>2, <3>2
  <2>3. QED
    BY <2>1, <2>2
<1>4. TransfersTo(i.op) => p = << >>
  BY BareTransfers
<1>5. Stands(e)
  OBVIOUS
<1> HIDE DEF e
<1>6. Leads(s, p)
  <2> HIDE DEF p
  <2>1. LET n == Len(p)
        IN  /\ s \in Seq(Byte) /\ Len(s) \in Nat /\ n \in Nat /\ n + 2 <= Len(s)
            /\ PrefixLength(s) = n /\ Opcode(s) = e[1] /\ Second(s) = Follow(e)
            /\ \A k \in 1 .. n : s[k] = p[k]
            /\ \A k \in 1 .. Len(e) : s[n + k] = e[k]
            /\ Whole(s)
    BY <1>3, <1>5, RereadPlaces
  <2> HIDE DEF s
  <2>2. QED
    BY <2>1 DEF Leads
<1>7. Parsed(f, e) /\ f.op # "UD_NOP" /\ f.len = Len(p) + Len(e)
  <2> HIDE DEF p
  <2>1. QED
    BY <1>3, <1>5, RereadParsed
<1>8. TransfersTo(i.op) => f.len = Len(e)
  <2> HIDE DEF f, p
  <2>1. Len(e) \in Nat
    BY <1>5 DEF Stands
  <2>2. Len(<< >>) = 0
    OBVIOUS
  <2>3. QED
    BY <1>4, <1>7, <2>1, <2>2
<1> HIDE DEF s
<1>9. ReadsAs(f, e, i.op)
  <2> HIDE DEF f
  <2>1. QED
    BY <1>7, <1>8 DEF ReadsAs
<1>10. /\ i.op \in Locked => f.lock = i.lock
       /\ i.op \notin Locked => f.lock = 0
       /\ i.op \in Waiting => f.fwait = i.fwait
       /\ i.op \notin Waiting => f.fwait = 0
       /\ i.op \in Repeated => f.rep = i.rep
       /\ SegPrefix(i) = << >> => f.segment = NoSegment
       /\ \A b \in SegOverrides : SegPrefix(i) = <<b>> => f.segment = SegmentOf(b)
  BY <1>6, FieldsReadBack
<1>11. Setting(i, f.segment)
  <2> HIDE DEF f
  <2>1. Overridden(i, f.segment)
    BY <1>10 DEF Overridden
  <2>2. QED
    BY <2>1 DEF Setting
<1>12. f = FlatDecode(EncodeAll(i, at) \o Zeros)
  BY <1>2 DEF s
<1> HIDE DEF f
<1>13. QED
  BY <1>9, <1>10, <1>11, <1>12 DEF e

LEMMA EssenceEqual ==
    ASSUME NEW i, NEW j
    PROVE  Essence(i) = Essence(j) <=>
             /\ Operands(i) = Operands(j) /\ i.lock = j.lock /\ i.fwait = j.fwait
             /\ (IF i.op \in Repeated THEN i.rep ELSE 0) = (IF j.op \in Repeated THEN j.rep ELSE 0)
             /\ (IF i.op = "XLAT" THEN i.segment ELSE NoSegment)
                  = (IF j.op = "XLAT" THEN j.segment ELSE NoSegment)
BY DEF Essence

(* The table XLAT looks into stands in no operand.                         *)
LEMMA XlatHasNone ==
    ASSUME NEW i, NEW at, i.op = "XLAT", NEW f, ReadsAs(f, EncodeCase(i, at), i.op), Kept(i, f, at)
    PROVE  i.argv = << >>
<1> DEFINE u == Case(f, at)[2]
           t == f.segment
<1>1. "XLAT" \in DOMAIN OneByteCode /\ "XLAT" \notin NoCase
  BY DEF OneByteCode, NoCase
<1>2. EncodeCase(i, at) = << OneByteCode[i.op] >>
  <2>1. i.op \notin FpuOps
    BY FpuOpsAre DEF FpuNoOperand
  <2>2. ~TransfersTo(i.op)
    BY TransfersAre DEF TransfersTo, Transfers, FarOps
  <2>3. QED
    BY <1>1, <2>1, <2>2 DEF EncodeCase
<1>3. Parsed(f, << OneByteCode[i.op] >>)
  BY <1>2, ReadsAsIs
<1>4. Gives(f, at, "XLAT", << >>)
  BY <1>1, <1>3, OneByteBack
<1>5. u = << >>
  BY <1>4 DEF Gives
<1>6. \/ AsBefore(i.op, i.argv, u, t) \/ AsStrings(i.op, i.argv, u, t) \/ AsSigned(i.op, i.argv, u, t)
      \/ AsTarget(i.op, i.argv, u, at) \/ AsTurned(i.op, i.argv, u)
  BY DEF Kept
<1> HIDE DEF u, t
<1>7. ~AsSigned(i.op, i.argv, u, t) /\ ~AsTarget(i.op, i.argv, u, at) /\ ~AsTurned(i.op, i.argv, u)
  <2>1. i.op \notin AluOps /\ i.op \notin {"JMP", "CALL"} /\ i.op # "XCHG"
    BY DEF AluOps
  <2>2. ~AsSigned(i.op, i.argv, u, t)
    BY <2>1 DEF AsSigned
  <2>3. ~AsTarget(i.op, i.argv, u, at)
    BY <2>1 DEF AsTarget
  <2>4. ~AsTurned(i.op, i.argv, u)
    BY <2>1 DEF AsTurned
  <2>5. QED
    BY <2>2, <2>3, <2>4
<1>8. ~AsStrings(i.op, i.argv, u, t)
  BY DEF AsStrings, ToES
<1>9. \A p, q : <<p>> # << >> /\ <<p, q>> # << >>
  OBVIOUS
<1>10. AsBefore(i.op, i.argv, u, t)
  BY <1>6, <1>7, <1>8
<1>11. QED
  BY <1>5, <1>9, <1>10 DEF AsBefore

(* An instruction that is kept comes back the same, but for the prefixes   *)
(* the encoder has no place for.                                           *)
LEMMA KeptIsSame ==
    ASSUME NEW i, NEW at, ~Odd(i, at), NEW f, ReadsAs(f, EncodeCase(i, at), i.op), Setting(i, f.segment),
           Kept(i, f, at), i.lock \in {0, 1}, i.fwait \in {0, 1},
           i.op \in Locked => f.lock = i.lock,
           i.op \notin Locked => f.lock = 0,
           i.op \in Waiting => f.fwait = i.fwait,
           i.op \notin Waiting => f.fwait = 0,
           i.op \in Repeated => f.rep = i.rep,
           NEW j, Made(j, f, at), j.segment = f.segment, j.lock = f.lock, j.rep = f.rep, j.fwait = f.fwait
    PROVE  Same(i, j) <=> ~DropsOverride(i) /\ ~DropsLock(i) /\ ~DropsWait(i)
<1>1. Case(f, at)[1] = i.op /\ ShowsDropped(i, Case(f, at)[2])
  BY KeptShows
<1>2. j.op = i.op /\ j.argv = Case(f, at)[2]
  BY <1>1 DEF Made
<1>3. Operands(i) = Operands(j) <=> ~Dropped(i)
  BY <1>1, <1>2 DEF ShowsDropped
<1>4. i.lock = j.lock <=> ~DropsLock(i)
  BY DEF DropsLock
<1>5. i.fwait = j.fwait <=> ~DropsWait(i)
  BY DEF DropsWait
<1>6. (IF i.op \in Repeated THEN i.rep ELSE 0) = (IF j.op \in Repeated THEN j.rep ELSE 0)
  BY <1>2
<1>7. i.op = "XLAT" => j.segment = NoSegment
  <2>1. SUFFICES ASSUME i.op = "XLAT" PROVE j.segment = NoSegment
    OBVIOUS
  <2>2. i.argv = << >>
    BY <2>1, XlatHasNone
  <2>3. MemOf(i) = << >>
    BY <2>2, MemOfNone
  <2>4. f.segment = NoSegment
    BY <2>3, SegmentBack DEF Setting
  <2>5. QED
    BY <2>4
<1>8. (IF i.op = "XLAT" THEN i.segment ELSE NoSegment) = (IF j.op = "XLAT" THEN j.segment ELSE NoSegment)
        <=> ~(i.op = "XLAT" /\ i.segment # NoSegment)
  BY <1>2, <1>7
<1>9. DropsOverride(i) <=> Dropped(i) \/ (i.op = "XLAT" /\ i.segment # NoSegment)
  BY DEF DropsOverride, Dropped
<1>10. Essence(i) = Essence(j) <=>
          ~Dropped(i) /\ ~DropsLock(i) /\ ~DropsWait(i) /\ ~(i.op = "XLAT" /\ i.segment # NoSegment)
  BY <1>3, <1>4, <1>5, <1>6, <1>8, EssenceEqual
<1>11. QED
  BY <1>2, <1>9, <1>10 DEF Same

LEMMA AgainSized ==
    ASSUME NEW p, Operand(p), NEW t, NEW w
    PROVE  ~IsImm(p) /\ ~IsImm(Again(p, t, w)) /\ Again(p, t, w).size = w
<1>1. CASE \E r \in 0 .. 7 : \E v : p = RegArg(r, v)
  BY <1>1 DEF Again, RegArg, IsImm
<1>2. CASE \E v \in Addressing, b \in Word16 : \E g, z : p = MemArg(v, b, g, z)
  <2>1. PICK v, b, g, z : p = MemArg(v, b, g, z)
    BY <1>2
  <2>2. p.kind = "mem"
    BY <2>1 DEF MemArg
  <2>3. QED
    BY <2>2 DEF Again, MemArg, IsImm
<1>3. QED
  BY <1>1, <1>2 DEF Operand

(* An instruction that is lost comes back as another one.                  *)
LEMMA LostDiffers ==
    ASSUME NEW i, NEW at, NEW f, Lost(i, f, at), i.segment \in -1 .. 3,
           Governed(i.op, i.argv, i.segment),
           NEW j, Made(j, f, at)
    PROVE  ~Same(i, j)
<1> SUFFICES ASSUME Same(i, j) PROVE FALSE
  OBVIOUS
<1>1. i.op = j.op /\ Operands(i) = Operands(j)
  BY EssenceEqual DEF Same
<1>2. \A op, v : Gives(f, at, op, v) => j.op = op /\ j.argv = v
  BY DEF Gives, Made
<1>3. CASE BecomesNop(i) /\ Gives(f, at, "NOP", << >>)
  BY <1>1, <1>2, <1>3 DEF BecomesNop
<1>4. CASE \E p, w : /\ WidensByte(i) /\ i.argv = <<p>> /\ Sized(p, w) /\ w # 2
                     /\ Gives(f, at, i.op, <<Again(p, f.segment, 2)>>)
  <2>1. PICK p, w : /\ WidensByte(i) /\ i.argv = <<p>> /\ Sized(p, w) /\ w # 2
                    /\ Gives(f, at, i.op, <<Again(p, f.segment, 2)>>)
    BY <1>4
  <2>2. j.argv = <<Again(p, f.segment, 2)>> /\ i.op # "XCHG"
    BY <1>2, <2>1 DEF WidensByte
  <2>3. Modulo(p) = Modulo(Again(p, f.segment, 2))
    BY <1>1, <2>1, <2>2, OperandsEqual
  <2>4. p = Again(p, f.segment, 2)
    BY <2>1, <2>3, AgainSized, ModuloOf DEF Sized
  <2>5. QED
    BY <2>1, <2>4, AgainSized DEF Sized
<1>5. CASE \E op \in {"FSUB", "FSUBR", "FDIV", "FDIVR"}, r \in 1 .. 7 :
              Flips(i) /\ op # i.op /\ Gives(f, at, op, <<STArg(r), STArg(0)>>)
  BY <1>1, <1>2, <1>5
<1>6. CASE i.op = "FSTP" /\ Len(i.argv) = 2 /\ i.argv[1] = STArg(0) /\ Gives(f, at, "FSTP", <<STArg(0)>>)
  <2>1. Regulars(i.argv, i.segment)
    BY <1>6 DEF Governed, ToES
  <2>2. \A p : Len(<<p>>) = 1
    OBVIOUS
  <2>3. Len(<< >>) = 0
    OBVIOUS
  <2>4. PICK p, q : i.argv = <<p, q>>
    BY <1>6, <2>1, <2>2, <2>3 DEF Regulars
  <2>5. j.argv = <<STArg(0)>> /\ i.op # "XCHG" /\ j.op # "XCHG"
    BY <1>1, <1>2, <1>6
  <2>6. Operands(i) = [k \in DOMAIN i.argv |-> Modulo(i.argv[k])]
    BY <2>5 DEF Operands
  <2>7. Operands(j) = [k \in DOMAIN j.argv |-> Modulo(j.argv[k])]
    BY <2>5 DEF Operands
  <2>8. DOMAIN i.argv = 1 .. 2 /\ DOMAIN j.argv = 1 .. 1
    BY <2>4, <2>5
  <2>9. 2 \in 1 .. 2 /\ 2 \notin 1 .. 1
    OBVIOUS
  <2>10. DOMAIN Operands(i) = DOMAIN i.argv /\ DOMAIN Operands(j) = DOMAIN j.argv
    BY <2>6, <2>7
  <2>11. QED
    BY <1>1, <2>8, <2>9, <2>10
<1>7. CASE \E p : /\ i.op = "FISTP" /\ i.argv = <<STArg(0), p>> /\ Sized(p, 8) /\ IsMem(p)
                  /\ Gives(f, at, "FISTP", <<STArg(0), Again(p, f.segment, 2)>>)
  <2>1. PICK p : /\ i.op = "FISTP" /\ i.argv = <<STArg(0), p>> /\ Sized(p, 8) /\ IsMem(p)
                 /\ Gives(f, at, "FISTP", <<STArg(0), Again(p, f.segment, 2)>>)
    BY <1>7
  <2>2. j.argv = <<STArg(0), Again(p, f.segment, 2)>> /\ i.op # "XCHG"
    BY <1>2, <2>1
  <2>3. Modulo(p) = Modulo(Again(p, f.segment, 2))
    <3> DEFINE z == STArg(0)
               q == Again(p, f.segment, 2)
    <3>1. i.argv = <<z, p>> /\ j.argv = <<z, q>>
      BY <2>1, <2>2
    <3> HIDE DEF z, q
    <3>2. Modulo(p) = Modulo(q)
      BY <1>1, <2>2, <3>1, OperandsEqual
    <3>3. QED
      BY <3>2 DEF q
  <2>4. p = Again(p, f.segment, 2)
    BY <2>1, <2>3, AgainSized, ModuloOf DEF Sized
  <2>5. p.size = 2 /\ p.size = 8
    BY <2>1, <2>4, AgainSized DEF Sized
  <2>6. QED
    BY <2>5
<1>8. QED
  BY <1>3, <1>4, <1>5, <1>6, <1>7 DEF Lost

LEMMA LossyIs ==
    ASSUME NEW i, NEW at
    PROVE  Lossy(i, at) <=>
             DropsOverride(i) \/ DropsLock(i) \/ DropsWait(i) \/ SplitsWait(i) \/ Odd(i, at)
BY DEF Lossy, Odd

(* The verdict of the encoder's cases is what the second decode finds.     *)
LEMMA Preserved ==
    ASSUME NEW s, Whole(s), NEW at \in Nat, NEW i, i = Meaning(s, at)
    PROVE  /\ EncodeAll(i, at) = << >> => Lossy(i, at)
           /\ EncodeAll(i, at) # << >> =>
                (Same(i, Meaning(EncodeAll(i, at) \o Zeros, at)) <=> ~Lossy(i, at))
<1> DEFINE d == FlatDecode(s)
           e == EncodeCase(i, at)
           c == EncodeAll(i, at)
           j == Meaning(c \o Zeros, at)
           f == FlatDecode(c \o Zeros)
<1>1. /\ Made(i, d, at) /\ i.segment = d.segment /\ i.lock = d.lock
      /\ i.rep = d.rep /\ i.fwait = d.fwait
  BY MeaningIs
<1>2. Fields(d, Second(s)) /\ Ranged(d, Second(s))
  BY FieldsOfWhole, RangedWhole
<1>3. d.segment \in -1 .. 3 /\ d.rep \in 0 .. 2 /\ d.lock \in {0, 1} /\ d.fwait \in {0, 1}
  BY PrefixFieldsAre
<1>4. /\ c \in Seq(Byte) /\ e \in Seq(Byte)
      /\ c = IF e = << >> THEN << >> ELSE Prefixes(i) \o e
      /\ Wraps(i, at) \/ Outreaches(i, at) \/ e = << >> \/ Stands(e)
      /\ i.op \in Waiting /\ e # << >> => e[1] \in FPUEscapes
  BY Written
<1>5. SegPrefix(i) \in {<< >>} \cup OverrideBytes
  BY FewPrefixes
<1>6. /\ Made(j, f, at) /\ j.segment = f.segment /\ j.lock = f.lock
      /\ j.rep = f.rep /\ j.fwait = f.fwait
  BY MeaningIs
<1>7. f = FlatDecode(EncodeAll(i, at) \o Zeros) /\ j = Meaning(EncodeAll(i, at) \o Zeros, at)
      /\ e = EncodeCase(i, at) /\ c = EncodeAll(i, at)
  OBVIOUS
<1> HIDE DEF d, e, c, j, f
<1>8. at \in Int
  OBVIOUS
<1>9. Governed(i.op, i.argv, i.segment)
  BY <1>1, <1>2, AllGoverned
<1>10. Verdict(i, at)
  BY <1>1, <1>2, <1>8, AllVerdicts
<1>11. i.op \in ShortOps => MemOf(i) = << >>
  BY <1>1, <1>2, ShortRows
<1>12. i.segment \in -1 .. 3 /\ i.rep \in 0 .. 2 /\ i.lock \in {0, 1} /\ i.fwait \in {0, 1}
  BY <1>1, <1>3
<1>13. CASE c = << >>
  <2>1. e = << >>
    <3>1. e # << >> => e \in Seq(Byte) /\ Len(e) > 0
      BY <1>4
    <3>2. Prefixes(i) \in Seq(Byte)
      BY <1>5, <1>12, PrefixesAre
    <3>3. e # << >> => Len(Prefixes(i) \o e) > 0
      BY <3>1, <3>2
    <3>4. Len(<< >>) = 0
      OBVIOUS
    <3>5. QED
      BY <1>4, <1>13, <3>3, <3>4
  <2>2. Odd(i, at)
    BY <1>7, <1>10, <2>1 DEF Verdict, Odd
  <2>3. QED
    BY <1>7, <1>13, <2>2, LossyIs
<1>14. CASE c # << >> /\ (Wraps(i, at) \/ Outreaches(i, at))
  <2>1. e # << >>
    BY <1>4, <1>14
  <2>2. j.op # i.op
    BY <1>4, <1>7, <1>8, <1>10, <1>11, <1>14, <2>1, FarDiffers
  <2>3. ~Same(i, j)
    BY <2>2 DEF Same
  <2>4. Odd(i, at)
    BY <1>14 DEF Odd
  <2>5. QED
    BY <1>7, <1>14, <2>3, <2>4, LossyIs
<1>15. CASE c # << >> /\ SplitsWait(i)
  <2>1. e # << >>
    BY <1>4, <1>15
  <2>2. j.op # i.op
    BY <1>4, <1>5, <1>7, <1>15, <2>1, SplitDiffers
  <2>3. ~Same(i, j)
    BY <2>2 DEF Same
  <2>4. QED
    BY <1>7, <1>15, <2>3, LossyIs
<1>16. CASE c # << >> /\ ~Wraps(i, at) /\ ~Outreaches(i, at) /\ ~SplitsWait(i)
  <2>1. e # << >> /\ Stands(e)
    BY <1>4, <1>16
  <2>2. i.op \in Waiting => e[1] \in FPUEscapes
    BY <1>4, <2>1
  <2>3. /\ ReadsAs(f, e, i.op) /\ Setting(i, f.segment)
        /\ i.op \in Locked => f.lock = i.lock
        /\ i.op \notin Locked => f.lock = 0
        /\ i.op \in Waiting => f.fwait = i.fwait
        /\ i.op \notin Waiting => f.fwait = 0
        /\ i.op \in Repeated => f.rep = i.rep
    BY <1>5, <1>7, <1>9, <1>11, <1>12, <1>16, <2>1, <2>2, ReadsBack
  <2>4. CASE ~Odd(i, at)
    <3>1. Kept(i, f, at)
      BY <1>7, <1>10, <1>16, <2>1, <2>3, <2>4 DEF Verdict
    <3>2. Same(i, j) <=> ~DropsOverride(i) /\ ~DropsLock(i) /\ ~DropsWait(i)
      BY <1>6, <1>7, <1>12, <2>3, <2>4, <3>1, KeptIsSame
    <3>3. QED
      BY <1>7, <1>16, <2>4, <3>2, LossyIs
  <2>5. CASE Odd(i, at)
    <3>1. Lost(i, f, at)
      BY <1>7, <1>10, <1>16, <2>1, <2>3, <2>5 DEF Verdict
    <3>2. ~Same(i, j)
      BY <1>6, <1>9, <1>12, <3>1, LostDiffers
    <3>3. QED
      BY <1>7, <1>16, <2>5, <3>2, LossyIs
  <2>6. QED
    BY <2>4, <2>5
<1>17. QED
  BY <1>13, <1>14, <1>15, <1>16

(* Right after the second decode, and right after nothing was written.     *)
LEMMA PreservesThere == RecodeIInv => PreservesAllButLossy
<1> SUFFICES ASSUME RecodeIInv PROVE PreservesAllButLossy
  OBVIOUS
<1>1. ip \in Nat /\ bytes \in Seq(Byte)
  BY DEF RecodeIInv, RoundIs, BytesAre
<1>2. Whole(bytes \o Zeros)
  BY <1>1, PaddedIsWhole
<1>3. ASSUME stage = "done" PROVE Same(ins, again) <=> ~Lossy(ins, ip)
  <2>1. /\ ins = Meaning(bytes \o Zeros, ip) /\ code = EncodeAll(ins, ip)
        /\ again = Meaning(code \o Zeros, ip) /\ code # << >>
    BY <1>3 DEF RecodeIInv, FirstRead, WroteThat, ReadAgain
  <2>2. QED
    BY <1>1, <1>2, <2>1, Preserved
<1>4. ASSUME stage = "blank" PROVE Lossy(ins, ip)
  <2>1. /\ ins = Meaning(bytes \o Zeros, ip) /\ code = EncodeAll(ins, ip) /\ code = << >>
    BY <1>4 DEF RecodeIInv, FirstRead, WroteThat, ReadAgain
  <2>2. QED
    BY <1>1, <1>2, <2>1, Preserved
<1>5. QED
  BY <1>3, <1>4 DEF PreservesAllButLossy

-----------------------------------------------------------------------------
(* What the encoder makes of an instruction that it wrote itself.          *)

(* ModR/M byte and displacement are those of registers and base.           *)
LEMMA SameModRM ==
    ASSUME NEW a, NEW b, IsMem(a), IsMem(b), b.regs = a.regs, b.base = a.base, NEW n
    PROVE  ModRM(b, n) = ModRM(a, n) /\ MemRegFar(b, n) = MemRegFar(a, n)
<1> DEFINE c == Encode(2, a, FALSE)
           d == Encode(2, b, FALSE)
<1>1. ModFor(2, a) = ModFor(2, b)
  BY DEF ModFor
<1>2. d.mod = c.mod /\ d.rm = c.rm /\ d.sib = c.sib /\ d.width = c.width /\ d.disp = c.disp
  BY <1>1 DEF Encode
<1> HIDE DEF c, d
<1>3. RMBytes(d, n) = RMBytes(c, n)
  BY <1>2 DEF RMBytes, DispBytes
<1>4. MemReg(b, n) = MemReg(a, n)
  BY <1>3 DEF MemReg, c, d
<1>5. QED
  BY <1>4 DEF ModRM, MemRegFar

(* An operand in a decode with another override.                           *)
LEMMA AnewAlike ==
    ASSUME NEW a, Proper(a), NEW t
    PROVE  LET b == Anew(a, t)
           IN  /\ b.kind = a.kind /\ (~IsMem(a) => b = a) /\ (IsMem(a) => b.size = a.size)
               /\ \A n : ModRM(b, n) = ModRM(a, n) /\ (IsMem(a) => MemRegFar(b, n) = MemRegFar(a, n))
<1> DEFINE b == Anew(a, t)
<1>1. CASE ~IsMem(a)
  <2>1. b = a
    BY <1>1 DEF Anew, IsMem
  <2> HIDE DEF b
  <2>2. QED
    BY <1>1, <2>1 DEF b
<1>2. CASE IsMem(a)
  <2>1. b = MemArg(a.regs, a.base, DefaultSegment(a.regs, t), a.size)
    BY <1>2 DEF Anew, IsMem
  <2>2. b.kind = "mem" /\ b.regs = a.regs /\ b.base = a.base /\ b.size = a.size
    <3>1. PICK v \in Addressing, x \in Word16 : \E g, w : a = MemArg(v, x, g, w)
      BY <1>2 DEF Proper, IsMem, Operand, RegArg
    <3>2. PICK g, w : a = MemArg(v, x, g, w)
      BY <3>1
    <3>3. x % 65536 = x
      BY <3>1 DEF Word16
    <3>4. a.regs = v /\ a.base = x /\ a.size = w
      BY <3>2, <3>3 DEF MemArg
    <3>5. b = MemArg(v, x, DefaultSegment(v, t), w)
      BY <2>1, <3>4
    <3>6. b.kind = "mem" /\ b.regs = v /\ b.base = x /\ b.size = w
      BY <3>3, <3>5 DEF MemArg
    <3>7. QED
      BY <3>4, <3>6
  <2>3. a.kind = "mem" /\ IsMem(b)
    BY <1>2, <2>2 DEF IsMem
  <2> HIDE DEF b
  <2>4. \A n : ModRM(b, n) = ModRM(a, n) /\ MemRegFar(b, n) = MemRegFar(a, n)
    BY <1>2, <2>2, <2>3, SameModRM
  <2>5. QED
    BY <1>2, <2>2, <2>3, <2>4 DEF b
<1>3. QED
  BY <1>1, <1>2

LEMMA SameCase ==
    ASSUME NEW i, NEW j, NEW at, j.op = i.op, j.argv = i.argv
    PROVE  EncodeCase(j, at) = EncodeCase(i, at)
<1>1. EncodeInteger(j) = EncodeInteger(i)
  BY DEF EncodeInteger
<1>2. EncodeTransfer(j, at) = EncodeTransfer(i, at)
  BY DEF EncodeTransfer
<1>3. EncodeFpu(j) = EncodeFpu(i)
  BY DEF EncodeFpu
<1>4. QED
  BY <1>1, <1>2, <1>3 DEF EncodeCase

LEMMA SameXchg ==
    ASSUME NEW a, Proper(a), NEW b, ~IsMem(b), NEW t
    PROVE  EncodeXchg(Anew(a, t), b) = EncodeXchg(a, b)
<1> DEFINE c == Anew(a, t)
<1>1. CASE ~IsMem(a)
  <2>1. c = a
    BY <1>1, AnewAlike
  <2>2. QED
    BY <2>1
<1>2. CASE IsMem(a)
  <2>1. c.kind = a.kind /\ c.size = a.size /\ \A n : MemRegFar(c, n) = MemRegFar(a, n)
    BY <1>2, AnewAlike
  <2> HIDE DEF c
  <2>2. ~IsReg(a) /\ ~IsReg(c) /\ WordBit(c) = WordBit(a)
    BY <1>2, <2>1 DEF IsMem, IsReg, WordBit
  <2>3. \A x : ~IsReg(x) => EncodeXchg(x, b) = <<\h86 + WordBit(x)>> \o MemRegFar(x, b.reg)
    BY DEF EncodeXchg, XchgForm
  <2>4. QED
    BY <2>1, <2>2, <2>3 DEF c
<1>3. QED
  BY <1>1, <1>2

LEMMA SameShift ==
    ASSUME NEW n, NEW a, Proper(a), NEW b, NEW t
    PROVE  EncodeShift(n, Anew(a, t), b) = EncodeShift(n, a, b)
<1> DEFINE c == Anew(a, t)
<1>1. CASE ~IsMem(a)
  <2>1. c = a
    BY <1>1, AnewAlike
  <2>2. QED
    BY <2>1
<1>2. CASE IsMem(a)
  <2>1. c.size = a.size /\ ModRM(c, n) = ModRM(a, n)
    BY <1>2, AnewAlike
  <2> HIDE DEF c
  <2>2. WordBit(c) = WordBit(a)
    BY <2>1 DEF WordBit
  <2>3. EncodeShift(n, c, b) = EncodeShift(n, a, b)
    BY <2>1, <2>2 DEF EncodeShift
  <2>4. QED
    BY <2>3 DEF c
<1>3. QED
  BY <1>1, <1>2

LEMMA SameTransfer ==
    ASSUME NEW a, Proper(a), NEW t, NEW at
    PROVE  /\ EncodeJmp(Anew(a, t), at) = EncodeJmp(a, at)
           /\ EncodeCall(Anew(a, t), at) = EncodeCall(a, at)
           /\ \A b, n : EncodeFar(b, n, Anew(a, t)) = EncodeFar(b, n, a)
<1> DEFINE c == Anew(a, t)
<1>1. CASE ~IsMem(a)
  <2>1. c = a
    BY <1>1, AnewAlike
  <2>2. QED
    BY <2>1
<1>2. CASE IsMem(a)
  <2>1. c.kind = a.kind /\ \A n : ModRM(c, n) = ModRM(a, n) /\ MemRegFar(c, n) = MemRegFar(a, n)
    BY <1>2, AnewAlike
  <2> HIDE DEF c
  <2>2. IsMem(c) /\ ~IsImm(a) /\ ~IsImm(c)
    BY <1>2, <2>1 DEF IsMem, IsImm
  <2>3. EncodeJmp(c, at) = EncodeJmp(a, at)
    BY <2>1, <2>2 DEF EncodeJmp, EncodeIndirectJump
  <2>4. EncodeCall(c, at) = EncodeCall(a, at)
    BY <2>1, <2>2 DEF EncodeCall, EncodeIndirectJump
  <2>5. \A b, n : EncodeFar(b, n, c) = EncodeFar(b, n, a)
    BY <1>2, <2>1, <2>2 DEF EncodeFar
  <2>6. QED
    BY <2>3, <2>4, <2>5 DEF c
<1>3. QED
  BY <1>1, <1>2

(* The memory operands whose segment the encoder looks at are in the same  *)
(* place.                                                                  *)
Alike(i, j) ==
    \/ i.op \in Unsegmented
    \/ MemOf(j) = MemOf(i)
    \/ /\ i.op \notin ToES
       /\ \E a, b : MemOf(i) = <<a>> /\ MemOf(j) = <<b>> /\ b.regs = a.regs /\ b.segment = a.segment

(* The fields of the prefixes are those of i where i.op has a use for them. *)
PrefixedAs(i, j) ==
    /\ i.op \in Locked => j.lock = i.lock
    /\ i.op \in Waiting => j.fwait = i.fwait
    /\ i.op \in Repeated => j.rep = i.rep

LEMMA SamePrefix ==
    ASSUME NEW i, NEW j, j.op = i.op, Setting(i, j.segment), Alike(i, j)
    PROVE  SegPrefix(j) = SegPrefix(i)
<1> DEFINE t == j.segment
           Chosen(k) == IF MemOf(k) = << >> \/ k.op \in Unsegmented THEN NoSegment
                        ELSE IF k.op \in ToES THEN (IF k.segment # NoSegment THEN ES ELSE NoSegment)
                        ELSE SegOverride(MemOf(k)[1], k.segment # NoSegment)
<1>1. \A k : SegPrefix(k) = IF Chosen(k) = NoSegment THEN << >> ELSE <<\h26 + 8 * Chosen(k)>>
  BY DEF SegPrefix
<1>2. CASE i.op \in Unsegmented
  <2>1. Chosen(i) = NoSegment /\ Chosen(j) = NoSegment
    BY <1>2
  <2>2. QED
    BY <1>1, <2>1
<1>3. CASE i.op \notin Unsegmented /\ MemOf(i) = << >>
  <2>1. MemOf(j) = << >>
    BY <1>3 DEF Alike
  <2>2. Chosen(i) = NoSegment /\ Chosen(j) = NoSegment
    BY <1>3, <2>1
  <2>3. QED
    BY <1>1, <2>2
<1>4. CASE i.op \notin Unsegmented /\ MemOf(i) # << >> /\ i.op \in ToES
  <2>1. MemOf(j) = MemOf(i)
    BY <1>4 DEF Alike
  <2>2. t # NoSegment <=> i.segment # NoSegment
    <3>1. CASE i.segment = NoSegment
      <4>1. Chosen(i) = NoSegment
        BY <1>4, <3>1
      <4>2. SegPrefix(i) = << >>
        BY <1>1, <4>1
      <4>3. QED
        BY <3>1, <4>2 DEF Setting, Overridden
    <3>2. CASE i.segment # NoSegment
      <4>1. Chosen(i) = ES
        BY <1>4, <3>2
      <4>2. ES = 0 /\ ES # NoSegment /\ \h26 + 8 * ES = \h26 /\ \h26 \in SegOverrides /\ SegmentOf(\h26) = 0
        BY DEF ES, NoSegment, SegOverrides, SegmentOf
      <4> HIDE DEF Chosen
      <4>3. SegPrefix(i) = << \h26 >>
        BY <1>1, <4>1, <4>2
      <4>4. t = 0
        BY <4>2, <4>3 DEF Setting, Overridden
      <4>5. QED
        BY <3>2, <4>2, <4>4
    <3>3. QED
      BY <3>1, <3>2
  <2>3. Chosen(j) = Chosen(i)
    BY <2>1, <2>2
  <2>4. QED
    BY <1>1, <2>3
<1>5. CASE i.op \notin Unsegmented /\ MemOf(i) # << >> /\ i.op \notin ToES
  <2>1. t = i.segment
    BY <1>5, SegmentBack DEF Setting
  <2>2. MemOf(j) # << >> /\ MemOf(j)[1].regs = MemOf(i)[1].regs /\ MemOf(j)[1].segment = MemOf(i)[1].segment
    <3>1. CASE MemOf(j) = MemOf(i)
      BY <1>5, <3>1
    <3>2. CASE MemOf(j) # MemOf(i)
      <4>1. PICK a, b : MemOf(i) = <<a>> /\ MemOf(j) = <<b>> /\ b.regs = a.regs /\ b.segment = a.segment
        BY <1>5, <3>2 DEF Alike
      <4>2. QED
        BY <4>1
    <3>3. QED
      BY <3>1, <3>2
  <2>3. SegOverride(MemOf(j)[1], t # NoSegment) = SegOverride(MemOf(i)[1], i.segment # NoSegment)
    BY <2>1, <2>2 DEF SegOverride
  <2>4. Chosen(j) = Chosen(i)
    BY <1>5, <2>2, <2>3
  <2>5. QED
    BY <1>1, <2>4
<1>6. QED
  BY <1>2, <1>3, <1>4, <1>5

LEMMA PrefixesBack ==
    ASSUME NEW i, NEW j, j.op = i.op, Setting(i, j.segment), Alike(i, j), PrefixedAs(i, j)
    PROVE  Prefixes(j) = Prefixes(i)
<1>1. SegPrefix(j) = SegPrefix(i)
  BY SamePrefix
<1>2. LockPrefix(j) = LockPrefix(i) /\ WaitPrefix(j) = WaitPrefix(i) /\ RepPrefix(j) = RepPrefix(i)
  BY DEF PrefixedAs, LockPrefix, WaitPrefix, RepPrefix
<1>3. QED
  BY <1>1, <1>2 DEF Prefixes

LEMMA SettlesAlone ==
    ASSUME NEW i, NEW j, NEW at, j.op = i.op, j.argv = i.argv
    PROVE  Alike(i, j) /\ EncodeCase(j, at) = EncodeCase(i, at)
<1>1. MemOf(j) = MemOf(i)
  BY DEF MemOf
<1>2. QED
  BY <1>1, SameCase DEF Alike

LEMMA SteadySegmented ==
    ASSUME NEW i, NEW t, Setting(i, t), i.op \notin Unsegmented, i.op \notin ToES,
           NEW a, Proper(a), IsMem(a) => MemOf(i) = <<a>>
    PROVE  Anew(a, t) = a
<1>1. CASE IsMem(a)
  <2>1. ~Dropped(i)
    BY NoneDropped
  <2>2. Steady(a, t)
    BY <1>1, <2>1, SteadyOrDropped
  <2>3. QED
    BY <2>2, AnewSteady
<1>2. CASE ~IsMem(a)
  BY <1>2, AnewAlike
<1>3. QED
  BY <1>1, <1>2

(* A transfer through memory, and a shift, are written the same again.     *)
LEMMA SettlesUnsegmented ==
    ASSUME NEW i, NEW j, NEW at, NEW t, j.op = i.op, i.op \in Unsegmented,
           NEW p, Proper(p), i.argv[1] = p, j.argv[1] = Anew(p, t),
           i.op \in ShiftOps \cup {"XCHG"} => ~IsMem(i.argv[2]) /\ j.argv[2] = i.argv[2]
    PROVE  EncodeCase(j, at) = EncodeCase(i, at)
<1>1. CASE i.op = "XCHG"
  <2>1. EncodeCase(i, at) = EncodeXchg(p, i.argv[2]) /\ EncodeCase(j, at) = EncodeXchg(Anew(p, t), i.argv[2])
    BY <1>1, XchgCase
  <2>2. QED
    BY <1>1, <2>1, SameXchg
<1>2. CASE i.op \in ShiftOps
  <2> DEFINE n == Index(Shifts, i.op)
  <2>1. EncodeCase(i, at) = EncodeShift(n, p, i.argv[2])
    BY <1>2, IntegerDispatch
  <2>2. EncodeCase(j, at) = EncodeShift(n, Anew(p, t), i.argv[2])
    BY ZenonT(60), <1>2, IntegerDispatch
  <2> HIDE DEF n
  <2>3. QED
    BY <2>1, <2>2, SameShift
<1>3. CASE i.op = "JMP"
  <2>1. EncodeCase(i, at) = EncodeJmp(p, at) /\ EncodeCase(j, at) = EncodeJmp(Anew(p, t), at)
    BY <1>3, TransferDispatch
  <2>2. QED
    BY <2>1, SameTransfer
<1>4. CASE i.op = "CALL"
  <2>1. EncodeCase(i, at) = EncodeCall(p, at) /\ EncodeCase(j, at) = EncodeCall(Anew(p, t), at)
    BY <1>4, TransferDispatch
  <2>2. QED
    BY <2>1, SameTransfer
<1>5. CASE i.op = "JMP_FAR"
  <2>1. EncodeCase(i, at) = EncodeFar(\hEA, 5, p) /\ EncodeCase(j, at) = EncodeFar(\hEA, 5, Anew(p, t))
    BY <1>5, TransferDispatch
  <2>2. QED
    BY <2>1, SameTransfer
<1>6. CASE i.op = "CALL_FAR"
  <2>1. EncodeCase(i, at) = EncodeFar(\h9A, 3, p) /\ EncodeCase(j, at) = EncodeFar(\h9A, 3, Anew(p, t))
    BY <1>6, TransferDispatch
  <2>2. QED
    BY <2>1, SameTransfer
<1>7. QED
  BY <1>1, <1>2, <1>3, <1>4, <1>5, <1>6 DEF Unsegmented, FarOps

LEMMA SettlesBefore ==
    ASSUME NEW i, NEW j, NEW at, NEW t, j.op = i.op, Setting(i, t), AsBefore(i.op, i.argv, j.argv, t),
           i.op \in ToES => \E w : j.argv = <<StringDest(w)>>,
           i.op = "FSTP" => Len(i.argv) # 2
    PROVE  Alike(i, j) /\ EncodeCase(j, at) = EncodeCase(i, at)
<1>1. CASE i.argv = << >> /\ j.argv = << >>
  BY <1>1, SettlesAlone
<1>2. CASE \E p : /\ i.op # "XCHG" /\ (IsMem(p) => i.op \notin ToES \cup ShiftOps)
                  /\ i.argv = <<p>> /\ Proper(p) /\ j.argv = <<Anew(p, t)>>
  <2>1. PICK p : /\ i.op # "XCHG" /\ (IsMem(p) => i.op \notin ToES \cup ShiftOps)
                 /\ i.argv = <<p>> /\ Proper(p) /\ j.argv = <<Anew(p, t)>>
    BY <1>2
  <2>2. CASE ~IsMem(p)
    <3>1. Anew(p, t) = p
      BY <2>1, <2>2, AnewAlike
    <3>2. QED
      BY <2>1, <3>1, SettlesAlone
  <2>3. CASE IsMem(p) /\ i.op \notin Unsegmented
    <3>1. MemOf(i) = <<p>>
      BY <2>1, <2>3, MemOfOne DEF IsMem
    <3>2. Anew(p, t) = p
      BY <2>1, <2>3, <3>1, SteadySegmented
    <3>3. QED
      BY <2>1, <3>2, SettlesAlone
  <2>4. CASE IsMem(p) /\ i.op \in Unsegmented
    <3>1. i.op \notin ShiftOps \cup {"XCHG"}
      BY <2>1, <2>4
    <3>2. i.argv[1] = p /\ j.argv[1] = Anew(p, t)
      BY <2>1
    <3>3. EncodeCase(j, at) = EncodeCase(i, at)
      BY <2>1, <2>4, <3>1, <3>2, SettlesUnsegmented
    <3>4. QED
      BY <2>4, <3>3 DEF Alike
  <2>5. QED
    BY <2>2, <2>3, <2>4
<1>3. CASE \E p, q : /\ i.argv = <<p, q>> /\ Proper(p) /\ Proper(q) /\ ~(IsMem(p) /\ IsMem(q))
                     /\ (i.op \in Unsegmented => ~IsMem(q))
                     /\ j.argv = <<Anew(p, t), Anew(q, t)>>
  <2>1. PICK p, q : /\ i.argv = <<p, q>> /\ Proper(p) /\ Proper(q) /\ ~(IsMem(p) /\ IsMem(q))
                    /\ (i.op \in Unsegmented => ~IsMem(q))
                    /\ j.argv = <<Anew(p, t), Anew(q, t)>>
    BY <1>3
  <2>2. \A a, b, c : <<a, b>> # <<c>>
    OBVIOUS
  <2>3. i.op \notin ToES
    BY <2>1, <2>2
  <2>4. i.op # "FSTP"
    <3>1. Len(i.argv) = 2
      BY <2>1
    <3>2. QED
      BY <3>1
  <2>5. CASE i.op \notin Unsegmented
    <3>1. (IsMem(p) => MemOf(i) = <<p>>) /\ (IsMem(q) => MemOf(i) = <<q>>)
      BY <2>1, <2>4, MemOfTwo DEF IsMem
    <3>2. Anew(p, t) = p /\ Anew(q, t) = q
      BY <2>1, <2>3, <2>5, <3>1, SteadySegmented
    <3>3. QED
      BY <2>1, <3>2, SettlesAlone
  <2>6. CASE i.op \in Unsegmented
    <3>1. Anew(q, t) = q /\ ~IsMem(q)
      BY <2>1, <2>6, AnewAlike
    <3>2. i.argv[1] = p /\ j.argv[1] = Anew(p, t) /\ i.argv[2] = q /\ j.argv[2] = q
      BY <2>1, <3>1
    <3>3. EncodeCase(j, at) = EncodeCase(i, at)
      BY <2>1, <2>6, <3>1, <3>2, SettlesUnsegmented
    <3>4. QED
      BY <2>6, <3>3 DEF Alike
  <2>7. QED
    BY <2>5, <2>6
<1>4. QED
  BY <1>1, <1>2, <1>3 DEF AsBefore

LEMMA SettlesStrings ==
    ASSUME NEW i, NEW j, NEW at, NEW t, j.op = i.op, Setting(i, t), AsStrings(i.op, i.argv, j.argv, t)
    PROVE  Alike(i, j) /\ EncodeCase(j, at) = EncodeCase(i, at)
<1>1. CASE \E w : i.op \in ToES /\ i.argv = <<StringDest(w)>> /\ j.argv = i.argv
  BY <1>1, SettlesAlone
<1>2. CASE \E w, q : /\ i.op \in {"MOVS", "CMPS"} /\ i.argv = <<StringDest(w), q>> /\ IsMem(q) /\ Operand(q)
                     /\ j.argv = <<StringDest(w), Anew(q, t)>>
  <2>1. PICK w, q : /\ i.op \in {"MOVS", "CMPS"} /\ i.argv = <<StringDest(w), q>> /\ IsMem(q) /\ Operand(q)
                    /\ j.argv = <<StringDest(w), Anew(q, t)>>
    BY <1>2
  <2>2. i.op \notin Unsegmented /\ i.op \notin ToES /\ i.op # "FSTP"
    BY <2>1, ShiftIs DEF ToES, Unsegmented, FarOps, ShiftOps
  <2>3. MemOf(i) = <<q>>
    BY <2>1, <2>2, MemOfTwo DEF IsMem
  <2>4. Proper(q)
    BY <2>1 DEF Proper
  <2>5. Anew(q, t) = q
    BY <2>2, <2>3, <2>4, SteadySegmented
  <2>6. QED
    BY <2>1, <2>5, SettlesAlone
<1>3. QED
  BY <1>1, <1>2 DEF AsStrings

(* A number and the one it is sign-extended to have the same short form.   *)
LEMMA SettlesSigned ==
    ASSUME NEW i, NEW j, NEW at, NEW t, j.op = i.op, Setting(i, t), AsSigned(i.op, i.argv, j.argv, t)
    PROVE  Alike(i, j) /\ EncodeCase(j, at) = EncodeCase(i, at)
<1>1. PICK p, x, w : /\ i.op \in AluOps /\ w \in {1, 2} /\ Number(x, w) /\ Sized(p, w)
                     /\ i.argv = <<p, ImmArg(x, w)>> /\ j.argv = <<Anew(p, t), ImmArg(Resigned(x, w), w)>>
  BY DEF AsSigned
<1>2. i.op \notin Unsegmented /\ i.op \notin ToES /\ i.op # "FSTP"
  BY <1>1, ShiftIs DEF AluOps, ToES, Unsegmented, FarOps, ShiftOps
<1>3. Proper(p)
  BY <1>1, ProperKinds
<1>4. \A v, z : ImmArg(v, z).kind # "mem"
  BY DEF ImmArg
<1>5. IsMem(p) => MemOf(i) = <<p>>
  BY <1>1, <1>4, MemOfTwo DEF IsMem
<1>6. Anew(p, t) = p
  BY <1>2, <1>3, <1>5, SteadySegmented
<1>7. x \in Int
  BY <1>1 DEF Number
<1>8. CASE Resigned(x, w) = x
  BY <1>1, <1>6, <1>8, SettlesAlone
<1>9. CASE Resigned(x, w) # x
  <2> DEFINE n == Index(Alu, i.op)
             y == x - 65536
  <2>1. w = 2 /\ x >= \hFF80 /\ Resigned(x, w) = y
    BY <1>9 DEF Resigned
  <2>2. n \in 0 .. 7 /\ EncodeCase(i, at) = EncodeAlu(n, i.argv[1], i.argv[2])
        /\ EncodeCase(j, at) = EncodeAlu(n, j.argv[1], j.argv[2])
    BY <1>1, AluOrdinary
  <2>3. x < 65536 /\ y < \h80 /\ y % 256 = x % 256
    BY <1>1, <1>7, <2>1 DEF Number
  <2>4. Shorthand(p, x) /\ Shorthand(p, y)
    BY <1>1, <2>1, <2>3 DEF Sized, Shorthand
  <2>5. Imm(x, 1 - 1) = Imm(y, 1 - 1)
    BY <2>3 DEF Imm, ByteOf
  <2>6. i.argv[1] = p /\ i.argv[2] = ImmArg(x, 2) /\ j.argv[1] = p /\ j.argv[2] = ImmArg(y, 2)
    BY <1>1, <1>6, <2>1
  <2> HIDE DEF n, y
  <2>7. /\ EncodeAlu(n, p, ImmArg(x, 2)) = HeadedWith(\h83, ModRM(p, n), Imm(x, 1 - 1))
        /\ EncodeAlu(n, p, ImmArg(y, 2)) = HeadedWith(\h83, ModRM(p, n), Imm(y, 1 - 1))
    BY <1>1, <2>1, <2>2, <2>4, AluNumberForms
  <2>8. EncodeCase(j, at) = EncodeCase(i, at)
    BY <2>2, <2>5, <2>6, <2>7
  <2>9. MemOf(j) = MemOf(i)
    <3>1. MemOf(i) = IF p.kind = "mem" THEN <<p>> ELSE << >>
      BY <1>1, <1>2, <1>4, MemOfTwo
    <3>2. MemOf(j) = IF p.kind = "mem" THEN <<p>> ELSE << >>
      BY <1>1, <1>2, <1>4, <1>6, MemOfTwo
    <3>3. QED
      BY <3>1, <3>2
  <2>10. QED
    BY <2>8, <2>9 DEF Alike
<1>10. QED
  BY <1>8, <1>9

(* A target that has wrapped is too far from where its distance was near.  *)
LEMMA WrappedIsFar ==
    ASSUME NEW x \in Int, NEW at \in Int, Near(x - at), x % 65536 # x
    PROVE  ~Near((x % 65536) - at)
<1> DEFINE lo == -32768
           hi == 32767
           y == x % 65536
           k == x \div 65536
<1>1. x = 65536 * k + y /\ k \in Int /\ y \in Int
  OBVIOUS
<1>3. hi < lo + 65536 /\ lo \in Int /\ hi \in Int
  OBVIOUS
<1>7. \A v : InWord(v) <=> v \in lo .. hi
  BY DEF InWord, lo, hi
<1> HIDE DEF lo, hi, k
<1>2. \A z \in Int : Near(z) => lo <= z - 5 /\ z - 5 <= hi
  <2>1. \A z : Near(z) <=> z - 5 \in lo .. hi
    BY <1>7 DEF Near
  <2>2. QED
    BY <1>3, <2>1
<1>4. k # 0
  BY <1>1
<1>5. y % 65536 = y
  OBVIOUS
<1> HIDE DEF y
<1>6. ASSUME Near(y - at) PROVE FALSE
  <2>1. lo <= x - at - 5 /\ x - at - 5 <= hi /\ lo <= y - at - 5 /\ y - at - 5 <= hi
    BY <1>1, <1>2, <1>6
  <2>2. x - y < 65536 /\ y - x < 65536
    BY <1>1, <1>3, <2>1
  <2>3. 65536 * k < 65536 /\ -65536 < 65536 * k
    BY <1>1, <2>2
  <2>4. k < 1 /\ -1 < k
    BY <1>1, <2>3
  <2>5. QED
    BY <1>1, <1>4, <2>4
<1>8. QED
  BY <1>6 DEF y

LEMMA SettlesTarget ==
    ASSUME NEW i, NEW j, NEW at \in Int, j.op = i.op, AsTarget(i.op, i.argv, j.argv, at)
    PROVE  Alike(i, j) /\ (EncodeCase(j, at) = EncodeCase(i, at) \/ Wraps(j, at))
<1>1. PICK x \in Int : /\ i.op \in {"JMP", "CALL"} /\ i.argv = <<ImmArg(x, 2)>>
                       /\ j.argv = <<ImmArg(x % 65536, 2)>> /\ Near(x - at)
  BY DEF AsTarget
<1>2. CASE x % 65536 = x
  BY <1>1, <1>2, SettlesAlone
<1>3. CASE x % 65536 # x
  <2>1. ~Near((x % 65536) - at)
    BY <1>1, <1>3, WrappedIsFar
  <2>2. \A v : IsImm(ImmArg(v, 2)) /\ ImmArg(v, 2).value = v
    BY DEF IsImm, ImmArg
  <2>3. j.argv[1] = ImmArg(x % 65536, 2)
    BY <1>1
  <2>4. Wraps(j, at)
    BY <1>1, <2>1, <2>2, <2>3 DEF Wraps
  <2>5. Alike(i, j)
    BY <1>1 DEF Alike, Unsegmented
  <2>6. QED
    BY <2>4, <2>5
<1>4. QED
  BY <1>2, <1>3

LEMMA SettlesTurned ==
    ASSUME NEW i, NEW j, NEW at, j.op = i.op, AsTurned(i.op, i.argv, j.argv)
    PROVE  Alike(i, j) /\ EncodeCase(j, at) = EncodeCase(i, at)
<1>1. PICK r \in 1 .. 7 : /\ i.op = "XCHG" /\ i.argv = <<RegArg(r, 2), RegArg(AX, 2)>>
                          /\ j.argv = <<RegArg(AX, 2), RegArg(r, 2)>>
  BY DEF AsTurned
<1>2. AX = 0 /\ r # AX /\ r \in 0 .. 7 /\ AX \in 0 .. 7
  BY DEF AX
<1>3. \A k \in 0 .. 7 : Sized(RegArg(k, 2), 2) /\ IsReg(RegArg(k, 2)) /\ RegArg(k, 2).reg = k
  BY DEF Sized, Operand, IsReg, RegArg
<1>4. EncodeXchg(RegArg(r, 2), RegArg(AX, 2)) = << \h90 + r >>
  BY <1>2, <1>3, XchgForms
<1>5. EncodeXchg(RegArg(AX, 2), RegArg(r, 2)) = << \h90 + r >>
  BY <1>2, <1>3, XchgForms
<1>6. i.argv[1] = RegArg(r, 2) /\ i.argv[2] = RegArg(AX, 2) /\ j.argv[1] = RegArg(AX, 2) /\ j.argv[2] = RegArg(r, 2)
  BY <1>1
<1>7. EncodeCase(j, at) = EncodeCase(i, at)
  BY <1>1, <1>4, <1>5, <1>6, XchgCase
<1>8. QED
  BY <1>1, <1>7 DEF Alike, Unsegmented

(* An instruction that is kept is written the same again.                  *)
LEMMA KeptSettles ==
    ASSUME NEW i, NEW at \in Int, ~Odd(i, at), NEW f, ReadsAs(f, EncodeCase(i, at), i.op), Setting(i, f.segment),
           Kept(i, f, at), NEW j, Made(j, f, at)
    PROVE  j.op = i.op /\ Alike(i, j) /\ (EncodeCase(j, at) = EncodeCase(i, at) \/ Wraps(j, at))
<1> DEFINE u == Case(f, at)[2]
           t == f.segment
<1>1. /\ Case(f, at)[1] = i.op
      /\ \/ AsBefore(i.op, i.argv, u, t) \/ AsStrings(i.op, i.argv, u, t) \/ AsSigned(i.op, i.argv, u, t)
         \/ AsTarget(i.op, i.argv, u, at) \/ AsTurned(i.op, i.argv, u)
  BY DEF Kept
<1>2. j.op = i.op /\ j.argv = u
  BY <1>1 DEF Made
<1>3. i.op \in ToES => \E w : u = <<StringDest(w)>>
  BY StringsToES
<1>4. i.op = "FSTP" => Len(i.argv) # 2
  BY DEF Odd, MisreadsStore
<1>5. Setting(i, t)
  OBVIOUS
<1> HIDE DEF u, t
<1>6. QED
  BY <1>1, <1>2, <1>3, <1>4, <1>5, SettlesBefore, SettlesStrings, SettlesSigned, SettlesTarget, SettlesTurned

(* A memory operand in a decode with another override and another size.    *)
LEMMA AgainAlike ==
    ASSUME NEW a, NEW w, Sized(a, w), IsMem(a), NEW t, NEW v
    PROVE  LET b == Again(a, t, v)
           IN  /\ IsMem(b) /\ Sized(b, v) /\ b.regs = a.regs /\ b.segment = DefaultSegment(a.regs, t)
               /\ \A n : ModRM(b, n) = ModRM(a, n)
<1> DEFINE b == Again(a, t, v)
<1>1. PICK r \in Addressing, x \in Word16 : \E g, z : a = MemArg(r, x, g, z)
  BY DEF Sized, IsMem, Operand, RegArg
<1>2. PICK g, z : a = MemArg(r, x, g, z)
  BY <1>1
<1>3. x % 65536 = x
  BY <1>1 DEF Word16
<1>4. a.regs = r /\ a.base = x /\ a.kind = "mem"
  BY <1>2, <1>3 DEF MemArg
<1>5. b = MemArg(r, x, DefaultSegment(r, t), v)
  BY <1>4 DEF Again
<1>6. b.kind = "mem" /\ b.regs = r /\ b.base = x /\ b.size = v /\ b.segment = DefaultSegment(r, t)
  BY <1>3, <1>5 DEF MemArg
<1>7. Operand(b)
  BY <1>1, <1>5 DEF Operand
<1> HIDE DEF b
<1>8. IsMem(b)
  BY <1>6 DEF IsMem
<1>9. \A n : ModRM(b, n) = ModRM(a, n)
  BY <1>4, <1>6, <1>8, SameModRM
<1>10. IsMem(b) /\ Sized(b, v) /\ b.regs = a.regs /\ b.segment = DefaultSegment(a.regs, t)
  BY <1>4, <1>6, <1>7, <1>8 DEF Sized
<1>11. QED
  BY <1>9, <1>10 DEF b

LEMMA AlikeAgain ==
    ASSUME NEW i, NEW j, NEW t, Setting(i, t), i.op \notin Unsegmented, i.op \notin ToES,
           NEW a, NEW w, Sized(a, w), IsMem(a), NEW v, MemOf(i) = <<a>>, MemOf(j) = <<Again(a, t, v)>>
    PROVE  Alike(i, j)
<1> DEFINE b == Again(a, t, v)
<1>1. ~Dropped(i)
  BY NoneDropped
<1>2. a.segment = DefaultSegment(a.regs, t)
  BY <1>1, SteadyOrDropped DEF Steady
<1>3. b.regs = a.regs /\ b.segment = a.segment
  BY <1>2, AgainAlike
<1> HIDE DEF b
<1>4. MemOf(j) = <<b>>
  BY DEF b
<1>5. QED
  BY <1>3, <1>4 DEF Alike

(* PUSH and POP of a byte come back as those of a word.                    *)
LEMMA WidenedSettles ==
    ASSUME NEW i, NEW j, NEW at, NEW t, Setting(i, t), i.op = "PUSH" \/ i.op = "POP", j.op = i.op,
           NEW p, NEW w, Sized(p, w), i.argv = <<p>>, j.argv = <<Again(p, t, 2)>>
    PROVE  Alike(i, j) /\ EncodeCase(j, at) = EncodeCase(i, at)
<1> DEFINE q == Again(p, t, 2)
<1>1. i.op \notin Unsegmented /\ i.op \notin ToES /\ i.op # "FSTP"
  BY ShiftIs DEF ToES, Unsegmented, FarOps, ShiftOps
<1>2. /\ i.op = "PUSH" => EncodeCase(i, at) = EncodePush(p) /\ EncodeCase(j, at) = EncodePush(q)
      /\ i.op = "POP" => EncodeCase(i, at) = EncodePop(p) /\ EncodeCase(j, at) = EncodePop(q)
  <2>1. i.argv[1] = p /\ j.argv[1] = q
    OBVIOUS
  <2> HIDE DEF q
  <2>2. ASSUME NEW k, k.op = "PUSH" PROVE EncodeCase(k, at) = EncodePush(k.argv[1])
    BY <2>2, IntegerDispatch
  <2>3. ASSUME NEW k, k.op = "POP" PROVE EncodeCase(k, at) = EncodePop(k.argv[1])
    BY <2>3, IntegerDispatch
  <2>4. QED
    BY <2>1, <2>2, <2>3
<1>3. CASE IsMem(p)
  <2>1. IsMem(q) /\ ModRM(q, 6) = ModRM(p, 6) /\ ModRM(q, 0) = ModRM(p, 0)
    BY <1>3, AgainAlike
  <2>2. MemOf(i) = <<p>> /\ MemOf(j) = <<Again(p, t, 2)>>
    BY <1>3, <2>1, MemOfOne DEF IsMem
  <2>3. Alike(i, j)
    BY <1>1, <1>3, <2>2, AlikeAgain
  <2> HIDE DEF q
  <2>4. EncodePush(q) = EncodePush(p) /\ EncodePop(q) = EncodePop(p)
    BY <1>3, <2>1 DEF EncodePush, EncodePop, IsMem, IsReg
  <2>5. QED
    BY <1>2, <2>3, <2>4
<1>4. CASE ~IsMem(p)
  <2>1. PICK r \in 0 .. 7 : \E z : p = RegArg(r, z)
    BY <1>4 DEF Sized, Operand, IsMem, MemArg
  <2>2. p.kind = "reg" /\ p.reg = r
    BY <2>1 DEF RegArg
  <2>3. q = RegArg(r, 2)
    BY <2>2 DEF Again
  <2>4. q.kind = "reg" /\ q.reg = r
    BY <2>3 DEF RegArg
  <2> HIDE DEF q
  <2>5. EncodePush(q) = EncodePush(p) /\ EncodePop(q) = EncodePop(p)
    BY <2>2, <2>4 DEF EncodePush, EncodePop, IsReg
  <2>6. MemOf(i) = << >> /\ MemOf(j) = << >>
    <3>1. j.argv = <<q>>
      BY DEF q
    <3>2. QED
      BY <2>2, <2>4, <3>1, MemOfOne
  <2>7. QED
    BY <1>2, <2>5, <2>6 DEF Alike
<1>5. QED
  BY <1>3, <1>4

(* FISTP m64 comes back as FISTP m16.                                      *)
LEMMA LongStoreSettles ==
    ASSUME NEW i, NEW j, NEW at, NEW t, Setting(i, t), i.op = "FISTP", j.op = i.op,
           NEW p, Sized(p, 8), IsMem(p), i.argv = <<STArg(0), p>>, j.argv = <<STArg(0), Again(p, t, 2)>>
    PROVE  Alike(i, j) /\ EncodeCase(j, at) = EncodeCase(i, at)
<1> DEFINE q == Again(p, t, 2)
<1>1. i.op \in FpuMoves /\ i.op \in SkipsST0
  BY FpuTablesAre DEF SkipsST0
<1>2. CodeIs(i.op, 8, \hDF, 3) /\ CodeIs(i.op, 2, \hDF, 3)
  BY MemoryCodes DEF CodeIs
<1>3. IsMem(q) /\ Sized(q, 2) /\ ModRM(q, 3) = ModRM(p, 3)
  BY AgainAlike
<1>4. EncodeCase(i, at) = Headed(\hDF, ModRM(p, 3))
  BY <1>1, <1>2, MemoryMoveIs
<1>5. i.op \notin Unsegmented /\ i.op \notin ToES /\ i.op # "FSTP"
  BY <1>1, SegmentedOps, OtherStrings DEF FpuOps
<1>6. j.argv = <<STArg(0), q>>
  OBVIOUS
<1> HIDE DEF q
<1>7. EncodeCase(j, at) = Headed(\hDF, ModRM(q, 3))
  BY <1>1, <1>2, <1>3, <1>6, MemoryMoveIs
<1>8. MemOf(i) = <<p>> /\ MemOf(j) = <<q>>
  BY <1>3, <1>5, <1>6, MemOfTwo DEF IsMem
<1>9. Alike(i, j)
  BY <1>5, <1>8, AlikeAgain DEF q
<1>10. QED
  BY <1>3, <1>4, <1>7, <1>9

(* FSTP m80 comes back as FSTP st(0).                                      *)
LEMMA ExtendedStoreSettles ==
    ASSUME NEW i, NEW j, NEW at, i.op = "FSTP", j.op = i.op, Len(i.argv) = 2, i.argv[1] = STArg(0),
           j.argv = <<STArg(0)>>
    PROVE  Alike(i, j) /\ EncodeCase(j, at) = EncodeCase(i, at)
<1>1. i.op \in FpuMoves /\ i.op \notin SkipsST0 /\ j.argv[1] = STArg(0)
  BY FpuTablesAre DEF SkipsST0
<1>2. IsST(STArg(0)) /\ ~IsReg(STArg(0)) /\ ~IsMem(STArg(0))
  BY StackKinds
<1>3. EncodeCase(i, at) = EncodeFpuMove(i.op, i.argv) /\ EncodeCase(j, at) = EncodeFpuMove(i.op, j.argv)
  BY <1>1, FpuDispatch
<1>4. EncodeFpuMove(i.op, j.argv) = EncodeFpuMove(i.op, i.argv)
  BY <1>1, <1>2 DEF EncodeFpuMove
<1>5. MemOf(i) = << >>
  <2>1. {k \in DOMAIN i.argv : IsMem(i.argv[k]) /\ (i.op = "FSTP" => k = 1)} = {}
    BY <1>2
  <2>2. QED
    BY <2>1 DEF MemOf
<1>6. MemOf(j) = << >>
  BY <1>2, MemOfOne DEF IsMem
<1>7. QED
  BY <1>3, <1>4, <1>5, <1>6 DEF Alike

(* XCHG of AX with itself comes back as NOP, which is what was written.    *)
LEMMA NopSettles ==
    ASSUME NEW i, NEW j, NEW at, BecomesNop(i), j.op = "NOP", j.argv = << >>, j.lock = i.lock
    PROVE  Prefixes(j) = Prefixes(i) /\ EncodeCase(j, at) = EncodeCase(i, at)
<1>1. i.op = "XCHG" /\ i.argv = <<RegArg(AX, 2), RegArg(AX, 2)>>
  BY DEF BecomesNop
<1>2. SegPrefix(i) = << >>
  BY <1>1 DEF SegPrefix, Unsegmented
<1>3. SegPrefix(j) = << >>
  <2>1. MemOf(j) = << >>
    BY MemOfNone
  <2>2. QED
    BY <2>1 DEF SegPrefix
<1>4. LockPrefix(j) = LockPrefix(i) /\ WaitPrefix(j) = WaitPrefix(i) /\ RepPrefix(j) = RepPrefix(i)
  BY <1>1 DEF LockPrefix, WaitPrefix, RepPrefix, Locked, Waiting, Repeated
<1>5. EncodeCase(i, at) = << \h90 >>
  <2>1. AX = 0 /\ AX \in 0 .. 7
    BY DEF AX
  <2>2. Sized(RegArg(AX, 2), 2) /\ IsReg(RegArg(AX, 2)) /\ RegArg(AX, 2).reg = AX
    BY <2>1 DEF Sized, Operand, IsReg, RegArg
  <2>3. EncodeXchg(RegArg(AX, 2), RegArg(AX, 2)) = << \h90 + AX >>
    BY <2>1, <2>2, XchgForms
  <2>4. i.argv[1] = RegArg(AX, 2) /\ i.argv[2] = RegArg(AX, 2) /\ \h90 + AX = \h90
    BY <1>1, <2>1
  <2>5. QED
    BY <1>1, <2>3, <2>4, XchgCase
<1>6. EncodeCase(j, at) = << \h90 >>
  <2>1. "NOP" \in DOMAIN OneByteCode /\ "NOP" \notin NoCase /\ OneByteCode["NOP"] = \h90
    BY DEF OneByteCode, NoCase
  <2>2. "NOP" \notin FpuOps
    BY FpuOpsAre DEF FpuNoOperand
  <2>3. ~TransfersTo("NOP")
    BY TransfersAre DEF TransfersTo, Transfers, FarOps
  <2>4. QED
    BY <2>1, <2>2, <2>3 DEF EncodeCase
<1>7. QED
  BY <1>2, <1>3, <1>4, <1>5, <1>6 DEF Prefixes

LEMMA SameAll ==
    ASSUME NEW i, NEW j, NEW at, Prefixes(j) = Prefixes(i), EncodeCase(j, at) = EncodeCase(i, at)
    PROVE  EncodeAll(j, at) = EncodeAll(i, at)
BY DEF EncodeAll, AfterPrefixes

(* An instruction that is lost is, as what it came back as, written the    *)
(* same again, but for the flip-flop.                                      *)
LEMMA LostSettles ==
    ASSUME NEW i, NEW at, NEW f, Lost(i, f, at), Setting(i, f.segment),
           NEW j, Made(j, f, at), j.segment = f.segment, PrefixedAs(i, j)
    PROVE  EncodeAll(j, at) = EncodeAll(i, at) \/ Flips(j)
<1>1. \A op, v : Gives(f, at, op, v) => j.op = op /\ j.argv = v
  BY DEF Gives, Made
<1>2. Setting(i, j.segment)
  OBVIOUS
<1>3. ASSUME j.op = i.op, Alike(i, j), EncodeCase(j, at) = EncodeCase(i, at)
      PROVE  EncodeAll(j, at) = EncodeAll(i, at)
  <2>1. Prefixes(j) = Prefixes(i)
    BY <1>2, <1>3, PrefixesBack
  <2>2. QED
    BY <1>3, <2>1, SameAll
<1>4. CASE BecomesNop(i) /\ Gives(f, at, "NOP", << >>)
  <2>1. j.op = "NOP" /\ j.argv = << >>
    BY <1>1, <1>4
  <2>2. j.lock = i.lock
    <3>1. i.op \in Locked
      BY <1>4 DEF BecomesNop, Locked
    <3>2. QED
      BY <3>1 DEF PrefixedAs
  <2>3. QED
    BY <1>4, <2>1, <2>2, NopSettles, SameAll
<1>5. CASE \E p, w : /\ WidensByte(i) /\ i.argv = <<p>> /\ Sized(p, w) /\ w # 2
                     /\ Gives(f, at, i.op, <<Again(p, f.segment, 2)>>)
  <2>1. PICK p, w : /\ WidensByte(i) /\ i.argv = <<p>> /\ Sized(p, w) /\ w # 2
                    /\ Gives(f, at, i.op, <<Again(p, f.segment, 2)>>)
    BY <1>5
  <2>2. j.op = i.op /\ j.argv = <<Again(p, f.segment, 2)>> /\ (i.op = "PUSH" \/ i.op = "POP")
    BY <1>1, <2>1 DEF WidensByte
  <2>3. Alike(i, j) /\ EncodeCase(j, at) = EncodeCase(i, at)
    BY <2>1, <2>2, WidenedSettles
  <2>4. QED
    BY <1>3, <2>2, <2>3
<1>6. CASE \E op \in {"FSUB", "FSUBR", "FDIV", "FDIVR"}, r \in 1 .. 7 :
              Flips(i) /\ op # i.op /\ Gives(f, at, op, <<STArg(r), STArg(0)>>)
  <2>1. PICK op \in {"FSUB", "FSUBR", "FDIV", "FDIVR"}, r \in 1 .. 7 : Gives(f, at, op, <<STArg(r), STArg(0)>>)
    BY <1>6
  <2>2. j.op = op /\ j.argv[1] = STArg(r)
    BY <1>1, <2>1
  <2>3. IsST(STArg(r)) /\ STArg(r).reg # 0
    BY StackKinds
  <2>4. QED
    BY <2>2, <2>3 DEF Flips
<1>7. CASE i.op = "FSTP" /\ Len(i.argv) = 2 /\ i.argv[1] = STArg(0) /\ Gives(f, at, "FSTP", <<STArg(0)>>)
  <2>1. j.op = i.op /\ j.argv = <<STArg(0)>>
    BY <1>1, <1>7
  <2>2. Alike(i, j) /\ EncodeCase(j, at) = EncodeCase(i, at)
    BY <1>7, <2>1, ExtendedStoreSettles
  <2>3. QED
    BY <1>3, <2>1, <2>2
<1>8. CASE \E p : /\ i.op = "FISTP" /\ i.argv = <<STArg(0), p>> /\ Sized(p, 8) /\ IsMem(p)
                  /\ Gives(f, at, "FISTP", <<STArg(0), Again(p, f.segment, 2)>>)
  <2>1. PICK p : /\ i.op = "FISTP" /\ i.argv = <<STArg(0), p>> /\ Sized(p, 8) /\ IsMem(p)
                 /\ Gives(f, at, "FISTP", <<STArg(0), Again(p, f.segment, 2)>>)
    BY <1>8
  <2>2. j.op = i.op /\ j.argv = <<STArg(0), Again(p, f.segment, 2)>>
    BY <1>1, <2>1
  <2>3. Alike(i, j) /\ EncodeCase(j, at) = EncodeCase(i, at)
    BY <2>1, <2>2, LongStoreSettles
  <2>4. QED
    BY <1>3, <2>2, <2>3
<1>9. QED
  BY <1>4, <1>5, <1>6, <1>7, <1>8 DEF Lost

(* What was written for i, decoded as j to its last byte, is written again.*)
LEMMA Settled ==
    ASSUME NEW s, Whole(s), NEW at \in Nat, NEW i, i = Meaning(s, at), EncodeAll(i, at) # << >>,
           NEW j, j = Meaning(EncodeAll(i, at) \o Zeros, at), j.len = Len(EncodeAll(i, at))
    PROVE  EncodeAll(j, at) = EncodeAll(i, at) \/ Flips(j) \/ Wraps(j, at)
<1> DEFINE d == FlatDecode(s)
           e == EncodeCase(i, at)
           c == EncodeAll(i, at)
           f == FlatDecode(c \o Zeros)
<1>1. Made(i, d, at) /\ i.segment = d.segment /\ i.lock = d.lock /\ i.rep = d.rep /\ i.fwait = d.fwait
  BY MeaningIs
<1>2. Fields(d, Second(s)) /\ Ranged(d, Second(s))
  BY FieldsOfWhole, RangedWhole
<1>3. d.segment \in -1 .. 3 /\ d.rep \in 0 .. 2 /\ d.lock \in {0, 1} /\ d.fwait \in {0, 1}
  BY PrefixFieldsAre
<1>4. /\ e \in Seq(Byte) /\ c = IF e = << >> THEN << >> ELSE Prefixes(i) \o e
      /\ Wraps(i, at) \/ Outreaches(i, at) \/ e = << >> \/ Stands(e)
      /\ i.op \in Waiting /\ e # << >> => e[1] \in FPUEscapes
  BY Written
<1>5. SegPrefix(i) \in {<< >>} \cup OverrideBytes
  BY FewPrefixes
<1>6. Made(j, f, at) /\ j.segment = f.segment /\ j.lock = f.lock /\ j.rep = f.rep /\ j.fwait = f.fwait
  BY MeaningIs
<1>7. f = FlatDecode(EncodeAll(i, at) \o Zeros) /\ e = EncodeCase(i, at)
  OBVIOUS
<1>8. e # << >>
  BY <1>4
<1> HIDE DEF d, e, c, f
<1>9. at \in Int
  OBVIOUS
<1>10. Governed(i.op, i.argv, i.segment)
  BY <1>1, <1>2, AllGoverned
<1>11. Verdict(i, at)
  BY <1>1, <1>2, <1>9, AllVerdicts
<1>12. i.op \in ShortOps => MemOf(i) = << >>
  BY <1>1, <1>2, ShortRows
<1>13. i.segment \in -1 .. 3 /\ i.rep \in 0 .. 2 /\ i.lock \in {0, 1} /\ i.fwait \in {0, 1}
  BY <1>1, <1>3
<1>14. ~Wraps(i, at) /\ ~Outreaches(i, at)
  BY <1>4, <1>7, <1>8, <1>9, <1>11, <1>12, FarDiffers
<1>15. ~SplitsWait(i)
  BY <1>4, <1>5, <1>7, <1>8, SplitDiffers
<1>16. Stands(e) /\ (i.op \in Waiting => e[1] \in FPUEscapes)
  BY <1>4, <1>8, <1>14
<1>17. /\ ReadsAs(f, e, i.op) /\ Setting(i, f.segment)
       /\ i.op \in Locked => f.lock = i.lock
       /\ i.op \in Waiting => f.fwait = i.fwait
       /\ i.op \in Repeated => f.rep = i.rep
  BY <1>5, <1>7, <1>10, <1>12, <1>13, <1>15, <1>16, ReadsBack
<1>18. PrefixedAs(i, j)
  BY <1>6, <1>17 DEF PrefixedAs
<1>19. CASE ~Odd(i, at)
  <2>1. Kept(i, f, at)
    BY <1>7, <1>8, <1>11, <1>14, <1>17, <1>19 DEF Verdict
  <2>2. j.op = i.op /\ Alike(i, j) /\ (EncodeCase(j, at) = EncodeCase(i, at) \/ Wraps(j, at))
    BY <1>6, <1>7, <1>9, <1>17, <1>19, <2>1, KeptSettles
  <2>3. Prefixes(j) = Prefixes(i)
    BY <1>6, <1>17, <1>18, <2>2, PrefixesBack
  <2>4. QED
    BY <2>2, <2>3, SameAll
<1>20. CASE Odd(i, at)
  <2>1. Lost(i, f, at)
    BY <1>7, <1>8, <1>11, <1>14, <1>17, <1>20 DEF Verdict
  <2>2. QED
    BY <1>6, <1>17, <1>18, <2>1, LostSettles
<1>21. QED
  BY <1>19, <1>20

(* From the second run on the encoder is given what it wrote itself.       *)
OwnOutput == round > 1 => \E b \in Seq(Byte) : bytes = EncodeAll(Meaning(b \o Zeros, ip), ip) /\ bytes # << >>

LEMMA OwnOutputStarts == Init => OwnOutput
<1>1. Init => ~(round > 1)
  BY DEF Init
<1>2. QED
  BY <1>1 DEF OwnOutput

LEMMA OwnOutputKeeps == RecodeIInv /\ OwnOutput /\ [Next]_vars => OwnOutput'
<1> SUFFICES ASSUME RecodeIInv, OwnOutput, [Next]_vars PROVE OwnOutput'
  OBVIOUS
<1>1. CASE NextRun
  <2>1. stage = "done" /\ bytes' = code /\ ip' = ip
    BY <1>1 DEF NextRun
  <2>2. bytes \in Seq(Byte) /\ code = EncodeAll(Meaning(bytes \o Zeros, ip), ip) /\ code # << >>
    BY <2>1 DEF RecodeIInv, BytesAre, FirstRead, WroteThat, ReadAgain
  <2>3. QED
    BY <2>1, <2>2 DEF OwnOutput
<1>2. CASE FirstDecode \/ Encoding \/ SecondDecode \/ Blank \/ UNCHANGED vars
  <2>1. round' = round /\ bytes' = bytes /\ ip' = ip
    BY <1>2 DEF FirstDecode, Encoding, SecondDecode, Blank, vars
  <2>2. QED
    BY <2>1 DEF OwnOutput
<1>3. QED
  BY <1>1, <1>2 DEF Next

(* Right after minx86enc_encodeall, in a run on what it wrote before.      *)
LEMMA SettlesThere == RecodeIInv /\ OwnOutput => SettlesAfterOneRun
<1> SUFFICES ASSUME RecodeIInv, OwnOutput, stage = "encoded", round > 1, ins.len = Len(bytes)
             PROVE  code = bytes \/ Flips(ins) \/ Wraps(ins, ip)
  BY DEF SettlesAfterOneRun
<1>1. PICK b \in Seq(Byte) : bytes = EncodeAll(Meaning(b \o Zeros, ip), ip) /\ bytes # << >>
  BY DEF OwnOutput
<1>2. ins = Meaning(bytes \o Zeros, ip) /\ code = EncodeAll(ins, ip) /\ ip \in Nat
  BY DEF RecodeIInv, FirstRead, WroteThat, RoundIs
<1> DEFINE s == b \o Zeros
           i == Meaning(s, ip)
<1>3. Whole(s)
  BY <1>1, PaddedIsWhole
<1>4. bytes = EncodeAll(i, ip) /\ i = Meaning(s, ip)
  BY <1>1
<1> HIDE DEF s, i
<1>5. EncodeAll(ins, ip) = EncodeAll(i, ip) \/ Flips(ins) \/ Wraps(ins, ip)
  BY <1>1, <1>2, <1>3, <1>4, Settled
<1>6. QED
  BY <1>2, <1>4, <1>5

(* Decoding what minx86enc_encodeall wrote gives the instruction it was    *)
(* given, for every input of recode8086.c, exactly if it is not Lossy.     *)
THEOREM RecodePreserves == Spec => []PreservesAllButLossy
<1>1. QED
  BY PreservesThere, RecodeInvariant, PTL

(* A second run of recode8086.c over what the first one wrote changes no   *)
(* instruction, but for the flip-flop and for jumps that have wrapped.     *)
THEOREM RecodeSettles == Spec => []SettlesAfterOneRun
<1>1. Spec => []OwnOutput
  BY OwnOutputStarts, OwnOutputKeeps, RecodeInvariant, PTL DEF Spec
<1>2. QED
  BY <1>1, SettlesThere, RecodeInvariant, PTL
=============================================================================
