---------------------------- MODULE CoreProofs ----------------------------
(***************************************************************************)
(* Proofs about the steps of the streaming core, for every set of bytes    *)
(* and every window of two bytes or more.                                  *)
(*                                                                         *)
(* First: each of them keeps IInv of Decode8086.  Its typing part is       *)
(* proved first, then, from it, the parts about the position and about the *)
(* prefixes, and what a caller has to do to keep it.                       *)
(*                                                                         *)
(* Second: the core decodes what the flat one does, with every caller and  *)
(* callback.  The invariant FlatIInv compares the state of the decode with *)
(* what Flat8086 makes of any byte sequence that begins with the window.   *)
(* Speaking of all of them makes the callback harmless, as a longer window *)
(* has fewer of them, and makes the theorem say that no byte behind the    *)
(* window matters.                                                         *)
(*                                                                         *)
(* Last: both hold of StreamDecode, the core with any caller and callback. *)
(* The proofs about the two programs repeat that part for theirs.          *)
(***************************************************************************)
EXTENDS StreamDecode, FormatProofs

LEMMA Fetched ==
    ASSUME TypeOK, pc = "operand" => todo # << >>
    PROVE  /\ Width \in {1, 2}
           /\ Width = 1 => ReadValue \subseteq Byte
           /\ ReadValue \subseteq Nat
           /\ AtCip \subseteq Byte
           /\ HasRoom => ReadNext = cip + Width
           /\ ~HasRoom => ReadNext = cip
           /\ ReadNext \in Nat
           /\ HasRoom \in BOOLEAN
<1>1. Width \in {1, 2}
  BY HeadTailProperties DEF Width, TypeOK
<1>2. \A i \in 1 .. Len(win) : win[i] \in Byte
  BY BytesAssumption, ElementOfSeq DEF TypeOK
<1>3. AtCip \subseteq Byte
  BY <1>2, StaleAssumption DEF AtCip, TypeOK
<1>4. HasRoom \in BOOLEAN
  BY DEF HasRoom
<1>5. CASE HasRoom
  <2>1. cip + Width <= Len(win) /\ Len(win) \in Nat /\ cip \in Nat
    BY <1>5, LenProperties DEF HasRoom, TypeOK
  <2>2. win[cip + 1] \in Byte /\ (Width = 2 => win[cip + 2] \in Byte)
    BY <1>1, <1>2, <2>1
  <2>3. ReadValue = {ValueAt(win, cip, Width)} /\ ReadNext = cip + Width
    BY <1>5 DEF ReadValue, ReadNext
  <2>4. Width = 1 => ValueAt(win, cip, Width) \in Byte
    BY <2>2 DEF ValueAt
  <2>5. ValueAt(win, cip, Width) \in Nat
    <3>1. CASE Width = 1
      BY <2>4, <3>1, BytesAreNumbers
    <3>2. CASE Width = 2
      <4>1. \A u, v \in Byte : u + 256 * v \in Nat
        BY DEF Byte
      <4>2. ValueAt(win, cip, Width) = win[cip + 1] + 256 * win[cip + 2]
        BY <3>2 DEF ValueAt
      <4>3. QED
        BY <2>2, <3>2, <4>1, <4>2
    <3>3. QED
      BY <1>1, <3>1, <3>2
  <2>6. QED
    BY <1>1, <1>3, <1>4, <1>5, <2>1, <2>3, <2>4, <2>5
<1>6. CASE ~HasRoom
  <2>1. ReadValue = AtCip /\ ReadNext = cip
    BY <1>6 DEF ReadValue, ReadNext
  <2>2. cip \in Nat
    BY DEF TypeOK
  <2>3. QED
    BY <1>1, <1>3, <1>4, <1>6, <2>1, <2>2 DEF Byte
<1>7. QED
  BY <1>5, <1>6

LEMMA GotoType ==
    ASSUME TypeOK, NEW p \in Labels, NEW at \in Nat, NEW ws \in Widths,
           p = "operand" => ws # << >>, Goto(p, at, ws)
    PROVE  /\ pc' = p /\ cip' = at /\ todo' = ws
           /\ pc' \in Labels /\ cip' \in Nat /\ todo' \in Widths /\ tries' \in Nat
<1>1. ws # << >> => Head(ws) \in {1, 2}
  BY HeadTailProperties DEF Widths
<1>2. \A c \in Nat : Missing(win, at, c) \in Nat
  BY LenProperties DEF Missing, TypeOK
<1>3. tries' \in Nat
  BY <1>1, <1>2 DEF Goto
<1>4. QED
  BY <1>3 DEF Goto

LEMMA ReturnType ==
    ASSUME NEW i \in Ins, NEW at \in Nat, Return(i, at)
    PROVE  /\ pc' = "done" /\ cip' = at /\ tries' = 0 /\ ins' \in Ins
           /\ ins'.op = i.op
           /\ ins'.len = IF i.op = "UD_NOP" THEN 2 ELSE at
           /\ pc' \in Labels /\ cip' \in Nat /\ todo' \in Widths /\ tries' \in Nat
  BY WidthSequences DEF Return, Ins, Labels

LEMMA OperandsType ==
    ASSUME TypeOK, NEW i \in Ins, NEW at \in Nat, NEW ws \in Widths,
           Operands(i, at, ws)
    PROVE  /\ cip' = at /\ ins' \in Ins
           /\ \/ /\ pc' = "operand" /\ todo' # << >> /\ ins' = i
              \/ /\ pc' = "done" /\ tries' = 0 /\ ins'.op = i.op
                 /\ ins'.len = IF i.op = "UD_NOP" THEN 2 ELSE at
           /\ pc' \in Labels /\ cip' \in Nat /\ todo' \in Widths /\ tries' \in Nat
<1>1. CASE ws = << >>
  BY <1>1, ReturnType DEF Operands
<1>2. CASE ws # << >>
  BY <1>2, GotoType DEF Operands, Labels
<1>3. QED
  BY <1>1, <1>2

-----------------------------------------------------------------------------
(* Typing.                                                                 *)

(* What the actions share: TypeOK and what makes todo a fetchable operand. *)
Typed == TypeOK /\ (pc = "operand" => todo # << >>)

LEMMA OverrunType ==
    ASSUME Typed, CountOverrun
    PROVE  /\ overruns' \in 0 .. OverrunModulus - 1 /\ failed' \in BOOLEAN
           /\ (HasRoom /\ ~failed) => ~failed'
<1>1. CASE HasRoom
  BY <1>1 DEF CountOverrun, Typed, TypeOK
<1>2. CASE ~HasRoom
  <2>1. (overruns + 1) % OverrunModulus \in 0 .. OverrunModulus - 1
    BY OverrunAssumption DEF Typed, TypeOK
  <2>2. QED
    BY <1>2, <2>1 DEF CountOverrun
<1>3. QED
  BY <1>1, <1>2

(* The instruction stays typed when an action fills in a field.            *)
LEMMA InsFields ==
    ASSUME NEW i \in Ins
    PROVE  /\ \A b \in Byte \cup {NoByte} : [i EXCEPT !.lead = b] \in Ins
           /\ \A b \in Byte : [i EXCEPT !.rm = b] \in Ins
           /\ \A v \in Nat : [i EXCEPT !.args = Append(@, v)] \in Ins
           /\ \A k \in 0 .. 3 : [i EXCEPT !.segment = k] \in Ins
           /\ \A k \in 0 .. 2 : [i EXCEPT !.rep = k] \in Ins
           /\ [i EXCEPT !.lock = 1] \in Ins
           /\ \A o \in Outcomes : [i EXCEPT !.op = o] \in Ins
           /\ \A b \in Byte, o \in Outcomes : [i EXCEPT !.lead = b, !.op = o] \in Ins
           /\ \A b \in Byte, o \in Outcomes : [i EXCEPT !.fpu = b, !.op = o] \in Ins
           /\ \A b \in Byte, o \in Outcomes : [i EXCEPT !.rm = b, !.op = o] \in Ins
           /\ [i EXCEPT !.fwait = 1, !.lead = NoByte] \in Ins
<1>1. \A v \in Nat : Append(i.args, v) \in Seq(Nat)
  BY AppendProperties DEF Ins
<1>2. QED
  BY <1>1 DEF Ins

LEMMA EmptyInsType == EmptyIns \in Ins
  BY EmptySeq DEF EmptyIns, Ins, Outcomes, NoByte, NoSegment

LEMMA TypeFetchOpcode == Typed /\ FetchOpcode => Typed'
<1> SUFFICES ASSUME Typed, FetchOpcode PROVE Typed'
  OBVIOUS
<1>1. PICK b \in ReadValue :
          \/ SegmentPrefix(b) \/ OtherPrefix(b) \/ PeekingOpcode(b)
          \/ ModRMOpcode(b) \/ FPUOpcode(b) \/ PlainOpcode(b)
  BY DEF FetchOpcode
<1>2. b \in Byte /\ ReadNext \in Nat /\ ins \in Ins
  BY Fetched DEF Typed, TypeOK, FetchOpcode, Fetch, Width
<1>3. overruns' \in 0 .. OverrunModulus - 1 /\ failed' \in BOOLEAN
  BY OverrunType DEF FetchOpcode, Fetch
<1>4. win' = win /\ unbacked' = unbacked
  BY DEF FetchOpcode, Fetch
<1>5. SUFFICES /\ pc' \in Labels /\ cip' \in Nat /\ todo' \in Widths
               /\ tries' \in Nat /\ ins' \in Ins
               /\ pc' = "operand" => todo' # << >>
  BY <1>3, <1>4 DEF Typed, TypeOK, Widths
<1>6. CASE SegmentPrefix(b)
  BY <1>2, <1>6, GotoType, WidthSequences, InsFields, PrefixFields
     DEF SegmentPrefix, Labels, Typed
<1>7. CASE OtherPrefix(b)
  BY <1>2, <1>7, GotoType, WidthSequences, InsFields, PrefixFields
     DEF OtherPrefix, Labels, Typed
<1>8. CASE PeekingOpcode(b)
  BY <1>2, <1>8, InsFields DEF PeekingOpcode, Labels, Typed, TypeOK, Widths
<1>9. CASE ModRMOpcode(b)
  BY <1>2, <1>9, GotoType, WidthSequences, InsFields DEF ModRMOpcode, Labels, Typed
<1>10. CASE FPUOpcode(b)
  BY <1>2, <1>10, GotoType, WidthSequences, InsFields DEF FPUOpcode, Labels, Typed
<1>11. CASE PlainOpcode(b)
  <2>1. (IF b \in Absent THEN "UD_NOP" ELSE "OK") \in Outcomes
    BY DEF Outcomes
  <2>2. QED
    BY <1>2, <1>11, <2>1, OperandsType, OperandsWithoutModRM, InsFields
       DEF PlainOpcode, Typed
<1>12. QED
  BY <1>1, <1>6, <1>7, <1>8, <1>9, <1>10, <1>11

LEMMA TypeNextRound == Typed /\ NextRound => Typed'
<1> SUFFICES ASSUME Typed, NextRound PROVE Typed'
  OBVIOUS
<1>1. ins \in Ins /\ cip \in Nat /\ [ins EXCEPT !.op = "UD_OVERRUN"] \in Ins
  BY InsFields DEF Typed, TypeOK, Outcomes
<1>2. CASE cip + 1 > Len(win)
  BY <1>1, <1>2, ReturnType DEF NextRound, Typed, TypeOK, Widths
<1>3. CASE ~(cip + 1 > Len(win))
  <2>1. Goto("opcode", cip, << >>) /\ ins' = ins
    BY <1>3 DEF NextRound
  <2>2. QED
    BY <1>1, <2>1, GotoType, WidthSequences DEF NextRound, Typed, TypeOK, Labels, Widths
<1>4. QED
  BY <1>2, <1>3

LEMMA TypePeek == Typed /\ Peek => Typed'
<1> SUFFICES ASSUME Typed, Peek PROVE Typed'
  OBVIOUS
<1>1. PICK x \in AtCip : PeekWait(x) \/ PeekExtension(x)
  BY DEF Peek
<1>2. /\ ins \in Ins /\ cip \in Nat /\ [ins EXCEPT !.op = "OK"] \in Ins
      /\ [ins EXCEPT !.fwait = 1, !.lead = NoByte] \in Ins
  BY InsFields DEF Typed, TypeOK, Outcomes
<1>3. SUFFICES /\ pc' \in Labels /\ cip' \in Nat /\ todo' \in Widths
               /\ tries' \in Nat /\ ins' \in Ins
               /\ pc' = "operand" => todo' # << >>
  <2>1. unbacked' \in BOOLEAN
    BY DEF Peek
  <2>2. QED
    BY <1>3, <2>1 DEF Peek, Typed, TypeOK, Widths
<1>4. CASE PeekWait(x)
  BY <1>2, <1>4, ReturnType, GotoType, WidthSequences DEF PeekWait, Typed, Labels
<1>5. CASE PeekExtension(x)
  BY <1>2, <1>5, ReturnType, GotoType, WidthSequences DEF PeekExtension, Typed, Labels
<1>6. QED
  BY <1>1, <1>4, <1>5

(* The step back after an FPU escape needs the escape to have been read.   *)
LEMMA TypeFetchFPU == Typed /\ Progress /\ FetchFPU => Typed'
<1> SUFFICES ASSUME Typed, Progress, FetchFPU PROVE Typed'
  OBVIOUS
<1> DEFINE i(x) == [ins EXCEPT !.fpu = x, !.op = FPUOutcome(ins.lead, x)]
<1>1. PICK x \in ReadValue :
          IF FPUMemory(ins.lead, x)
          THEN ins' = i(x) /\ Goto("modrm", ReadNext - 1, << >>)
          ELSE Return(i(x), ReadNext)
  BY DEF FetchFPU
<1>2. pc = "fpu" /\ win' = win /\ unbacked' = unbacked
  BY DEF FetchFPU, Fetch
<1>3. x \in Byte /\ ReadNext \in Nat /\ ReadNext - 1 \in Nat
  <2>1. Width = 1
    BY <1>2 DEF Width
  <2>2. cip \in Nat /\ cip >= 1
    BY <1>2 DEF Progress, Inside, Typed, TypeOK
  <2>3. QED
    BY <2>1, <2>2, Fetched DEF Typed
<1>4. i(x) \in Ins
  BY <1>3, FPUOutcomes, InsFields DEF Typed, TypeOK, Decoded, Outcomes
<1>5. overruns' \in 0 .. OverrunModulus - 1 /\ failed' \in BOOLEAN
  BY OverrunType DEF FetchFPU, Fetch
<1>6. SUFFICES /\ pc' \in Labels /\ cip' \in Nat /\ todo' \in Widths
               /\ tries' \in Nat /\ ins' \in Ins
               /\ pc' = "operand" => todo' # << >>
  BY <1>2, <1>5 DEF Typed, TypeOK, Widths
<1> HIDE DEF i
<1>7. CASE FPUMemory(ins.lead, x)
  BY <1>1, <1>3, <1>4, <1>7, GotoType, WidthSequences DEF Typed, Labels
<1>8. CASE ~FPUMemory(ins.lead, x)
  BY <1>1, <1>3, <1>4, <1>8, ReturnType
<1>9. QED
  BY <1>7, <1>8

LEMMA TypeFetchModRM == Typed /\ FetchModRM => Typed'
<1> SUFFICES ASSUME Typed, FetchModRM PROVE Typed'
  OBVIOUS
<1> DEFINE op(m) == IF ins.lead \in FPUEscapes THEN ins.op ELSE GroupOutcome(ins.lead, m)
           ws(m) == Displacement(m) \o ImmAfterRM(ins.lead, m)
<1>1. PICK m \in ReadValue :
          Operands([ins EXCEPT !.rm = m, !.op = op(m)], ReadNext, ws(m))
  BY DEF FetchModRM
<1>2. pc = "modrm" /\ win' = win /\ unbacked' = unbacked
  BY DEF FetchModRM, Fetch
<1>3. m \in Byte /\ ReadNext \in Nat /\ ins \in Ins
  BY <1>2, Fetched DEF Typed, TypeOK, Width
<1>4. op(m) \in Outcomes
  BY <1>3, GroupOutcomes DEF Decoded, Outcomes, Ins
<1>5. ws(m) \in Widths
  BY <1>3, OperandsAfterModRM DEF Ins
<1> HIDE DEF op, ws
<1>6. [ins EXCEPT !.rm = m, !.op = op(m)] \in Ins
  BY <1>3, <1>4, InsFields
<1>7. overruns' \in 0 .. OverrunModulus - 1 /\ failed' \in BOOLEAN
  BY OverrunType DEF FetchModRM, Fetch
<1>8. QED
  BY <1>1, <1>2, <1>3, <1>5, <1>6, <1>7, OperandsType DEF Typed, TypeOK, Widths

LEMMA TypeFetchOperand == Typed /\ FetchOperand => Typed'
<1> SUFFICES ASSUME Typed, FetchOperand PROVE Typed'
  OBVIOUS
<1>1. PICK v \in ReadValue :
          Operands([ins EXCEPT !.args = Append(@, v)], ReadNext, Tail(todo))
  BY DEF FetchOperand
<1>2. pc = "operand" /\ win' = win /\ unbacked' = unbacked
  BY DEF FetchOperand, Fetch
<1>3. v \in Nat /\ ReadNext \in Nat
  BY Fetched DEF Typed
<1>4. Tail(todo) \in Widths
  BY <1>2, HeadTailProperties DEF Typed, TypeOK, Widths
<1>5. [ins EXCEPT !.args = Append(@, v)] \in Ins
  BY <1>3, InsFields DEF Typed, TypeOK
<1>6. overruns' \in 0 .. OverrunModulus - 1 /\ failed' \in BOOLEAN
  BY OverrunType DEF FetchOperand, Fetch
<1>7. QED
  BY <1>1, <1>2, <1>3, <1>4, <1>5, <1>6, OperandsType DEF Typed, TypeOK, Widths

-----------------------------------------------------------------------------
(* Position and prefixes.                                                  *)

Kept == WindowHeld /\ Progress /\ PrefixesSoFar /\ OverrunMeansPrefixes

(* The ways in which a step of the core goes on.                           *)
Running == IInv /\ pc # "idle" /\ win' = win

LEMMA WindowFacts ==
    ASSUME Running
    PROVE  Typed /\ Len(win) \in Nat /\ Len(win) >= 2 /\ cip \in Nat /\ ins \in Ins
  BY LenProperties DEF Running, IInv, Typed, TypeOK, WindowHeld, Progress

LEMMA ToByte ==
    ASSUME Running, NEW p \in {"fpu", "modrm"}, NEW at \in 1 .. Len(win),
           Goto(p, at, << >>), ins'.op # "UD_OVERRUN"
    PROVE  Kept'
<1>1. pc' = p /\ cip' = at
  BY DEF Goto
<1>2. QED
  BY <1>1, WindowFacts
     DEF Running, Kept, WindowHeld, Progress, Inside, PrefixesSoFar, Prefixing,
         OverrunMeansPrefixes

LEMMA ToNext ==
    ASSUME Running, NEW at \in 1 .. Len(win),
           Goto("next", at, << >>), ins'.op # "UD_OVERRUN", ~failed',
           \A k \in 1 .. at : win[k] \in PrefixBytes
    PROVE  Kept'
<1>1. pc' = "next" /\ cip' = at
  BY DEF Goto
<1>2. QED
  BY <1>1, WindowFacts
     DEF Running, Kept, WindowHeld, Progress, Inside, PrefixesSoFar, Prefixing,
         OverrunMeansPrefixes

LEMMA ToOperands ==
    ASSUME Running, NEW i \in Ins, i.op # "UD_OVERRUN", NEW at \in 1 .. Len(win),
           NEW ws \in Widths, Operands(i, at, ws)
    PROVE  Kept'
<1>1. /\ cip' = at
      /\ \/ pc' = "operand" /\ todo' # << >> /\ ins' = i
         \/ /\ pc' = "done" /\ tries' = 0 /\ ins'.op = i.op
            /\ ins'.len = IF i.op = "UD_NOP" THEN 2 ELSE at
  BY OperandsType, WindowFacts DEF Typed
<1>2. QED
  BY <1>1, WindowFacts
     DEF Running, Kept, WindowHeld, Progress, Inside, PrefixesSoFar, Prefixing,
         OverrunMeansPrefixes

LEMMA ToCaller ==
    ASSUME Running, NEW i \in Ins, i.op # "UD_OVERRUN", NEW at \in 1 .. Len(win),
           Return(i, at)
    PROVE  Kept'
  BY ToOperands, WidthSequences DEF Operands

(* Filling in a field other than the opcode keeps the opcode.              *)
LEMMA InsOps ==
    ASSUME NEW i \in Ins
    PROVE  /\ \A b : [i EXCEPT !.lead = b].op = i.op
           /\ \A v : [i EXCEPT !.args = Append(@, v)].op = i.op
           /\ \A k : [i EXCEPT !.segment = k].op = i.op
           /\ \A k : [i EXCEPT !.rep = k].op = i.op
           /\ [i EXCEPT !.lock = 1].op = i.op
           /\ [i EXCEPT !.fwait = 1, !.lead = NoByte].op = i.op
           /\ \A o : [i EXCEPT !.op = o].op = o
           /\ \A b, o : [i EXCEPT !.lead = b, !.op = o].op = o
           /\ \A b, o : [i EXCEPT !.fpu = b, !.op = o].op = o
           /\ \A b, o : [i EXCEPT !.rm = b, !.op = o].op = o
           /\ \A b : [i EXCEPT !.lead = b].lead = b
  BY DEF Ins

LEMMA StepFetchOpcode == IInv /\ FetchOpcode => Kept'
<1> SUFFICES ASSUME IInv, FetchOpcode PROVE Kept'
  OBVIOUS
<1>1. pc = "opcode" /\ win' = win /\ Running
  BY DEF FetchOpcode, Fetch, Running
<1>2. Typed /\ Len(win) \in Nat /\ Len(win) >= 2 /\ cip \in Nat /\ ins \in Ins
  BY <1>1, WindowFacts
<1>3. Width = 1 /\ cip < Len(win) /\ HasRoom
  BY <1>1, <1>2 DEF IInv, Progress, Width, HasRoom
<1>4. ReadValue = {win[cip + 1]} /\ ReadNext = cip + 1
  BY <1>3 DEF ReadValue, ReadNext, ValueAt
<1>5. /\ ~failed' /\ ins.op # "UD_OVERRUN"
      /\ \A k \in 1 .. cip : win[k] \in PrefixBytes
  BY <1>1, <1>3 DEF IInv, PrefixesSoFar, Prefixing, FetchOpcode, Fetch, CountOverrun
<1> DEFINE b == win[cip + 1]
<1>6. \/ SegmentPrefix(b) \/ OtherPrefix(b) \/ PeekingOpcode(b)
      \/ ModRMOpcode(b) \/ FPUOpcode(b) \/ PlainOpcode(b)
  BY <1>4 DEF FetchOpcode
<1>7. b \in Byte /\ cip + 1 \in 1 .. Len(win)
  BY <1>2, <1>3, <1>4, Fetched DEF Typed
<1>8. b \in PrefixBytes => \A k \in 1 .. cip + 1 : win[k] \in PrefixBytes
  BY <1>2, <1>5
<1> HIDE DEF b
<1>9. CASE SegmentPrefix(b)
  <2>1. ins'.op # "UD_OVERRUN" /\ b \in PrefixBytes
    BY <1>2, <1>5, <1>9, InsOps DEF SegmentPrefix, PrefixBytes
  <2>2. QED
    BY <1>1, <1>4, <1>5, <1>7, <1>8, <1>9, <2>1, ToNext DEF SegmentPrefix
<1>10. CASE OtherPrefix(b)
  <2>1. ins'.op # "UD_OVERRUN" /\ b \in PrefixBytes
    BY <1>2, <1>5, <1>10, InsOps DEF OtherPrefix, PrefixBytes
  <2>2. QED
    BY <1>1, <1>4, <1>5, <1>7, <1>8, <1>10, <2>1, ToNext DEF OtherPrefix
<1>11. CASE PeekingOpcode(b)
  <2>1. /\ ins'.op # "UD_OVERRUN" /\ ins'.lead = b
        /\ pc' = "peek" /\ cip' = cip + 1
    BY <1>2, <1>4, <1>5, <1>11, InsOps DEF PeekingOpcode
  <2>2. b = WaitOpcode => b \in PrefixBytes
    BY DEF PrefixBytes
  <2>3. QED
    BY <1>1, <1>2, <1>5, <1>7, <1>8, <2>1, <2>2
       DEF Kept, WindowHeld, Progress, Inside, PrefixesSoFar, Prefixing,
           OverrunMeansPrefixes
<1>12. CASE ModRMOpcode(b)
  <2>1. ins'.op # "UD_OVERRUN"
    BY <1>2, <1>5, <1>12, InsOps DEF ModRMOpcode
  <2>2. QED
    BY <1>1, <1>4, <1>7, <1>12, <2>1, ToByte DEF ModRMOpcode
<1>13. CASE FPUOpcode(b)
  <2>1. ins'.op # "UD_OVERRUN"
    BY <1>2, <1>5, <1>13, InsOps DEF FPUOpcode
  <2>2. QED
    BY <1>1, <1>4, <1>7, <1>13, <2>1, ToByte DEF FPUOpcode
<1>14. CASE PlainOpcode(b)
  <2> DEFINE o == IF b \in Absent THEN "UD_NOP" ELSE "OK"
             i == [ins EXCEPT !.lead = b, !.op = o]
  <2>1. o \in Outcomes /\ o # "UD_OVERRUN"
    BY DEF Outcomes
  <2>2. i \in Ins /\ i.op # "UD_OVERRUN"
    BY <1>2, <1>7, <2>1, InsFields, InsOps
  <2>3. Operands(i, cip + 1, Immediates(b))
    BY <1>4, <1>14 DEF PlainOpcode
  <2> HIDE DEF i, o
  <2>4. QED
    BY <1>1, <1>7, <2>2, <2>3, ToOperands, OperandsWithoutModRM
<1>15. QED
  BY <1>6, <1>9, <1>10, <1>11, <1>12, <1>13, <1>14

(* The prefix loop ends with the overrun opcode only at the fence, and     *)
(* goes on only with a byte before it.                                     *)
LEMMA StepNextRound == IInv /\ NextRound => Kept'
<1> SUFFICES ASSUME IInv, NextRound PROVE Kept'
  OBVIOUS
<1>1. pc = "next" /\ win' = win /\ failed' = failed /\ Running
  BY DEF NextRound, Running
<1>2. Typed /\ Len(win) \in Nat /\ Len(win) >= 2 /\ cip \in Nat /\ ins \in Ins
  BY <1>1, WindowFacts
<1>3. /\ ~failed /\ ins.op # "UD_OVERRUN" /\ cip \in 1 .. Len(win)
      /\ \A k \in 1 .. cip : win[k] \in PrefixBytes
  BY <1>1, <1>2 DEF IInv, PrefixesSoFar, Prefixing, Progress, Inside
<1>4. CASE cip + 1 > Len(win)
  <2> DEFINE i == [ins EXCEPT !.op = "UD_OVERRUN"]
  <2>1. i \in Ins /\ i.op = "UD_OVERRUN" /\ cip = Len(win)
    <3>1. i \in Ins
      BY <1>2, InsFields DEF Outcomes
    <3>2. i.op = "UD_OVERRUN"
      BY <1>2, InsOps
    <3>3. QED
      BY <1>2, <1>3, <1>4, <3>1, <3>2
  <2>2. Return(i, cip)
    BY <1>4 DEF NextRound
  <2> HIDE DEF i
  <2>3. /\ pc' = "done" /\ tries' = 0 /\ cip' = cip
        /\ ins'.op = "UD_OVERRUN" /\ ins'.len = Len(win)
    BY <1>2, <2>1, <2>2, ReturnType
  <2>4. QED
    BY <1>1, <1>2, <1>3, <2>1, <2>3
       DEF Kept, WindowHeld, Progress, Inside, PrefixesSoFar, Prefixing,
           OverrunMeansPrefixes
<1>5. CASE ~(cip + 1 > Len(win))
  <2>1. pc' = "opcode" /\ cip' = cip /\ ins' = ins
    BY <1>5 DEF NextRound, Goto
  <2>2. QED
    BY <1>1, <1>2, <1>3, <1>5, <2>1
       DEF Kept, WindowHeld, Progress, Inside, PrefixesSoFar, Prefixing,
           OverrunMeansPrefixes
<1>6. QED
  BY <1>4, <1>5

LEMMA StepPeek == IInv /\ Peek => Kept'
<1> SUFFICES ASSUME IInv, Peek PROVE Kept'
  OBVIOUS
<1>1. pc = "peek" /\ win' = win /\ failed' = failed /\ Running
  BY DEF Peek, Running
<1>2. Typed /\ Len(win) \in Nat /\ Len(win) >= 2 /\ cip \in Nat /\ ins \in Ins
  BY <1>1, WindowFacts
<1>3. cip \in 1 .. Len(win) /\ ins.op # "UD_OVERRUN"
  BY <1>1, <1>2 DEF IInv, PrefixesSoFar, Progress, Inside
<1>4. PICK x \in AtCip : PeekWait(x) \/ PeekExtension(x)
  BY DEF Peek
<1>5. CASE PeekWait(x) /\ Waitable(x)
  <2>1. /\ ins' = [ins EXCEPT !.fwait = 1, !.lead = NoByte]
        /\ Goto("next", cip, << >>) /\ ins.lead = WaitOpcode
    BY <1>5 DEF PeekWait
  <2>2. ~failed /\ \A k \in 1 .. cip : win[k] \in PrefixBytes
    BY <1>1, <2>1 DEF IInv, PrefixesSoFar, Prefixing
  <2>3. ins'.op # "UD_OVERRUN"
    BY <1>2, <1>3, <2>1, InsOps
  <2>4. QED
    BY <1>1, <1>3, <2>1, <2>2, <2>3, ToNext
<1>6. CASE PeekWait(x) /\ ~Waitable(x)
  <2>1. Return([ins EXCEPT !.op = "OK"], cip)
    BY <1>6 DEF PeekWait
  <2>2. [ins EXCEPT !.op = "OK"] \in Ins /\ [ins EXCEPT !.op = "OK"].op # "UD_OVERRUN"
    <3>1. [ins EXCEPT !.op = "OK"] \in Ins
      BY <1>2, InsFields DEF Outcomes
    <3>2. [ins EXCEPT !.op = "OK"].op = "OK"
      BY <1>2, InsOps
    <3>3. QED
      BY <3>1, <3>2
  <2>3. QED
    BY <1>1, <1>3, <2>1, <2>2, ToCaller
<1>7. CASE PeekExtension(x)
  BY <1>1, <1>2, <1>3, <1>7, ToCaller, ToByte DEF PeekExtension
<1>8. QED
  BY <1>4, <1>5, <1>6, <1>7

(* The step back stays at one or more: behind an escape that was the last  *)
(* byte of the window, because the window has two.                         *)
LEMMA StepFetchFPU == IInv /\ FetchFPU => Kept'
<1> SUFFICES ASSUME IInv, FetchFPU PROVE Kept'
  OBVIOUS
<1> DEFINE i(x) == [ins EXCEPT !.fpu = x, !.op = FPUOutcome(ins.lead, x)]
<1>1. pc = "fpu" /\ win' = win /\ Running
  BY DEF FetchFPU, Fetch, Running
<1>2. Typed /\ Len(win) \in Nat /\ Len(win) >= 2 /\ cip \in Nat /\ ins \in Ins
  BY <1>1, WindowFacts
<1>3. cip \in 1 .. Len(win) /\ Width = 1
  BY <1>1, <1>2 DEF IInv, Progress, Inside, Width
<1>4. ReadNext \in 1 .. Len(win) /\ ReadNext - 1 \in 1 .. Len(win)
  BY <1>2, <1>3, Fetched DEF HasRoom, ReadNext
<1>5. PICK x \in ReadValue :
          IF FPUMemory(ins.lead, x)
          THEN ins' = i(x) /\ Goto("modrm", ReadNext - 1, << >>)
          ELSE Return(i(x), ReadNext)
  BY DEF FetchFPU
<1>6. x \in Byte
  BY <1>2, <1>3, Fetched DEF Typed
<1>7. i(x) \in Ins /\ i(x).op # "UD_OVERRUN"
  <2>1. FPUOutcome(ins.lead, x) \in Outcomes /\ FPUOutcome(ins.lead, x) # "UD_OVERRUN"
    BY FPUOutcomes DEF Decoded, Outcomes
  <2>2. i(x) \in Ins
    BY <1>2, <1>6, <2>1, InsFields
  <2>3. i(x).op = FPUOutcome(ins.lead, x)
    BY <1>2, InsOps
  <2>4. QED
    BY <2>1, <2>2, <2>3
<1> HIDE DEF i
<1>8. CASE FPUMemory(ins.lead, x)
  BY <1>1, <1>4, <1>5, <1>7, <1>8, ToByte
<1>9. CASE ~FPUMemory(ins.lead, x)
  BY <1>1, <1>4, <1>5, <1>7, <1>9, ToCaller
<1>10. QED
  BY <1>8, <1>9

LEMMA StepFetchModRM == IInv /\ FetchModRM => Kept'
<1> SUFFICES ASSUME IInv, FetchModRM PROVE Kept'
  OBVIOUS
<1> DEFINE op(m) == IF ins.lead \in FPUEscapes THEN ins.op ELSE GroupOutcome(ins.lead, m)
           ws(m) == Displacement(m) \o ImmAfterRM(ins.lead, m)
           i(m)  == [ins EXCEPT !.rm = m, !.op = op(m)]
<1>1. pc = "modrm" /\ win' = win /\ Running
  BY DEF FetchModRM, Fetch, Running
<1>2. Typed /\ Len(win) \in Nat /\ Len(win) >= 2 /\ cip \in Nat /\ ins \in Ins
  BY <1>1, WindowFacts
<1>3. cip \in 1 .. Len(win) /\ Width = 1 /\ ins.op # "UD_OVERRUN"
  BY <1>1, <1>2 DEF IInv, Progress, Inside, Width, PrefixesSoFar
<1>4. ReadNext \in 1 .. Len(win)
  BY <1>2, <1>3, Fetched DEF HasRoom, ReadNext
<1>5. PICK m \in ReadValue : Operands(i(m), ReadNext, ws(m))
  BY DEF FetchModRM
<1>6. m \in Byte
  BY <1>2, <1>3, Fetched DEF Typed
<1>7. op(m) \in Outcomes /\ op(m) # "UD_OVERRUN"
  BY <1>2, <1>3, <1>6, GroupOutcomes DEF Decoded, Outcomes, Ins
<1>8. ws(m) \in Widths
  BY <1>2, <1>6, OperandsAfterModRM DEF Ins
<1> HIDE DEF op, ws
<1>9. i(m) \in Ins /\ i(m).op # "UD_OVERRUN"
  <2>1. i(m) \in Ins
    BY <1>2, <1>6, <1>7, InsFields
  <2>2. i(m).op = op(m)
    BY <1>2, InsOps
  <2>3. QED
    BY <1>7, <2>1, <2>2
<1> HIDE DEF i
<1>10. QED
  BY <1>1, <1>4, <1>5, <1>8, <1>9, ToOperands

LEMMA StepFetchOperand == IInv /\ FetchOperand => Kept'
<1> SUFFICES ASSUME IInv, FetchOperand PROVE Kept'
  OBVIOUS
<1> DEFINE i(v) == [ins EXCEPT !.args = Append(@, v)]
<1>1. pc = "operand" /\ win' = win /\ Running
  BY DEF FetchOperand, Fetch, Running
<1>2. Typed /\ Len(win) \in Nat /\ Len(win) >= 2 /\ cip \in Nat /\ ins \in Ins
  BY <1>1, WindowFacts
<1>3. cip \in 1 .. Len(win) /\ ins.op # "UD_OVERRUN" /\ todo # << >>
  BY <1>1, <1>2 DEF IInv, Progress, Inside, PrefixesSoFar
<1>4. ReadNext \in 1 .. Len(win)
  BY <1>2, <1>3, Fetched DEF HasRoom, ReadNext, Typed
<1>5. PICK v \in ReadValue : Operands(i(v), ReadNext, Tail(todo))
  BY DEF FetchOperand
<1>6. v \in Nat /\ Tail(todo) \in Widths
  BY <1>2, <1>3, Fetched, HeadTailProperties DEF Typed, TypeOK, Widths
<1>7. i(v) \in Ins /\ i(v).op # "UD_OVERRUN"
  BY <1>2, <1>3, <1>6, InsFields, InsOps
<1> HIDE DEF i
<1>8. QED
  BY <1>1, <1>4, <1>5, <1>6, <1>7, ToOperands

-----------------------------------------------------------------------------
(* The core and its callers.                                               *)

LEMMA CoreKeeps == IInv /\ CoreStep => IInv'
<1> SUFFICES ASSUME IInv, CoreStep PROVE IInv'
  OBVIOUS
<1>1. Typed /\ Progress
  BY DEF IInv, Typed, Progress
<1>2. TypeOK'
  BY <1>1, TypeFetchOpcode, TypeNextRound, TypePeek, TypeFetchFPU,
     TypeFetchModRM, TypeFetchOperand DEF CoreStep, Typed
<1>3. Kept'
  BY StepFetchOpcode, StepNextRound, StepPeek, StepFetchFPU, StepFetchModRM,
     StepFetchOperand DEF CoreStep
<1>4. QED
  BY <1>2, <1>3 DEF Kept, IInv

(* fetch8 may lengthen the window; it is called only while a fetch waits.  *)
LEMMA GrowKeeps ==
    ASSUME IInv, tries > 0, tries' = tries - 1,
           UNCHANGED <<cip, pc, todo, ins, overruns, failed, unbacked>>,
           win' \in Seq(Bytes), Len(win) <= Len(win'), Len(win') <= WindowMax,
           \A k \in 1 .. Len(win) : win'[k] = win[k]
    PROVE  IInv'
<1>1. Len(win) \in Nat /\ Len(win') \in Nat /\ cip \in Nat /\ tries \in Nat
  BY LenProperties DEF IInv, TypeOK
<1>2. TypeOK' /\ pc # "done"
  BY <1>1 DEF IInv, TypeOK, Progress
<1>3. Kept'
  BY <1>1, <1>2
     DEF IInv, Kept, WindowHeld, Progress, Inside, PrefixesSoFar, Prefixing,
         OverrunMeansPrefixes
<1>4. QED
  BY <1>2, <1>3 DEF Kept, IInv

(* A caller enters the core with two bytes or more.                        *)
LEMMA EnterKeeps ==
    ASSUME Enter, win' \in Seq(Bytes), Len(win') >= 2, Len(win') <= WindowMax,
           overruns' \in 0 .. OverrunModulus - 1
    PROVE  IInv'
<1>1. /\ cip' = 0 /\ pc' = "opcode" /\ ~failed' /\ ins' = EmptyIns
      /\ todo' = << >> /\ tries' = 0 /\ failed' = FALSE /\ unbacked' = FALSE
  BY DEF Enter
<1>2. Len(win') \in Nat /\ ins'.op = "UD_NOP"
  BY <1>1, LenProperties DEF EmptyIns
<1>3. TypeOK'
  BY <1>1, EmptyInsType, WidthSequences DEF TypeOK, Labels, Widths
<1>4. Kept'
  BY <1>1, <1>2
     DEF Kept, WindowHeld, Progress, Inside, PrefixesSoFar, Prefixing,
         OverrunMeansPrefixes
<1>5. QED
  BY <1>3, <1>4 DEF Kept, IInv

LEMMA CoreInitKeeps == CoreInit /\ win = << >> => IInv
<1> SUFFICES ASSUME CoreInit, win = << >> PROVE IInv
  OBVIOUS
<1>1. win \in Seq(Bytes) /\ Len(win) = 0 /\ Len(win) <= WindowMax
  BY EmptySeq, WindowAssumption
<1>2. todo \in Seq({1, 2})
  BY WidthSequences DEF CoreInit, Widths
<1>3. 0 \in 0 .. OverrunModulus - 1
  BY OverrunAssumption
<1>4. TypeOK
  BY <1>1, <1>2, <1>3, EmptyInsType DEF CoreInit, TypeOK, Labels
<1>5. pc = "idle" /\ cip = 0 /\ ins.op = "UD_NOP"
  BY DEF CoreInit, EmptyIns
<1>6. QED
  BY <1>1, <1>4, <1>5
     DEF IInv, WindowHeld, Progress, Inside, PrefixesSoFar, Prefixing,
         OverrunMeansPrefixes

(* What IInv says to a caller.                                             *)
LEMMA IInvMeaning ==
    IInv => TypeOK /\ ConsumesWindow /\ OpcodeInWindow /\ OverrunMeansPrefixes
  BY LenProperties
     DEF IInv, TypeOK, Progress, ConsumesWindow, OpcodeInWindow, HasRoom, Width

-----------------------------------------------------------------------------
(* The flat decode, as far as the core has come with it.                   *)

Extension(s) ==
    /\ s \in Seq(Byte) /\ Len(win) <= Len(s)
    /\ \A k \in 1 .. Len(win) : s[k] = win[k]

(* The first n bytes of s are prefixes and i holds what they put there.    *)
Put(s, n, i) ==
    /\ \A k \in 1 .. n : PrefixAt(s, k)
    /\ \E b \in Byte \cup {NoByte} :
          /\ Latest(s, n, SegOverrides, b)
          /\ i.segment = IF b = NoByte THEN NoSegment ELSE SegmentOf(b)
    /\ \E b \in Byte \cup {NoByte} :
          /\ Latest(s, n, RepPrefixes, b)
          /\ i.rep = IF b = NoByte THEN 0 ELSE RepOf(b)
    /\ i.lock = IF \E k \in 1 .. n : s[k] \in LockPrefixes THEN 1 ELSE 0
    /\ i.fwait = IF \E k \in 1 .. n : s[k] \in {WaitOpcode} THEN 1 ELSE 0

FieldsRead(i, o, l, f, m) ==
    /\ i.op = o /\ i.lead = l /\ i.fpu = f /\ i.rm = m
    /\ i.args = << >> /\ i.len = 0

(* The opcode at position c - 1 and what is known of the byte at c.        *)
BeforeModRM(s, c, i) ==
    \/ s[c] \in ModRMOpcodes /\ FieldsRead(i, "UD_NOP", s[c], NoByte, NoByte)
    \/ /\ s[c] \in PeekOpcodes /\ c < Len(s) /\ ~IsExtension(s[c + 1])
       /\ FieldsRead(i, "UD_NOP", s[c], NoByte, NoByte)
    \/ /\ s[c] \in FPUEscapes /\ c < Len(s) /\ FPUMemory(s[c], s[c + 1])
       /\ FieldsRead(i, FPUOutcome(s[c], s[c + 1]), s[c], s[c + 1], NoByte)

(* How far the decode of s has come.                                       *)
Follows(s) ==
    /\ pc \in {"opcode", "next"} =>
          Put(s, cip, ins) /\ FieldsRead(ins, "UD_NOP", NoByte, NoByte, NoByte)
    /\ pc = "peek" =>
          /\ Put(s, cip - 1, ins) /\ FieldsRead(ins, "UD_NOP", s[cip], NoByte, NoByte)
          /\ s[cip] \in PeekOpcodes \cup {WaitOpcode}
    /\ pc = "fpu" =>
          /\ Put(s, cip - 1, ins) /\ FieldsRead(ins, "UD_NOP", s[cip], NoByte, NoByte)
          /\ s[cip] \in FPUEscapes
    /\ pc = "modrm" => Put(s, cip - 1, ins) /\ BeforeModRM(s, cip, ins)
    /\ pc = "operand" =>
          \/ /\ ins = Decoding(s, << >>, 0)
             /\ todo = WidthsOf(s) /\ cip = OperandsAt(s)
          \/ /\ Len(WidthsOf(s)) = 2
             /\ ins = Decoding(s, <<FirstOperand(s)>>, 0)
             /\ todo = <<WidthsOf(s)[2]>> /\ cip = OperandsAt(s) + WidthsOf(s)[1]
    /\ pc = "done" /\ ins.op # "UD_OVERRUN" => ins = FlatDecode(s)

FlatIInv ==
    /\ IInv
    /\ ~failed /\ ~unbacked => \A s \in Seq(Byte) : Extension(s) => Follows(s)

LEMMA PutNone == ASSUME NEW s PROVE Put(s, 0, EmptyIns)
<1>1. \A kind : Latest(s, 0, kind, NoByte)
  BY DEF Latest
<1>2. QED
  BY <1>1 DEF Put, EmptyIns

LEMMA PutSegment ==
    ASSUME NEW s \in Seq(Byte), NEW n \in Nat, n < Len(s), NEW i \in Ins, Put(s, n, i),
           s[n + 1] \in SegOverrides
    PROVE  Put(s, n + 1, [i EXCEPT !.segment = SegmentOf(s[n + 1])])
<1> DEFINE j == [i EXCEPT !.segment = SegmentOf(s[n + 1])]
<1>1. /\ j.segment = SegmentOf(s[n + 1]) /\ j.rep = i.rep /\ j.lock = i.lock
      /\ j.fwait = i.fwait
  BY DEF Ins
<1> HIDE DEF j
<1>2. s[n + 1] \in Byte /\ s[n + 1] # NoByte
  BY NextByte
<1>3. \A k \in 1 .. n + 1 : k \in 1 .. n \/ k = n + 1
  OBVIOUS
<1>4. \A k \in 1 .. n : k \in 1 .. n + 1
  OBVIOUS
<1>5. \A k \in 1 .. n + 1 : PrefixAt(s, k)
  BY <1>3 DEF Put, PrefixAt
<1>6. /\ Latest(s, n + 1, SegOverrides, s[n + 1])
      /\ \A b : Latest(s, n, RepPrefixes, b) => Latest(s, n + 1, RepPrefixes, b)
  BY LatestOn, Kinds
<1>7. s[n + 1] \notin LockPrefixes /\ s[n + 1] \notin {WaitOpcode}
  BY Kinds
<1>8. Put(s, n + 1, j)
  BY <1>1, <1>2, <1>3, <1>4, <1>5, <1>6, <1>7 DEF Put
<1>9. QED
  BY <1>8 DEF j

LEMMA PutRep ==
    ASSUME NEW s \in Seq(Byte), NEW n \in Nat, n < Len(s), NEW i \in Ins, Put(s, n, i),
           s[n + 1] \in RepPrefixes
    PROVE  Put(s, n + 1, [i EXCEPT !.rep = RepOf(s[n + 1])])
<1> DEFINE j == [i EXCEPT !.rep = RepOf(s[n + 1])]
<1>1. /\ j.segment = i.segment /\ j.rep = RepOf(s[n + 1]) /\ j.lock = i.lock
      /\ j.fwait = i.fwait
  BY DEF Ins
<1> HIDE DEF j
<1>2. s[n + 1] \in Byte /\ s[n + 1] # NoByte
  BY NextByte
<1>3. \A k \in 1 .. n + 1 : k \in 1 .. n \/ k = n + 1
  OBVIOUS
<1>4. \A k \in 1 .. n : k \in 1 .. n + 1
  OBVIOUS
<1>5. \A k \in 1 .. n + 1 : PrefixAt(s, k)
  BY <1>3 DEF Put, PrefixAt
<1>6. /\ Latest(s, n + 1, RepPrefixes, s[n + 1])
      /\ \A b : Latest(s, n, SegOverrides, b) => Latest(s, n + 1, SegOverrides, b)
  BY LatestOn, Kinds
<1>7. s[n + 1] \notin LockPrefixes /\ s[n + 1] \notin {WaitOpcode}
  BY Kinds
<1>8. Put(s, n + 1, j)
  BY <1>1, <1>2, <1>3, <1>4, <1>5, <1>6, <1>7 DEF Put
<1>9. QED
  BY <1>8 DEF j

LEMMA PutFlag ==
    ASSUME NEW s \in Seq(Byte), NEW n \in Nat, n < Len(s), NEW i \in Ins, Put(s, n, i),
           NEW j, j.segment = i.segment, j.rep = i.rep,
           \/ s[n + 1] \in LockPrefixes /\ j.lock = 1 /\ j.fwait = i.fwait
           \/ s[n + 1] = WaitOpcode /\ PrefixAt(s, n + 1) /\ j.fwait = 1 /\ j.lock = i.lock
    PROVE  Put(s, n + 1, j)
<1>3. \A k \in 1 .. n + 1 : k \in 1 .. n \/ k = n + 1
  OBVIOUS
<1>4. (\A k \in 1 .. n : k \in 1 .. n + 1) /\ n + 1 \in 1 .. n + 1
  OBVIOUS
<1>5. \A k \in 1 .. n + 1 : PrefixAt(s, k)
  BY <1>3 DEF Put, PrefixAt
<1>6. /\ \A b : Latest(s, n, RepPrefixes, b) => Latest(s, n + 1, RepPrefixes, b)
      /\ \A b : Latest(s, n, SegOverrides, b) => Latest(s, n + 1, SegOverrides, b)
  BY LatestOn, Kinds
<1>7. CASE s[n + 1] \in LockPrefixes /\ j.lock = 1 /\ j.fwait = i.fwait
  BY <1>3, <1>4, <1>5, <1>6, <1>7, Kinds DEF Put
<1>8. CASE s[n + 1] = WaitOpcode /\ PrefixAt(s, n + 1) /\ j.fwait = 1 /\ j.lock = i.lock
  BY <1>3, <1>4, <1>5, <1>6, <1>8, Kinds DEF Put
<1>9. QED
  BY <1>7, <1>8

(* Behind the last prefix the fields of the instruction are those of the   *)
(* flat decode once they are those its opcode calls for.                   *)
LEMMA Settled ==
    ASSUME NEW s \in Seq(Byte), NEW n \in Nat, n < Len(s), ~PrefixAt(s, n + 1),
           NEW i \in Ins, Put(s, n, i), NEW x,
           x = IF n + 2 <= Len(s) THEN s[n + 2] ELSE NoByte,
           i.op = OutcomeOf(s[n + 1], x), i.lead = s[n + 1],
           i.fpu = IF s[n + 1] \in FPUEscapes THEN x ELSE NoByte,
           i.rm = IF TakesModRM(s[n + 1], x) THEN x ELSE NoByte,
           i.args = << >>, i.len = 0
    PROVE  /\ i = Decoding(s, << >>, 0)
           /\ PrefixLength(s) = n /\ Opcode(s) = s[n + 1] /\ Second(s) = x
<1>1. PrefixLength(s) = n
  BY PrefixLengthIs DEF Put
<1>2. Opcode(s) = s[n + 1] /\ Second(s) = x
  BY <1>1 DEF Opcode, Second
<1>3. i.segment = SegmentPut(s)
  BY <1>1, LatestIs DEF Put, SegmentPut
<1>4. i.rep = RepPut(s)
  BY <1>1, LatestIs DEF Put, RepPut
<1>5. i.lock = Seen(s, LockPrefixes) /\ i.fwait = Seen(s, {WaitOpcode})
  BY <1>1 DEF Put, Seen
<1>6. i = [op |-> i.op, lead |-> i.lead, fpu |-> i.fpu, rm |-> i.rm, args |-> i.args,
           segment |-> i.segment, rep |-> i.rep, lock |-> i.lock, fwait |-> i.fwait,
           len |-> i.len]
  BY DEF Ins
<1>7. QED
  BY <1>1, <1>2, <1>3, <1>4, <1>5, <1>6 DEF Decoding

-----------------------------------------------------------------------------
(* The steps of the core.                                                  *)

LEMMA SuccessfulFetch ==
    ASSUME IInv, NEW p, Fetch(p), ~failed', NEW s, Extension(s)
    PROVE  /\ pc = p /\ win' = win /\ ~failed /\ unbacked' = unbacked
           /\ s \in Seq(Byte) /\ cip \in Nat /\ Len(s) \in Nat /\ ins \in Ins
           /\ Width \in {1, 2} /\ cip + Width <= Len(s)
           /\ ReadNext = cip + Width /\ ReadValue = {ValueAt(s, cip, Width)}
<1>1. HasRoom /\ ~failed /\ pc = p /\ win' = win /\ unbacked' = unbacked
  BY DEF Fetch, CountOverrun
<1>2. /\ s \in Seq(Byte) /\ cip \in Nat /\ Len(s) \in Nat /\ Len(win) \in Nat
      /\ Len(win) <= Len(s) /\ \A k \in 1 .. Len(win) : s[k] = win[k] /\ ins \in Ins
  BY LenProperties DEF Extension, IInv, TypeOK
<1>3. Width \in {1, 2}
  BY Fetched DEF IInv, TypeOK, Progress
<1>4. cip + Width <= Len(win)
  BY <1>1 DEF HasRoom
<1>5. ReadNext = cip + Width /\ ReadValue = {ValueAt(win, cip, Width)}
  BY <1>1 DEF ReadNext, ReadValue
<1>6. ValueAt(win, cip, Width) = ValueAt(s, cip, Width)
  <2>1. s[cip + 1] = win[cip + 1] /\ (Width = 2 => s[cip + 2] = win[cip + 2])
    BY <1>2, <1>3, <1>4
  <2>2. QED
    BY <1>3, <2>1 DEF ValueAt
<1>7. QED
  BY <1>1, <1>2, <1>3, <1>4, <1>5, <1>6

LEMMA FetchedByte ==
    ASSUME IInv, NEW p \in {"opcode", "fpu", "modrm"}, Fetch(p), ~failed', NEW s, Extension(s)
    PROVE  /\ pc = p /\ win' = win /\ ~failed /\ unbacked' = unbacked
           /\ s \in Seq(Byte) /\ cip \in Nat /\ Len(s) \in Nat /\ ins \in Ins
           /\ cip < Len(s) /\ ReadNext = cip + 1 /\ ReadValue = {s[cip + 1]}
<1>1. pc = p /\ Width = 1
  BY DEF Fetch, Width
<1>2. \A c : ValueAt(s, c, 1) = s[c + 1]
  BY DEF ValueAt
<1>3. QED
  BY <1>1, <1>2, SuccessfulFetch

LEMMA Returned8086 ==
    ASSUME NEW s, NEW args, NEW at, Return(Decoding(s, args, 0), at)
    PROVE  pc' = "done" /\ ins' = Decoding(s, args, Length(s, at))
  BY DEF Return, Decoding, Length

(* The opcode and the byte that goes with it have been read.               *)
LEMMA Settles ==
    ASSUME NEW s, OperandsAt(s) \in Nat,
           Operands(Decoding(s, << >>, 0), OperandsAt(s), WidthsOf(s))
    PROVE  Follows(s)'
<1>1. CASE WidthsOf(s) = << >>
  <2>1. pc' = "done" /\ ins' = Decoding(s, << >>, Length(s, OperandsAt(s)))
    BY <1>1, Returned8086 DEF Operands
  <2>2. QED
    BY <1>1, <2>1, FlatOfNone DEF Follows
<1>2. CASE WidthsOf(s) # << >>
  <2>1. /\ pc' = "operand" /\ ins' = Decoding(s, << >>, 0)
        /\ todo' = WidthsOf(s) /\ cip' = OperandsAt(s)
    BY <1>2 DEF Operands, Goto
  <2>2. QED
    BY <2>1 DEF Follows
<1>3. QED
  BY <1>1, <1>2

WithOperand(i, v) == [i EXCEPT !.args = Append(@, v)]

LEMMA DecodingOn ==
    ASSUME NEW s, NEW args, NEW v
    PROVE  WithOperand(Decoding(s, args, 0), v) = Decoding(s, Append(args, v), 0)
  BY DEF Decoding, WithOperand

LEMMA FollowFetchOperand ==
    ASSUME IInv, NEW s, Extension(s), Follows(s), FetchOperand, ~failed'
    PROVE  Follows(s)'
<1> DEFINE w == WidthsOf(s)
           o == OperandsAt(s)
<1>1. /\ pc = "operand" /\ cip \in Nat
      /\ ReadNext = cip + Width /\ ReadValue = {ValueAt(s, cip, Width)}
      /\ Width = Head(todo)
  BY SuccessfulFetch DEF FetchOperand, Width
<1>2. Operands(WithOperand(ins, ValueAt(s, cip, Head(todo))),
               cip + Head(todo), Tail(todo))
  BY <1>1 DEF FetchOperand, WithOperand
<1>3. w \in Widths /\ Len(w) \in 0 .. 2
  BY WidthsAre DEF WidthsOf
<1>4. todo # << >> /\ todo \in Widths
  BY <1>1 DEF IInv, TypeOK, Progress, Widths
<1>5. CASE ins = Decoding(s, << >>, 0) /\ todo = w /\ cip = o
  <2>1. Head(w) = w[1] /\ w[1] \in {1, 2} /\ Len(w) \in 1 .. 2
    BY <1>3, <1>4, <1>5, LenProperties, HeadTailProperties, EmptySeq DEF Widths
  <2>2. Operands(Decoding(s, <<FirstOperand(s)>>, 0), o + w[1], Tail(w))
    <3>1. Append(<< >>, FirstOperand(s)) = <<FirstOperand(s)>>
      OBVIOUS
    <3>2. ValueAt(s, cip, Head(todo)) = FirstOperand(s)
      BY <1>5, <2>1 DEF FirstOperand
    <3>3. WithOperand(ins, FirstOperand(s)) = Decoding(s, <<FirstOperand(s)>>, 0)
      <4>1. WithOperand(Decoding(s, << >>, 0), FirstOperand(s))
              = Decoding(s, Append(<< >>, FirstOperand(s)), 0)
        BY DecodingOn
      <4>2. QED
        BY <1>5, <3>1, <4>1, Zenon
    <3>4. QED
      BY <1>2, <1>5, <2>1, <3>2, <3>3
  <2>3. CASE Len(w) = 1
    <3>1. Tail(w) = << >>
      BY <1>3, <2>3, Tails
    <3>2. pc' = "done" /\ ins' = Decoding(s, <<FirstOperand(s)>>, Length(s, o + w[1]))
      BY <2>2, <3>1, Returned8086 DEF Operands
    <3>3. QED
      BY <1>3, <2>3, <3>2, FlatOfOne DEF Follows
  <2>4. CASE Len(w) = 2
    <3>1. Tail(w) = <<w[2]>> /\ <<w[2]>> # << >>
      BY <1>3, <2>4, Tails
    <3>2. /\ pc' = "operand" /\ ins' = Decoding(s, <<FirstOperand(s)>>, 0)
          /\ todo' = <<w[2]>> /\ cip' = o + w[1]
      BY <2>2, <3>1 DEF Operands, Goto
    <3>3. QED
      BY <2>4, <3>2 DEF Follows
  <2>5. QED
    BY <2>1, <2>3, <2>4
<1>6. CASE /\ Len(w) = 2 /\ ins = Decoding(s, <<FirstOperand(s)>>, 0)
           /\ todo = <<w[2]>> /\ cip = o + w[1]
  <2> DEFINE v == ValueAt(s, o + w[1], w[2])
  <2>1. Head(todo) = w[2] /\ Tail(todo) = << >>
    BY <1>6
  <2>2. WithOperand(ins, v) = Decoding(s, <<FirstOperand(s), v>>, 0)
    <3>1. Append(<<FirstOperand(s)>>, v) = <<FirstOperand(s), v>>
      BY Appended
    <3>2. WithOperand(Decoding(s, <<FirstOperand(s)>>, 0), v)
            = Decoding(s, Append(<<FirstOperand(s)>>, v), 0)
      BY DecodingOn
    <3>3. QED
      BY <1>6, <3>1, <3>2, Zenon
  <2>3. Return(Decoding(s, <<FirstOperand(s), v>>, 0), o + w[1] + w[2])
    BY <1>2, <1>6, <2>1, <2>2 DEF Operands
  <2>4. /\ pc' = "done"
        /\ ins' = Decoding(s, <<FirstOperand(s), v>>, Length(s, o + w[1] + w[2]))
    BY <2>3, Returned8086
  <2>5. QED
    BY <1>3, <1>6, <2>4, FlatOfTwo DEF Follows
<1>7. QED
  BY <1>1, <1>5, <1>6 DEF Follows

LEMMA PutSame ==
    ASSUME NEW s, NEW n, NEW i, Put(s, n, i), NEW j,
           j.segment = i.segment, j.rep = i.rep, j.lock = i.lock, j.fwait = i.fwait
    PROVE  Put(s, n, j)
  BY DEF Put

(* The same from the caller's position at, which OperandsAt finds again.   *)
LEMMA SettledAt ==
    ASSUME NEW s \in Seq(Byte), NEW n \in Nat, n < Len(s), ~PrefixAt(s, n + 1),
           NEW i \in Ins, Put(s, n, i), NEW x,
           x = IF n + 2 <= Len(s) THEN s[n + 2] ELSE NoByte,
           i.op = OutcomeOf(s[n + 1], x), i.lead = s[n + 1],
           i.fpu = IF s[n + 1] \in FPUEscapes THEN x ELSE NoByte,
           i.rm = IF TakesModRM(s[n + 1], x) THEN x ELSE NoByte,
           i.args = << >>, i.len = 0,
           NEW at,
           at = IF \/ s[n + 1] \in FPUEscapes
                   \/ n + 2 <= Len(s) /\ TakesModRM(s[n + 1], s[n + 2])
                THEN n + 2 ELSE n + 1,
           Operands(i, at, OperandWidths(s[n + 1], x))
    PROVE  Follows(s)'
<1>1. /\ i = Decoding(s, << >>, 0)
      /\ PrefixLength(s) = n /\ Opcode(s) = s[n + 1] /\ Second(s) = x
  BY Settled
<1>2. OperandsAt(s) = at /\ at \in Nat
  BY <1>1 DEF OperandsAt
<1>3. WidthsOf(s) = OperandWidths(s[n + 1], x)
  BY <1>1 DEF WidthsOf
<1>4. Operands(Decoding(s, << >>, 0), OperandsAt(s), WidthsOf(s))
  BY <1>1, <1>2, <1>3
<1>5. QED
  BY <1>2, <1>4, Settles

LEMMA NoPrefix ==
    ASSUME NEW s, NEW n, s[n] \notin PrefixBytes
    PROVE  ~PrefixAt(s, n)
  BY DEF PrefixAt, PrefixBytes

LEMMA FollowFetchModRM ==
    ASSUME IInv, NEW s, Extension(s), Follows(s), FetchModRM, ~failed'
    PROVE  Follows(s)'
<1> DEFINE b == s[cip]
           m == s[cip + 1]
           n == cip - 1
           o == IF ins.lead \in FPUEscapes THEN ins.op ELSE GroupOutcome(ins.lead, m)
           i == [ins EXCEPT !.rm = m, !.op = o]
<1>1. /\ pc = "modrm" /\ s \in Seq(Byte) /\ cip \in Nat /\ Len(s) \in Nat /\ ins \in Ins
      /\ cip < Len(s) /\ ReadNext = cip + 1 /\ ReadValue = {m}
  BY FetchedByte DEF FetchModRM
<1>2. cip >= 1 /\ n \in Nat /\ n + 1 = cip /\ n + 2 = cip + 1 /\ n + 2 <= Len(s)
  BY <1>1 DEF IInv, Progress, Inside
<1>3. Put(s, n, ins) /\ BeforeModRM(s, cip, ins)
  BY <1>1 DEF Follows
<1>4. Operands(i, cip + 1, Displacement(m) \o ImmAfterRM(ins.lead, m))
  BY <1>1 DEF FetchModRM
<1>5. m \in Byte
  BY <1>1, NextByte
<1>6. /\ ins.lead = b /\ ins.args = << >> /\ ins.len = 0
      /\ ins.fpu = IF b \in FPUEscapes THEN m ELSE NoByte
      /\ b \notin PrefixBytes /\ TakesModRM(b, m)
  BY <1>3, Kinds DEF BeforeModRM, FieldsRead, TakesModRM
<1>7. o = OutcomeOf(b, m)
  <2>1. CASE b \in FPUEscapes
    BY <1>3, <1>6, <2>1, Kinds DEF BeforeModRM, FieldsRead, OutcomeOf
  <2>2. CASE b \notin FPUEscapes
    <3>1. o = GroupOutcome(b, m)
      BY <1>6, <2>2
    <3>2. b \in ModRMOpcodes \/ (b \in PeekOpcodes /\ ~IsExtension(m))
      BY <1>3, <2>2 DEF BeforeModRM
    <3>3. OutcomeOf(b, m) = GroupOutcome(b, m)
      BY <3>2, Kinds DEF OutcomeOf
    <3>4. QED
      BY <3>1, <3>3
  <2>3. QED
    BY <2>1, <2>2
<1>8. o \in Outcomes
  BY <1>1, <1>5, GroupOutcomes DEF Ins, Decoded, Outcomes
<1> HIDE DEF o, m, b, n
<1>9. /\ i \in Ins /\ i.rm = m /\ i.op = o /\ i.lead = ins.lead /\ i.fpu = ins.fpu
      /\ i.args = ins.args /\ i.len = ins.len
      /\ i.segment = ins.segment /\ i.rep = ins.rep /\ i.lock = ins.lock
      /\ i.fwait = ins.fwait
  BY <1>1, <1>5, <1>8 DEF Ins
<1> HIDE DEF i
<1>10. Put(s, n, i)
  BY <1>3, <1>9, PutSame
<1>11. Displacement(m) \o ImmAfterRM(ins.lead, m) = OperandWidths(b, m)
  BY <1>6 DEF OperandWidths
<1>12. b = s[n + 1] /\ m = s[n + 2] /\ ~PrefixAt(s, n + 1)
  BY <1>2, <1>6, NoPrefix DEF b, m
<1>13. n < Len(s)
  BY <1>1, <1>2
<1>14. QED
  BY <1>1, <1>2, <1>4, <1>6, <1>7, <1>9, <1>10, <1>11, <1>12, <1>13, SettledAt

LEMMA FollowFetchFPU ==
    ASSUME IInv, NEW s, Extension(s), Follows(s), FetchFPU, ~failed'
    PROVE  Follows(s)'
<1> DEFINE b == s[cip]
           x == s[cip + 1]
           n == cip - 1
           i == [ins EXCEPT !.fpu = x, !.op = FPUOutcome(ins.lead, x)]
<1>1. /\ pc = "fpu" /\ s \in Seq(Byte) /\ cip \in Nat /\ Len(s) \in Nat /\ ins \in Ins
      /\ cip < Len(s) /\ ReadNext = cip + 1 /\ ReadValue = {x}
  BY FetchedByte DEF FetchFPU
<1>2. cip >= 1 /\ n \in Nat /\ n + 1 = cip /\ n + 2 = cip + 1 /\ n + 2 <= Len(s)
  BY <1>1 DEF IInv, Progress, Inside
<1>3. Put(s, n, ins) /\ FieldsRead(ins, "UD_NOP", b, NoByte, NoByte) /\ b \in FPUEscapes
  BY <1>1 DEF Follows
<1>4. IF FPUMemory(ins.lead, x)
      THEN ins' = i /\ Goto("modrm", ReadNext - 1, << >>)
      ELSE Return(i, ReadNext)
  BY <1>1 DEF FetchFPU
<1>5. x \in Byte
  BY <1>1, NextByte
<1>6. FPUOutcome(ins.lead, x) \in Outcomes
  BY FPUOutcomes DEF Decoded, Outcomes
<1>7. OutcomeOf(b, x) = FPUOutcome(b, x)
  BY <1>3, Kinds DEF OutcomeOf
<1> HIDE DEF x, b, n
<1>8. /\ i \in Ins /\ i.rm = ins.rm /\ i.op = FPUOutcome(ins.lead, x) /\ i.lead = ins.lead
      /\ i.fpu = x /\ i.args = ins.args /\ i.len = ins.len
      /\ i.segment = ins.segment /\ i.rep = ins.rep /\ i.lock = ins.lock
      /\ i.fwait = ins.fwait
  BY <1>1, <1>5, <1>6 DEF Ins
<1> HIDE DEF i
<1>9. Put(s, n, i)
  BY <1>3, <1>8, PutSame
<1>10. b = s[n + 1] /\ x = s[n + 2] /\ n < Len(s) /\ b = s[cip] /\ x = s[cip + 1]
  BY <1>1, <1>2 DEF b, x
<1>11. CASE FPUMemory(ins.lead, x)
  <2>1. pc' = "modrm" /\ cip' = cip /\ ins' = i
    BY <1>1, <1>4, <1>11 DEF Goto
  <2>2. BeforeModRM(s, cip, i)
    BY <1>1, <1>3, <1>8, <1>10, <1>11 DEF BeforeModRM, FieldsRead
  <2>3. Put(s, cip - 1, i)
    BY <1>9 DEF n
  <2>4. QED
    BY <2>1, <2>2, <2>3 DEF Follows
<1>12. CASE ~FPUMemory(ins.lead, x)
  <2>1. ~TakesModRM(b, x)
    BY <1>3, <1>12, Kinds DEF FieldsRead, TakesModRM
  <2>2. OperandWidths(b, x) = << >>
    BY <1>3, <2>1 DEF OperandWidths
  <2>3. Operands(i, n + 2, << >>)
    BY <1>1, <1>2, <1>4, <1>12 DEF Operands
  <2>4. ~PrefixAt(s, n + 1)
    BY <1>3, <1>10, Kinds, NoPrefix
  <2>5. /\ i.op = OutcomeOf(b, x) /\ i.lead = b /\ i.fpu = x /\ i.rm = NoByte
        /\ i.args = << >> /\ i.len = 0
    BY <1>3, <1>7, <1>8 DEF FieldsRead
  <2>6. QED
    BY <1>1, <1>2, <1>3, <1>8, <1>9, <1>10, <2>1, <2>2, <2>3, <2>4, <2>5, SettledAt
<1>13. QED
  BY <1>11, <1>12

LEMMA FollowPeek ==
    ASSUME IInv, NEW s, Extension(s), Follows(s), Peek, ~unbacked'
    PROVE  Follows(s)'
<1> DEFINE b == s[cip]
           x == s[cip + 1]
           n == cip - 1
<1>1. /\ pc = "peek" /\ cip < Len(win) /\ AtCip = {win[cip + 1]}
  <2>1. cip \in Nat /\ Len(win) \in Nat
    BY LenProperties DEF IInv, TypeOK
  <2>2. pc = "peek" /\ unbacked' = (unbacked \/ cip >= Len(win))
    BY DEF Peek
  <2>3. ~(cip >= Len(win))
    BY <2>2, Zenon
  <2>4. cip < Len(win)
    BY <2>1, <2>3
  <2>5. QED
    BY <2>2, <2>4 DEF AtCip
<1>2. /\ s \in Seq(Byte) /\ Len(s) \in Nat /\ Len(win) \in Nat /\ Len(win) <= Len(s)
      /\ ins \in Ins /\ cip \in Nat /\ cip >= 1
      /\ \A k \in 1 .. Len(win) : s[k] = win[k]
  BY <1>1, LenProperties DEF Extension, IInv, TypeOK, Progress, Inside
<1>3. AtCip = {x} /\ cip < Len(s)
  BY <1>1, <1>2
<1>4. n \in Nat /\ n + 1 = cip /\ n + 2 = cip + 1 /\ n + 2 <= Len(s) /\ n < Len(s)
  BY <1>2, <1>3
<1>5. /\ Put(s, n, ins) /\ FieldsRead(ins, "UD_NOP", b, NoByte, NoByte)
      /\ b \in PeekOpcodes \cup {WaitOpcode}
  BY <1>1 DEF Follows
<1>6. PeekWait(x) \/ PeekExtension(x)
  BY <1>3 DEF Peek
<1> HIDE DEF x, b, n
<1>7. b = s[n + 1] /\ x = s[n + 2] /\ b = s[cip] /\ x = s[cip + 1]
  BY <1>4 DEF b, x
<1>8. CASE PeekWait(x) /\ Waitable(x)
  <2> DEFINE j == [ins EXCEPT !.fwait = 1, !.lead = NoByte]
  <2>1. pc' = "next" /\ cip' = cip /\ ins' = j /\ b = WaitOpcode
    BY <1>5, <1>8 DEF PeekWait, Goto, FieldsRead
  <2>2. /\ j.fwait = 1 /\ j.lead = NoByte /\ j.op = ins.op /\ j.fpu = ins.fpu /\ j.rm = ins.rm
        /\ j.args = ins.args /\ j.len = ins.len
        /\ j.segment = ins.segment /\ j.rep = ins.rep /\ j.lock = ins.lock
    BY <1>2 DEF Ins
  <2> HIDE DEF j
  <2>3. PrefixAt(s, n + 1)
    BY <1>4, <1>7, <1>8, <2>1 DEF PrefixAt
  <2>4. Put(s, n + 1, j)
    BY <1>2, <1>4, <1>5, <1>7, <2>1, <2>2, <2>3, PutFlag
  <2>5. FieldsRead(j, "UD_NOP", NoByte, NoByte, NoByte)
    BY <1>5, <2>2 DEF FieldsRead
  <2>6. QED
    BY <1>4, <2>1, <2>4, <2>5 DEF Follows
<1>9. CASE PeekWait(x) /\ ~Waitable(x)
  <2> DEFINE j == [ins EXCEPT !.op = "OK"]
  <2>1. Return(j, cip) /\ b = WaitOpcode
    BY <1>5, <1>9 DEF PeekWait, FieldsRead
  <2>2. /\ j \in Ins
        /\ j.fwait = ins.fwait /\ j.lead = ins.lead /\ j.op = "OK" /\ j.fpu = ins.fpu
        /\ j.rm = ins.rm /\ j.args = ins.args /\ j.len = ins.len
        /\ j.segment = ins.segment /\ j.rep = ins.rep /\ j.lock = ins.lock
    BY <1>2 DEF Ins, Outcomes
  <2> HIDE DEF j
  <2>3. ~PrefixAt(s, n + 1)
    BY <1>4, <1>7, <1>9, <2>1, Kinds DEF PrefixAt
  <2>4. Put(s, n, j)
    BY <1>5, <2>2, PutSame
  <2>5. b \notin PeekOpcodes \cup ModRMOpcodes \cup FPUEscapes \cup Absent
    BY <2>1, Kinds
  <2>6. ~TakesModRM(b, x) /\ OutcomeOf(b, x) = "OK"
    BY <2>5 DEF TakesModRM, OutcomeOf
  <2>7. OperandWidths(b, x) = << >>
    <3>1. Immediates(WaitOpcode) = << >>
      BY DEF Immediates, ImmRows8toB, WaitOpcode
    <3>2. QED
      BY <2>1, <2>5, <2>6, <3>1 DEF OperandWidths
  <2>8. Operands(j, n + 1, << >>)
    BY <1>4, <2>1 DEF Operands
  <2>9. /\ j.op = OutcomeOf(b, x) /\ j.lead = b /\ j.fpu = NoByte /\ j.rm = NoByte
        /\ j.args = << >> /\ j.len = 0
    BY <1>5, <2>2, <2>6 DEF FieldsRead
  <2>10. QED
    BY <1>2, <1>4, <1>7, <2>2, <2>3, <2>4, <2>5, <2>6, <2>7, <2>8, <2>9, SettledAt
<1>10. CASE PeekExtension(x)
  <2>1. /\ b \in PeekOpcodes
        /\ b \notin PrefixBytes \cup ModRMOpcodes \cup FPUEscapes \cup Absent
    BY <1>5, <1>10, Kinds DEF PeekExtension, FieldsRead
  <2>2. CASE IsExtension(x)
    <3>1. Operands(ins, n + 1, << >>)
      BY <1>4, <1>10, <2>2 DEF PeekExtension, Operands
    <3>2. ~PrefixAt(s, n + 1)
      BY <1>7, <2>1, NoPrefix
    <3>3. ~TakesModRM(b, x) /\ OutcomeOf(b, x) = "UD_NOP"
      <4>1. ~TakesModRM(b, x)
        BY <2>1, <2>2 DEF TakesModRM
      <4>2. OutcomeOf(b, x) = "UD_NOP"
        <5>1. b \notin Absent /\ b \notin FPUEscapes
          BY <2>1
        <5>2. QED
          BY <2>1, <2>2, <5>1, Zenon DEF OutcomeOf
      <4>3. QED
        BY <4>1, <4>2
    <3>4. OperandWidths(b, x) = << >>
      BY <2>1, <3>3 DEF OperandWidths
    <3>5. /\ ins.op = OutcomeOf(b, x) /\ ins.lead = b /\ ins.fpu = NoByte /\ ins.rm = NoByte
          /\ ins.args = << >> /\ ins.len = 0
      BY <1>5, <3>3 DEF FieldsRead
    <3>6. QED
      BY <1>2, <1>4, <1>5, <1>7, <2>1, <3>1, <3>2, <3>3, <3>4, <3>5, SettledAt
  <2>3. CASE ~IsExtension(x)
    <3>1. pc' = "modrm" /\ cip' = cip /\ ins' = ins
      BY <1>10, <2>3 DEF PeekExtension, Goto
    <3>2. BeforeModRM(s, cip, ins)
      BY <1>3, <1>5, <1>7, <2>1, <2>3 DEF BeforeModRM
    <3>3. Put(s, cip - 1, ins)
      BY <1>5 DEF n
    <3>4. QED
      BY <3>1, <3>2, <3>3 DEF Follows
  <2>4. QED
    BY <2>2, <2>3
<1>11. QED
  BY <1>6, <1>8, <1>9, <1>10

LEMMA FollowNextRound ==
    ASSUME IInv, NEW s, Follows(s), NextRound
    PROVE  Follows(s)'
<1>1. pc = "next" /\ ins \in Ins
  BY DEF NextRound, IInv, TypeOK
<1>2. CASE cip + 1 > Len(win)
  <2>1. pc' = "done" /\ ins'.op = "UD_OVERRUN"
    BY <1>1, <1>2 DEF NextRound, Return, Ins
  <2>2. QED
    BY <2>1 DEF Follows
<1>3. CASE ~(cip + 1 > Len(win))
  <2>1. pc' = "opcode" /\ cip' = cip /\ ins' = ins
    BY <1>3 DEF NextRound, Goto
  <2>2. QED
    BY <1>1, <2>1 DEF Follows
<1>4. QED
  BY <1>2, <1>3

LEMMA FollowFetchOpcode ==
    ASSUME IInv, NEW s, Extension(s), Follows(s), FetchOpcode, ~failed'
    PROVE  Follows(s)'
<1> DEFINE b == s[cip + 1]
<1>1. /\ pc = "opcode" /\ s \in Seq(Byte) /\ cip \in Nat /\ Len(s) \in Nat /\ ins \in Ins
      /\ cip < Len(s) /\ ReadNext = cip + 1 /\ ReadValue = {b}
  BY FetchedByte DEF FetchOpcode
<1>2. Put(s, cip, ins) /\ FieldsRead(ins, "UD_NOP", NoByte, NoByte, NoByte)
  BY <1>1 DEF Follows
<1>3. \/ SegmentPrefix(b) \/ OtherPrefix(b) \/ PeekingOpcode(b)
      \/ ModRMOpcode(b) \/ FPUOpcode(b) \/ PlainOpcode(b)
  BY <1>1 DEF FetchOpcode
<1>4. b \in Byte /\ (cip + 1) - 1 = cip
  BY <1>1, NextByte
<1> HIDE DEF b
<1>5. b = s[cip + 1]
  BY DEF b
<1>6. CASE SegmentPrefix(b)
  <2> DEFINE j == [ins EXCEPT !.segment = SegmentOf(s[cip + 1])]
  <2>1. pc' = "next" /\ cip' = cip + 1 /\ ins' = j /\ b \in SegOverrides
    BY <1>1, <1>5, <1>6 DEF SegmentPrefix, Goto
  <2>2. Put(s, cip + 1, j)
    BY <1>1, <1>2, <1>5, <2>1, PutSegment
  <2>3. FieldsRead(j, "UD_NOP", NoByte, NoByte, NoByte)
    BY <1>1, <1>2 DEF FieldsRead, Ins
  <2> HIDE DEF j
  <2>4. QED
    BY <2>1, <2>2, <2>3 DEF Follows
<1>7. CASE OtherPrefix(b) /\ b \in LockPrefixes
  <2> DEFINE j == [ins EXCEPT !.lock = 1]
  <2>1. pc' = "next" /\ cip' = cip + 1 /\ ins' = j
    BY <1>1, <1>7 DEF OtherPrefix, Goto
  <2>2. /\ j.lock = 1 /\ j.fwait = ins.fwait /\ j.segment = ins.segment /\ j.rep = ins.rep
    BY <1>1 DEF Ins
  <2>3. FieldsRead(j, "UD_NOP", NoByte, NoByte, NoByte)
    BY <1>1, <1>2 DEF FieldsRead, Ins
  <2> HIDE DEF j
  <2>4. Put(s, cip + 1, j)
    BY <1>1, <1>2, <1>5, <1>7, <2>2, PutFlag
  <2>5. QED
    BY <2>1, <2>3, <2>4 DEF Follows
<1>8. CASE OtherPrefix(b) /\ b \notin LockPrefixes
  <2> DEFINE j == [ins EXCEPT !.rep = RepOf(s[cip + 1])]
  <2>1. pc' = "next" /\ cip' = cip + 1 /\ ins' = j /\ b \in RepPrefixes
    BY <1>1, <1>5, <1>8 DEF OtherPrefix, Goto
  <2>2. Put(s, cip + 1, j)
    BY <1>1, <1>2, <1>5, <2>1, PutRep
  <2>3. FieldsRead(j, "UD_NOP", NoByte, NoByte, NoByte)
    BY <1>1, <1>2 DEF FieldsRead, Ins
  <2> HIDE DEF j
  <2>4. QED
    BY <2>1, <2>2, <2>3 DEF Follows
<1> DEFINE led == [ins EXCEPT !.lead = b]
<1>9. /\ led.lead = b /\ led.op = ins.op /\ led.fpu = ins.fpu /\ led.rm = ins.rm
      /\ led.args = ins.args /\ led.len = ins.len /\ led.segment = ins.segment
      /\ led.rep = ins.rep /\ led.lock = ins.lock /\ led.fwait = ins.fwait
  BY <1>1 DEF Ins
<1> HIDE DEF led
<1>10. Put(s, cip, led) /\ FieldsRead(led, "UD_NOP", b, NoByte, NoByte)
  BY <1>2, <1>9, PutSame DEF FieldsRead
<1>11. CASE PeekingOpcode(b)
  <2>1. pc' = "peek" /\ cip' = cip + 1 /\ ins' = led /\ b \in PeekOpcodes \cup {WaitOpcode}
    BY <1>1, <1>11 DEF PeekingOpcode, led
  <2>2. QED
    BY <1>4, <1>5, <1>10, <2>1 DEF Follows
<1>12. CASE FPUOpcode(b)
  <2>1. pc' = "fpu" /\ cip' = cip + 1 /\ ins' = led /\ b \in FPUEscapes
    BY <1>1, <1>12 DEF FPUOpcode, led, Goto
  <2>2. QED
    BY <1>4, <1>5, <1>10, <2>1 DEF Follows
<1>13. CASE ModRMOpcode(b)
  <2>1. pc' = "modrm" /\ cip' = cip + 1 /\ ins' = led /\ b \in ModRMOpcodes
    BY <1>1, <1>13 DEF ModRMOpcode, led, Goto
  <2>2. BeforeModRM(s, cip + 1, led)
    BY <1>5, <1>10, <2>1 DEF BeforeModRM
  <2>3. QED
    BY <1>4, <1>10, <2>1, <2>2 DEF Follows
<1>14. CASE PlainOpcode(b)
  <2> DEFINE o == IF b \in Absent THEN "UD_NOP" ELSE "OK"
             i == [ins EXCEPT !.lead = b, !.op = o]
             x == IF cip + 2 <= Len(s) THEN s[cip + 2] ELSE NoByte
  <2>1. /\ b \notin PrefixBytes \cup PeekOpcodes \cup ModRMOpcodes \cup FPUEscapes
        /\ Operands(i, cip + 1, Immediates(b))
    BY <1>1, <1>14 DEF PlainOpcode
  <2>2. \A y : ~TakesModRM(b, y) /\ OutcomeOf(b, y) = o /\ OperandWidths(b, y) = Immediates(b)
    BY <2>1 DEF TakesModRM, OutcomeOf, OperandWidths
  <2>3. o \in Outcomes
    BY DEF Outcomes
  <2> HIDE DEF o, x
  <2>4. /\ i \in Ins /\ i.lead = b /\ i.op = o /\ i.fpu = ins.fpu /\ i.rm = ins.rm
        /\ i.args = ins.args /\ i.len = ins.len /\ i.segment = ins.segment
        /\ i.rep = ins.rep /\ i.lock = ins.lock /\ i.fwait = ins.fwait
    BY <1>1, <1>4, <2>3 DEF Ins
  <2> HIDE DEF i
  <2>5. Put(s, cip, i) /\ FieldsRead(i, o, b, NoByte, NoByte)
    BY <1>2, <2>4, PutSame DEF FieldsRead
  <2>6. ~PrefixAt(s, cip + 1)
    BY <1>5, <2>1, NoPrefix
  <2>7. x = IF cip + 2 <= Len(s) THEN s[cip + 2] ELSE NoByte
    BY DEF x
  <2>8. QED
    BY <1>1, <1>5, <2>1, <2>2, <2>4, <2>5, <2>6, <2>7, SettledAt DEF FieldsRead
<1>15. QED
  BY <1>3, <1>6, <1>7, <1>8, <1>11, <1>12, <1>13, <1>14

-----------------------------------------------------------------------------
(* Every step.                                                             *)

LEMMA FollowCoreStep == FlatIInv /\ CoreStep => FlatIInv'
<1> SUFFICES ASSUME FlatIInv, CoreStep PROVE FlatIInv'
  OBVIOUS
<1>1. IInv /\ IInv'
  BY CoreKeeps DEF FlatIInv
<1>2. win' = win /\ (~failed' => ~failed) /\ (~unbacked' => ~unbacked)
  <2>1. CASE FetchOpcode \/ FetchFPU \/ FetchModRM \/ FetchOperand
    <3>1. PICK p : Fetch(p)
      BY <2>1 DEF FetchOpcode, FetchFPU, FetchModRM, FetchOperand
    <3>2. win' = win /\ unbacked' = unbacked /\ CountOverrun
      BY <3>1 DEF Fetch
    <3>3. failed' = failed \/ failed' = TRUE
      BY <3>2 DEF CountOverrun
    <3>4. ~failed' => ~failed
      BY <3>3, Zenon
    <3>5. ~unbacked' => ~unbacked
      BY <3>2
    <3>6. QED
      BY <3>2, <3>4, <3>5
  <2>2. CASE NextRound
    BY <2>2 DEF NextRound
  <2>3. CASE Peek
    <3>1. win' = win /\ failed' = failed
      BY <2>3 DEF Peek
    <3>2. unbacked' = (unbacked \/ cip >= Len(win))
      BY <2>3 DEF Peek
    <3>3. ~unbacked' => ~unbacked
      BY <3>2, Zenon
    <3>4. QED
      BY <3>1, <3>3
  <2>4. QED
    BY <2>1, <2>2, <2>3 DEF CoreStep
<1>3. ASSUME ~failed', ~unbacked', NEW s \in Seq(Byte), Extension(s)' PROVE Follows(s)'
  <2>1. Extension(s)
    BY <1>2, <1>3 DEF Extension
  <2>2. Follows(s)
    BY <1>2, <1>3, <2>1 DEF FlatIInv
  <2>3. QED
    BY <1>1, <1>3, <2>1, <2>2, FollowFetchOpcode, FollowNextRound, FollowPeek,
       FollowFetchFPU, FollowFetchModRM, FollowFetchOperand DEF CoreStep
<1>4. QED
  BY <1>1, <1>3 DEF FlatIInv

(* A callback leaves fewer extensions and the decode where it is.          *)
LEMMA FollowGrowth ==
    ASSUME FlatIInv, IInv', Len(win) <= Len(win'), \A k \in 1 .. Len(win) : win'[k] = win[k],
           UNCHANGED <<cip, pc, todo, ins, failed, unbacked>>
    PROVE  FlatIInv'
<1>1. Len(win) \in Nat /\ Len(win') \in Nat
  <2>1. win \in Seq(Bytes) /\ win' \in Seq(Bytes)
    BY DEF FlatIInv, IInv, TypeOK
  <2>2. QED
    BY <2>1, LenProperties
<1>2. ASSUME NEW s \in Seq(Byte), Extension(s)' PROVE Extension(s)
  <2>1. /\ s \in Seq(Byte) /\ Len(s) \in Nat /\ Len(win') <= Len(s)
        /\ \A k \in 1 .. Len(win') : s[k] = win'[k]
    BY <1>2, LenProperties DEF Extension
  <2>2. QED
    BY <1>1, <2>1 DEF Extension
<1>3. \A s : Follows(s) => Follows(s)'
  BY DEF Follows
<1>4. QED
  BY <1>2, <1>3 DEF FlatIInv

LEMMA FollowEnter == ASSUME Enter, IInv' PROVE FlatIInv'
<1>1. pc' = "opcode" /\ cip' = 0 /\ ins' = EmptyIns
  BY DEF Enter
<1>2. FieldsRead(EmptyIns, "UD_NOP", NoByte, NoByte, NoByte)
  BY DEF FieldsRead, EmptyIns
<1>3. \A s : Follows(s)'
  BY <1>1, <1>2, PutNone DEF Follows
<1>4. QED
  BY <1>3 DEF FlatIInv

(* A decode that got all its bytes is that of any sequence that begins     *)
(* with the window.                                                        *)
LEMMA FlatMeaning ==
    ASSUME FlatIInv, pc = "done", ~failed, ~unbacked, ins.op # "UD_OVERRUN",
           NEW s, Extension(s)
    PROVE  ins = FlatDecode(s)
  BY DEF FlatIInv, Follows, Extension

-----------------------------------------------------------------------------
(* The callers of StreamDecode and their callbacks.                        *)

LEMMA StepCallback == IInv /\ Callback => IInv'
<1> SUFFICES ASSUME IInv, Callback PROVE IInv'
  OBVIOUS
<1>1. PICK n \in 0 .. WindowMax - Len(win) :
          \E more \in [1 .. n -> Bytes] : win' = win \o more
  BY DEF Callback
<1>2. PICK more \in [1 .. n -> Bytes] : win' = win \o more
  BY <1>1
<1>3. win \in Seq(Bytes) /\ Len(win) \in Nat /\ WindowMax \in Nat
  BY LenProperties, WindowAssumption DEF IInv, TypeOK
<1>4. n \in Nat /\ Len(win) + n <= WindowMax
  BY <1>3
<1>5. more \in Seq(Bytes) /\ Len(more) = n
  BY <1>4, LenProperties, SeqDef
<1>6. /\ win' \in Seq(Bytes) /\ Len(win) <= Len(win') /\ Len(win') <= WindowMax
      /\ \A k \in 1 .. Len(win) : win'[k] = win[k]
  BY <1>2, <1>3, <1>4, <1>5, ConcatProperties
<1>7. QED
  BY <1>6, GrowKeeps DEF Callback

LEMMA StepCall == IInv /\ Call => IInv'
<1> SUFFICES ASSUME IInv, Call PROVE IInv'
  OBVIOUS
<1>1. PICK n \in Prefetch .. PrefetchMax : win' \in [1 .. n -> Bytes]
  BY DEF Call
<1>2. n \in Nat /\ n >= 2 /\ n <= WindowMax
  BY WindowAssumption
<1>3. win' \in Seq(Bytes) /\ Len(win') = n
  BY <1>1, <1>2, LenProperties, SeqDef
<1>4. overruns' \in 0 .. OverrunModulus - 1
  BY OverrunAssumption DEF Call, IInv, TypeOK
<1>5. QED
  BY <1>2, <1>3, <1>4, EnterKeeps DEF Call

LEMMA InductiveStep == IInv /\ [Next]_vars => IInv'
<1> SUFFICES ASSUME IInv, [Next]_vars PROVE IInv'
  OBVIOUS
<1>1. CASE CoreStep
  BY <1>1, CoreKeeps
<1>2. CASE Callback
  BY <1>2, StepCallback
<1>3. CASE Call
  BY <1>3, StepCall
<1>4. CASE UNCHANGED vars
  BY <1>4 DEF vars, coreVars, IInv, TypeOK, WindowHeld, Progress, Inside,
     PrefixesSoFar, Prefixing, OverrunMeansPrefixes
<1>5. QED
  BY <1>1, <1>2, <1>3, <1>4 DEF Next

THEOREM Inductive == Spec => []IInv
<1>1. Init => IInv
  BY CoreInitKeeps DEF Init
<1>2. QED
  BY <1>1, InductiveStep, PTL DEF Spec

(* Every variable keeps its type.                                          *)
THEOREM TypeCorrect == Spec => []TypeOK
  BY IInvMeaning, Inductive, PTL

(* The core never consumes a byte behind prefetch_fence, and its result    *)
(* covers at least one byte and none behind the fence: a caller that       *)
(* advances by it advances, and stays in its window.  This needs two bytes *)
(* in the window at the call, and nothing of the callback.                 *)
THEOREM StaysInWindow == Spec => []ConsumesWindow
  BY IInvMeaning, Inductive, PTL

(* The byte taken as prefix or opcode is always one of the window.         *)
THEOREM OpcodeIsFresh == Spec => []OpcodeInWindow
  BY IInvMeaning, Inductive, PTL

(* MXOP_UD_OVERRUN means that the whole window is prefixes, and that no    *)
(* fetch has failed.                                                       *)
THEOREM OverrunIsPrefixes == Spec => []OverrunMeansPrefixes
  BY IInvMeaning, Inductive, PTL

-----------------------------------------------------------------------------
(* The streaming core against the flat one.                                *)

LEMMA FlatInductiveStep == FlatIInv /\ [Next]_vars => FlatIInv'
<1> SUFFICES ASSUME FlatIInv, [Next]_vars PROVE FlatIInv'
  OBVIOUS
<1>1. IInv'
  BY InductiveStep DEF FlatIInv
<1>2. CASE CoreStep
  BY <1>2, FollowCoreStep
<1>3. CASE Callback
  <2>1. PICK n \in 0 .. WindowMax - Len(win) :
            \E more \in [1 .. n -> Bytes] : win' = win \o more
    BY <1>3 DEF Callback
  <2>2. PICK t \in [1 .. n -> Bytes] : win' = win \o t
    BY <2>1
  <2>3. Len(win) <= Len(win') /\ \A k \in 1 .. Len(win) : win'[k] = win[k]
    <3>1. n \in Nat /\ win \in Seq(Bytes)
      BY WindowAssumption, LenProperties DEF FlatIInv, IInv, TypeOK
    <3>2. t \in Seq(Bytes) /\ Len(win) \in Nat
      BY <3>1, SeqDef, LenProperties
    <3>3. QED
      BY <2>2, <3>1, <3>2, ConcatProperties, LenProperties
  <2>4. UNCHANGED <<cip, pc, todo, ins, failed, unbacked>>
    BY <1>3 DEF Callback
  <2>5. QED
    BY <1>1, <2>3, <2>4, FollowGrowth
<1>4. CASE Call
  BY <1>1, <1>4, FollowEnter DEF Call
<1>5. CASE UNCHANGED vars
  <2>1. \A s : Extension(s)' = Extension(s) /\ Follows(s)' = Follows(s)
    BY <1>5 DEF vars, coreVars, Extension, Follows
  <2>2. failed' = failed /\ unbacked' = unbacked
    BY <1>5 DEF vars, coreVars
  <2>3. QED
    BY <1>1, <2>1, <2>2 DEF FlatIInv
<1>6. QED
  BY <1>2, <1>3, <1>4, <1>5 DEF Next

LEMMA FlatInductiveInit == Init => FlatIInv
<1> SUFFICES ASSUME Init PROVE FlatIInv
  OBVIOUS
<1>1. IInv
  BY CoreInitKeeps DEF Init
<1>2. pc = "idle"
  BY DEF Init, CoreInit
<1>3. QED
  BY <1>1, <1>2 DEF FlatIInv, Follows

THEOREM FlatInductive == Spec => []FlatIInv
  BY FlatInductiveInit, FlatInductiveStep, PTL DEF Spec

(* A decode in which no fetch failed and no peek went beyond the fence     *)
(* gives the instruction of minx86dec_decode8086, however the callback cut *)
(* the bytes up and whatever it refused in between.                        *)
THEOREM StreamingIsFlat == Spec => []StreamEqualsFlat
<1>1. FlatIInv => StreamEqualsFlat
  <2> SUFFICES ASSUME FlatIInv, pc = "done", ~failed, ~unbacked, ins.op # "UD_OVERRUN"
      PROVE  ins = FlatDecode(win)
    BY DEF StreamEqualsFlat
  <2>1. Extension(win)
    <3>1. win \in Seq(Byte)
      BY BytesAssumption DEF FlatIInv, IInv, TypeOK
    <3>2. QED
      BY <3>1, LenProperties DEF Extension
  <2>2. QED
    BY <2>1, FlatMeaning
<1>2. QED
  BY <1>1, FlatInductive, PTL
=============================================================================
