---------------------------- MODULE DriverProofs ----------------------------
(***************************************************************************)
(* Proofs about the streaming decode program, for every file, every size   *)
(* of tmp and of buffer: tmp mirrors buffer, my_fetch8 leaves the core     *)
(* short of bytes only when there are none, and the program is one of the  *)
(* callers that StreamDecode describes, so that what is proved about that  *)
(* holds of it.                                                            *)
(***************************************************************************)
EXTENDS StreamDriver, CoreProofs

UsedUp == Len(win) = WindowMax \/ bufr >= BufferSize

(* A fetch or a stop test that is not short of calls, only of bytes.       *)
Starved == pc \notin {"idle", "peek", "done"} /\ tries = 0 /\ ~HasRoom

(* fetch8 has been called for every byte that is missing, and one call     *)
(* brings all there are.                                                   *)
Answered ==
    /\ Starved => UsedUp
    /\ pc = "done" /\ ins.op = "UD_OVERRUN" => UsedUp

DriverIInv ==
    /\ IInv
    /\ file \in Seq(Bytes) /\ ip \in Nat /\ bufr \in Nat
    /\ WindowIsBuffer
    /\ OverrunMeansUsedUp
    /\ Answered

-----------------------------------------------------------------------------
(* The steps of the core.                                                  *)

LEMMA GotoFilled ==
    ASSUME TypeOK, win' = win, NEW p, NEW at \in Nat, NEW ws \in Widths,
           p = "operand" => ws # << >>, Goto(p, at, ws)
    PROVE  pc' = p /\ ~Starved'
<1>1. Head(ws) \in {1, 2} \/ p # "operand"
  BY HeadTailProperties DEF Widths
<1>2. pc' = p /\ cip' = at /\ todo' = ws /\ tries' = Missing(win, at, Width') /\ Width' \in {1, 2}
  BY <1>1 DEF Goto, Width
<1>3. Len(win) \in Nat
  BY LenProperties DEF TypeOK
<1>4. tries' = 0 => at + Width' <= Len(win)
  BY <1>2, <1>3 DEF Missing
<1>5. QED
  BY <1>2, <1>4 DEF Starved, HasRoom

LEMMA OperandsFilled ==
    ASSUME TypeOK, win' = win, NEW i, NEW at \in Nat, NEW ws \in Widths,
           i.op # "UD_OVERRUN", i \in Ins, Operands(i, at, ws)
    PROVE  pc' \in {"operand", "done"} /\ ~Starved' /\ ins'.op # "UD_OVERRUN"
<1>1. CASE ws = << >>
  BY <1>1 DEF Operands, Return, Starved, Ins
<1>2. CASE ws # << >>
  BY <1>2, GotoFilled DEF Operands
<1>3. QED
  BY <1>1, <1>2

(* A step of the core neither starves the next one nor counts an overrun   *)
(* or gives up on its prefixes unless it is starved itself.                *)
Fed ==
    /\ win' = win /\ pc \notin {"idle", "done"} /\ pc' # "idle"
    /\ ~Starved'
    /\ overruns' # overruns => Starved
    /\ pc' = "done" /\ ins'.op = "UD_OVERRUN" => Starved

LEMMA CountsStarved ==
    ASSUME NEW p \in {"opcode", "fpu", "modrm", "operand"}, Fetch(p)
    PROVE  pc = p /\ win' = win /\ (overruns' # overruns => Starved)
  BY DEF Fetch, CountOverrun, Starved

LEMMA FedFetchOpcode == IInv /\ FetchOpcode => Fed
<1> SUFFICES ASSUME IInv, FetchOpcode PROVE Fed
  OBVIOUS
<1>1. pc = "opcode" /\ win' = win /\ (overruns' # overruns => Starved)
  BY CountsStarved DEF FetchOpcode
<1>2. TypeOK /\ ins \in Ins /\ ins.op # "UD_OVERRUN" /\ << >> \in Widths
  BY <1>1, WidthSequences DEF IInv, TypeOK, PrefixesSoFar
<1>3. ReadNext \in Nat /\ Width = 1 /\ ReadValue \subseteq Byte
  BY <1>1, <1>2, Fetched DEF Width
<1>4. PICK b \in ReadValue :
          \/ SegmentPrefix(b) \/ OtherPrefix(b) \/ PeekingOpcode(b)
          \/ ModRMOpcode(b) \/ FPUOpcode(b) \/ PlainOpcode(b)
  BY DEF FetchOpcode
<1>5. CASE SegmentPrefix(b) \/ OtherPrefix(b)
  BY <1>1, <1>2, <1>3, <1>5, GotoFilled DEF SegmentPrefix, OtherPrefix, Fed
<1>6. CASE PeekingOpcode(b)
  BY <1>1, <1>6 DEF PeekingOpcode, Fed, Starved
<1>7. CASE ModRMOpcode(b) \/ FPUOpcode(b)
  BY <1>1, <1>2, <1>3, <1>7, GotoFilled DEF ModRMOpcode, FPUOpcode, Fed
<1>8. CASE PlainOpcode(b)
  <2> DEFINE o == IF b \in Absent THEN "UD_NOP" ELSE "OK"
             i == [ins EXCEPT !.lead = b, !.op = o]
  <2>1. o \in Outcomes /\ o # "UD_OVERRUN"
    BY DEF Outcomes
  <2>2. i \in Ins /\ i.op # "UD_OVERRUN"
    <3>1. i \in Ins
      BY <1>2, <1>3, <2>1, InsFields
    <3>2. i.op = o
      BY <1>2, InsOps
    <3>3. QED
      BY <2>1, <3>1, <3>2
  <2>3. Operands(i, ReadNext, Immediates(b)) /\ Immediates(b) \in Widths
    BY <1>3, <1>8, OperandsWithoutModRM DEF PlainOpcode
  <2> HIDE DEF i, o
  <2>4. QED
    BY <1>1, <1>2, <1>3, <2>2, <2>3, OperandsFilled DEF Fed
<1>9. QED
  BY <1>4, <1>5, <1>6, <1>7, <1>8

LEMMA FedNextRound == IInv /\ NextRound => Fed
<1> SUFFICES ASSUME IInv, NextRound PROVE Fed
  OBVIOUS
<1>1. /\ pc = "next" /\ tries = 0 /\ win' = win /\ overruns' = overruns
      /\ (HasRoom => cip + 1 <= Len(win))
      /\ TypeOK /\ cip \in Nat /\ Len(win) \in Nat /\ << >> \in Widths
  BY WidthSequences, LenProperties DEF NextRound, HasRoom, Width, IInv, TypeOK
<1>2. CASE cip + 1 > Len(win)
  <2>1. pc' = "done" /\ ~HasRoom
    BY <1>1, <1>2 DEF NextRound, Return
  <2>2. QED
    BY <1>1, <2>1 DEF Fed, Starved
<1>3. CASE ~(cip + 1 > Len(win))
  BY <1>1, <1>3, GotoFilled DEF NextRound, Fed
<1>4. QED
  BY <1>2, <1>3

LEMMA FedPeek == IInv /\ Peek => Fed
<1> SUFFICES ASSUME IInv, Peek PROVE Fed
  OBVIOUS
<1>1. pc = "peek" /\ win' = win /\ overruns' = overruns
  BY DEF Peek
<1>2. TypeOK /\ ins \in Ins /\ ins.op # "UD_OVERRUN" /\ << >> \in Widths /\ cip \in Nat
  BY <1>1, WidthSequences DEF IInv, TypeOK, PrefixesSoFar
<1>3. PICK x \in AtCip : PeekWait(x) \/ PeekExtension(x)
  BY DEF Peek
<1>4. \A i \in Ins : i.op # "UD_OVERRUN" /\ Return(i, cip) => Fed
  <2> SUFFICES ASSUME NEW i \in Ins, i.op # "UD_OVERRUN", Return(i, cip) PROVE Fed
    OBVIOUS
  <2>1. pc' = "done" /\ ins'.op = i.op
    BY <1>2, ReturnType
  <2>2. QED
    BY <1>1, <2>1 DEF Fed, Starved
<1>5. \A p \in {"next", "modrm"} : Goto(p, cip, << >>) => Fed
  BY <1>1, <1>2, GotoFilled DEF Fed
<1>6. [ins EXCEPT !.op = "OK"] \in Ins /\ [ins EXCEPT !.op = "OK"].op = "OK"
  BY <1>2, InsFields, InsOps DEF Outcomes
<1>7. CASE PeekWait(x)
  BY <1>4, <1>5, <1>6, <1>7 DEF PeekWait
<1>8. CASE PeekExtension(x)
  BY <1>2, <1>4, <1>5, <1>8 DEF PeekExtension
<1>9. QED
  BY <1>3, <1>7, <1>8

LEMMA FedFetchFPU == IInv /\ FetchFPU => Fed
<1> SUFFICES ASSUME IInv, FetchFPU PROVE Fed
  OBVIOUS
<1> DEFINE i(x) == [ins EXCEPT !.fpu = x, !.op = FPUOutcome(ins.lead, x)]
<1>1. pc = "fpu" /\ win' = win /\ (overruns' # overruns => Starved) /\ Running
  BY CountsStarved DEF FetchFPU, Fetch, Running
<1>2. /\ Typed /\ TypeOK /\ ins \in Ins /\ << >> \in Widths
      /\ Len(win) \in Nat /\ Len(win) >= 2 /\ cip \in 1 .. Len(win) /\ Width = 1
  BY <1>1, WindowFacts, WidthSequences DEF IInv, Progress, Inside, Width
<1>3. ReadNext \in Nat /\ ReadNext - 1 \in Nat /\ ReadValue \subseteq Byte
  BY <1>2, Fetched DEF HasRoom, ReadNext, Typed
<1>4. PICK x \in ReadValue :
          IF FPUMemory(ins.lead, x)
          THEN ins' = i(x) /\ Goto("modrm", ReadNext - 1, << >>)
          ELSE Return(i(x), ReadNext)
  BY DEF FetchFPU
<1>5. i(x) \in Ins /\ i(x).op # "UD_OVERRUN"
  <2>1. FPUOutcome(ins.lead, x) \in Outcomes /\ FPUOutcome(ins.lead, x) # "UD_OVERRUN"
    BY FPUOutcomes DEF Decoded, Outcomes
  <2>2. i(x) \in Ins
    BY <1>2, <1>3, <2>1, InsFields
  <2>3. i(x).op = FPUOutcome(ins.lead, x)
    BY <1>2, InsOps
  <2>4. QED
    BY <2>1, <2>2, <2>3
<1> HIDE DEF i
<1>6. CASE FPUMemory(ins.lead, x)
  BY <1>1, <1>2, <1>3, <1>4, <1>6, GotoFilled DEF Fed
<1>7. CASE ~FPUMemory(ins.lead, x)
  <2>1. pc' = "done" /\ ins'.op = i(x).op
    BY <1>3, <1>4, <1>5, <1>7, ReturnType
  <2>2. QED
    BY <1>1, <1>5, <2>1 DEF Fed, Starved
<1>8. QED
  BY <1>6, <1>7

LEMMA FedFetchModRM == IInv /\ FetchModRM => Fed
<1> SUFFICES ASSUME IInv, FetchModRM PROVE Fed
  OBVIOUS
<1> DEFINE op(m) == IF ins.lead \in FPUEscapes THEN ins.op ELSE GroupOutcome(ins.lead, m)
           ws(m) == Displacement(m) \o ImmAfterRM(ins.lead, m)
           i(m)  == [ins EXCEPT !.rm = m, !.op = op(m)]
<1>1. pc = "modrm" /\ win' = win /\ (overruns' # overruns => Starved)
  BY CountsStarved DEF FetchModRM
<1>2. TypeOK /\ ins \in Ins /\ ins.op # "UD_OVERRUN"
  BY <1>1 DEF IInv, TypeOK, PrefixesSoFar
<1>3. ReadNext \in Nat /\ Width = 1 /\ ReadValue \subseteq Byte
  BY <1>1, <1>2, Fetched DEF Width
<1>4. PICK m \in ReadValue : Operands(i(m), ReadNext, ws(m))
  BY DEF FetchModRM
<1>5. op(m) \in Outcomes /\ op(m) # "UD_OVERRUN" /\ ws(m) \in Widths
  BY <1>2, <1>3, GroupOutcomes, OperandsAfterModRM DEF Decoded, Outcomes, Ins
<1> HIDE DEF op, ws
<1>6. i(m) \in Ins /\ i(m).op # "UD_OVERRUN"
  <2>1. i(m) \in Ins
    BY <1>2, <1>3, <1>5, InsFields
  <2>2. i(m).op = op(m)
    BY <1>2, InsOps
  <2>3. QED
    BY <1>5, <2>1, <2>2
<1> HIDE DEF i
<1>7. QED
  BY <1>1, <1>2, <1>3, <1>4, <1>5, <1>6, OperandsFilled DEF Fed

LEMMA FedFetchOperand == IInv /\ FetchOperand => Fed
<1> SUFFICES ASSUME IInv, FetchOperand PROVE Fed
  OBVIOUS
<1> DEFINE i(v) == [ins EXCEPT !.args = Append(@, v)]
<1>1. pc = "operand" /\ win' = win /\ (overruns' # overruns => Starved)
  BY CountsStarved DEF FetchOperand
<1>2. TypeOK /\ ins \in Ins /\ ins.op # "UD_OVERRUN" /\ todo # << >>
  BY <1>1 DEF IInv, TypeOK, PrefixesSoFar, Progress
<1>3. ReadNext \in Nat /\ ReadValue \subseteq Nat /\ Tail(todo) \in Widths
  BY <1>1, <1>2, Fetched, HeadTailProperties DEF TypeOK, Widths
<1>4. PICK v \in ReadValue : Operands(i(v), ReadNext, Tail(todo))
  BY DEF FetchOperand
<1>5. i(v) \in Ins /\ i(v).op # "UD_OVERRUN"
  BY <1>2, <1>3, InsFields, InsOps
<1> HIDE DEF i
<1>6. QED
  BY <1>1, <1>2, <1>3, <1>4, <1>5, OperandsFilled DEF Fed

LEMMA CoreFed == IInv /\ CoreStep => Fed
  BY FedFetchOpcode, FedNextRound, FedPeek, FedFetchFPU, FedFetchModRM,
     FedFetchOperand DEF CoreStep

-----------------------------------------------------------------------------
(* What is copied.                                                         *)

LEMMA BufferBytes ==
    ASSUME file \in Seq(Bytes), NEW a \in Nat
    PROVE  BufferAt(a) \in Bytes
<1>1. CASE a < Len(file)
  <2>1. Len(file) \in Nat /\ a + 1 \in 1 .. Len(file)
    BY <1>1, LenProperties
  <2>2. QED
    BY <1>1, <2>1, ElementOfSeq DEF BufferAt
<1>2. CASE ~(a < Len(file))
  BY <1>2, AroundAssumption DEF BufferAt
<1>3. QED
  BY <1>1, <1>2

LEMMA CopiedBytes ==
    ASSUME file \in Seq(Bytes), NEW from \in Nat, NEW n \in Nat
    PROVE  /\ Copied(from, n) \in Seq(Bytes) /\ Len(Copied(from, n)) = n
           /\ \A k \in 1 .. n : Copied(from, n)[k] = BufferAt(from + k - 1)
<1>1. \A k \in 1 .. n : from + k - 1 \in Nat
  OBVIOUS
<1>2. \A k \in 1 .. n : BufferAt(from + k - 1) \in Bytes
  BY <1>1, BufferBytes
<1>3. Copied(from, n) \in [1 .. n -> Bytes]
  BY <1>2 DEF Copied
<1>4. Copied(from, n) \in Seq(Bytes) /\ Len(Copied(from, n)) = n
  BY <1>3, LenProperties, SeqDef
<1>5. \A k \in 1 .. n : Copied(from, n)[k] = BufferAt(from + k - 1)
  BY DEF Copied
<1>6. QED
  BY <1>4, <1>5

(* A copy and the copy of what follows are the copy of both.               *)
LEMMA CopiedOn ==
    ASSUME file \in Seq(Bytes), NEW from \in Nat, NEW m \in Nat, NEW n \in Nat
    PROVE  Copied(from, m) \o Copied(from + m, n) = Copied(from, m + n)
<1> DEFINE s == Copied(from, m)
           t == Copied(from + m, n)
           u == Copied(from, m + n)
<1>1. /\ s \in Seq(Bytes) /\ Len(s) = m
      /\ \A k \in 1 .. m : s[k] = BufferAt(from + k - 1)
  BY CopiedBytes
<1>2. /\ t \in Seq(Bytes) /\ Len(t) = n
      /\ \A k \in 1 .. n : t[k] = BufferAt(from + m + k - 1)
  <2>1. from + m \in Nat
    OBVIOUS
  <2>2. QED
    BY <2>1, CopiedBytes
<1>3. /\ u \in Seq(Bytes) /\ Len(u) = m + n
      /\ \A k \in 1 .. m + n : u[k] = BufferAt(from + k - 1)
  BY CopiedBytes
<1> HIDE DEF s, t, u
<1>4. /\ s \o t \in Seq(Bytes) /\ Len(s \o t) = m + n
      /\ \A k \in 1 .. m + n : (s \o t)[k] = IF k <= m THEN s[k] ELSE t[k - m]
  BY <1>1, <1>2, ConcatProperties
<1>5. \A k \in 1 .. m + n : (s \o t)[k] = u[k]
  <2> TAKE k \in 1 .. m + n
  <2>1. CASE k <= m
    BY <1>1, <1>3, <1>4, <2>1
  <2>2. CASE ~(k <= m)
    <3>1. k - m \in 1 .. n /\ from + m + (k - m) - 1 = from + k - 1
      BY <2>2
    <3>2. QED
      BY <1>2, <1>3, <1>4, <2>2, <3>1
  <2>3. QED
    BY <2>1, <2>2
<1>6. QED
  <2>1. s \o t = u
    BY <1>3, <1>4, <1>5, SeqEqual
  <2>2. QED
    BY <2>1 DEF s, t, u

-----------------------------------------------------------------------------
(* The steps of the program.                                               *)

LEMMA DriverInductiveInit == DriverInit => DriverIInv
<1> SUFFICES ASSUME DriverInit PROVE DriverIInv
  OBVIOUS
<1>1. IInv
  BY CoreInitKeeps DEF DriverInit
<1>2. file \in Seq(Bytes) /\ ip \in Nat /\ bufr \in Nat /\ pc = "idle" /\ overruns = 0
  BY FilesAssumption DEF DriverInit, CoreInit
<1>3. QED
  BY <1>1, <1>2 DEF DriverIInv, WindowIsBuffer, OverrunMeansUsedUp, Answered, Starved

LEMMA StepDecodeAt == DriverIInv /\ DecodeAt => DriverIInv'
<1> SUFFICES ASSUME DriverIInv, DecodeAt PROVE DriverIInv'
  OBVIOUS
<1>1. /\ file \in Seq(Bytes) /\ ip \in Nat /\ Prefetch \in Nat /\ Prefetch >= 2
      /\ Prefetch <= WindowMax /\ WindowMax \in Nat
  BY WindowAssumption DEF DriverIInv
<1>2. /\ win' = Copied(ip, Prefetch) /\ bufr' = ip + Prefetch
      /\ file' = file /\ ip' = ip /\ Enter /\ overruns' = 0
  BY DEF DecodeAt
<1>3. win' \in Seq(Bytes) /\ Len(win') = Prefetch
  BY <1>1, <1>2, CopiedBytes
<1>4. IInv'
  BY <1>1, <1>2, <1>3, EnterKeeps, OverrunAssumption
<1>5. WindowIsBuffer'
  BY <1>1, <1>2, <1>3 DEF WindowIsBuffer, Copied, BufferAt
<1>6. Answered'
  <2>1. pc' = "opcode" /\ cip' = 0
    BY <1>2 DEF Enter
  <2>2. QED
    BY <1>1, <1>3, <2>1 DEF Answered, Starved, HasRoom, Width
<1>7. QED
  BY <1>1, <1>2, <1>4, <1>5, <1>6 DEF DriverIInv, OverrunMeansUsedUp

LEMMA StepMyFetch8 == DriverIInv /\ MyFetch8 => DriverIInv'
<1> SUFFICES ASSUME DriverIInv, MyFetch8 PROVE DriverIInv'
  OBVIOUS
<1> DEFINE room == WindowMax - Len(win)
           left == BufferSize - bufr
           n    == IF left <= 0 THEN 0 ELSE IF left < room THEN left ELSE room
<1>1. /\ IInv /\ TypeOK /\ file \in Seq(Bytes) /\ ip \in Nat /\ bufr \in Nat
      /\ win \in Seq(Bytes) /\ Len(win) \in Nat /\ Len(win) <= WindowMax /\ tries \in Nat
  BY LenProperties DEF DriverIInv, IInv, TypeOK
<1>2. WindowMax \in Nat /\ BufferSize \in Nat
  BY WindowAssumption, SizesAssumption
<1>3. /\ tries > 0 /\ tries' = tries - 1
      /\ win' = win \o Copied(bufr, n) /\ bufr' = bufr + n
      /\ UNCHANGED <<cip, pc, todo, ins, overruns, failed, unbacked>>
      /\ file' = file /\ ip' = ip
  BY DEF MyFetch8
<1>4. n \in Nat /\ n <= room /\ (n = room \/ bufr + n >= BufferSize)
  BY <1>1, <1>2
<1> HIDE DEF n
<1>5. Copied(bufr, n) \in Seq(Bytes) /\ Len(Copied(bufr, n)) = n
  BY <1>1, <1>4, CopiedBytes
<1>6. /\ win' \in Seq(Bytes) /\ Len(win') = Len(win) + n
      /\ \A k \in 1 .. Len(win) : win'[k] = win[k]
  <2>1. win \in Seq(Bytes) /\ Copied(bufr, n) \in Seq(Bytes)
    BY <1>1, <1>5
  <2>2. LET w == win \o Copied(bufr, n)
        IN  /\ w \in Seq(Bytes) /\ Len(w) = Len(win) + Len(Copied(bufr, n))
            /\ \A k \in 1 .. Len(win) : w[k] = win[k]
    BY <2>1, Joined
  <2>3. QED
    BY <1>3, <1>5, <2>2
<1>7. IInv'
  BY <1>1, <1>2, <1>3, <1>4, <1>6, GrowKeeps
<1>8. UsedUp'
  BY <1>1, <1>2, <1>3, <1>4, <1>6 DEF UsedUp
<1>9. WindowIsBuffer'
  <2> SUFFICES ASSUME pc' # "idle" PROVE bufr' = ip' + Len(win') /\ win' = (Copied(ip, Len(win)))'
    BY DEF WindowIsBuffer
  <2>1. bufr = ip + Len(win) /\ win = Copied(ip, Len(win))
    BY <1>3 DEF DriverIInv, WindowIsBuffer
  <2>2. win' = Copied(ip, Len(win) + n)
    <3>1. win' = Copied(ip, Len(win)) \o Copied(ip + Len(win), n)
      BY <1>3, <2>1
    <3>2. Copied(ip, Len(win)) \o Copied(ip + Len(win), n) = Copied(ip, Len(win) + n)
      BY <1>1, <1>4, CopiedOn
    <3>3. QED
      BY <3>1, <3>2
  <2>3. QED
    BY <1>1, <1>3, <1>4, <1>6, <2>1, <2>2 DEF Copied, BufferAt
<1>10. file' \in Seq(Bytes) /\ ip' \in Nat /\ bufr' \in Nat
  BY <1>1, <1>3, <1>4
<1>11. QED
  BY <1>7, <1>8, <1>9, <1>10 DEF DriverIInv, OverrunMeansUsedUp, UsedUp, Answered

LEMMA StepDecodeStep == DriverIInv /\ DecodeStep => DriverIInv'
<1> SUFFICES ASSUME DriverIInv, DecodeStep PROVE DriverIInv'
  OBVIOUS
<1>1. IInv /\ IInv' /\ Fed /\ file' = file /\ ip' = ip /\ bufr' = bufr
  BY CoreKeeps, CoreFed DEF DriverIInv, DecodeStep, fileVars
<1>2. WindowIsBuffer'
  BY <1>1 DEF DriverIInv, WindowIsBuffer, Fed, Copied, BufferAt
<1>3. Starved => UsedUp'
  BY <1>1 DEF DriverIInv, Answered, UsedUp, Fed
<1>4. Answered'
  BY <1>1, <1>3 DEF Answered, Fed
<1>5. OverrunMeansUsedUp'
  BY <1>1, <1>3 DEF DriverIInv, OverrunMeansUsedUp, Fed, UsedUp
<1>6. QED
  BY <1>1, <1>2, <1>4, <1>5 DEF DriverIInv

LEMMA StepPrintInstruction == DriverIInv /\ PrintInstruction => DriverIInv'
<1> SUFFICES ASSUME DriverIInv, PrintInstruction PROVE DriverIInv'
  OBVIOUS
<1>1. /\ pc' = "idle" /\ ip' = ip + ins.len
      /\ UNCHANGED <<win, cip, todo, tries, ins, overruns, failed, unbacked, file, bufr>>
  BY DEF PrintInstruction
<1>2. ip' \in Nat
  BY <1>1 DEF DriverIInv, IInv, TypeOK, Ins
<1>3. IInv'
  BY <1>1 DEF DriverIInv, IInv, TypeOK, Labels, WindowHeld, Progress, Inside,
     PrefixesSoFar, Prefixing, OverrunMeansPrefixes
<1>4. QED
  BY <1>1, <1>2, <1>3
     DEF DriverIInv, WindowIsBuffer, OverrunMeansUsedUp, Answered, Starved

LEMMA DriverInductiveStep == DriverIInv /\ [DriverNext]_streamVars => DriverIInv'
<1> SUFFICES ASSUME DriverIInv, [DriverNext]_streamVars PROVE DriverIInv'
  OBVIOUS
<1>1. CASE UNCHANGED streamVars
  BY <1>1
     DEF streamVars, fileVars, vars, coreVars, DriverIInv, IInv, TypeOK, WindowHeld, Progress,
         Inside, PrefixesSoFar, Prefixing, OverrunMeansPrefixes, WindowIsBuffer, Copied,
         BufferAt, OverrunMeansUsedUp, Answered, Starved, HasRoom, Width, UsedUp
<1>2. QED
  BY <1>1, StepDecodeAt, StepMyFetch8, StepDecodeStep, StepPrintInstruction DEF DriverNext

-----------------------------------------------------------------------------
(* The theorems.                                                           *)

(* DriverIInv is kept by every step of the program.                        *)
THEOREM DriverInductive == DriverSpec => []DriverIInv
  BY DriverInductiveInit, DriverInductiveStep, PTL DEF DriverSpec

LEMMA DriverMeaning ==
    DriverIInv => DriverTypeOK /\ WindowIsBuffer /\ OverrunMeansUsedUp /\ OverrunOpcodeAtEnd
<1> SUFFICES ASSUME DriverIInv
    PROVE  DriverTypeOK /\ WindowIsBuffer /\ OverrunMeansUsedUp /\ OverrunOpcodeAtEnd
  OBVIOUS
<1>1. /\ IInv /\ TypeOK /\ OverrunMeansPrefixes /\ WindowIsBuffer /\ OverrunMeansUsedUp
      /\ Answered /\ file \in Seq(Bytes) /\ {ip, bufr} \subseteq Nat
  BY DEF DriverIInv, IInv
<1>2. Seq(Bytes) \subseteq Seq(Byte)
  BY BytesAssumption
<1>3. DriverTypeOK
  BY <1>1, <1>2 DEF TypeOK, DriverTypeOK
<1>4. OverrunOpcodeAtEnd
  BY <1>1 DEF OverrunMeansPrefixes, Answered, UsedUp, OverrunOpcodeAtEnd
<1>5. QED
  BY <1>1, <1>3, <1>4

(* The variables of the program and of the core keep their types.          *)
THEOREM DriverTypeCorrect == DriverSpec => []DriverTypeOK
  BY DriverMeaning, DriverInductive, PTL

(* However often my_fetch8 is called, tmp mirrors the buffer from ip on:   *)
(* its two limits, the end of tmp and the end of buffer, and the four      *)
(* bytes main puts there first never leave a gap and never copy a byte     *)
(* twice.                                                                  *)
THEOREM TmpMirrorsBuffer == DriverSpec => []WindowIsBuffer
  BY DriverMeaning, DriverInductive, PTL

(* A fetch overrun is counted only when tmp or the buffer is at its end.   *)
THEOREM OverrunsAreReal == DriverSpec => []OverrunMeansUsedUp
  BY DriverMeaning, DriverInductive, PTL

(* The overrun opcode is printed only for prefixes up to such an end.      *)
THEOREM OverrunOpcodeIsReal == DriverSpec => []OverrunOpcodeAtEnd
  BY DriverMeaning, DriverInductive, PTL

-----------------------------------------------------------------------------
(* The streaming program against the flat one.                             *)

(* One decode makes at most four fetches that can fail: behind an FPU      *)
(* escape, of the ModR/M byte and of two operands.  So the counter, which  *)
(* main clears, does not wrap and tells whether one did.                   *)
Counted ==
    /\ pc \in {"opcode", "next", "peek", "fpu"} => overruns = 0
    /\ pc = "modrm" => overruns <= 1
    /\ pc = "operand" => overruns + Len(todo) <= 4
    /\ pc # "idle" /\ failed => overruns > 0

SameIInv ==
    /\ DriverIInv /\ Counted
    /\ FlatIInv
    /\ Len(file) <= BufferSize
    /\ pc # "idle" => ip < Len(file)

LEMMA SmallMod ==
    ASSUME NEW M \in Nat, NEW x \in Nat, x < M
    PROVE  x % M = x
  OBVIOUS

LEMMA Counts ==
    ASSUME CountOverrun, TypeOK, overruns <= 3, failed => overruns > 0
    PROVE  /\ overruns' \in Nat /\ overruns' <= overruns + 1
           /\ HasRoom => overruns' = overruns
           /\ failed' => overruns' > 0
<1>1. overruns \in Nat /\ overruns + 1 < OverrunModulus /\ OverrunModulus \in Nat
  BY CounterAssumption, OverrunAssumption DEF TypeOK
<1>2. CASE HasRoom
  BY <1>1, <1>2 DEF CountOverrun
<1>3. CASE ~HasRoom
  <2>1. overruns' = overruns + 1
    BY <1>1, <1>3, SmallMod DEF CountOverrun
  <2>2. QED
    BY <1>1, <1>3, <2>1
<1>4. QED
  BY <1>2, <1>3

LEMMA CountedOperands ==
    ASSUME NEW i, NEW at, NEW ws, Operands(i, at, ws), overruns' \in Nat,
           overruns' + Len(ws) <= 4, failed' => overruns' > 0
    PROVE  Counted'
<1>1. CASE ws = << >>
  BY <1>1 DEF Operands, Return, Counted
<1>2. CASE ws # << >>
  BY <1>2 DEF Operands, Goto, Counted
<1>3. QED
  BY <1>1, <1>2

LEMMA SmallSum ==
    ASSUME NEW x \in 0 .. 1, NEW y \in 0 .. 1
    PROVE  x + y \in 0 .. 2
  OBVIOUS

LEMMA ShortAfterModRM ==
    ASSUME NEW b, NEW m
    PROVE  Len(Displacement(m) \o ImmAfterRM(b, m)) \in 0 .. 2
<1> DEFINE short == {<< >>, <<1>>, <<2>>}
<1>1. Displacement(m) \in short /\ ImmAfterRM(b, m) \in short
  BY ZenonT(40) DEF Displacement, ImmAfterRM
<1>2. \A u \in short : u \in Widths /\ Len(u) \in 0 .. 1
  BY WidthSequences
<1> HIDE DEF short
<1>3. Len(Displacement(m) \o ImmAfterRM(b, m)) = Len(Displacement(m)) + Len(ImmAfterRM(b, m))
  BY <1>1, <1>2, ConcatProperties DEF Widths
<1>4. Len(Displacement(m)) \in 0 .. 1 /\ Len(ImmAfterRM(b, m)) \in 0 .. 1
  BY <1>1, <1>2
<1>5. Len(Displacement(m)) + Len(ImmAfterRM(b, m)) \in 0 .. 2
  BY <1>4, SmallSum
<1>6. QED
  BY <1>3, <1>5, Zenon

LEMMA ShortImmediates ==
    ASSUME NEW b
    PROVE  Len(Immediates(b)) \in 0 .. 2
<1> DEFINE few == {<< >>, <<1>>, <<2>>, <<2, 2>>}
<1>1. ImmRows0to7(b) \in few /\ ImmRows8toB(b) \in few /\ ImmRowsCtoF(b) \in few
  <2>1. ImmRows0to7(b) \in few
    BY Zenon DEF ImmRows0to7
  <2>2. ImmRows8toB(b) \in few
    BY ZenonT(40) DEF ImmRows8toB
  <2>3. ImmRowsCtoF(b) \in few
    BY SMT DEF ImmRowsCtoF
  <2>4. QED
    BY <2>1, <2>2, <2>3
<1>2. \A u \in few : Len(u) \in 0 .. 2
  OBVIOUS
<1> HIDE DEF few
<1>3. Immediates(b) \in few
  BY <1>1, Zenon DEF Immediates
<1>4. QED
  BY <1>2, <1>3

LEMMA CountedFetchOpcode == IInv /\ Counted /\ FetchOpcode => Counted'
<1> SUFFICES ASSUME IInv, Counted, FetchOpcode PROVE Counted'
  OBVIOUS
<1>1. pc = "opcode" /\ CountOverrun /\ overruns = 0 /\ TypeOK
  BY DEF FetchOpcode, Fetch, Counted, IInv
<1>2. HasRoom
  BY <1>1, IInvMeaning DEF OpcodeInWindow
<1>3. overruns' = 0 /\ (failed' => overruns' > 0)
  BY <1>1, <1>2, Counts DEF Counted
<1>4. PICK b \in ReadValue :
          \/ SegmentPrefix(b) \/ OtherPrefix(b) \/ PeekingOpcode(b)
          \/ ModRMOpcode(b) \/ FPUOpcode(b) \/ PlainOpcode(b)
  BY DEF FetchOpcode
<1>5. CASE SegmentPrefix(b) \/ OtherPrefix(b)
  BY <1>3, <1>5 DEF SegmentPrefix, OtherPrefix, Goto, Counted
<1>6. CASE PeekingOpcode(b)
  BY <1>3, <1>6 DEF PeekingOpcode, Counted
<1>7. CASE ModRMOpcode(b) \/ FPUOpcode(b)
  BY <1>3, <1>7 DEF ModRMOpcode, FPUOpcode, Goto, Counted
<1>8. CASE PlainOpcode(b)
  <2> DEFINE n == Len(Immediates(b))
  <2>1. n \in 0 .. 2
    BY ShortImmediates, Zenon
  <2> HIDE DEF n
  <2>2. 0 + n <= 4
    BY <2>1
  <2>3. QED
    BY <1>3, <1>8, <2>2, CountedOperands DEF PlainOpcode, n
<1>9. QED
  BY <1>4, <1>5, <1>6, <1>7, <1>8

LEMMA CountedNextRound == Counted /\ NextRound => Counted'
<1> SUFFICES ASSUME Counted, NextRound PROVE Counted'
  OBVIOUS
<1>1. pc = "next" /\ overruns' = overruns /\ failed' = failed
  BY DEF NextRound
<1>2. pc' \in {"opcode", "done"}
  BY DEF NextRound, Return, Goto
<1>3. QED
  BY <1>1, <1>2 DEF Counted

LEMMA CountedPeek == Counted /\ Peek => Counted'
<1> SUFFICES ASSUME Counted, Peek PROVE Counted'
  OBVIOUS
<1>1. pc = "peek" /\ overruns' = overruns /\ failed' = failed
  BY DEF Peek
<1>2. pc' \in {"next", "modrm", "done"}
  BY DEF Peek, PeekWait, PeekExtension, Return, Goto
<1>3. QED
  BY <1>1, <1>2 DEF Counted

LEMMA CountedFetchFPU == IInv /\ Counted /\ FetchFPU => Counted'
<1> SUFFICES ASSUME IInv, Counted, FetchFPU PROVE Counted'
  OBVIOUS
<1>1. pc = "fpu" /\ CountOverrun /\ overruns = 0 /\ TypeOK
  BY DEF FetchFPU, Fetch, Counted, IInv
<1>2. overruns' \in Nat /\ overruns' <= 1 /\ (failed' => overruns' > 0)
  BY <1>1, Counts DEF Counted
<1>3. pc' \in {"modrm", "done"}
  BY DEF FetchFPU, Return, Goto
<1>4. QED
  BY <1>2, <1>3 DEF Counted

LEMMA CountedFetchModRM == IInv /\ Counted /\ FetchModRM => Counted'
<1> SUFFICES ASSUME IInv, Counted, FetchModRM PROVE Counted'
  OBVIOUS
<1>1. pc = "modrm" /\ CountOverrun /\ overruns <= 1 /\ overruns \in Nat /\ TypeOK
  BY OverrunAssumption DEF FetchModRM, Fetch, Counted, IInv, TypeOK
<1>2. overruns' \in Nat /\ overruns' <= 2 /\ (failed' => overruns' > 0)
  BY <1>1, Counts DEF Counted
<1>3. PICK m \in ReadValue : \E i :
          Operands(i, ReadNext, Displacement(m) \o ImmAfterRM(ins.lead, m))
  BY DEF FetchModRM
<1>4. overruns' + Len(Displacement(m) \o ImmAfterRM(ins.lead, m)) <= 4
  BY <1>2, ShortAfterModRM
<1>5. QED
  BY <1>2, <1>3, <1>4, CountedOperands

LEMMA CountedFetchOperand == IInv /\ Counted /\ FetchOperand => Counted'
<1> SUFFICES ASSUME IInv, Counted, FetchOperand PROVE Counted'
  OBVIOUS
<1>1. /\ pc = "operand" /\ CountOverrun /\ overruns + Len(todo) <= 4 /\ overruns \in Nat
      /\ TypeOK /\ todo \in Seq({1, 2}) /\ todo # << >>
  BY OverrunAssumption DEF FetchOperand, Fetch, Counted, IInv, TypeOK, Progress
<1>2. Len(todo) \in Nat /\ Len(todo) >= 1 /\ Len(Tail(todo)) = Len(todo) - 1
  BY <1>1, EmptySeq, HeadTailProperties
<1>3. overruns' \in Nat /\ overruns' <= overruns + 1 /\ (failed' => overruns' > 0)
  BY <1>1, <1>2, Counts DEF Counted
<1>4. overruns' + Len(Tail(todo)) <= 4
  BY <1>1, <1>2, <1>3
<1>5. QED
  BY <1>3, <1>4, CountedOperands DEF FetchOperand

LEMMA MyFetch8Grows ==
    ASSUME DriverIInv, MyFetch8
    PROVE  Len(win) <= Len(win') /\ \A k \in 1 .. Len(win) : win'[k] = win[k]
<1> DEFINE room == WindowMax - Len(win)
           left == BufferSize - bufr
           n    == IF left <= 0 THEN 0 ELSE IF left < room THEN left ELSE room
<1>1. /\ file \in Seq(Bytes) /\ bufr \in Nat /\ win \in Seq(Bytes)
      /\ Len(win) \in Nat /\ Len(win) <= WindowMax /\ WindowMax \in Nat /\ BufferSize \in Nat
  BY WindowAssumption, SizesAssumption, LenProperties DEF DriverIInv, IInv, TypeOK
<1>2. win' = win \o Copied(bufr, n)
  BY DEF MyFetch8
<1>3. n \in Nat
  BY <1>1
<1> HIDE DEF n
<1>4. Copied(bufr, n) \in Seq(Bytes)
  BY <1>1, <1>3, CopiedBytes
<1>5. QED
  BY <1>1, <1>2, <1>4, ConcatProperties

LEMMA SameInductiveInit == DriverInit => SameIInv
<1> SUFFICES ASSUME DriverInit PROVE SameIInv
  OBVIOUS
<1>1. DriverIInv /\ pc = "idle"
  BY DriverInductiveInit DEF DriverInit, CoreInit
<1>2. FlatIInv
  BY <1>1 DEF FlatIInv, Follows, DriverIInv
<1>3. Len(file) <= BufferSize
  BY FilesAssumption, SizesAssumption DEF DriverInit
<1>4. QED
  BY <1>1, <1>2, <1>3 DEF SameIInv, Counted

LEMMA SameInductiveStep == SameIInv /\ [DriverNext]_streamVars => SameIInv'
<1> SUFFICES ASSUME SameIInv, [DriverNext]_streamVars PROVE SameIInv'
  OBVIOUS
<1>1. DriverIInv /\ DriverIInv' /\ IInv /\ IInv' /\ FlatIInv /\ Counted
  BY DriverInductiveStep DEF SameIInv, DriverIInv
<1>2. CASE DecodeAt
  <2>1. Enter /\ overruns' = 0 /\ ip' = ip /\ file' = file /\ ip < Len(file)
    BY <1>2 DEF DecodeAt
  <2>2. FlatIInv'
    BY <1>1, <2>1, FollowEnter
  <2>3. Counted'
    BY <2>1 DEF Enter, Counted
  <2>4. QED
    BY <1>1, <2>1, <2>2, <2>3 DEF SameIInv
<1>3. CASE MyFetch8
  <2>1. UNCHANGED <<cip, pc, todo, ins, overruns, failed, unbacked, file, ip>>
    BY <1>3 DEF MyFetch8
  <2>2. Len(win) <= Len(win') /\ \A k \in 1 .. Len(win) : win'[k] = win[k]
    BY <1>1, <1>3, MyFetch8Grows
  <2>3. FlatIInv'
    BY <1>1, <2>1, <2>2, FollowGrowth
  <2>4. QED
    BY <1>1, <2>1, <2>3 DEF SameIInv, Counted
<1>4. CASE DecodeStep
  <2>1. CoreStep /\ ip' = ip /\ file' = file
    BY <1>4 DEF DecodeStep, fileVars
  <2>2. FlatIInv'
    BY <1>1, <2>1, FollowCoreStep
  <2>3. Counted'
    BY <1>1, <2>1, CountedFetchOpcode, CountedNextRound, CountedPeek, CountedFetchFPU,
       CountedFetchModRM, CountedFetchOperand DEF CoreStep
  <2>4. pc # "idle"
    BY <1>1, <2>1, CoreFed DEF Fed
  <2>5. QED
    BY <1>1, <2>1, <2>2, <2>3, <2>4 DEF SameIInv
<1>5. CASE PrintInstruction
  <2>1. pc' = "idle" /\ file' = file
    BY <1>5 DEF PrintInstruction
  <2>2. QED
    BY <1>1, <2>1 DEF SameIInv, Counted, FlatIInv, Follows
<1>6. CASE UNCHANGED streamVars
  <2>1. UNCHANGED <<win, cip, pc, todo, tries, ins, overruns, failed, unbacked, file, ip>>
    BY <1>6 DEF streamVars, fileVars, vars, coreVars
  <2>2. FlatIInv'
    BY <1>1, <2>1, FollowGrowth
  <2>3. QED
    BY <1>1, <2>1, <2>2 DEF SameIInv, Counted
<1>7. QED
  BY <1>2, <1>3, <1>4, <1>5, <1>6 DEF DriverNext

(* Without the warning of an overrun, and with no peek beyond the fence,   *)
(* the streaming program prints the instruction the flat one would: for    *)
(* every file and every size of the buffers, and with the 16-bit counter.  *)
THEOREM ProgramsAgree == DriverSpec => []SameAsFlat
<1>1. SameIInv => SameAsFlat
  <2> SUFFICES ASSUME SameIInv, pc = "done", overruns = 0, ~unbacked, ins.op # "UD_OVERRUN"
      PROVE  ins = FlatDecode(Copied(ip, BufferSize - ip + WindowMax))
    BY DEF SameAsFlat
  <2> DEFINE n == BufferSize - ip + WindowMax
             s == Copied(ip, n)
  <2>1. /\ file \in Seq(Bytes) /\ ip \in Nat /\ ip < Len(file) /\ Len(file) \in Nat
        /\ win \in Seq(Bytes) /\ Len(win) \in Nat /\ Len(win) <= WindowMax
        /\ win = Copied(ip, Len(win)) /\ ~failed /\ FlatIInv
    BY LenProperties DEF SameIInv, DriverIInv, IInv, TypeOK, WindowIsBuffer, Counted
  <2>2. Len(file) <= BufferSize /\ BufferSize \in Nat /\ WindowMax \in Nat
    BY SizesAssumption, WindowAssumption DEF SameIInv, DriverIInv
  <2>3. n \in Nat /\ Len(win) <= n
    BY <2>1, <2>2
  <2> HIDE DEF n
  <2>4. /\ s \in Seq(Bytes) /\ Len(s) = n
        /\ \A k \in 1 .. n : s[k] = BufferAt(ip + k - 1)
    BY <2>1, <2>3, CopiedBytes
  <2>5. \A k \in 1 .. Len(win) : win[k] = BufferAt(ip + k - 1)
    BY <2>1, CopiedBytes
  <2> HIDE DEF s
  <2>6. s \in Seq(Byte)
    BY <2>4, BytesAssumption
  <2>7. Extension(s)
    BY <2>1, <2>3, <2>4, <2>5, <2>6 DEF Extension
  <2>8. ins = FlatDecode(s)
    BY <2>1, <2>7, FlatMeaning
  <2>9. QED
    BY <2>8 DEF s, n
<1>2. DriverSpec => []SameIInv
  BY SameInductiveInit, SameInductiveStep, PTL DEF DriverSpec
<1>3. QED
  BY <1>1, <1>2, PTL


-----------------------------------------------------------------------------
(* The opcodes and the formats of instructions.                            *)

SameSets ==
    /\ Stream!Byte = Byte /\ Stream!NoByte = NoByte /\ Stream!EmptyIns = EmptyIns
    /\ Stream!SegOverrides = SegOverrides /\ Stream!LockPrefixes = LockPrefixes
    /\ Stream!RepPrefixes = RepPrefixes /\ Stream!PeekOpcodes = PeekOpcodes
    /\ Stream!WaitOpcode = WaitOpcode /\ Stream!ModRMOpcodes = ModRMOpcodes
    /\ Stream!FPUEscapes = FPUEscapes /\ Stream!PrefixBytes = PrefixBytes
    /\ Stream!Absent = Absent

LEMMA SetsAreSame == SameSets
<1>1. /\ Stream!Byte = Byte /\ Stream!NoByte = NoByte /\ Stream!EmptyIns = EmptyIns
  BY DEF Stream!Byte, Byte, Stream!NoByte, NoByte, Stream!EmptyIns, EmptyIns,
     Stream!NoSegment, NoSegment
<1>2. /\ Stream!SegOverrides = SegOverrides /\ Stream!LockPrefixes = LockPrefixes
      /\ Stream!RepPrefixes = RepPrefixes /\ Stream!WaitOpcode = WaitOpcode
      /\ Stream!PrefixBytes = PrefixBytes
  BY DEF Stream!SegOverrides, SegOverrides, Stream!LockPrefixes, LockPrefixes,
     Stream!RepPrefixes, RepPrefixes, Stream!WaitOpcode, WaitOpcode,
     Stream!PrefixBytes, PrefixBytes
<1>3. /\ Stream!PeekOpcodes = PeekOpcodes /\ Stream!FPUEscapes = FPUEscapes /\ Stream!Absent = Absent
  BY DEF Stream!PeekOpcodes, PeekOpcodes, Stream!FPUEscapes, FPUEscapes,
     Stream!FarLoads, FarLoads,
     Stream!PopRM, PopRM, Stream!Absent, Absent
<1>4. Stream!ModRMOpcodes = ModRMOpcodes
  BY Zenon DEF Stream!ModRMOpcodes, ModRMOpcodes, Stream!AluRM, AluRM,
     Stream!ModRMRow8, ModRMRow8,
     Stream!ModRMRowC, ModRMRowC, Stream!ModRMRowF, ModRMRowF
<1>5. QED
  BY <1>1, <1>2, <1>3, <1>4 DEF SameSets

LEMMA SameFormats ==
    ASSUME NEW b, NEW m
    PROVE  /\ Stream!SegmentOf(b) = SegmentOf(b) /\ Stream!RepOf(b) = RepOf(b)
           /\ Stream!Immediates(b) = Immediates(b)
           /\ Stream!Displacement(m) = Displacement(m)
           /\ Stream!ImmAfterRM(b, m) = ImmAfterRM(b, m)
           /\ Stream!GroupOutcome(b, m) = GroupOutcome(b, m)
           /\ Stream!FPUMemory(b, m) = FPUMemory(b, m)
           /\ Stream!FPUOutcome(b, m) = FPUOutcome(b, m)
           /\ Stream!Waitable(m) = Waitable(m) /\ Stream!IsExtension(m) = IsExtension(m)
<1>1. Stream!SegmentOf(b) = SegmentOf(b) /\ Stream!RepOf(b) = RepOf(b)
  BY DEF Stream!SegmentOf, SegmentOf, Stream!RepOf, RepOf
<1>2. Stream!Immediates(b) = Immediates(b)
  BY Zenon DEF Stream!Immediates, Immediates, Stream!ImmRows0to7, ImmRows0to7,
    Stream!ImmRows8toB, ImmRows8toB, Stream!ImmRowsCtoF, ImmRowsCtoF
<1>3. Stream!Displacement(m) = Displacement(m)
  BY Zenon DEF Stream!Displacement, Displacement, Stream!Mod, Mod, Stream!Rm, Rm
<1>4. Stream!ImmAfterRM(b, m) = ImmAfterRM(b, m)
  BY Zenon DEF Stream!ImmAfterRM, ImmAfterRM, Stream!Reg, Reg
<1>5. Stream!GroupOutcome(b, m) = GroupOutcome(b, m)
  BY Zenon DEF Stream!GroupOutcome, GroupOutcome, Stream!IncDecGroup, IncDecGroup,
     Stream!Mod, Mod, Stream!Reg, Reg,
     Stream!ShiftOpcodes, ShiftOpcodes, Stream!PopRM, PopRM
<1>6. Stream!FPUMemory(b, m) = FPUMemory(b, m)
  BY Zenon DEF Stream!FPUMemory, FPUMemory, Stream!Mod, Mod, Stream!Reg, Reg
<1>7. Stream!FPUOutcome(b, m) = FPUOutcome(b, m)
  BY Zenon DEF Stream!FPUOutcome, FPUOutcome, Stream!FPUMemory, FPUMemory,
     Stream!FPURegister, FPURegister, Stream!Mod, Mod, Stream!Reg, Reg
<1>8. Stream!Waitable(m) = Waitable(m) /\ Stream!IsExtension(m) = IsExtension(m)
  BY DEF Stream!Waitable, Waitable, Stream!IsExtension, IsExtension
<1>9. QED
  BY <1>1, <1>2, <1>3, <1>4, <1>5, <1>6, <1>7, <1>8

-----------------------------------------------------------------------------
(* The steps of the core, which are those of StreamDecode.                 *)

LEMMA SameGoto ==
    ASSUME NEW p, NEW at, NEW ws, p # "idle", Goto(p, at, ws)
    PROVE  Stream!Goto(p, at, ws)
  BY DEF Goto, Stream!Goto, Missing, Stream!Missing, Returned

LEMMA SameReturn ==
    ASSUME NEW i, NEW at, Return(i, at)
    PROVE  Stream!Return(i, at)
  BY DEF Return, Stream!Return, Returned

LEMMA SameOperands ==
    ASSUME NEW i, NEW at, NEW ws, Operands(i, at, ws)
    PROVE  Stream!Operands(i, at, ws)
  BY SameGoto, SameReturn DEF Operands, Stream!Operands

LEMMA SameReads ==
    ASSUME pc # "idle"
    PROVE  /\ Stream!ReadNext = ReadNext /\ Stream!ReadValue = ReadValue
           /\ Stream!AtCip = AtCip /\ Stream!HasRoom = HasRoom
           /\ CountOverrun => Stream!CountOverrun
<1>1. Stream!HasRoom = HasRoom /\ Stream!Width = Width
  BY DEF Stream!HasRoom, HasRoom, Stream!Width, Width, Returned
<1>2. Stream!AtCip = AtCip
  BY DEF Stream!AtCip, AtCip
<1>3. Stream!ReadNext = ReadNext
  BY <1>1 DEF Stream!ReadNext, ReadNext
<1>4. Stream!ReadValue = ReadValue
  BY <1>1, <1>2 DEF Stream!ReadValue, ReadValue, Stream!ValueAt, ValueAt
<1>5. CountOverrun => Stream!CountOverrun
  BY <1>1 DEF Stream!CountOverrun, CountOverrun
<1>6. QED
  BY <1>1, <1>2, <1>3, <1>4, <1>5

LEMMA SameFetch ==
    ASSUME NEW p, p # "idle", Fetch(p)
    PROVE  Stream!Fetch(p) /\ pc = p
  BY SameReads DEF Fetch, Stream!Fetch, Returned

LEMMA SameFetchOpcode == FetchOpcode => Stream!FetchOpcode
<1> SUFFICES ASSUME FetchOpcode PROVE Stream!FetchOpcode
  OBVIOUS
<1>1. Stream!Fetch("opcode") /\ pc = "opcode"
  BY SameFetch DEF FetchOpcode
<1>2. PICK b \in ReadValue :
          \/ SegmentPrefix(b) \/ OtherPrefix(b) \/ PeekingOpcode(b)
          \/ ModRMOpcode(b) \/ FPUOpcode(b) \/ PlainOpcode(b)
  BY DEF FetchOpcode
<1>3. b \in Stream!ReadValue /\ Stream!ReadNext = ReadNext /\ SameSets
  BY <1>1, SameReads, SetsAreSame
<1>4. SegmentPrefix(b) => Stream!SegmentPrefix(b)
  BY <1>3, SameGoto, SameFormats DEF SegmentPrefix, Stream!SegmentPrefix, SameSets
<1>5. OtherPrefix(b) => Stream!OtherPrefix(b)
  BY <1>3, SameGoto, SameFormats DEF OtherPrefix, Stream!OtherPrefix, SameSets
<1>6. PeekingOpcode(b) => Stream!PeekingOpcode(b)
  BY <1>3 DEF PeekingOpcode, Stream!PeekingOpcode, SameSets, Returned
<1>7. ModRMOpcode(b) => Stream!ModRMOpcode(b)
  BY <1>3, SameGoto DEF ModRMOpcode, Stream!ModRMOpcode, SameSets
<1>8. FPUOpcode(b) => Stream!FPUOpcode(b)
  BY <1>3, SameGoto DEF FPUOpcode, Stream!FPUOpcode, SameSets
<1>9. PlainOpcode(b) => Stream!PlainOpcode(b)
  BY <1>3, SameOperands, SameFormats DEF PlainOpcode, Stream!PlainOpcode, SameSets
<1>10. QED
  BY <1>1, <1>2, <1>3, <1>4, <1>5, <1>6, <1>7, <1>8, <1>9 DEF Stream!FetchOpcode

LEMMA SameNextRound == NextRound => Stream!NextRound
  BY SameGoto, SameReturn DEF NextRound, Stream!NextRound, Returned

LEMMA SamePeek == Peek => Stream!Peek
<1> SUFFICES ASSUME Peek PROVE Stream!Peek
  OBVIOUS
<1>1. pc = "peek" /\ Stream!AtCip = AtCip /\ SameSets
  BY SetsAreSame, SameReads DEF Peek
<1>2. PICK x \in AtCip : PeekWait(x) \/ PeekExtension(x)
  BY DEF Peek
<1>3. PeekWait(x) => Stream!PeekWait(x)
  BY <1>1, SameGoto, SameReturn, SameFormats DEF PeekWait, Stream!PeekWait, SameSets
<1>4. PeekExtension(x) => Stream!PeekExtension(x)
  BY <1>1, SameGoto, SameReturn, SameFormats DEF PeekExtension, Stream!PeekExtension,
     SameSets
<1>5. QED
  BY <1>1, <1>2, <1>3, <1>4 DEF Peek, Stream!Peek, Returned

LEMMA SameFetchFPU == FetchFPU => Stream!FetchFPU
<1> SUFFICES ASSUME FetchFPU PROVE Stream!FetchFPU
  OBVIOUS
<1> DEFINE i(x) == [ins EXCEPT !.fpu = x, !.op = FPUOutcome(ins.lead, x)]
<1>1. Stream!Fetch("fpu") /\ pc = "fpu"
  BY SameFetch DEF FetchFPU
<1>2. PICK x \in ReadValue :
          IF FPUMemory(ins.lead, x)
          THEN ins' = i(x) /\ Goto("modrm", ReadNext - 1, << >>)
          ELSE Return(i(x), ReadNext)
  BY DEF FetchFPU
<1>3. x \in Stream!ReadValue /\ Stream!ReadNext = ReadNext
  BY <1>1, <1>2, SameReads
<1>4. /\ i(x) = [ins EXCEPT !.fpu = x, !.op = Stream!FPUOutcome(ins.lead, x)]
      /\ Stream!FPUMemory(ins.lead, x) = FPUMemory(ins.lead, x)
  BY SameFormats
<1> HIDE DEF i
<1>5. IF Stream!FPUMemory(ins.lead, x)
      THEN ins' = i(x) /\ Stream!Goto("modrm", Stream!ReadNext - 1, << >>)
      ELSE Stream!Return(i(x), Stream!ReadNext)
  BY <1>2, <1>3, <1>4, SameGoto, SameReturn
<1>6. QED
  BY <1>1, <1>3, <1>4, <1>5 DEF Stream!FetchFPU

LEMMA SameFetchModRM == FetchModRM => Stream!FetchModRM
<1> SUFFICES ASSUME FetchModRM PROVE Stream!FetchModRM
  OBVIOUS
<1>1. Stream!Fetch("modrm") /\ pc = "modrm" /\ SameSets
  BY SameFetch, SetsAreSame DEF FetchModRM
<1> DEFINE i(m)  == [ins EXCEPT !.rm = m,
                        !.op = IF ins.lead \in FPUEscapes THEN ins.op
                               ELSE GroupOutcome(ins.lead, m)]
           ws(m) == Displacement(m) \o ImmAfterRM(ins.lead, m)
<1>2. PICK m \in ReadValue : Operands(i(m), ReadNext, ws(m))
  BY DEF FetchModRM
<1>3. m \in Stream!ReadValue /\ Stream!ReadNext = ReadNext
  BY <1>1, <1>2, SameReads
<1>4. /\ i(m) = [ins EXCEPT !.rm = m,
                   !.op = IF ins.lead \in Stream!FPUEscapes THEN ins.op
                          ELSE Stream!GroupOutcome(ins.lead, m)]
      /\ ws(m) = Stream!Displacement(m) \o Stream!ImmAfterRM(ins.lead, m)
  BY <1>1, SameFormats DEF SameSets
<1> HIDE DEF i, ws
<1>5. Stream!Operands(i(m), Stream!ReadNext, ws(m))
  BY <1>2, <1>3, SameOperands
<1>6. QED
  BY <1>1, <1>3, <1>4, <1>5 DEF Stream!FetchModRM

LEMMA SameFetchOperand == FetchOperand => Stream!FetchOperand
<1> SUFFICES ASSUME FetchOperand PROVE Stream!FetchOperand
  OBVIOUS
<1>1. Stream!Fetch("operand") /\ pc = "operand"
  BY SameFetch DEF FetchOperand
<1>2. \A v \in ReadValue : v \in Stream!ReadValue /\ Stream!ReadNext = ReadNext
  BY <1>1, SameReads
<1>3. QED
  BY <1>1, <1>2, SameOperands DEF FetchOperand, Stream!FetchOperand

LEMMA SameStep == CoreStep => Stream!CoreStep
  BY SameFetchOpcode, SameNextRound, SamePeek, SameFetchFPU, SameFetchModRM,
     SameFetchOperand
     DEF CoreStep, Stream!CoreStep

-----------------------------------------------------------------------------
(* The steps of the program.                                               *)

LEMMA StreamInit == DriverInit => Stream!Init
<1> SUFFICES ASSUME DriverInit PROVE Stream!Init
  OBVIOUS
<1>1. ~Returned /\ Stream!EmptyIns = EmptyIns /\ CoreInit /\ win = << >>
  BY SetsAreSame DEF DriverInit, CoreInit, Returned, EmptyIns, SameSets
<1>2. QED
  BY <1>1 DEF CoreInit, Stream!CoreInit, Stream!Init

LEMMA CallIsCall == DriverIInv /\ DecodeAt => Stream!Call
<1> SUFFICES ASSUME DriverIInv, DecodeAt PROVE Stream!Call
  OBVIOUS
<1>1. /\ pc = "idle" /\ pc' = "opcode" /\ overruns' = 0 /\ win' = Copied(ip, Prefetch) /\ Enter
      /\ Prefetch \in Nat /\ Prefetch = PrefetchMax
  BY WindowAssumption, SizesAssumption DEF DecodeAt, Enter
<1>2. Stream!Enter
  BY <1>1, SetsAreSame DEF Enter, Stream!Enter, SameSets, Returned
<1>3. \A k \in 1 .. Prefetch : Copied(ip, Prefetch)[k] \in Bytes
  BY <1>1, CopiedBytes, ElementOfSeq DEF DriverIInv
<1>4. win' \in [1 .. Prefetch -> Bytes]
  BY <1>1, <1>3 DEF Copied
<1>5. Prefetch \in Prefetch .. PrefetchMax
  BY <1>1
<1>6. QED
  BY <1>1, <1>2, <1>4, <1>5 DEF Stream!Call, Returned

LEMMA CallbackIsCallback == DriverIInv /\ MyFetch8 => Stream!Callback
<1> SUFFICES ASSUME DriverIInv, MyFetch8 PROVE Stream!Callback
  OBVIOUS
<1> DEFINE room == WindowMax - Len(win)
           left == BufferSize - bufr
           n    == IF left <= 0 THEN 0 ELSE IF left < room THEN left ELSE room
<1>1. /\ file \in Seq(Bytes) /\ bufr \in Nat /\ Len(win) \in Nat /\ Len(win) <= WindowMax
      /\ WindowMax \in Nat /\ BufferSize \in Nat
  BY LenProperties, WindowAssumption, SizesAssumption DEF DriverIInv, IInv, TypeOK
<1>2. /\ tries > 0 /\ tries' = tries - 1 /\ win' = win \o Copied(bufr, n)
      /\ UNCHANGED <<cip, pc, todo, ins, overruns, failed, unbacked>>
  BY DEF MyFetch8
<1>3. n \in Nat /\ n \in 0 .. WindowMax - Len(win)
  BY <1>1
<1> HIDE DEF n
<1>4. \A k \in 1 .. n : Copied(bufr, n)[k] \in Bytes
  BY <1>1, <1>3, CopiedBytes, ElementOfSeq
<1>5. Copied(bufr, n) \in [1 .. n -> Bytes]
  BY <1>4 DEF Copied
<1>6. QED
  BY <1>2, <1>3, <1>5 DEF Stream!Callback, Returned

LEMMA PrintIsStutter == DriverIInv /\ PrintInstruction => UNCHANGED Stream!vars
<1> SUFFICES ASSUME DriverIInv, PrintInstruction PROVE UNCHANGED Stream!vars
  OBVIOUS
<1>1. /\ pc = "done" /\ pc' = "idle" /\ ins' = ins
      /\ UNCHANGED <<win, cip, todo, tries, overruns, failed, unbacked>>
  BY DEF PrintInstruction
<1>2. ins.len \in 1 .. Len(win) /\ Len(win) \in Nat
  BY <1>1, LenProperties DEF DriverIInv, IInv, TypeOK, Progress
<1>3. ins.len > 0
  BY <1>2
<1>4. QED
  BY <1>1, <1>3 DEF Stream!vars, Stream!coreVars, Returned

LEMMA StreamStep == DriverIInv /\ [DriverNext]_streamVars => [Stream!Next]_(Stream!vars)
<1> SUFFICES ASSUME DriverIInv, [DriverNext]_streamVars PROVE [Stream!Next]_(Stream!vars)
  OBVIOUS
<1>1. CASE DecodeAt
  BY <1>1, CallIsCall DEF Stream!Next
<1>2. CASE MyFetch8
  BY <1>2, CallbackIsCallback DEF Stream!Next
<1>3. CASE DecodeStep
  BY <1>3, SameStep DEF DecodeStep, Stream!Next
<1>4. CASE PrintInstruction
  BY <1>4, PrintIsStutter
<1>5. CASE UNCHANGED streamVars
  BY <1>5 DEF streamVars, vars, coreVars, Stream!vars, Stream!coreVars, Returned
<1>6. QED
  BY <1>1, <1>2, <1>3, <1>4, <1>5 DEF DriverNext

(* The streaming program is one of the callers StreamDecode describes: the *)
(* loop of main makes calls, my_fetch8 is a callback that stays within     *)
(* tmp, and printing between two instructions changes nothing there.       *)
THEOREM DriverIsCaller == DriverSpec => IsStreamCaller
<1>1. DriverInit => Stream!Init
  BY StreamInit
<1>2. DriverIInv /\ [DriverNext]_streamVars => [Stream!Next]_(Stream!vars)
  BY StreamStep
<1>3. QED
  BY <1>1, <1>2, DriverInductive, PTL DEF DriverSpec, IsStreamCaller, Stream!Spec
=============================================================================
