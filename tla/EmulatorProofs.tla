--------------------------- MODULE EmulatorProofs ---------------------------
(***************************************************************************)
(* Proofs about the 8088 emulator, for every memory, every buffer of at    *)
(* least twice the prefetch and every entry point: the prefetch queue is   *)
(* the memory at the instruction pointer, the bytes it keeps free at the   *)
(* end of the buffer stay free, the clocks count the bytes fetched, the    *)
(* linear pointer and the IP register agree modulo the register, and the   *)
(* instruction decoded is the one that stands in memory.                   *)
(***************************************************************************)
EXTENDS Emulator8088, CoreProofs

LEMMA Sizes ==
    /\ Prefetch \in Nat /\ Prefetch >= 2 /\ Safety \in Nat /\ BufferSize \in Nat
    /\ BufferSize >= Prefetch + Prefetch + Safety
    /\ WindowMax = BufferSize - Safety /\ WindowMax \in Nat
    /\ IPModulus \in Nat \ {0} /\ CodeBase \in Nat
    /\ EntryIP \in 0 .. IPModulus - 1
    /\ MaxSteps \in Nat
  BY BufferAssumption, WindowAssumption, IPAssumption

LEMMA MemoryBytes ==
    ASSUME \A a \in DOMAIN mem : mem[a] \in Bytes, NEW a
    PROVE  MemRead(a) \in Bytes
  BY ProgramAssumption DEF MemRead

LEMMA CoreKeepsWindow == CoreStep => win' = win
  BY DEF CoreStep, FetchOpcode, NextRound, Peek, FetchFPU, FetchModRM,
     FetchOperand, Fetch

(* Arithmetic modulo the width of a register.                              *)
LEMMA DivMod ==
    ASSUME NEW M \in Nat \ {0}, NEW x \in Int
    PROVE  x = M * (x \div M) + (x % M) /\ x % M \in 0 .. M - 1 /\ x \div M \in Int
  OBVIOUS

LEMMA ModUnique ==
    ASSUME NEW M \in Nat \ {0}, NEW x \in Int, NEW q \in Int, NEW r \in 0 .. M - 1,
           x = M * q + r
    PROVE  x % M = r
  OBVIOUS

LEMMA Distributes ==
    ASSUME NEW a \in Int, NEW b \in Int, NEW c \in Int
    PROVE  a * (b + c) = a * b + a * c
  OBVIOUS

LEMMA ModPlus ==
    ASSUME NEW M \in Nat \ {0}, NEW x \in Int, NEW y \in Int
    PROVE  (x + y) % M = ((x % M) + y) % M
<1> DEFINE s == (x % M) + y
<1>1. x = M * (x \div M) + (x % M) /\ x % M \in 0 .. M - 1 /\ x \div M \in Int
  BY DivMod
<1>2. s \in Int
  BY <1>1
<1> HIDE DEF s
<1>3. s = M * (s \div M) + (s % M) /\ s % M \in 0 .. M - 1 /\ s \div M \in Int
  BY <1>2, DivMod
<1>4. x + y = M * ((x \div M) + (s \div M)) + (s % M)
  <2>1. x + y = M * (x \div M) + s
    BY <1>1 DEF s
  <2>2. M * ((x \div M) + (s \div M)) = M * (x \div M) + M * (s \div M)
    <3>1. x \div M \in Int /\ s \div M \in Int /\ M \in Int
      BY <1>1, <1>3
    <3>2. QED
      BY <3>1, Distributes, Zenon
  <2>3. M * (x \div M) \in Int /\ M * (s \div M) \in Int
    BY <1>1, <1>3
  <2>4. QED
    BY <1>3, <2>1, <2>2, <2>3
<1>5. (x \div M) + (s \div M) \in Int /\ x + y \in Int
  BY <1>1, <1>3
<1>6. (x + y) % M = s % M
  BY <1>3, <1>4, <1>5, ModUnique
<1>7. QED
  BY <1>6 DEF s

(* The two ways in which a byte gets into the window.                      *)
LEMMA FetchKeeps ==
    ASSUME EmuIInv, FetchByte, UNCHANGED <<mem, ipBase, ipValue>>
    PROVE  /\ win' \in Seq(Bytes) /\ Len(win') = Len(win) + 1
           /\ \A k \in 1 .. Len(win) : win'[k] = win[k]
           /\ QueueIsMemory' /\ ClocksCountFetches' /\ IPInStep'
           /\ {ipBase', ipPrefetch', clkCPU', clkMaster'} \subseteq Nat
<1>1. /\ win \in Seq(Bytes) /\ Len(win) \in Nat
      /\ ipBase \in Nat /\ ipPrefetch \in Nat /\ clkCPU \in Nat /\ clkMaster \in Nat
  BY LenProperties DEF EmuIInv, EmuTypeOK, TypeOK
<1>2. MemRead(ipPrefetch) \in Bytes
  BY MemoryBytes DEF EmuIInv, EmuTypeOK
<1>3. win' = Append(win, MemRead(ipPrefetch)) /\ ipPrefetch' = ipPrefetch + 1
  BY DEF FetchByte
<1>4. /\ win' \in Seq(Bytes) /\ Len(win') = Len(win) + 1
      /\ \A k \in 1 .. Len(win) : win'[k] = win[k]
      /\ win'[Len(win) + 1] = MemRead(ipPrefetch)
  BY <1>1, <1>2, <1>3, AppendProperties
<1>5. QueueIsMemory'
  <2>1. ipPrefetch' = ipBase' + Len(win')
    BY <1>1, <1>3, <1>4 DEF EmuIInv, QueueIsMemory
  <2>2. ASSUME NEW k \in 1 .. Len(win')
        PROVE  win'[k] = MemRead(ipBase + k - 1)
    <3>1. CASE k \in 1 .. Len(win)
      BY <1>4, <3>1 DEF EmuIInv, QueueIsMemory
    <3>2. CASE k = Len(win) + 1
      <4>1. ipBase + k - 1 = ipPrefetch
        BY <1>1, <3>2 DEF EmuIInv, QueueIsMemory
      <4>2. QED
        BY <1>4, <3>2, <4>1
    <3>3. QED
      BY <1>1, <1>4, <3>1, <3>2
  <2>3. QED
    BY <2>1, <2>2 DEF QueueIsMemory, MemRead
<1>6. ClocksCountFetches'
  BY <1>1, <1>3, Sizes
     DEF FetchByte, AdvanceClocks, BusCycle, CPUClockDivide, EmuIInv, ClocksCountFetches
<1>7. IPInStep'
  BY DEF EmuIInv, IPInStep
<1>8. {ipBase', ipPrefetch', clkCPU', clkMaster'} \subseteq Nat
  BY <1>1, <1>3 DEF FetchByte, AdvanceClocks, BusCycle, CPUClockDivide
<1>9. QED
  BY <1>4, <1>5, <1>6, <1>7, <1>8

(* The slide of emu8086_state_prefetch_cycle leaves room for Prefetch      *)
(* bytes before the safety zone.                                           *)
LEMMA StepPrefetchCycle == EmuIInv /\ PrefetchCycle => EmuIInv'
<1> SUFFICES ASSUME EmuIInv, PrefetchCycle PROVE EmuIInv'
  OBVIOUS
<1>1. /\ win' \in Seq(Bytes) /\ Len(win') = Len(win) + 1
      /\ QueueIsMemory' /\ ClocksCountFetches' /\ IPInStep'
      /\ {ipBase', ipPrefetch', clkCPU', clkMaster'} \subseteq Nat
  BY FetchKeeps DEF PrefetchCycle
<1>2. Len(win) \in Nat /\ data \in Nat /\ Len(win) < Prefetch
  BY LenProperties, Sizes DEF EmuIInv, EmuTypeOK, TypeOK, PrefetchCycle
<1>3. data' = 0 \/ (data' = data /\ data + Prefetch + Safety <= BufferSize)
  BY <1>2, Sizes DEF PrefetchCycle, FlushNeeded
<1>4. BufferSane' /\ data' \in 0 .. BufferSize /\ Len(win') <= WindowMax
  BY <1>1, <1>2, <1>3, Sizes DEF BufferSane, End
<1>5. TypeOK'
  BY <1>1, <1>4 DEF PrefetchCycle, coreVars, EmuIInv, EmuTypeOK, TypeOK
<1>6. EmuTypeOK'
  BY <1>1, <1>4, <1>5 DEF PrefetchCycle, EmuIInv, EmuTypeOK
<1>7. filling' /\ tries' = 0
  BY DEF PrefetchCycle, coreVars, EmuIInv
<1>8. QED
  BY <1>1, <1>4, <1>6, <1>7 DEF EmuIInv

LEMMA StepCallCore == EmuIInv /\ CallCore => EmuIInv'
<1> SUFFICES ASSUME EmuIInv, CallCore PROVE EmuIInv'
  OBVIOUS
<1>1. /\ win' = win /\ overruns' = overruns /\ ~filling' /\ filling' \in BOOLEAN
      /\ Enter
  BY DEF CallCore
<1>2. /\ win \in Seq(Bytes) /\ Len(win) \in Nat /\ Len(win) <= WindowMax
      /\ Len(win) >= 2 /\ overruns \in 0 .. OverrunModulus - 1
  BY SMTT(30), LenProperties, Sizes DEF EmuIInv, EmuTypeOK, TypeOK, CallCore
<1>3. IInv'
  BY <1>1, <1>2, EnterKeeps
<1>4. EmuTypeOK'
  BY <1>1, <1>3 DEF CallCore, EmuIInv, EmuTypeOK, IInv
<1>5. QED
  BY <1>1, <1>3, <1>4
     DEF CallCore, EmuIInv, BufferSane, End, QueueIsMemory, MemRead,
         ClocksCountFetches, IPInStep

LEMMA StepDecode == EmuIInv /\ DecodeStep => EmuIInv'
<1> SUFFICES ASSUME EmuIInv, DecodeStep PROVE EmuIInv'
  OBVIOUS
<1>1. win' = win /\ UNCHANGED machineVars /\ ~filling
  BY CoreKeepsWindow DEF DecodeStep
<1>2. IInv'
  BY <1>1, CoreKeeps DEF DecodeStep, EmuIInv
<1>3. EmuTypeOK'
  BY <1>1, <1>2 DEF machineVars, EmuIInv, EmuTypeOK, IInv
<1>4. QED
  BY <1>1, <1>2, <1>3
     DEF machineVars, EmuIInv, BufferSane, End, QueueIsMemory, MemRead,
         ClocksCountFetches, IPInStep

(* fetch_decode_byte stops short of the safety zone.                       *)
LEMMA StepFetchDecodeByte == EmuIInv /\ FetchDecodeByte => EmuIInv'
<1> SUFFICES ASSUME EmuIInv, FetchDecodeByte PROVE EmuIInv'
  OBVIOUS
<1>1. /\ Len(win) \in Nat /\ data \in Nat /\ win \in Seq(Bytes) /\ tries \in Nat
      /\ data + Len(win) <= BufferSize - Safety
  BY LenProperties, Sizes
     DEF EmuIInv, EmuTypeOK, TypeOK, BufferSane, End
<1>2. /\ tries > 0 /\ tries' = tries - 1
      /\ UNCHANGED <<cip, pc, todo, ins, overruns, failed, unbacked>>
      /\ UNCHANGED <<mem, data, ipBase, ipValue, count, filling, held>>
  BY DEF FetchDecodeByte
<1>3. ~filling /\ IInv
  BY <1>1, <1>2 DEF EmuIInv
<1>4. /\ win' \in Seq(Bytes) /\ Len(win) <= Len(win') /\ Len(win') \in Nat
      /\ \A k \in 1 .. Len(win) : win'[k] = win[k]
      /\ data + Len(win') <= BufferSize - Safety
      /\ QueueIsMemory' /\ ClocksCountFetches' /\ IPInStep'
      /\ {ipBase', ipPrefetch', clkCPU', clkMaster'} \subseteq Nat
  <2>1. CASE End + Safety < BufferSize
    <3>1. FetchByte
      BY <2>1 DEF FetchDecodeByte
    <3>2. QED
      BY <1>1, <1>2, <2>1, <3>1, FetchKeeps, Sizes DEF End
  <2>2. CASE ~(End + Safety < BufferSize)
    <3>1. UNCHANGED <<win, ipPrefetch, clkCPU, clkMaster>>
      BY <2>2 DEF FetchDecodeByte
    <3>2. QED
      BY <1>1, <1>2, <3>1
         DEF EmuIInv, EmuTypeOK, QueueIsMemory, MemRead, ClocksCountFetches, IPInStep
  <2>3. QED
    BY <2>1, <2>2
<1>5. Len(win') <= WindowMax
  BY <1>1, <1>4, Sizes
<1>6. IInv'
  BY <1>2, <1>3, <1>4, <1>5, GrowKeeps
<1>7. EmuTypeOK'
  BY <1>2, <1>4, <1>6 DEF EmuIInv, EmuTypeOK, IInv
<1>8. BufferSane'
  BY <1>2, <1>4 DEF BufferSane, End
<1>9. QED
  BY <1>2, <1>3, <1>4, <1>6, <1>7, <1>8 DEF EmuIInv

(* The result of the core never covers more than the window, so that the   *)
(* buffer and the two instruction pointers advance over fetched bytes.     *)
LEMMA StepRetire == EmuIInv /\ Retire => EmuIInv'
<1> SUFFICES ASSUME EmuIInv, Retire PROVE EmuIInv'
  OBVIOUS
<1> DEFINE n == ins.len
<1>1. /\ IInv /\ pc = "done" /\ tries = 0
      /\ win \in Seq(Bytes) /\ Len(win) \in Nat /\ n \in 1 .. Len(win)
  BY LenProperties DEF EmuIInv, Retire, IInv, Progress, TypeOK
<1>2. /\ data \in Nat /\ data + Len(win) <= BufferSize - Safety
      /\ ipBase \in Nat /\ ipPrefetch \in Nat /\ ipValue \in 0 .. IPModulus - 1
      /\ count \in 0 .. MaxSteps /\ count < MaxSteps
  BY Sizes DEF EmuIInv, EmuTypeOK, BufferSane, End, Retire
<1>3. /\ win' = SubSeq(win, n + 1, Len(win)) /\ data' = data + n
      /\ ipBase' = ipBase + n /\ ipValue' = (ipValue + n) % IPModulus
      /\ count' = count + 1 /\ filling' = TRUE
      /\ UNCHANGED <<coreVars, mem, ipPrefetch, clkCPU, clkMaster>>
  BY DEF Retire
<1> HIDE DEF n
<1>4. /\ win' \in Seq(Bytes) /\ Len(win') = Len(win) - n
      /\ \A k \in 1 .. Len(win) - n : win'[k] = win[n + k]
  <2>1. /\ SubSeq(win, n + 1, Len(win)) \in Seq(Bytes)
        /\ Len(SubSeq(win, n + 1, Len(win))) = Len(win) - n
    BY <1>1, SubSeqProperties
  <2>2. ASSUME NEW k \in 1 .. Len(win) - n
        PROVE  SubSeq(win, n + 1, Len(win))[k] = win[n + k]
    BY <1>1, SubSeqProperties
  <2>3. QED
    BY <1>3, <2>1, <2>2
<1>5. BufferSane' /\ data' \in 0 .. BufferSize /\ Len(win') <= WindowMax
  <2>1. data' + Len(win') = data + Len(win) /\ data' \in Nat /\ Len(win') \in Nat
    <3>1. data' = data + n /\ Len(win') = Len(win) - n
      BY <1>3, <1>4
    <3>2. QED
      BY <1>1, <1>2, <3>1
  <2>2. QED
    BY <1>2, <2>1, Sizes DEF BufferSane, End
<1>6. QueueIsMemory'
  <2>1. ipPrefetch' = ipBase' + Len(win')
    <3>1. ipPrefetch = ipBase + Len(win) /\ ipPrefetch' = ipPrefetch
      BY <1>3 DEF EmuIInv, QueueIsMemory
    <3>2. ipBase' + Len(win') = ipBase + Len(win)
      <4>1. ipBase' = ipBase + n /\ Len(win') = Len(win) - n
        BY <1>3, <1>4
      <4>2. QED
        BY <1>1, <1>2, <4>1
    <3>3. QED
      BY <3>1, <3>2
  <2>2. ASSUME NEW k \in 1 .. Len(win')
        PROVE  win'[k] = MemRead(ipBase' + k - 1)
    <3>1. n + k \in 1 .. Len(win) /\ win'[k] = win[n + k]
      BY <1>1, <1>4
    <3>2. ipBase + (n + k) - 1 = ipBase' + k - 1
      BY <1>1, <1>2, <1>3
    <3>3. QED
      BY <3>1, <3>2 DEF EmuIInv, QueueIsMemory
  <2>3. QED
    BY <1>3, <2>1, <2>2 DEF QueueIsMemory, MemRead
<1>7. ipValue' \in 0 .. IPModulus - 1 /\ IPInStep'
  <2>1. (ipBase' - CodeBase) % IPModulus = ((ipBase - CodeBase) + n) % IPModulus
    <3>1. ipBase' - CodeBase = (ipBase - CodeBase) + n
      BY <1>1, <1>2, <1>3, Sizes
    <3>2. QED
      BY <3>1
  <2>2. @ = (((ipBase - CodeBase) % IPModulus) + n) % IPModulus
    <3>1. ipBase - CodeBase \in Int /\ n \in Int
      BY <1>1, <1>2, Sizes
    <3>2. QED
      BY <3>1, ModPlus, Sizes
  <2>3. @ = ipValue'
    BY <1>3 DEF EmuIInv, IPInStep
  <2>4. ipValue + n \in Int
    BY <1>1, <1>2, Sizes
  <2>5. QED
    BY <1>3, <2>1, <2>2, <2>3, <2>4, DivMod, Sizes DEF IPInStep
<1>8. ClocksCountFetches'
  BY <1>3 DEF EmuIInv, ClocksCountFetches
<1>9. TypeOK'
  BY <1>3, <1>4, <1>5 DEF coreVars, EmuIInv, EmuTypeOK, TypeOK
<1>10. ipBase' \in Nat /\ count' \in 0 .. MaxSteps
  BY <1>1, <1>2, <1>3, Sizes
<1>11. EmuTypeOK'
  BY <1>3, <1>5, <1>7, <1>9, <1>10 DEF EmuIInv, EmuTypeOK
<1>12. tries' = 0
  BY <1>1, <1>3 DEF coreVars
<1>13. QED
  BY <1>3, <1>5, <1>6, <1>7, <1>8, <1>11, <1>12 DEF EmuIInv

LEMMA EmuInductiveInit == EmuInit => EmuIInv
<1> SUFFICES ASSUME EmuInit PROVE EmuIInv
  OBVIOUS
<1>1. /\ win = << >> /\ Len(win) = 0 /\ filling /\ filling = TRUE /\ tries = 0
      /\ data = 0 /\ mem \in Programs /\ count = 0 /\ clkCPU = 0 /\ clkMaster = 0
      /\ ipBase = CodeBase + EntryIP /\ ipPrefetch = ipBase /\ ipValue = EntryIP
  BY EmptySeq DEF EmuInit, CoreInit
<1>2. TypeOK
  BY CoreInitKeeps DEF EmuInit, IInv
<1>3. EmuTypeOK
  BY <1>1, <1>2, Sizes, ProgramAssumption DEF EmuTypeOK
<1>4. BufferSane /\ QueueIsMemory /\ ClocksCountFetches
  BY <1>1, Sizes
     DEF BufferSane, End, QueueIsMemory, ClocksCountFetches, BusCycle, CPUClockDivide
<1>5. IPInStep
  <2>1. EntryIP = IPModulus * 0 + EntryIP
    BY Sizes
  <2>2. EntryIP % IPModulus = EntryIP
    BY <2>1, ModUnique, Sizes
  <2>3. ipBase - CodeBase = EntryIP
    BY <1>1, Sizes
  <2>4. QED
    BY <1>1, <2>2, <2>3 DEF IPInStep
<1>6. QED
  BY <1>1, <1>3, <1>4, <1>5 DEF EmuIInv

LEMMA EmuInductiveStep == EmuIInv /\ [EmuNext]_allVars => EmuIInv'
<1> SUFFICES ASSUME EmuIInv, [EmuNext]_allVars PROVE EmuIInv'
  OBVIOUS
<1>1. CASE PrefetchCycle
  BY <1>1, StepPrefetchCycle
<1>2. CASE CallCore
  BY <1>2, StepCallCore
<1>3. CASE FetchDecodeByte
  BY <1>3, StepFetchDecodeByte
<1>4. CASE DecodeStep
  BY <1>4, StepDecode
<1>5. CASE Retire
  BY <1>5, StepRetire
<1>6. CASE UNCHANGED allVars
  BY <1>6
     DEF allVars, machineVars, vars, coreVars, EmuIInv, EmuTypeOK, TypeOK, IInv,
         WindowHeld, Progress, Inside, PrefixesSoFar, Prefixing,
         OverrunMeansPrefixes, BufferSane, End, QueueIsMemory, MemRead,
         ClocksCountFetches, IPInStep
<1>7. QED
  BY <1>1, <1>2, <1>3, <1>4, <1>5, <1>6 DEF EmuNext

THEOREM EmuInductive == EmuSpec => []EmuIInv
  BY EmuInductiveInit, EmuInductiveStep, PTL DEF EmuSpec

(* The emulator's variables keep their types.                              *)
THEOREM EmuTypeCorrect == EmuSpec => []EmuTypeOK
<1>1. EmuIInv => EmuTypeOK
  BY DEF EmuIInv
<1>2. QED
  BY <1>1, EmuInductive, PTL

(* The last Safety bytes of the buffer are never written, whatever mixture *)
(* of slides, refills and callbacks the programs cause.                    *)
THEOREM BufferStaysSane == EmuSpec => []BufferSane
<1>1. EmuIInv => BufferSane
  BY DEF EmuIInv
<1>2. QED
  BY <1>1, EmuInductive, PTL

(* The window is at all times the memory from the instruction pointer on.  *)
THEOREM QueueHoldsMemory == EmuSpec => []QueueIsMemory
<1>1. EmuIInv => QueueIsMemory
  BY DEF EmuIInv
<1>2. QED
  BY <1>1, EmuInductive, PTL

(* Each byte read costs one bus cycle, and nothing else costs time.        *)
THEOREM ClocksAreFetches == EmuSpec => []ClocksCountFetches
<1>1. EmuIInv => ClocksCountFetches
  BY DEF EmuIInv
<1>2. QED
  BY <1>1, EmuInductive, PTL

(* IP wraps, its linear base does not, and they agree modulo the register. *)
THEOREM IPStaysInStep == EmuSpec => []IPInStep
<1>1. EmuIInv => IPInStep
  BY DEF EmuIInv
<1>2. QED
  BY <1>1, EmuInductive, PTL

-----------------------------------------------------------------------------
(* What the emulator decodes.                                              *)

(* While an instruction is decoded, the decode follows that of the flat    *)
(* core on whatever begins with the window.                                *)
MemoryIInv == EmuIInv /\ (~filling => FlatIInv)

LEMMA FetchDecodeByteGrows ==
    ASSUME EmuIInv, FetchDecodeByte
    PROVE  Len(win) <= Len(win') /\ \A k \in 1 .. Len(win) : win'[k] = win[k]
<1>1. win \in Seq(Bytes) /\ Len(win) \in Nat /\ MemRead(ipPrefetch) \in Bytes
  BY LenProperties, MemoryBytes DEF EmuIInv, EmuTypeOK, TypeOK
<1>2. CASE win' = Append(win, MemRead(ipPrefetch))
  BY <1>1, <1>2, AppendProperties
<1>3. CASE win' = win
  BY <1>1, <1>3
<1>4. QED
  BY <1>2, <1>3 DEF FetchDecodeByte, FetchByte

LEMMA MemoryInductiveInit == EmuInit => MemoryIInv
  BY EmuInductiveInit DEF EmuInit, MemoryIInv

LEMMA MemoryInductiveStep == MemoryIInv /\ [EmuNext]_allVars => MemoryIInv'
<1> SUFFICES ASSUME MemoryIInv, [EmuNext]_allVars PROVE MemoryIInv'
  OBVIOUS
<1>1. EmuIInv /\ EmuIInv' /\ (~filling' => IInv')
  BY EmuInductiveStep DEF MemoryIInv, EmuIInv
<1>2. CASE PrefetchCycle \/ Retire
  BY <1>1, <1>2 DEF PrefetchCycle, Retire, MemoryIInv
<1>3. CASE CallCore
  BY <1>1, <1>3, FollowEnter DEF CallCore, MemoryIInv
<1>4. CASE FetchDecodeByte
  <2>1. UNCHANGED <<cip, pc, todo, ins, failed, unbacked, filling>>
    BY <1>4 DEF FetchDecodeByte
  <2>2. QED
    BY <1>1, <1>4, <2>1, FetchDecodeByteGrows, FollowGrowth DEF MemoryIInv
<1>5. CASE DecodeStep
  BY <1>1, <1>5, FollowCoreStep DEF DecodeStep, MemoryIInv
<1>6. CASE UNCHANGED allVars
  <2>1. UNCHANGED <<win, cip, pc, todo, ins, failed, unbacked, filling>>
    BY <1>6 DEF allVars, machineVars, vars, coreVars
  <2>2. Len(win) \in Nat
    BY <1>1, LenProperties DEF EmuIInv, EmuTypeOK, TypeOK
  <2>3. QED
    BY <1>1, <2>1, <2>2, FollowGrowth DEF MemoryIInv
<1>7. QED
  BY <1>2, <1>3, <1>4, <1>5, <1>6 DEF EmuNext

(* What the emulator executes is the instruction that stands in memory at  *)
(* ip.base, as the flat core reads it: for every memory, and whatever the  *)
(* buffer held before, unless fetch_decode_byte refused a byte, a peek     *)
(* looked ahead of the fetch, or prefixes ran to the fence.                *)
THEOREM DecodesWhatMemoryHolds == EmuSpec => []DecodesMemoryAtIP
<1>1. MemoryIInv => DecodesMemoryAtIP
  <2> SUFFICES ASSUME MemoryIInv, pc = "done", ~filling, ~failed, ~unbacked,
                      ins.op # "UD_OVERRUN"
      PROVE  ins = FlatDecode([i \in 1 .. WindowMax |-> MemRead(ipBase + i - 1)])
    BY DEF DecodesMemoryAtIP
  <2> DEFINE s == [i \in 1 .. WindowMax |-> MemRead(ipBase + i - 1)]
  <2>1. /\ Len(win) \in Nat /\ Len(win) <= WindowMax /\ WindowMax \in Nat /\ FlatIInv
        /\ \A i \in 1 .. Len(win) : win[i] = MemRead(ipBase + i - 1)
    BY LenProperties, WindowAssumption
       DEF MemoryIInv, EmuIInv, EmuTypeOK, TypeOK, QueueIsMemory
  <2>2. \A i \in 1 .. WindowMax : MemRead(ipBase + i - 1) \in Byte
    BY MemoryBytes, BytesAssumption DEF MemoryIInv, EmuIInv, EmuTypeOK
  <2>3. s \in Seq(Byte) /\ Len(s) = WindowMax
    <3>1. s \in [1 .. WindowMax -> Byte]
      BY <2>2
    <3> HIDE DEF s
    <3>2. QED
      BY <2>1, <3>1, LenProperties, SeqDef
  <2>4. \A k \in 1 .. Len(win) : s[k] = win[k]
    BY <2>1
  <2> HIDE DEF s
  <2>5. Extension(s)
    BY <2>1, <2>3, <2>4 DEF Extension
  <2>6. ins = FlatDecode(s)
    BY <2>1, <2>5, FlatMeaning
  <2>7. QED
    BY <2>6 DEF s
<1>2. EmuSpec => []MemoryIInv
  BY MemoryInductiveInit, MemoryInductiveStep, PTL DEF EmuSpec
<1>3. QED
  BY <1>1, <1>2, PTL


-----------------------------------------------------------------------------
(* The opcodes and the formats of instructions.                            *)

SameSets ==
    /\ Stream!Byte = Byte /\ Stream!NoByte = NoByte /\ Stream!EmptyIns = EmptyIns
    /\ Stream!SegOverrides = SegOverrides /\ Stream!LockPrefixes = LockPrefixes
    /\ Stream!RepPrefixes = RepPrefixes /\ Stream!PeekOpcodes = PeekOpcodes
    /\ Stream!WaitOpcode = WaitOpcode /\ Stream!ModRMOpcodes = ModRMOpcodes
    /\ Stream!FPUEscapes = FPUEscapes /\ Stream!PrefixBytes = PrefixBytes
    /\ Stream!Absent = Absent

LEMMA SetsAreSame == SameSets
<1>1. /\ Stream!Byte = Byte /\ Stream!NoByte = NoByte /\ Stream!EmptyIns = EmptyIns
  BY DEF Stream!Byte, Byte, Stream!NoByte, NoByte, Stream!EmptyIns, EmptyIns,
     Stream!NoSegment, NoSegment
<1>2. /\ Stream!SegOverrides = SegOverrides /\ Stream!LockPrefixes = LockPrefixes
      /\ Stream!RepPrefixes = RepPrefixes /\ Stream!WaitOpcode = WaitOpcode
      /\ Stream!PrefixBytes = PrefixBytes
  BY DEF Stream!SegOverrides, SegOverrides, Stream!LockPrefixes, LockPrefixes,
     Stream!RepPrefixes, RepPrefixes, Stream!WaitOpcode, WaitOpcode,
     Stream!PrefixBytes, PrefixBytes
<1>3. /\ Stream!PeekOpcodes = PeekOpcodes /\ Stream!FPUEscapes = FPUEscapes /\ Stream!Absent = Absent
  BY DEF Stream!PeekOpcodes, PeekOpcodes, Stream!FPUEscapes, FPUEscapes,
     Stream!FarLoads, FarLoads,
     Stream!PopRM, PopRM, Stream!Absent, Absent
<1>4. Stream!ModRMOpcodes = ModRMOpcodes
  BY Zenon DEF Stream!ModRMOpcodes, ModRMOpcodes, Stream!AluRM, AluRM,
     Stream!ModRMRow8, ModRMRow8,
     Stream!ModRMRowC, ModRMRowC, Stream!ModRMRowF, ModRMRowF
<1>5. QED
  BY <1>1, <1>2, <1>3, <1>4 DEF SameSets

LEMMA SameFormats ==
    ASSUME NEW b, NEW m
    PROVE  /\ Stream!SegmentOf(b) = SegmentOf(b) /\ Stream!RepOf(b) = RepOf(b)
           /\ Stream!Immediates(b) = Immediates(b)
           /\ Stream!Displacement(m) = Displacement(m)
           /\ Stream!ImmAfterRM(b, m) = ImmAfterRM(b, m)
           /\ Stream!GroupOutcome(b, m) = GroupOutcome(b, m)
           /\ Stream!FPUMemory(b, m) = FPUMemory(b, m)
           /\ Stream!FPUOutcome(b, m) = FPUOutcome(b, m)
           /\ Stream!Waitable(m) = Waitable(m) /\ Stream!IsExtension(m) = IsExtension(m)
<1>1. Stream!SegmentOf(b) = SegmentOf(b) /\ Stream!RepOf(b) = RepOf(b)
  BY DEF Stream!SegmentOf, SegmentOf, Stream!RepOf, RepOf
<1>2. Stream!Immediates(b) = Immediates(b)
  BY Zenon DEF Stream!Immediates, Immediates, Stream!ImmRows0to7, ImmRows0to7,
    Stream!ImmRows8toB, ImmRows8toB, Stream!ImmRowsCtoF, ImmRowsCtoF
<1>3. Stream!Displacement(m) = Displacement(m)
  BY Zenon DEF Stream!Displacement, Displacement, Stream!Mod, Mod, Stream!Rm, Rm
<1>4. Stream!ImmAfterRM(b, m) = ImmAfterRM(b, m)
  BY Zenon DEF Stream!ImmAfterRM, ImmAfterRM, Stream!Reg, Reg
<1>5. Stream!GroupOutcome(b, m) = GroupOutcome(b, m)
  BY Zenon DEF Stream!GroupOutcome, GroupOutcome, Stream!IncDecGroup, IncDecGroup,
     Stream!Mod, Mod, Stream!Reg, Reg,
     Stream!ShiftOpcodes, ShiftOpcodes, Stream!PopRM, PopRM
<1>6. Stream!FPUMemory(b, m) = FPUMemory(b, m)
  BY Zenon DEF Stream!FPUMemory, FPUMemory, Stream!Mod, Mod, Stream!Reg, Reg
<1>7. Stream!FPUOutcome(b, m) = FPUOutcome(b, m)
  BY Zenon DEF Stream!FPUOutcome, FPUOutcome, Stream!FPUMemory, FPUMemory,
     Stream!FPURegister, FPURegister, Stream!Mod, Mod, Stream!Reg, Reg
<1>8. Stream!Waitable(m) = Waitable(m) /\ Stream!IsExtension(m) = IsExtension(m)
  BY DEF Stream!Waitable, Waitable, Stream!IsExtension, IsExtension
<1>9. QED
  BY <1>1, <1>2, <1>3, <1>4, <1>5, <1>6, <1>7, <1>8

-----------------------------------------------------------------------------
(* The steps of the core, which are those of StreamDecode.                 *)

(* An instruction is being decoded before and after the step.              *)
Active == ~filling /\ ~filling'

LEMMA SameGoto ==
    ASSUME NEW p, NEW at, NEW ws, Active, Goto(p, at, ws)
    PROVE  Stream!Goto(p, at, ws)
  BY DEF Goto, Stream!Goto, Active, Missing, Stream!Missing

LEMMA SameReturn ==
    ASSUME NEW i, NEW at, Active, Return(i, at)
    PROVE  Stream!Return(i, at)
  BY DEF Return, Stream!Return, Active

LEMMA SameOperands ==
    ASSUME NEW i, NEW at, NEW ws, Active, Operands(i, at, ws)
    PROVE  Stream!Operands(i, at, ws)
  BY SameGoto, SameReturn DEF Operands, Stream!Operands

LEMMA SameReads ==
    ASSUME Active
    PROVE  /\ Stream!ReadNext = ReadNext /\ Stream!ReadValue = ReadValue
           /\ Stream!AtCip = AtCip /\ Stream!HasRoom = HasRoom
           /\ CountOverrun => Stream!CountOverrun
<1>1. Stream!HasRoom = HasRoom /\ Stream!Width = Width
  BY DEF Active, Stream!HasRoom, HasRoom, Stream!Width, Width
<1>2. Stream!AtCip = AtCip
  BY DEF Active, Stream!AtCip, AtCip
<1>3. Stream!ReadNext = ReadNext
  BY <1>1 DEF Active, Stream!ReadNext, ReadNext
<1>4. Stream!ReadValue = ReadValue
  BY <1>1, <1>2 DEF Active, Stream!ReadValue, ReadValue, Stream!ValueAt, ValueAt
<1>5. CountOverrun => Stream!CountOverrun
  BY <1>1 DEF Active, Stream!CountOverrun, CountOverrun
<1>6. QED
  BY <1>1, <1>2, <1>3, <1>4, <1>5

LEMMA SameFetch ==
    ASSUME NEW p, Active, Fetch(p)
    PROVE  Stream!Fetch(p) /\ pc = p
  BY SameReads DEF Active, Fetch, Stream!Fetch

LEMMA SameFetchOpcode == Active /\ FetchOpcode => Stream!FetchOpcode
<1> SUFFICES ASSUME Active, FetchOpcode PROVE Stream!FetchOpcode
  OBVIOUS
<1>1. Stream!Fetch("opcode") /\ pc = "opcode"
  BY SameFetch DEF FetchOpcode
<1>2. PICK b \in ReadValue :
          \/ SegmentPrefix(b) \/ OtherPrefix(b) \/ PeekingOpcode(b)
          \/ ModRMOpcode(b) \/ FPUOpcode(b) \/ PlainOpcode(b)
  BY DEF FetchOpcode
<1>3. b \in Stream!ReadValue /\ Stream!ReadNext = ReadNext /\ SameSets
  BY <1>1, SameReads, SetsAreSame
<1>4. SegmentPrefix(b) => Stream!SegmentPrefix(b)
  BY <1>3, SameGoto, SameFormats DEF SegmentPrefix, Stream!SegmentPrefix, SameSets
<1>5. OtherPrefix(b) => Stream!OtherPrefix(b)
  BY <1>3, SameGoto, SameFormats DEF OtherPrefix, Stream!OtherPrefix, SameSets
<1>6. PeekingOpcode(b) => Stream!PeekingOpcode(b)
  BY <1>3 DEF Active, PeekingOpcode, Stream!PeekingOpcode, SameSets
<1>7. ModRMOpcode(b) => Stream!ModRMOpcode(b)
  BY <1>3, SameGoto DEF ModRMOpcode, Stream!ModRMOpcode, SameSets
<1>8. FPUOpcode(b) => Stream!FPUOpcode(b)
  BY <1>3, SameGoto DEF FPUOpcode, Stream!FPUOpcode, SameSets
<1>9. PlainOpcode(b) => Stream!PlainOpcode(b)
  BY <1>3, SameOperands, SameFormats DEF PlainOpcode, Stream!PlainOpcode, SameSets
<1>10. QED
  BY <1>1, <1>2, <1>3, <1>4, <1>5, <1>6, <1>7, <1>8, <1>9 DEF Stream!FetchOpcode

LEMMA SameNextRound == Active /\ NextRound => Stream!NextRound
  BY SameGoto, SameReturn DEF Active, NextRound, Stream!NextRound

LEMMA SamePeek == Active /\ Peek => Stream!Peek
<1> SUFFICES ASSUME Active, Peek PROVE Stream!Peek
  OBVIOUS
<1>1. pc = "peek" /\ Stream!AtCip = AtCip /\ SameSets
  BY SetsAreSame, SameReads DEF Peek
<1>2. PICK x \in AtCip : PeekWait(x) \/ PeekExtension(x)
  BY DEF Peek
<1>3. PeekWait(x) => Stream!PeekWait(x)
  BY <1>1, SameGoto, SameReturn, SameFormats DEF PeekWait, Stream!PeekWait, SameSets
<1>4. PeekExtension(x) => Stream!PeekExtension(x)
  BY <1>1, SameGoto, SameReturn, SameFormats DEF PeekExtension, Stream!PeekExtension,
     SameSets
<1>5. QED
  BY <1>1, <1>2, <1>3, <1>4 DEF Active, Peek, Stream!Peek

LEMMA SameFetchFPU == Active /\ FetchFPU => Stream!FetchFPU
<1> SUFFICES ASSUME Active, FetchFPU PROVE Stream!FetchFPU
  OBVIOUS
<1> DEFINE i(x) == [ins EXCEPT !.fpu = x, !.op = FPUOutcome(ins.lead, x)]
<1>1. Stream!Fetch("fpu") /\ pc = "fpu"
  BY SameFetch DEF FetchFPU
<1>2. PICK x \in ReadValue :
          IF FPUMemory(ins.lead, x)
          THEN ins' = i(x) /\ Goto("modrm", ReadNext - 1, << >>)
          ELSE Return(i(x), ReadNext)
  BY DEF FetchFPU
<1>3. x \in Stream!ReadValue /\ Stream!ReadNext = ReadNext
  BY <1>1, <1>2, SameReads
<1>4. /\ i(x) = [ins EXCEPT !.fpu = x, !.op = Stream!FPUOutcome(ins.lead, x)]
      /\ Stream!FPUMemory(ins.lead, x) = FPUMemory(ins.lead, x)
  BY SameFormats
<1> HIDE DEF i
<1>5. IF Stream!FPUMemory(ins.lead, x)
      THEN ins' = i(x) /\ Stream!Goto("modrm", Stream!ReadNext - 1, << >>)
      ELSE Stream!Return(i(x), Stream!ReadNext)
  BY <1>2, <1>3, <1>4, SameGoto, SameReturn
<1>6. QED
  BY <1>1, <1>3, <1>4, <1>5 DEF Stream!FetchFPU

LEMMA SameFetchModRM == Active /\ FetchModRM => Stream!FetchModRM
<1> SUFFICES ASSUME Active, FetchModRM PROVE Stream!FetchModRM
  OBVIOUS
<1>1. Stream!Fetch("modrm") /\ pc = "modrm" /\ SameSets
  BY SameFetch, SetsAreSame DEF FetchModRM
<1> DEFINE i(m)  == [ins EXCEPT !.rm = m,
                        !.op = IF ins.lead \in FPUEscapes THEN ins.op
                               ELSE GroupOutcome(ins.lead, m)]
           ws(m) == Displacement(m) \o ImmAfterRM(ins.lead, m)
<1>2. PICK m \in ReadValue : Operands(i(m), ReadNext, ws(m))
  BY DEF FetchModRM
<1>3. m \in Stream!ReadValue /\ Stream!ReadNext = ReadNext
  BY <1>1, <1>2, SameReads
<1>4. /\ i(m) = [ins EXCEPT !.rm = m,
                   !.op = IF ins.lead \in Stream!FPUEscapes THEN ins.op
                          ELSE Stream!GroupOutcome(ins.lead, m)]
      /\ ws(m) = Stream!Displacement(m) \o Stream!ImmAfterRM(ins.lead, m)
  BY <1>1, SameFormats DEF SameSets
<1> HIDE DEF i, ws
<1>5. Stream!Operands(i(m), Stream!ReadNext, ws(m))
  BY <1>2, <1>3, SameOperands
<1>6. QED
  BY <1>1, <1>3, <1>4, <1>5 DEF Stream!FetchModRM

LEMMA SameFetchOperand == Active /\ FetchOperand => Stream!FetchOperand
<1> SUFFICES ASSUME Active, FetchOperand PROVE Stream!FetchOperand
  OBVIOUS
<1>1. Stream!Fetch("operand") /\ pc = "operand"
  BY SameFetch DEF FetchOperand
<1>2. \A v \in ReadValue : v \in Stream!ReadValue /\ Stream!ReadNext = ReadNext
  BY <1>1, SameReads
<1>3. QED
  BY <1>1, <1>2, SameOperands DEF FetchOperand, Stream!FetchOperand

LEMMA SameStep == Active /\ CoreStep => Stream!CoreStep
  BY SameFetchOpcode, SameNextRound, SamePeek, SameFetchFPU, SameFetchModRM,
     SameFetchOperand
     DEF CoreStep, Stream!CoreStep

-----------------------------------------------------------------------------
(* The steps of the program.                                               *)

-----------------------------------------------------------------------------
(* The steps of the machine.                                               *)

RefIInv == EmuIInv /\ (filling => pc \in {"idle", "done"})

LEMMA StreamInit == EmuInit => Stream!Init
<1> SUFFICES ASSUME EmuInit PROVE Stream!Init
  OBVIOUS
<1>1. Stream!EmptyIns = EmptyIns /\ CoreInit /\ filling /\ held = << >>
  BY SetsAreSame DEF EmuInit, SameSets
<1>2. QED
  BY <1>1 DEF CoreInit, Stream!CoreInit, Stream!Init

LEMMA CallIsCall == RefIInv /\ CallCore => Stream!Call
<1> SUFFICES ASSUME RefIInv, CallCore PROVE Stream!Call
  OBVIOUS
<1>1. /\ filling /\ pc \in {"idle", "done"} /\ Enter /\ ~filling'
      /\ win' = win /\ overruns' = overruns
      /\ Len(win) >= Prefetch /\ win \in Seq(Bytes) /\ Len(win) \in Nat
      /\ Len(win) <= WindowMax
  BY LenProperties DEF CallCore, RefIInv, EmuIInv, EmuTypeOK, TypeOK
<1>2. Stream!Enter
  BY <1>1, SetsAreSame DEF Enter, Stream!Enter, SameSets
<1>3. Len(win) \in Prefetch .. PrefetchMax
  BY <1>1, Sizes, BufferAssumption
<1>4. win \in [1 .. Len(win) -> Bytes]
  BY <1>1, LenProperties
<1>5. QED
  BY <1>1, <1>2, <1>3, <1>4 DEF Stream!Call

LEMMA CallbackIsCallback == RefIInv /\ FetchDecodeByte => Stream!Callback
<1> SUFFICES ASSUME RefIInv, FetchDecodeByte PROVE Stream!Callback
  OBVIOUS
<1>1. /\ win \in Seq(Bytes) /\ Len(win) \in Nat /\ MemRead(ipPrefetch) \in Bytes
      /\ data \in Nat /\ tries > 0 /\ ~filling
  BY LenProperties, MemoryBytes
     DEF FetchDecodeByte, RefIInv, EmuIInv, EmuTypeOK, TypeOK
<1>2. /\ tries' = tries - 1 /\ filling' = filling
      /\ UNCHANGED <<cip, pc, todo, ins, overruns, failed, unbacked>>
  BY DEF FetchDecodeByte
<1>3. \E n \in 0 .. WindowMax - Len(win) : \E more \in [1 .. n -> Bytes] : win' = win \o more
  <2>1. CASE End + Safety < BufferSize
    <3>1. 1 \in 0 .. WindowMax - Len(win)
      BY <1>1, <2>1, Sizes DEF End
    <3>2. <<MemRead(ipPrefetch)>> \in [1 .. 1 -> Bytes]
      BY <1>1
    <3>3. win' = win \o <<MemRead(ipPrefetch)>>
      <4>1. win' = Append(win, MemRead(ipPrefetch))
        BY <2>1 DEF FetchDecodeByte, FetchByte
      <4>2. QED
        BY <1>1, <4>1, AppendIsConcat
    <3>4. QED
      BY <3>1, <3>2, <3>3
  <2>2. CASE ~(End + Safety < BufferSize)
    <3>1. 0 \in 0 .. WindowMax - Len(win)
      BY <1>1, Sizes DEF RefIInv, EmuIInv, EmuTypeOK, TypeOK
    <3>2. << >> \in [1 .. 0 -> Bytes]
      OBVIOUS
    <3>3. win' = win \o << >>
      BY <1>1, <2>2 DEF FetchDecodeByte
    <3>4. QED
      BY <3>1, <3>2, <3>3
  <2>3. QED
    BY <2>1, <2>2
<1>4. QED
  BY <1>1, <1>2, <1>3 DEF Stream!Callback

LEMMA StreamStep == RefIInv /\ [EmuNext]_allVars => [Stream!Next]_(Stream!vars)
<1> SUFFICES ASSUME RefIInv, [EmuNext]_allVars PROVE [Stream!Next]_(Stream!vars)
  OBVIOUS
<1>1. CASE PrefetchCycle \/ Retire
  BY <1>1 DEF PrefetchCycle, Retire, coreVars, Stream!vars, Stream!coreVars
<1>2. CASE CallCore
  BY <1>2, CallIsCall DEF Stream!Next
<1>3. CASE FetchDecodeByte
  BY <1>3, CallbackIsCallback DEF Stream!Next
<1>4. CASE DecodeStep
  BY <1>4, SameStep DEF DecodeStep, machineVars, Active, Stream!Next
<1>5. CASE UNCHANGED allVars
  BY <1>5 DEF allVars, machineVars, vars, coreVars, Stream!vars, Stream!coreVars
<1>6. QED
  BY <1>1, <1>2, <1>3, <1>4, <1>5 DEF EmuNext

LEMMA RefInductiveInit == EmuInit => RefIInv
  BY EmuInductiveInit DEF EmuInit, CoreInit, RefIInv

LEMMA RefInductiveStep == RefIInv /\ [EmuNext]_allVars => RefIInv'
<1> SUFFICES ASSUME RefIInv, [EmuNext]_allVars PROVE RefIInv'
  OBVIOUS
<1>1. EmuIInv'
  BY EmuInductiveStep DEF RefIInv
<1>2. filling' => pc' \in {"idle", "done"}
  <2>1. CASE PrefetchCycle
    BY <2>1 DEF PrefetchCycle, coreVars, RefIInv
  <2>2. CASE CallCore
    BY <2>2 DEF CallCore
  <2>3. CASE FetchDecodeByte
    BY <2>3 DEF FetchDecodeByte, RefIInv
  <2>4. CASE DecodeStep
    BY <2>4 DEF DecodeStep, machineVars
  <2>5. CASE Retire
    BY <2>5 DEF Retire, coreVars
  <2>6. CASE UNCHANGED allVars
    BY <2>6 DEF allVars, machineVars, vars, coreVars, RefIInv
  <2>7. QED
    BY <2>1, <2>2, <2>3, <2>4, <2>5, <2>6 DEF EmuNext
<1>3. QED
  BY <1>1, <1>2 DEF RefIInv

(* The emulator is one of the callers StreamDecode describes: each call    *)
(* finds at least the prefetch in the buffer, fetch_decode_byte adds a     *)
(* byte or none, and what the machine does between two instructions is     *)
(* nothing to the core.                                                    *)
THEOREM EmulatorIsCaller == EmuSpec => IsStreamCaller
<1>1. EmuInit => Stream!Init
  BY StreamInit
<1>2. RefIInv /\ [EmuNext]_allVars => [Stream!Next]_(Stream!vars)
  BY StreamStep
<1>3. EmuSpec => []RefIInv
  BY RefInductiveInit, RefInductiveStep, PTL DEF EmuSpec
<1>4. QED
  BY <1>1, <1>2, <1>3, PTL DEF EmuSpec, IsStreamCaller, Stream!Spec
=============================================================================
