----------------------------- MODULE SweepProofs -----------------------------
(***************************************************************************)
(* Proofs about the linear sweep, for every file, everything that may      *)
(* stand behind it and every margin of at least the longest instruction:   *)
(* how far a decode looks, where a run of prefixes is cut, and what is     *)
(* decoded twice.  Each is a property of one decode; what it rests on is   *)
(* that a run of prefixes is cut in the file, so that what is looked at    *)
(* behind the fence are the operands of one instruction.                   *)
(***************************************************************************)
EXTENDS FlatDriver, FormatProofs

-----------------------------------------------------------------------------
(* The sweep.                                                              *)

SweepIInv ==
    /\ TypeOK
    /\ ReachesPastFenceOnlyAtTail
    /\ OverrunEndsAtPrefetchFence
    /\ OverlapOnlyAfterNop

(* The core sees the rest of the file, and behind it OpcodeMax bytes.      *)
LEMMA InSight ==
    ASSUME file \in Seq(Byte), behind \in Byte, NEW at \in Nat, at < Fence
    PROVE  /\ From(at) \in Seq(Byte) /\ Len(From(at)) = Fence - at + OpcodeMax
           /\ \A k \in 1 .. Fence - at : From(at)[k] = file[at + k]
<1> DEFINE rest == SubSeq(file, at + 1, Fence)
           tail == [i \in 1 .. OpcodeMax |-> behind]
<1>1. Fence \in Nat /\ Fence = Len(file) /\ OpcodeMax \in Nat
  BY LenProperties, MarginAssumption DEF Fence
<1>2. /\ rest \in Seq(Byte) /\ Len(rest) = Fence - at
      /\ \A k \in 1 .. Fence - at : rest[k] = file[at + k]
  <2>1. at + 1 \in 1 .. Len(file) /\ Fence \in at .. Len(file)
    BY <1>1
  <2>2. rest \in Seq(Byte) /\ Len(rest) = Fence - at
    BY <1>1, <2>1, SubSeqProperties
  <2>3. \A k \in 1 .. Fence - at : rest[k] = file[at + k]
    BY <1>1, <2>1, SubSeqProperties
  <2>4. QED
    BY <2>2, <2>3
<1>3. tail \in Seq(Byte) /\ Len(tail) = OpcodeMax
  <2>1. tail \in [1 .. OpcodeMax -> Byte]
    OBVIOUS
  <2> HIDE DEF tail
  <2>2. QED
    BY <1>1, <2>1, LenProperties, SeqDef
<1>4. From(at) = rest \o tail
  BY DEF From
<1> HIDE DEF rest, tail
<1>5. /\ rest \o tail \in Seq(Byte) /\ Len(rest \o tail) = Len(rest) + Len(tail)
      /\ \A k \in 1 .. Len(rest) : (rest \o tail)[k] = rest[k]
  <2>1. rest \in Seq(Byte) /\ tail \in Seq(Byte)
    BY <1>2, <1>3
  <2>2. Len(rest) \in Nat /\ Len(tail) \in Nat
    BY <2>1, LenProperties
  <2>3. rest \o tail \in Seq(Byte) /\ Len(rest \o tail) = Len(rest) + Len(tail)
    BY <2>1, ConcatProperties
  <2>4. ASSUME NEW k \in 1 .. Len(rest) PROVE (rest \o tail)[k] = rest[k]
    <3>1. k \in 1 .. Len(rest) + Len(tail) /\ k <= Len(rest)
      BY <2>2
    <3>2. QED
      BY <2>1, <3>1, ConcatProperties
  <2>5. QED
    BY <2>3, <2>4
<1>6. QED
  BY <1>2, <1>3, <1>4, <1>5

LEMMA SweepInit == Init => SweepIInv
<1> SUFFICES ASSUME Init PROVE SweepIInv
  OBVIOUS
<1>1. /\ file \in Seq(Byte) /\ Len(file) \in Nat /\ Len(file) > 0 /\ behind \in Behind
      /\ readIp = 0 /\ start = 0 /\ reach = 0 /\ ins = EmptyIns
      /\ OpcodeMax \in Nat /\ OpcodeMax >= 6
  BY FilesAssumption, MarginAssumption, EmptySeq, LenProperties DEF Init
<1>2. ins.op = "UD_NOP" /\ ins.len = 0
  BY <1>1 DEF EmptyIns
<1>3. QED
  BY <1>1, <1>2
     DEF SweepIInv, TypeOK, Fence, Outcomes, ReachesPastFenceOnlyAtTail,
         OverrunEndsAtPrefetchFence, OverlapOnlyAfterNop

(* A decode either takes the n prefixes up to prefetch_fence or meets an   *)
(* opcode before.                                                          *)
LEMMA SweepDecode == TypeOK /\ DecodeOne => SweepIInv'
<1> SUFFICES ASSUME TypeOK, DecodeOne PROVE SweepIInv'
  OBVIOUS
<1> DEFINE s == From(readIp)
           n == StopAfter(readIp)
<1>1. /\ file \in Seq(Byte) /\ behind \in Behind /\ behind \in Byte /\ readIp \in Nat
      /\ readIp < Fence /\ Fence \in Nat
      /\ OpcodeMax \in Nat /\ OpcodeMax >= 6 /\ Margin \in Nat /\ Margin >= OpcodeMax
      /\ PrefetchFence = Fence - Margin
  BY LenProperties, BehindAssumption, MarginAssumption
     DEF TypeOK, DecodeOne, More, Fence, PrefetchFence
<1>2. /\ s \in Seq(Byte) /\ Len(s) = Fence - readIp + OpcodeMax
      /\ \A k \in 1 .. Fence - readIp : s[k] = file[readIp + k]
  BY <1>1, InSight
<1>3. /\ n \in 1 .. Fence - readIp
      /\ readIp >= PrefetchFence => n = 1
      /\ readIp < PrefetchFence => readIp + n = PrefetchFence
  BY <1>1 DEF StopAfter
<1>4. /\ IF \A i \in 1 .. n : PrefixAt(s, i)
         THEN /\ ins' = Overrun(s, n)
              /\ reach' = readIp + n + (IF s[n] = WaitOpcode THEN 1 ELSE 0)
         ELSE ins' = FlatDecode(s) /\ reach' = readIp + Reach(s)
      /\ start' = readIp /\ readIp' = readIp + ins'.len
      /\ file' = file /\ behind' = behind
  BY DEF DecodeOne
<1>5. Fence' = Fence /\ PrefetchFence' = PrefetchFence
  BY <1>4 DEF Fence, PrefetchFence
<1> HIDE DEF s, n
<1>6. CASE \A i \in 1 .. n : PrefixAt(s, i)
  <2> DEFINE e == IF s[n] = WaitOpcode THEN 1 ELSE 0
  <2>1. ins'.op = "UD_OVERRUN" /\ ins'.len = n
    BY <1>4, <1>6 DEF Overrun, EmptyIns
  <2>2. /\ reach' = readIp + n + e /\ e \in {0, 1} /\ (e = 1 <=> s[n] = WaitOpcode)
        /\ readIp' = readIp + n
    BY <1>4, <1>6, <2>1
  <2> HIDE DEF e
  <2>3. TypeOK'
    BY <1>1, <1>3, <1>4, <1>5, <2>1, <2>2 DEF TypeOK, Outcomes
  <2>4. ReachesPastFenceOnlyAtTail'
    BY <1>1, <1>3, <1>4, <1>5, <2>2 DEF ReachesPastFenceOnlyAtTail
  <2>5. OverrunEndsAtPrefetchFence'
    <3>1. IF start' < PrefetchFence THEN readIp' = PrefetchFence ELSE ins'.len = 1
      BY <1>1, <1>3, <1>4, <2>1, <2>2
    <3>2. ASSUME NEW i \in start' + 1 .. readIp' PROVE file'[i] \in PrefixBytes
      <4>1. i - readIp \in 1 .. n /\ i - readIp \in 1 .. Fence - readIp
            /\ readIp + (i - readIp) = i
        BY <1>1, <1>3, <1>4, <2>2
      <4>2. file'[i] = s[i - readIp]
        BY <1>2, <1>4, <4>1
      <4>3. PrefixAt(s, i - readIp)
        BY <1>6, <4>1
      <4>4. QED
        BY <4>2, <4>3 DEF PrefixAt, PrefixBytes
    <3>3. QED
      BY <1>5, <3>1, <3>2 DEF OverrunEndsAtPrefetchFence
  <2>6. OverlapOnlyAfterNop'
    <3> SUFFICES ASSUME reach' > readIp'
        PROVE  /\ reach' = readIp' + 1 /\ readIp' \in DOMAIN file'
               /\ file'[readIp'] = WaitOpcode
      BY DEF OverlapOnlyAfterNop
    <3>1. e = 1 /\ reach' = readIp' + 1
      BY <1>1, <1>3, <2>2
    <3>2. readIp' \in 1 .. Len(file) /\ DOMAIN file = 1 .. Len(file)
      BY <1>1, <1>3, <2>2, LenProperties DEF Fence
    <3>3. file[readIp'] = s[n]
      BY <1>2, <1>3, <2>2
    <3>4. QED
      BY <1>4, <2>2, <3>1, <3>2, <3>3
  <2>7. QED
    BY <2>3, <2>4, <2>5, <2>6 DEF SweepIInv
<1>7. CASE ~(\A i \in 1 .. n : PrefixAt(s, i))
  <2> DEFINE m == PrefixLength(s)
             d == FlatDecode(s)
  <2>1. ins' = d /\ reach' = readIp + Reach(s) /\ readIp' = readIp + d.len
    BY <1>4, <1>7
  <2>2. PICK k \in 1 .. n : ~PrefixAt(s, k)
    BY <1>7
  <2>3. k \in 1 .. Len(s)
    BY <1>1, <1>2, <1>3
  <2>4. m \in 0 .. k - 1
    BY <1>2, <2>2, <2>3, PrefixesEnd
  <2>5. m \in Nat /\ m < n
    BY <1>1, <1>3, <2>2, <2>4
  <2>6. m + 2 <= Len(s) /\ Len(s) \in Nat
    BY <1>1, <1>2, <1>3, <2>5
  <2>7. /\ Reach(s) \in m + 1 .. m + 6 /\ d.len \in Nat
        /\ d.op \in {"OK", "UD", "UD_NOP"}
        /\ d.op # "UD_NOP" =>
              \/ Reach(s) = d.len
              \/ Opcode(s) = WaitOpcode /\ Reach(s) = d.len + 1 /\ d.len = m + 1
    BY <2>5, <2>6, DecodeOf, DecodeBounds
  <2>8. Opcode(s) = file[readIp + (m + 1)] /\ m + 1 \in 1 .. Fence - readIp
    <3>1. Opcode(s) = s[m + 1]
      BY DEF Opcode
    <3> HIDE DEF m
    <3>2. m + 1 \in 1 .. Fence - readIp
      BY <1>1, <1>3, <2>5
    <3>3. QED
      BY <1>2, <3>1, <3>2
  <2> HIDE DEF m, d
  <2>9. TypeOK'
    <3>1. readIp' \in Nat /\ reach' \in Nat
      BY SMTT(30), <1>1, <2>1, <2>5, <2>7
    <3>2. start' \in 0 .. Fence - 1
      BY <1>1, <1>4
    <3>3. ins'.op \in Outcomes /\ ins'.len \in Nat
      BY <2>1, <2>7 DEF Outcomes
    <3>4. QED
      BY <1>1, <1>4, <1>5, <3>1, <3>2, <3>3 DEF TypeOK
  <2>10. ReachesPastFenceOnlyAtTail'
    <3>1. reach' <= readIp + n + 5
      BY <1>1, <1>3, <2>1, <2>5, <2>7
    <3>2. QED
      BY SMTT(30), <1>1, <1>3, <1>4, <1>5, <2>1, <2>5, <2>7, <3>1 DEF ReachesPastFenceOnlyAtTail
  <2>11. OverrunEndsAtPrefetchFence'
    BY <2>1, <2>7 DEF OverrunEndsAtPrefetchFence
  <2>12. OverlapOnlyAfterNop'
    <3> SUFFICES ASSUME reach' > readIp', ins'.op # "UD_NOP"
        PROVE  /\ reach' = readIp' + 1 /\ readIp' \in DOMAIN file'
               /\ file'[readIp'] = WaitOpcode
      BY DEF OverlapOnlyAfterNop
    <3>1. Opcode(s) = WaitOpcode /\ Reach(s) = d.len + 1 /\ d.len = m + 1
      BY <1>1, <2>1, <2>5, <2>7
    <3>2. readIp' = readIp + (m + 1) /\ reach' = readIp' + 1
      BY <1>1, <2>1, <2>5, <3>1
    <3>3. readIp' \in 1 .. Len(file) /\ DOMAIN file = 1 .. Len(file)
      BY <1>1, <2>8, <3>2, LenProperties DEF Fence
    <3>4. QED
      BY <1>4, <2>8, <3>1, <3>2, <3>3
  <2>13. QED
    BY <2>9, <2>10, <2>11, <2>12 DEF SweepIInv
<1>8. QED
  BY <1>6, <1>7

(* What holds behind one decode holds throughout the sweep.                *)
THEOREM SweepInductive == Spec => []SweepIInv
<1>1. SweepIInv /\ [Next]_sweepVars => SweepIInv'
  <2> SUFFICES ASSUME SweepIInv, [Next]_sweepVars PROVE SweepIInv'
    OBVIOUS
  <2>1. CASE Next
    BY <2>1, SweepDecode DEF Next, SweepIInv
  <2>2. CASE UNCHANGED sweepVars
    BY <2>2
       DEF sweepVars, SweepIInv, TypeOK, ReachesPastFenceOnlyAtTail, PrefetchFence, Fence,
           OverrunEndsAtPrefetchFence, OverlapOnlyAfterNop
  <2>3. QED
    BY <2>1, <2>2
<1>2. QED
  BY SweepInit, <1>1, PTL DEF Spec

(* The sweep's variables keep their types.                                 *)
THEOREM SweepTypeCorrect == Spec => []TypeOK
<1>1. SweepIInv => TypeOK
  BY DEF SweepIInv
<1>2. QED
  BY <1>1, SweepInductive, PTL

(* A decode looks at less than OpcodeMax bytes behind the file, and at any *)
(* only from an instruction that begins less than OpcodeMax bytes before   *)
(* its end: stop_decoding leaves no run of prefixes that could carry it    *)
(* further.                                                                *)
THEOREM SweepReadsStayNear == Spec => []ReachesPastFenceOnlyAtTail
<1>1. SweepIInv => ReachesPastFenceOnlyAtTail
  BY DEF SweepIInv
<1>2. QED
  BY <1>1, SweepInductive, PTL

(* A run of prefixes is given up at prefetch_fence and nowhere before.     *)
THEOREM SweepCutsAtPrefetchFence == Spec => []OverrunEndsAtPrefetchFence
<1>1. SweepIInv => OverrunEndsAtPrefetchFence
  BY DEF SweepIInv
<1>2. QED
  BY <1>1, SweepInductive, PTL

(* The sweep decodes no byte twice but those behind an invalid instruction *)
(* and the one that a 0x9B looked ahead at.                                *)
THEOREM SweepDecodesOnce == Spec => []OverlapOnlyAfterNop
<1>1. SweepIInv => OverlapOnlyAfterNop
  BY DEF SweepIInv
<1>2. QED
  BY <1>1, SweepInductive, PTL
=============================================================================
