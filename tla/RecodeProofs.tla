---------------------------- MODULE RecodeProofs ----------------------------
(***************************************************************************)
(* Proofs about Recode8086, for every set of inputs: what encodeall.c      *)
(* writes for an instruction that minx86dec_decode8086 made is bytes, is   *)
(* no longer than the instruction, and is decoded again to its last byte   *)
(* and no further, but for the transfers and prefixes the properties name. *)
(*                                                                         *)
(* Behind any input stand eight zeros, so that what is decoded is whole    *)
(* (PaddedIsWhole), what is written of it is known (Written), and the      *)
(* decoder finds the prefixes, the opcode and its operands again (Reread). *)
(*                                                                         *)
(* Then, for PreserveProofs, what is found: the operands of an encoding,   *)
(* by its shape (Parsed, AtRM, Trails), and for each case of the encoder   *)
(* the Verdict: either the instruction has a reason for a loss that lies   *)
(* in its operands (Odd) and comes back as another one (Lost), or it comes *)
(* back with the operands it had (Kept).                                   *)
(***************************************************************************)
EXTENDS Recode8086, FormatProofs

-----------------------------------------------------------------------------
(* Bytes with zeros behind them hold the whole instruction.                *)

LEMMA ZerosAre ==
    /\ Zeros \in Seq(Byte) /\ Len(Zeros) \in Nat /\ Len(Zeros) >= 8
    /\ \A k \in 1 .. Len(Zeros) : Zeros[k] = 0
<1>1. Zeros \in Seq({0}) /\ Len(Zeros) >= 8
  BY ZerosAssumption
<1>2. {0} \subseteq Byte
  BY DEF Byte
<1>3. Zeros \in Seq(Byte)
  BY <1>1, <1>2, Widened
<1>4. Len(Zeros) \in Nat
  BY <1>1, LenProperties
<1>5. \A k \in 1 .. Len(Zeros) : Zeros[k] = 0
  <2>1. \A k \in 1 .. Len(Zeros) : Zeros[k] \in {0}
    BY <1>1, ElementOfSeq
  <2>2. QED
    BY <2>1
<1>6. QED
  BY <1>1, <1>3, <1>4, <1>5

LEMMA ZeroIsNoPrefix == 0 \notin Plain /\ 0 # WaitOpcode /\ ~Waitable(0)
  BY DEF Plain, SegOverrides, LockPrefixes, RepPrefixes, WaitOpcode, Waitable

LEMMA PaddedIs ==
    ASSUME NEW b \in Seq(Byte)
    PROVE  LET s == b \o Zeros
           IN  /\ s \in Seq(Byte) /\ Len(s) \in Nat /\ Len(s) >= Len(b) + 8 /\ Len(b) \in Nat
               /\ \A k \in 1 .. Len(b) : s[k] = b[k]
               /\ \A k \in 1 .. 8 : s[Len(b) + k] = 0
<1> DEFINE s == b \o Zeros
           l == Len(b)
<1>1. /\ Zeros \in Seq(Byte) /\ Len(Zeros) \in Nat /\ Len(Zeros) >= 8
      /\ \A k \in 1 .. Len(Zeros) : Zeros[k] = 0
  BY ZerosAre
<1>2. /\ s \in Seq(Byte) /\ Len(s) = l + Len(Zeros) /\ l \in Nat
      /\ \A k \in 1 .. l : s[k] = b[k]
      /\ \A k \in 1 .. Len(Zeros) : s[k + l] = Zeros[k]
  BY <1>1, Joined
<1> HIDE DEF s, l
<1>3. \A k \in 1 .. 8 : s[l + k] = 0
  <2> SUFFICES ASSUME NEW k \in 1 .. 8 PROVE s[l + k] = 0
    OBVIOUS
  <2>1. k \in 1 .. Len(Zeros) /\ k + l = l + k
    BY <1>1, <1>2
  <2>2. s[k + l] = Zeros[k] /\ Zeros[k] = 0
    BY <1>1, <1>2, <2>1
  <2>3. QED
    BY <2>1, <2>2
<1>4. Len(s) \in Nat /\ Len(s) >= l + 8
  BY <1>1, <1>2
<1>5. QED
  BY <1>2, <1>3, <1>4 DEF s, l

(* The zeros behind the bytes end every prefix and hold every operand.     *)
LEMMA PaddedIsWhole == ASSUME NEW b \in Seq(Byte) PROVE Whole(b \o Zeros)
<1> DEFINE s == b \o Zeros
           l == Len(b)
<1>1. /\ s \in Seq(Byte) /\ Len(s) \in Nat /\ Len(s) >= l + 8 /\ l \in Nat
      /\ \A k \in 1 .. 8 : s[l + k] = 0
  BY PaddedIs
<1> HIDE DEF s, l
<1>2. s[l + 1] = 0 /\ l + 1 \in 1 .. Len(s)
  BY <1>1
<1>3. ~PrefixAt(s, l + 1)
  BY <1>2, ZeroIsNoPrefix DEF PrefixAt, Plain
<1>4. PrefixLength(s) \in 0 .. (l + 1) - 1 /\ ~PrefixAt(s, PrefixLength(s) + 1)
  BY <1>1, <1>2, <1>3, PrefixesEnd
<1>5. Whole(s)
  BY <1>1, <1>4 DEF Whole
<1>6. QED
  BY <1>5 DEF s

LEMMA EscapesWait == \A b \in FPUEscapes : Waitable(b)
  BY DEF FPUEscapes, Waitable

(* What stands on its own is decoded to its end, behind its prefixes.      *)
LEMMA Reread ==
    ASSUME NEW p \in Seq(Byte), NEW e, Stands(e),
           p \in Seq(Plain) \/ (p = <<WaitOpcode>> /\ e[1] \in FPUEscapes)
    PROVE  FlatDecode(p \o e \o Zeros).len = Len(p \o e)
<1> DEFINE c == p \o e
           s == c \o Zeros
           n == Len(p)
           l == Len(e)
           b == e[1]
           x == Follow(e)
<1>1. /\ e \in Seq(Byte) /\ e # << >> /\ b \notin Plain /\ (b = WaitOpcode => l = 1)
      /\ OutcomeOf(b, x) # "UD_NOP" /\ l = InsSize(b, x)
  BY DEF Stands
<1>2. /\ c \in Seq(Byte) /\ Len(c) = n + l /\ n \in Nat /\ l \in Nat
      /\ \A k \in 1 .. n : c[k] = p[k]
      /\ \A k \in 1 .. l : c[k + n] = e[k]
  BY <1>1, Joined
<1>3. l >= 1
  <2>1. l # 0
    BY <1>1, EmptySeq
  <2>2. QED
    BY <1>2, <2>1
<1> HIDE DEF c
<1>4. /\ s \in Seq(Byte) /\ Len(s) \in Nat /\ Len(s) >= Len(c) + 8
      /\ \A k \in 1 .. Len(c) : s[k] = c[k]
      /\ \A k \in 1 .. 8 : s[Len(c) + k] = 0
  BY <1>2, PaddedIs
<1>5. x = IF l > 1 THEN e[2] ELSE 0
  BY DEF Follow
<1> HIDE DEF s, n, l, b, x
<1>6. \A k \in 1 .. n : s[k] = p[k]
  <2> SUFFICES ASSUME NEW k \in 1 .. n PROVE s[k] = p[k]
    OBVIOUS
  <2>1. k \in 1 .. Len(c)
    BY <1>2, <1>3
  <2>2. QED
    BY <1>2, <1>4, <2>1
<1>7. s[n + 1] = b
  <2>1. 1 + n \in 1 .. Len(c) /\ 1 \in 1 .. l /\ 1 + n = n + 1
    BY <1>2, <1>3
  <2>2. s[1 + n] = c[1 + n] /\ c[1 + n] = e[1]
    BY <1>2, <1>4, <2>1
  <2>3. QED
    BY <2>1, <2>2 DEF b
<1>8. s[n + 2] = x
  <2>1. CASE l > 1
    <3>1. 2 + n \in 1 .. Len(c) /\ 2 \in 1 .. l /\ 2 + n = n + 2
      BY <1>2, <2>1
    <3>2. s[2 + n] = c[2 + n] /\ c[2 + n] = e[2]
      BY <1>2, <1>4, <3>1
    <3>3. QED
      BY <1>5, <2>1, <3>1, <3>2
  <2>2. CASE ~(l > 1)
    <3>1. Len(c) + 1 = n + 2
      BY <1>2, <1>3, <2>2
    <3>2. s[Len(c) + 1] = 0
      BY <1>4
    <3>3. QED
      BY <1>5, <2>2, <3>1, <3>2
  <2>3. QED
    BY <2>1, <2>2
<1>9. \A k \in 1 .. n : PrefixAt(s, k)
  <2>1. CASE p \in Seq(Plain)
    <3>1. \A k \in 1 .. n : p[k] \in Plain
      BY <2>1, ElementOfSeq DEF n
    <3>2. QED
      BY <1>6, <3>1 DEF PrefixAt, Plain
  <2>2. CASE p = <<WaitOpcode>> /\ e[1] \in FPUEscapes
    <3>1. n = 1 /\ p[1] = WaitOpcode
      BY <2>2 DEF n
    <3>2. s[1] = WaitOpcode /\ 1 < Len(s)
      <4>1. 1 \in 1 .. n
        BY <3>1
      <4>2. s[1] = p[1]
        BY <1>6, <4>1
      <4>3. Len(c) \in Nat
        BY <1>2, <1>3
      <4>4. QED
        BY <1>4, <3>1, <4>2, <4>3
    <3>3. Waitable(s[1 + 1])
      BY <1>7, <2>2, <3>1, EscapesWait DEF b
    <3>4. PrefixAt(s, 1)
      BY <3>2, <3>3 DEF PrefixAt
    <3>5. \A k \in 1 .. n : k = 1
      BY <3>1
    <3>6. QED
      BY <3>4, <3>5
  <2>3. QED
    BY <2>1, <2>2
<1>10. ~PrefixAt(s, n + 1)
  <2>1. b = WaitOpcode => x = 0
    BY <1>1, <1>5
  <2>2. (n + 1) + 1 = n + 2
    BY <1>2
  <2>3. b = WaitOpcode => ~Waitable(s[(n + 1) + 1])
    BY <1>8, <2>1, <2>2, ZeroIsNoPrefix
  <2>4. QED
    BY <1>1, <1>7, <2>3 DEF PrefixAt, Plain
<1>11. n < Len(s) /\ n + 2 <= Len(s)
  BY <1>2, <1>4
<1>12. PrefixLength(s) = n
  BY <1>2, <1>4, <1>9, <1>10, <1>11, PrefixLengthIs
<1>13. Opcode(s) = b /\ Second(s) = x
  BY <1>7, <1>8, <1>11, <1>12 DEF Opcode, Second
<1>14. /\ FlatDecode(s).op = OutcomeOf(b, x)
       /\ FlatDecode(s).len = IF FlatDecode(s).op = "UD_NOP" THEN 2
                              ELSE OperandsAt(s) + Size(OperandWidths(b, x))
       /\ OperandsAt(s) = IF b \in FPUEscapes \/ TakesModRM(b, x) THEN n + 2 ELSE n + 1
  BY <1>2, <1>4, <1>11, <1>12, <1>13, DecodeOf
<1>15. Size(OperandWidths(b, x)) \in 0 .. 4
  BY FewOperands, FewSizes
<1>16. l = (IF b \in FPUEscapes \/ TakesModRM(b, x) THEN 2 ELSE 1) + Size(OperandWidths(b, x))
  BY <1>1 DEF InsSize
<1>17. FlatDecode(s).len = n + l
  <2> DEFINE z == Size(OperandWidths(b, x))
             h == IF b \in FPUEscapes \/ TakesModRM(b, x) THEN 2 ELSE 1
  <2>1. FlatDecode(s).op # "UD_NOP"
    BY <1>1, <1>14
  <2>2. OperandsAt(s) = n + h /\ h \in {1, 2}
    BY <1>14
  <2>3. FlatDecode(s).len = OperandsAt(s) + z /\ l = h + z /\ z \in 0 .. 4
    BY <1>14, <1>15, <1>16, <2>1
  <2> HIDE DEF z, h
  <2>4. QED
    BY <1>2, <2>2, <2>3
<1>18. FlatDecode(s).len = Len(c)
  BY <1>2, <1>17
<1>19. QED
  BY <1>18 DEF s, c

-----------------------------------------------------------------------------
(* The iteration of recode8086.c: what its variables hold at each stage.   *)

FirstRead  == stage \in {"decoded", "encoded", "done", "blank"} => ins = Meaning(bytes \o Zeros, ip)
WroteThat  == stage \in {"encoded", "done", "blank"} => code = EncodeAll(ins, ip)
ReadAgain  == /\ stage = "done" => again = Meaning(code \o Zeros, ip) /\ code # << >>
              /\ stage = "blank" => code = << >>
BytesAre   == bytes \in Seq(Byte) /\ code \in Seq(Byte)
RoundIs    == stage \in {"given", "decoded", "encoded", "done", "blank"} /\ round \in 1 .. Rounds /\ ip \in Nat

RecodeIInv == RoundIs /\ BytesAre /\ FirstRead /\ WroteThat /\ ReadAgain

(* The inputs are bytes at an ip_value that est and rst repeat.            *)
LEMMA RecodeStarts == Init => RecodeIInv
<1> SUFFICES ASSUME Init PROVE RecodeIInv
  OBVIOUS
<1>1. PICK set \in Inputs : \E p \in set : ip = p[1] /\ bytes = p[2]
  BY DEF Init
<1>2. PICK p \in set : ip = p[1] /\ bytes = p[2]
  BY <1>1
<1>3. ip \in Nat /\ bytes \in Seq(Byte)
  BY <1>1, <1>2, InputsAssumption
<1>4. << >> \in Seq(Byte)
  OBVIOUS
<1>5. stage = "given" /\ round = 1 /\ code = << >>
  BY DEF Init
<1>6. round \in 1 .. Rounds
  BY <1>5, RoundsAssumption
<1>7. RoundIs
  BY <1>3, <1>5, <1>6 DEF RoundIs
<1>8. BytesAre
  BY <1>3, <1>4, <1>5 DEF BytesAre
<1>9. FirstRead /\ WroteThat /\ ReadAgain
  BY <1>5 DEF FirstRead, WroteThat, ReadAgain
<1>10. QED
  BY <1>7, <1>8, <1>9 DEF RecodeIInv

(* Every call of the iteration keeps it: only Encoding writes code, and    *)
(* what it writes are bytes (Written).                                     *)
LEMMA RecodeKeeps == RecodeIInv /\ [Next]_vars => RecodeIInv'
<1> SUFFICES ASSUME RecodeIInv, [Next]_vars PROVE RecodeIInv'
  OBVIOUS
<1> USE DEF RecodeIInv
<1>1. CASE FirstDecode
  <2>1. /\ stage' = "decoded" /\ ins' = Meaning(bytes \o Zeros, ip)
        /\ UNCHANGED <<round, ip, bytes, code, again>>
    BY <1>1 DEF FirstDecode
  <2>2. RoundIs' /\ BytesAre'
    BY <2>1 DEF RoundIs, BytesAre
  <2>3. FirstRead'
    BY <2>1 DEF FirstRead
  <2>4. WroteThat' /\ ReadAgain'
    BY <2>1 DEF WroteThat, ReadAgain
  <2>5. QED
    BY <2>2, <2>3, <2>4
<1>2. CASE Encoding
  <2>1. /\ stage = "decoded" /\ stage' = "encoded" /\ code' = EncodeAll(ins, ip)
        /\ UNCHANGED <<round, ip, bytes, ins, again>>
    BY <1>2 DEF Encoding
  <2>2. ins = Meaning(bytes \o Zeros, ip) /\ ip \in Nat /\ bytes \in Seq(Byte)
    BY <2>1 DEF FirstRead, RoundIs, BytesAre
  <2>3. EncodeAll(ins, ip) \in Seq(Byte)
    BY <2>2, PaddedIsWhole, Written
  <2>4. RoundIs'
    BY <2>1 DEF RoundIs
  <2>5. BytesAre'
    BY <2>1, <2>2, <2>3 DEF BytesAre
  <2>6. FirstRead'
    BY <2>1, <2>2 DEF FirstRead
  <2>7. WroteThat' /\ ReadAgain'
    BY <2>1 DEF WroteThat, ReadAgain
  <2>8. QED
    BY <2>4, <2>5, <2>6, <2>7
<1>3. CASE SecondDecode
  <2>1. /\ stage = "encoded" /\ code # << >> /\ stage' = "done"
        /\ again' = Meaning(code \o Zeros, ip)
        /\ UNCHANGED <<round, ip, bytes, ins, code>>
    BY <1>3 DEF SecondDecode
  <2>2. RoundIs' /\ BytesAre'
    BY <2>1 DEF RoundIs, BytesAre
  <2>3. FirstRead'
    BY <2>1 DEF FirstRead
  <2>4. WroteThat'
    BY <2>1 DEF WroteThat
  <2>5. ReadAgain'
    BY <2>1 DEF ReadAgain
  <2>6. QED
    BY <2>2, <2>3, <2>4, <2>5
<1>4. CASE Blank
  <2>1. /\ stage = "encoded" /\ code = << >> /\ stage' = "blank"
        /\ UNCHANGED <<round, ip, bytes, ins, code>>
    BY <1>4 DEF Blank
  <2>2. RoundIs' /\ BytesAre'
    BY <2>1 DEF RoundIs, BytesAre
  <2>3. FirstRead'
    BY <2>1 DEF FirstRead
  <2>4. WroteThat' /\ ReadAgain'
    BY <2>1 DEF WroteThat, ReadAgain
  <2>5. QED
    BY <2>2, <2>3, <2>4
<1>5. CASE NextRun
  <2>1. /\ round < Rounds /\ stage' = "given" /\ round' = round + 1
        /\ bytes' = code /\ code' = << >> /\ ip' = ip
    BY <1>5 DEF NextRun
  <2>2. RoundIs'
    BY <2>1, RoundsAssumption DEF RoundIs
  <2>3. << >> \in Seq(Byte)
    OBVIOUS
  <2>4. BytesAre'
    BY <2>1, <2>3 DEF BytesAre
  <2>5. FirstRead' /\ WroteThat' /\ ReadAgain'
    BY <2>1 DEF FirstRead, WroteThat, ReadAgain
  <2>6. QED
    BY <2>2, <2>4, <2>5
<1>6. CASE UNCHANGED vars
  <2>1. UNCHANGED <<stage, round, ip, bytes, ins, code, again>>
    BY <1>6 DEF vars
  <2>2. RoundIs' /\ BytesAre'
    BY <2>1 DEF RoundIs, BytesAre
  <2>3. FirstRead' /\ WroteThat' /\ ReadAgain'
    BY <2>1 DEF FirstRead, WroteThat, ReadAgain
  <2>4. QED
    BY <2>2, <2>3
<1>7. QED
  BY <1>1, <1>2, <1>3, <1>4, <1>5, <1>6 DEF Next

(* src/recode8086.c: the invariant of its loop.                            *)
THEOREM RecodeInvariant == Spec => []RecodeIInv
<1>1. QED
  BY RecodeStarts, RecodeKeeps, PTL DEF Spec

(* What minx86enc_encodeall writes for what minx86dec_decode8086 read at   *)
(* any 16-bit ip_value are bytes, for every input of recode8086.c.         *)
THEOREM RecodeTypes == Spec => []TypeOK
<1>1. RecodeIInv => TypeOK
  BY DEF RecodeIInv, RoundIs, BytesAre, TypeOK
<1>2. QED
  BY <1>1, RecodeInvariant, PTL

(* Right after minx86enc_encodeall, by what it writes of whole bytes.      *)
LEMMA NotLongerThere == RecodeIInv => NotLonger
<1> SUFFICES ASSUME RecodeIInv, stage = "encoded"
             PROVE  Len(code) <= ins.len \/ Wraps(ins, ip) \/ Outreaches(ins, ip)
  BY DEF NotLonger
<1>1. /\ ins = Meaning(bytes \o Zeros, ip) /\ ip \in Nat /\ bytes \in Seq(Byte)
      /\ code = EncodeAll(ins, ip)
  BY DEF RecodeIInv, FirstRead, WroteThat, RoundIs, BytesAre
<1>2. QED
  BY <1>1, PaddedIsWhole, Written

(* encoded[] of recode8086.c, which is as large as buffer[], holds what    *)
(* minx86enc_encodeall writes though est.fence is not tested.              *)
THEOREM RecodeIsNotLonger == Spec => []NotLonger
<1>1. QED
  BY NotLongerThere, RecodeInvariant, PTL

(* Right after the second decode: what was written stands on its own       *)
(* behind its prefixes.                                                    *)
LEMMA ReadsThere == RecodeIInv => ReadsWhatWasWritten
<1> SUFFICES ASSUME RecodeIInv, stage = "done",
                    ~SplitsWait(ins), ~Wraps(ins, ip), ~Outreaches(ins, ip)
             PROVE  again.len = Len(code)
  BY DEF ReadsWhatWasWritten
<1> DEFINE s == bytes \o Zeros
           e == EncodeCase(ins, ip)
           p == Prefixes(ins)
<1>1. /\ ins = Meaning(s, ip) /\ ip \in Nat /\ bytes \in Seq(Byte)
      /\ code = EncodeAll(ins, ip) /\ again = Meaning(code \o Zeros, ip) /\ code # << >>
  BY DEF RecodeIInv, FirstRead, WroteThat, ReadAgain, RoundIs, BytesAre
<1>2. Whole(s)
  BY <1>1, PaddedIsWhole
<1> HIDE DEF s
<1>3. /\ code = IF e = << >> THEN << >> ELSE p \o e
      /\ e = << >> \/ Stands(e)
      /\ ins.op \in Waiting /\ e # << >> => e[1] \in FPUEscapes
  BY <1>1, <1>2, Written
<1>4. code = p \o e /\ Stands(e) /\ e # << >>
  BY <1>1, <1>3
<1>5. SegPrefix(ins) \in {<< >>} \cup OverrideBytes /\ ins.rep \in 0 .. 2
  BY <1>1, <1>2, FewPrefixes
<1>6. p \in Seq(Byte) /\ (p \in Seq(Plain) \/ (p = <<WaitOpcode>> /\ e[1] \in FPUEscapes))
  <2>1. CASE ins.fwait # 1 \/ ins.op \notin Waiting
    BY <1>5, <2>1, PrefixesAre
  <2>2. CASE ins.fwait = 1 /\ ins.op \in Waiting
    <3>1. SegPrefix(ins) = << >>
      BY <2>2 DEF SplitsWait
    <3>2. p \in Seq(Byte) /\ p = <<WaitOpcode>>
      BY <1>5, <2>2, <3>1, PrefixesAre
    <3>3. QED
      BY <1>3, <1>4, <2>2, <3>2
  <2>3. QED
    BY <2>1, <2>2
<1> HIDE DEF e, p
<1>7. FlatDecode(p \o e \o Zeros).len = Len(p \o e)
  BY <1>4, <1>6, Reread
<1>8. again.len = FlatDecode(code \o Zeros).len
  BY <1>1, MeaningIs
<1>9. QED
  BY <1>4, <1>7, <1>8

(* minx86dec_decode8086 consumes of what minx86enc_encodeall wrote no byte *)
(* more or less: what follows in encoded[] is decoded from its own start.  *)
THEOREM RecodeReadsWhatWasWritten == Spec => []ReadsWhatWasWritten
<1>1. QED
  BY ReadsThere, RecodeInvariant, PTL

-----------------------------------------------------------------------------
(* What the fields hold when an encoding e is decoded.                     *)

(* f has the fields of an instruction whose bytes are e.                   *)
Parsed(f, e) ==
    /\ Stands(e) /\ Fields(f, Follow(e)) /\ f.lead = e[1]
    /\ LET w == OperandWidths(e[1], Follow(e))
       IN  /\ w # << >> => f.args[1] = ValueAt(e, Len(e) - Size(w), w[1])
           /\ Len(w) = 2 => f.args[2] = ValueAt(e, Len(e) - w[2], w[2])

(* Where the parts of it stand among the bytes.                            *)
LEMMA RereadPlaces ==
    ASSUME NEW p \in Seq(Byte), NEW e, Stands(e),
           p \in Seq(Plain) \/ (p = <<WaitOpcode>> /\ e[1] \in FPUEscapes)
    PROVE  LET s == p \o e \o Zeros
               n == Len(p)
           IN  /\ s \in Seq(Byte) /\ Len(s) \in Nat /\ n \in Nat /\ n + 2 <= Len(s)
               /\ PrefixLength(s) = n /\ Opcode(s) = e[1] /\ Second(s) = Follow(e)
               /\ \A k \in 1 .. n : s[k] = p[k]
               /\ \A k \in 1 .. Len(e) : s[n + k] = e[k]
               /\ Whole(s)
<1> DEFINE c == p \o e
           s == c \o Zeros
           n == Len(p)
           l == Len(e)
           b == e[1]
           x == Follow(e)
<1>1. /\ e \in Seq(Byte) /\ e # << >> /\ b \notin Plain /\ (b = WaitOpcode => l = 1)
      /\ OutcomeOf(b, x) # "UD_NOP" /\ l = InsSize(b, x)
  BY DEF Stands
<1>2. /\ c \in Seq(Byte) /\ Len(c) = n + l /\ n \in Nat /\ l \in Nat
      /\ \A k \in 1 .. n : c[k] = p[k]
      /\ \A k \in 1 .. l : c[k + n] = e[k]
  BY <1>1, Joined
<1>3. l >= 1
  <2>1. l # 0
    BY <1>1, EmptySeq
  <2>2. QED
    BY <1>2, <2>1
<1> HIDE DEF c
<1>4. /\ s \in Seq(Byte) /\ Len(s) \in Nat /\ Len(s) >= Len(c) + 8
      /\ \A k \in 1 .. Len(c) : s[k] = c[k]
      /\ \A k \in 1 .. 8 : s[Len(c) + k] = 0
  BY <1>2, PaddedIs
<1>5. x = IF l > 1 THEN e[2] ELSE 0
  BY DEF Follow
<1>20. Whole(s)
  BY <1>2, PaddedIsWhole
<1> HIDE DEF s, n, l, b, x
<1>6. \A k \in 1 .. n : s[k] = p[k]
  <2> SUFFICES ASSUME NEW k \in 1 .. n PROVE s[k] = p[k]
    OBVIOUS
  <2>1. k \in 1 .. Len(c)
    BY <1>2, <1>3
  <2>2. QED
    BY <1>2, <1>4, <2>1
<1>14. \A k \in 1 .. l : s[n + k] = e[k]
  <2> SUFFICES ASSUME NEW k \in 1 .. l PROVE s[n + k] = e[k]
    OBVIOUS
  <2>1. k + n \in 1 .. Len(c) /\ k + n = n + k
    BY <1>2
  <2>2. QED
    BY <1>2, <1>4, <2>1
<1>7. s[n + 1] = b
  <2>1. 1 \in 1 .. l
    BY <1>2, <1>3
  <2>2. QED
    BY <1>14, <2>1 DEF b
<1>8. s[n + 2] = x
  <2>1. CASE l > 1
    <3>1. 2 \in 1 .. l
      BY <1>2, <2>1
    <3>2. QED
      BY <1>5, <1>14, <2>1, <3>1
  <2>2. CASE ~(l > 1)
    <3>1. Len(c) + 1 = n + 2
      BY <1>2, <1>3, <2>2
    <3>2. s[Len(c) + 1] = 0
      BY <1>4
    <3>3. QED
      BY <1>5, <2>2, <3>1, <3>2
  <2>3. QED
    BY <2>1, <2>2
<1>9. \A k \in 1 .. n : PrefixAt(s, k)
  <2>1. CASE p \in Seq(Plain)
    <3>1. \A k \in 1 .. n : p[k] \in Plain
      BY <2>1, ElementOfSeq DEF n
    <3>2. QED
      BY <1>6, <3>1 DEF PrefixAt, Plain
  <2>2. CASE p = <<WaitOpcode>> /\ e[1] \in FPUEscapes
    <3>1. n = 1 /\ p[1] = WaitOpcode
      BY <2>2 DEF n
    <3>2. s[1] = WaitOpcode /\ 1 < Len(s)
      <4>1. 1 \in 1 .. n
        BY <3>1
      <4>2. s[1] = p[1]
        BY <1>6, <4>1
      <4>3. Len(c) \in Nat
        BY <1>2, <1>3
      <4>4. QED
        BY <1>4, <3>1, <4>2, <4>3
    <3>3. Waitable(s[1 + 1])
      BY <1>7, <2>2, <3>1, EscapesWait DEF b
    <3>4. PrefixAt(s, 1)
      BY <3>2, <3>3 DEF PrefixAt
    <3>5. \A k \in 1 .. n : k = 1
      BY <3>1
    <3>6. QED
      BY <3>4, <3>5
  <2>3. QED
    BY <2>1, <2>2
<1>10. ~PrefixAt(s, n + 1)
  <2>1. b = WaitOpcode => x = 0
    BY <1>1, <1>5
  <2>2. (n + 1) + 1 = n + 2
    BY <1>2
  <2>3. b = WaitOpcode => ~Waitable(s[(n + 1) + 1])
    BY <1>8, <2>1, <2>2, ZeroIsNoPrefix
  <2>4. QED
    BY <1>1, <1>7, <2>3 DEF PrefixAt, Plain
<1>11. n < Len(s) /\ n + 2 <= Len(s)
  BY <1>2, <1>4
<1>12. PrefixLength(s) = n
  BY <1>2, <1>4, <1>9, <1>10, <1>11, PrefixLengthIs
<1>13. Opcode(s) = b /\ Second(s) = x
  BY <1>7, <1>8, <1>11, <1>12 DEF Opcode, Second
<1>15. QED
  BY <1>2, <1>4, <1>6, <1>11, <1>12, <1>13, <1>14, <1>20 DEF s, n, l, b, x, c

(* The operands of a decode, by the place they are fetched from.           *)
LEMMA ArgsRead ==
    ASSUME NEW s
    PROVE  LET w == WidthsOf(s)
               f == FlatDecode(s)
           IN  /\ Len(w) = 1 => f.args[1] = ValueAt(s, OperandsAt(s), w[1])
               /\ Len(w) = 2 => /\ f.args[1] = ValueAt(s, OperandsAt(s), w[1])
                                /\ f.args[2] = ValueAt(s, OperandsAt(s) + w[1], w[2])
<1>1. WidthsOf(s) \in Widths
  BY WidthsAre DEF WidthsOf
<1>2. CASE Len(WidthsOf(s)) = 1
  <2>1. FlatDecode(s).args = <<FirstOperand(s)>>
    BY <1>1, <1>2, FlatOfOne DEF Decoding
  <2>2. QED
    BY <1>2, <2>1 DEF FirstOperand
<1>3. CASE Len(WidthsOf(s)) = 2
  <2>1. FlatDecode(s).args = <<FirstOperand(s), ValueAt(s, OperandsAt(s) + WidthsOf(s)[1], WidthsOf(s)[2])>>
    BY <1>1, <1>3, FlatOfTwo DEF Decoding
  <2>2. QED
    BY <1>3, <2>1 DEF FirstOperand
<1>4. QED
  BY <1>2, <1>3

LEMMA RereadParsed ==
    ASSUME NEW p \in Seq(Byte), NEW e, Stands(e),
           p \in Seq(Plain) \/ (p = <<WaitOpcode>> /\ e[1] \in FPUEscapes)
    PROVE  LET f == FlatDecode(p \o e \o Zeros)
           IN  Parsed(f, e) /\ f.op # "UD_NOP" /\ f.len = Len(p) + Len(e)
<1> DEFINE s == p \o e \o Zeros
           f == FlatDecode(s)
           n == Len(p)
           l == Len(e)
           b == e[1]
           x == Follow(e)
           w == OperandWidths(b, x)
<1>1. /\ s \in Seq(Byte) /\ n \in Nat /\ PrefixLength(s) = n /\ Opcode(s) = b /\ Second(s) = x
      /\ \A k \in 1 .. l : s[n + k] = e[k]
      /\ Whole(s) /\ Len(s) \in Nat /\ n + 2 <= Len(s)
  BY RereadPlaces
<1>2. OutcomeOf(b, x) # "UD_NOP" /\ l = InsSize(b, x) /\ e \in Seq(Byte)
  BY DEF Stands
<1>3. Fields(f, x) /\ f.lead = b /\ (f.op # "UD_NOP" => f.len = n + l)
  BY <1>1, <1>2, FieldsOfWhole
<1>4. f.op # "UD_NOP"
  BY <1>2, <1>3 DEF Fields
<1>5. WidthsOf(s) = w
  BY <1>1 DEF WidthsOf
<1>6. /\ Len(w) = 1 => f.args[1] = ValueAt(s, OperandsAt(s), w[1])
      /\ Len(w) = 2 => /\ f.args[1] = ValueAt(s, OperandsAt(s), w[1])
                       /\ f.args[2] = ValueAt(s, OperandsAt(s) + w[1], w[2])
  BY <1>5, ArgsRead
<1>7. OperandsAt(s) = IF b \in FPUEscapes \/ TakesModRM(b, x) THEN n + 2 ELSE n + 1
  BY <1>1, DecodeOf
<1> DEFINE h == IF b \in FPUEscapes \/ TakesModRM(b, x) THEN 2 ELSE 1
<1>8. OperandsAt(s) = n + h /\ l = h + Size(w) /\ h \in {1, 2}
  BY <1>2, <1>7 DEF InsSize
<1>9. /\ Len(w) \in 0 .. 2 /\ (w = << >> <=> Len(w) = 0)
      /\ Len(w) > 0 => w[1] \in {1, 2} /\ (Len(w) > 1 => w[2] \in {1, 2})
  <2>1. w \in Few
    BY FewOperands
  <2>2. /\ Len(w) \in 0 .. 2 /\ (w = << >> <=> Len(w) = 0) /\ DOMAIN w = 1 .. Len(w)
    BY <2>1, FewSizes
  <2>3. \A k \in 1 .. Len(w) : w[k] \in {1, 2}
    BY <2>1, ElementOfSeq DEF Few
  <2> HIDE DEF w
  <2>4. QED
    BY <2>2, <2>3
<1>20. n \in Nat /\ l \in Nat /\ \A k \in 1 .. l : s[n + k] = e[k]
  BY <1>1, <1>2, LenProperties
<1> HIDE DEF s, f, n, l, b, x, w, h
<1>21. \A c \in Nat, width \in {1, 2} :
           c + width <= l => ValueAt(s, n + c, width) = ValueAt(e, c, width)
  <2> SUFFICES ASSUME NEW c \in Nat, NEW width \in {1, 2}, c + width <= l
               PROVE  ValueAt(s, n + c, width) = ValueAt(e, c, width)
    OBVIOUS
  <2>1. s[n + (c + 1)] = e[c + 1] /\ n + (c + 1) = (n + c) + 1
    BY <1>20
  <2>2. width = 2 => s[n + (c + 2)] = e[c + 2] /\ n + (c + 2) = (n + c) + 2
    BY <1>20
  <2>3. QED
    BY <2>1, <2>2 DEF ValueAt
<1>10. Size(w) = (IF Len(w) > 0 THEN w[1] ELSE 0) + (IF Len(w) > 1 THEN w[2] ELSE 0)
  BY DEF Size
<1>11. ASSUME Len(w) = 1 PROVE f.args[1] = ValueAt(e, l - Size(w), w[1])
  <2>1. l - Size(w) = h /\ h \in Nat /\ w[1] \in {1, 2} /\ h + w[1] <= l /\ l \in Nat
    BY <1>8, <1>9, <1>10, <1>11, <1>20
  <2>2. ValueAt(s, n + h, w[1]) = ValueAt(e, h, w[1])
    BY <1>21, <2>1
  <2>3. QED
    BY <1>6, <1>8, <1>11, <2>1, <2>2
<1>12. ASSUME Len(w) = 2
       PROVE  f.args[1] = ValueAt(e, l - Size(w), w[1]) /\ f.args[2] = ValueAt(e, l - w[2], w[2])
  <2>0. Size(w) = w[1] + w[2] /\ w[1] \in {1, 2} /\ w[2] \in {1, 2}
    BY <1>9, <1>10, <1>12
  <2>9. \A y \in {1, 2}, z \in {1, 2} : l = h + (y + z) =>
            /\ l - (y + z) = h /\ h \in Nat /\ h + y <= l /\ h + y \in Nat /\ (h + y) + z <= l
            /\ l - z = h + y /\ (n + h) + y = n + (h + y)
    BY <1>8, <1>20
  <2>1. /\ l - Size(w) = h /\ h \in Nat /\ w[1] \in {1, 2} /\ w[2] \in {1, 2}
        /\ h + w[1] <= l /\ l \in Nat
        /\ h + w[1] \in Nat /\ (h + w[1]) + w[2] <= l /\ l - w[2] = h + w[1]
        /\ (n + h) + w[1] = n + (h + w[1])
    BY <1>8, <1>20, <2>0, <2>9
  <2>2. ValueAt(s, n + h, w[1]) = ValueAt(e, h, w[1])
    BY <1>21, <2>1
  <2>3. ValueAt(s, n + (h + w[1]), w[2]) = ValueAt(e, h + w[1], w[2])
    BY <1>21, <2>1
  <2>4. QED
    BY <1>6, <1>8, <1>12, <2>1, <2>2, <2>3
<1>13. /\ w # << >> => f.args[1] = ValueAt(e, l - Size(w), w[1])
       /\ Len(w) = 2 => f.args[2] = ValueAt(e, l - w[2], w[2])
  BY <1>9, <1>11, <1>12
<1>14. Parsed(f, e)
  BY <1>3, <1>13 DEF Parsed, l, b, x, w
<1>15. QED
  BY <1>3, <1>4, <1>14 DEF f, s, n, l

-----------------------------------------------------------------------------
(* The operands of a ModR/M byte, decoded, written and decoded again.      *)

RegsOf(m)  == IF Mod(m) = 0 /\ Rm(m) = 6 THEN << >> ELSE Regs16(Rm(m))
Addressing == {<< >>} \cup {Regs16(rm) : rm \in 0 .. 7}

(* What decode_rm_x86 makes: a register, or memory in the segment the      *)
(* override s or the registers give.                                       *)
InRegister(a, w)  == \E r \in 0 .. 7 : a = RegArg(r, w)
InMemory(a, s, w) ==
    \E v \in Addressing, b \in Word16 : a = MemArg(v, b, DefaultSegment(v, s), w)

(* The displacement of the fields d.                                       *)
DispOf(d) ==
    IF Displacement(d.rm) = << >> THEN 0
    ELSE IF Displacement(d.rm) = <<1>> THEN Signed(d.args[1], 8) ELSE d.args[1]

LEMMA MemoryIs ==
    ASSUME NEW d, d.rm \in Byte, NEW w, Mod(d.rm) # 3
    PROVE  RM(d, w) = MemArg(RegsOf(d.rm), DispOf(d), DefaultSegment(RegsOf(d.rm), d.segment), w)
<1> DEFINE m == d.rm
           u == Displacement(m)
           disp == IF u = << >> THEN 0 ELSE IF u[1] = 1 THEN Signed(d.args[1], 8) ELSE d.args[1]
           c == [mod |-> Mod(m), rm |-> Rm(m), width |-> IF u = << >> THEN 0 ELSE u[1],
                 disp |-> disp, segment |-> d.segment]
           base == IF c.width = 0 THEN 0 ELSE disp
<1>1. RM(d, w) = MemArg(Decode16(c).regs, Decode16(c).base, Decode16(c).segment, w)
  BY Zenon DEF RM
<1>2. Decode16(c) = [regs |-> RegsOf(m), scalar |-> 0, base |-> base,
                     segment |-> DefaultSegment(RegsOf(m), d.segment)]
  BY DEF Decode16, RegsOf
<1>3. base = DispOf(d)
  <2>1. u = << >> \/ u = <<1>> \/ u = <<2>>
    BY DisplacementIs
  <2>2. u = <<1>> => u # << >> /\ u[1] = 1
    OBVIOUS
  <2>3. u = <<2>> => u # << >> /\ u # <<1>> /\ u[1] = 2
    OBVIOUS
  <2>4. DispOf(d) = IF u = << >> THEN 0 ELSE IF u = <<1>> THEN Signed(d.args[1], 8) ELSE d.args[1]
    BY DEF DispOf
  <2> HIDE DEF u
  <2>5. c.width = IF u = << >> THEN 0 ELSE u[1]
    OBVIOUS
  <2>6. QED
    BY <2>1, <2>2, <2>3, <2>4, <2>5
<1> HIDE DEF c, base
<1>4. QED
  BY <1>1, <1>2, <1>3

LEMMA RegsOfIs ==
    ASSUME NEW m \in Byte
    PROVE  RegsOf(m) \in Addressing
<1>1. Rm(m) \in 0 .. 7
  BY FieldsAre
<1>2. QED
  BY <1>1 DEF RegsOf, Addressing

(* Every operand decode_rm_x86 makes is one of these.                      *)
LEMMA OperandKinds ==
    ASSUME NEW d, NEW m, Addressed(d, m), NEW w
    PROVE  /\ Mod(m) = 3 => RM(d, w) = RegArg(Rm(m), w) /\ InRegister(RM(d, w), w)
           /\ Mod(m) # 3 => InMemory(RM(d, w), d.segment, w)
<1>1. d.rm = m /\ m \in Byte /\ Rm(m) \in 0 .. 7
  BY FieldsAre DEF Addressed
<1>2. CASE Mod(m) = 3
  <2>1. RM(d, w) = RegArg(Rm(m), w)
    BY <1>1, <1>2, RegisterForm
  <2>2. QED
    BY <1>1, <1>2, <2>1 DEF InRegister
<1>3. CASE Mod(m) # 3
  <2> DEFINE a == RM(d, w)
             v == RegsOf(m)
  <2>1. a = MemArg(v, DispOf(d), DefaultSegment(v, d.segment), w)
    BY <1>1, <1>3, MemoryIs
  <2>2. a.base \in Word16
    BY <1>3, MemoryForm
  <2> HIDE DEF a
  <2>3. a.base = DispOf(d) % 65536
    BY <2>1 DEF MemArg
  <2>4. a.base % 65536 = a.base
    BY <2>2, WordIsWord
  <2>5. a = MemArg(v, a.base, DefaultSegment(v, d.segment), w)
    BY <2>1, <2>3, <2>4 DEF MemArg
  <2>6. v \in Addressing
    BY <1>1, RegsOfIs
  <2>7. InMemory(a, d.segment, w)
    BY <2>2, <2>5, <2>6 DEF InMemory
  <2>8. QED
    BY <1>3, <2>7 DEF a
<1>4. QED
  BY <1>2, <1>3

LEMMA AddressingIs ==
    ASSUME NEW v \in Addressing
    PROVE  /\ Rm16(v) \in 0 .. 7 /\ Len(v) \in 0 .. 2 /\ (Len(v) = 0 <=> v = << >>)
           /\ Len(v) = 0 => Rm16(v) = 6
           /\ Len(v) # 0 => v = Regs16(Rm16(v)) /\ ((Len(v) = 1 /\ v[1] = BP) <=> Rm16(v) = 6)
<1>1. CASE v = << >>
  BY <1>1 DEF Rm16
<1>2. CASE v # << >>
  <2>1. PICK rm \in 0 .. 7 : v = Regs16(rm)
    BY <1>2 DEF Addressing
  <2>2. /\ Rm16(v) = rm /\ Len(v) \in {1, 2} /\ v # << >>
        /\ (Len(v) = 1 /\ v[1] = BP) <=> rm = 6
    BY <2>1, RmIsKept
  <2>3. QED
    BY <2>1, <2>2
<1>3. QED
  BY <1>1, <1>2

LEMMA SignedBack ==
    ASSUME NEW b \in Word16, FitsByte(2, b)
    PROVE  ByteOf(Signed(b, 8)) \in Byte /\ Signed(ByteOf(Signed(b, 8)), 8) % 65536 = b
<1>1. b \in Int /\ 0 <= b /\ b < 65536 /\ b % 65536 = b
  BY WordIsWord
<1>2. CASE b < 128
  <2>1. b % 256 = b
    BY <1>1, <1>2
  <2>2. Signed(b, 8) = b
    BY <1>1, <1>2, <2>1 DEF Signed
  <2>3. ByteOf(b) = b
    BY <2>1 DEF ByteOf
  <2>4. QED
    BY <1>1, <1>2, <2>2, <2>3 DEF Byte
<1>3. CASE b >= 128
  <2>1. 65408 <= b
    <3>1. Signed(b, 16) = IF b >= 32768 THEN b - 65536 ELSE b
      BY <1>1 DEF Signed
    <3>2. -128 <= Signed(b, 16) /\ Signed(b, 16) <= 127
      BY DEF FitsByte
    <3>3. QED
      BY <1>1, <1>3, <3>1, <3>2
  <2>2. b % 256 = b - 65280 /\ (b - 65536) % 256 = b - 65280 /\ (b - 65536) % 65536 = b
    BY <1>1, <2>1
  <2>3. Signed(b, 8) = b - 65536
    BY <1>1, <2>1, <2>2 DEF Signed
  <2>4. ByteOf(Signed(b, 8)) = b - 65280
    BY <2>2, <2>3 DEF ByteOf
  <2>5. (b - 65280) % 256 = b - 65280 /\ b - 65280 >= 128
    BY <1>1, <2>1
  <2>6. Signed(b - 65280, 8) = b - 65536
    BY <1>1, <2>1, <2>5 DEF Signed
  <2>7. b - 65280 \in Byte
    BY <1>1, <2>1 DEF Byte
  <2>8. QED
    BY <2>2, <2>4, <2>6, <2>7
<1>4. QED
  BY <1>1, <1>2, <1>3

LEMMA WordBack ==
    ASSUME NEW v \in Word16
    PROVE  Word(v)[1] + 256 * Word(v)[2] = v
<1>1. v \in Int /\ 0 <= v /\ v < 65536
  BY WordIsWord
<1>2. Word(v)[1] = v % 256 /\ Word(v)[2] = (v \div 256) % 256
  BY DEF Word
<1>3. (v \div 256) % 256 = v \div 256 /\ (v % 256) + 256 * (v \div 256) = v
  BY <1>1
<1>4. QED
  BY <1>2, <1>3

LEMMA Distinct == << >> # <<1>> /\ << >> # <<2>> /\ <<1>> # <<2>>
<1>1. <<1>>[1] = 1 /\ <<2>>[1] = 2
  OBVIOUS
<1>2. QED
  BY <1>1

(* What minx86enc_encode_memreg writes for memory at v and b: the ModR/M   *)
(* byte n, and behind it a displacement that gives b again.                *)
LEMMA MemoryWritten ==
    ASSUME NEW v \in Addressing, NEW b \in Word16, NEW g, NEW w, NEW reg \in 0 .. 7
    PROVE  LET t == MemReg(MemArg(v, b, g, w), reg)
               n == t[1]
           IN  /\ RMBytesOf(t, n) /\ n \in Byte /\ Mod(n) # 3 /\ Reg(n) = reg /\ RegsOf(n) = v
               /\ Displacement(n) = << >> => b = 0
               /\ Displacement(n) = <<1>> => t[2] \in Byte /\ Signed(t[2], 8) % 65536 = b
               /\ Displacement(n) = <<2>> => t[2] + 256 * t[3] = b
<1> DEFINE a == MemArg(v, b, g, w)
           base == ModOfBase(2, b)
           mod == ModFor(2, a)
           c == Encode(2, a, FALSE)
           rm == Rm16(v)
           n == 64 * mod + 8 * reg + rm
           t == MemReg(a, reg)
<1>1. /\ rm \in 0 .. 7 /\ Len(v) \in 0 .. 2 /\ (Len(v) = 0 <=> v = << >>)
      /\ Len(v) = 0 => rm = 6
      /\ Len(v) # 0 => v = Regs16(rm) /\ ((Len(v) = 1 /\ v[1] = BP) <=> rm = 6)
  BY AddressingIs
<1>2. a.regs = v /\ a.base = b /\ b \in Int /\ b % 65536 = b
  BY WordIsWord DEF MemArg
<1>3. /\ base \in 0 .. 2 /\ (base = 0 <=> b = 0) /\ (base = 1 => FitsByte(2, b))
  BY DEF ModOfBase
<1>4. mod = IF Len(v) = 0 THEN 0 ELSE IF base = 0 /\ Len(v) = 1 /\ v[1] = BP THEN 1 ELSE base
  BY <1>1, <1>2 DEF ModFor
<1> HIDE DEF a, base, mod
<1>5. /\ mod \in 0 .. 2
      /\ Len(v) # 0 => (mod = 0 => b = 0 /\ rm # 6) /\ (mod = 1 => FitsByte(2, b))
  <2>1. b = 0 => FitsByte(2, b)
    BY DEF FitsByte, Signed
  <2>2. QED
    BY <1>1, <1>3, <1>4, <2>1
<1>6. /\ c.mod = mod /\ c.rm = rm /\ c.sib = NoSIB
      /\ c.width = IF mod = 1 THEN 1 ELSE IF mod = 2 \/ Len(v) = 0 THEN 2 ELSE 0
      /\ c.disp = CASE c.width = 0 -> 0 [] c.width = 1 -> Signed(a.base, 8)
                    [] c.width = 2 -> a.base % 65536 [] c.width = 4 -> a.base
  BY <1>2 DEF Encode, mod
<1>7. n \in Byte /\ Mod(n) = mod /\ Reg(n) = reg /\ Rm(n) = rm
  <2>1. mod \in 0 .. 3 /\ rm \in 0 .. 7 /\ n = 64 * mod + 8 * reg + rm
    BY <1>1, <1>5
  <2> HIDE DEF n, rm
  <2>2. QED
    BY <2>1, ByteFields
<1> HIDE DEF c
<1>8. c.width \in 0 .. 2 /\ c.disp \in Int
  <2>1. Signed(a.base, 8) \in Int /\ a.base % 65536 \in Int
    BY <1>2 DEF Signed
  <2>2. QED
    BY <1>5, <1>6, <2>1
<1>9. t = <<n>> \o DispBytes(c)
  <2>1. t = RMBytes(c, reg)
    BY DEF MemReg, c
  <2>2. SIBBytes(c.sib) = << >>
    BY <1>6 DEF SIBBytes
  <2>3. t = <<64 * c.mod + 8 * reg + c.rm>> \o << >> \o DispBytes(c)
    BY <2>1, <2>2 DEF RMBytes
  <2>4. <<n>> \o << >> = <<n>>
    OBVIOUS
  <2>5. QED
    BY <1>6, <2>3, <2>4
<1>10. DispBytes(c) \in Seq(Byte) /\ Len(DispBytes(c)) = c.width
  BY <1>8, DispBytesAre
<1>11. /\ c.width = 1 => DispBytes(c) = <<ByteOf(Signed(b, 8))>>
       /\ c.width = 2 => DispBytes(c) = Word(b)
  <2>1. c.width = 1 => c.disp = Signed(b, 8)
    BY <1>2, <1>6
  <2>2. c.width = 2 => c.disp = b
    BY <1>2, <1>6
  <2>3. QED
    BY <2>1, <2>2 DEF DispBytes
<1> HIDE DEF n, t, rm
<1>12. /\ t \in Seq(Byte) /\ t # << >> /\ Len(t) = 1 + c.width /\ t[1] = n
       /\ \A k \in 1 .. Len(DispBytes(c)) : t[k + 1] = DispBytes(c)[k]
  BY <1>7, <1>9, <1>10, LeadOf
<1>13. Displacement(n) = IF c.width = 0 THEN << >> ELSE IF c.width = 1 THEN <<1>> ELSE <<2>>
  BY <1>1, <1>5, <1>6, <1>7, DisplacementIs
<1>14. RMBytesOf(t, n)
  BY <1>8, <1>12, <1>13, WidthSizes DEF RMBytesOf
<1>15. RegsOf(n) = v
  BY <1>1, <1>5, <1>7, <1>4 DEF RegsOf
<1>16. Displacement(n) = << >> => b = 0
  <2>1. c.width = 0 => mod = 0 /\ Len(v) # 0
    BY <1>5, <1>6
  <2>2. QED
    BY <1>5, <1>13, <2>1
<1>17. Displacement(n) = <<1>> => t[2] \in Byte /\ Signed(t[2], 8) % 65536 = b
  <2> SUFFICES ASSUME Displacement(n) = << 1 >>
               PROVE  t[2] \in Byte /\ Signed(t[2], 8) % 65536 = b
    OBVIOUS
  <2>1. c.width = 1
    BY <1>8, <1>13, Distinct
  <2>2. 1 \in 1 .. Len(DispBytes(c)) /\ DispBytes(c)[1] = ByteOf(Signed(b, 8))
    BY <1>10, <1>11, <2>1
  <2>3. t[2] = ByteOf(Signed(b, 8))
    <3>1. t[1 + 1] = DispBytes(c)[1]
      BY <1>12, <2>2
    <3>2. QED
      BY <2>2, <3>1
  <2>4. mod = 1 /\ Len(v) # 0
    BY <1>4, <1>5, <1>6, <2>1
  <2>5. QED
    BY <1>5, <2>3, <2>4, SignedBack
<1>18. Displacement(n) = <<2>> => t[2] + 256 * t[3] = b
  <2> SUFFICES ASSUME Displacement(n) = << 2 >> PROVE t[2] + 256 * t[3] = b
    OBVIOUS
  <2>0. c.width # 0 /\ c.width # 1
    BY <1>13, Distinct
  <2>1. c.width = 2
    BY <1>8, <2>0
  <2>2. 1 \in 1 .. Len(DispBytes(c)) /\ 2 \in 1 .. Len(DispBytes(c)) /\ DispBytes(c) = Word(b)
    BY <1>10, <1>11, <2>1
  <2>3. t[1 + 1] = Word(b)[1] /\ t[2 + 1] = Word(b)[2]
    BY <1>12, <2>2
  <2>4. QED
    BY <2>3, WordBack
<1>19. Mod(n) # 3
  BY <1>5, <1>7
<1>20. QED
  BY <1>7, <1>12, <1>14, <1>15, <1>16, <1>17, <1>18, <1>19 DEF t, a

LEMMA JoinedWidths ==
    ASSUME NEW v \in {<< >>, << 1 >>, << 2 >>}, NEW w \in {<< >>, << 1 >>, << 2 >>}
    PROVE  /\ Len(v \o w) = Len(v) + Len(w) /\ Len(v) \in 0 .. 1 /\ Len(w) \in 0 .. 1
           /\ v # << >> => Len(v) = 1 /\ v[1] \in {1, 2} /\ Size(v) = v[1]
           /\ w # << >> => Len(w) = 1 /\ w[1] \in {1, 2} /\ Size(w) = w[1]
           /\ v = << >> => Size(v) = 0 /\ Len(v) = 0 /\ v \o w = w
           /\ w = << >> => Size(w) = 0 /\ Len(w) = 0
           /\ v # << >> => (v \o w)[1] = v[1] /\ v \o w # << >>
           /\ v # << >> /\ w # << >> => (v \o w)[2] = w[1]
           /\ Size(v \o w) = Size(v) + Size(w)
<1>1. v \in Seq({1, 2}) /\ w \in Seq({1, 2})
  BY WidthSequences DEF Widths
<1>2. /\ Len(v \o w) = Len(v) + Len(w)
      /\ \A k \in 1 .. Len(v) : (v \o w)[k] = v[k]
      /\ \A k \in 1 .. Len(w) : (v \o w)[k + Len(v)] = w[k]
  BY <1>1, Joined
<1>3. \A y \in {v, w} : /\ Len(y) \in 0 .. 1
                        /\ y # << >> => Len(y) = 1 /\ y[1] \in {1, 2} /\ Size(y) = y[1]
                        /\ y = << >> => Len(y) = 0 /\ Size(y) = 0
  BY WidthSizes
<1>4. v = << >> => v \o w = w
  BY <1>1, NoneBefore
<1>5. v # << >> => (v \o w)[1] = v[1] /\ v \o w # << >>
  <2>1. v # << >> => 1 \in 1 .. Len(v) /\ Len(v \o w) # 0
    BY <1>2, <1>3
  <2>2. QED
    BY <1>2, <2>1
<1>6. v # << >> /\ w # << >> => (v \o w)[2] = w[1]
  <2>1. v # << >> /\ w # << >> => 1 \in 1 .. Len(w) /\ 1 + Len(v) = 2
    BY <1>3
  <2>2. QED
    BY <1>2, <2>1
<1>7. Size(v \o w) = Size(v) + Size(w)
  BY SizesAdd
<1>8. QED
  BY <1>2, <1>3, <1>4, <1>5, <1>6, <1>7

(* Displacement and immediate, by their places in the encoding.            *)
LEMMA ParsedOperands ==
    ASSUME NEW f, NEW e, Parsed(f, e), TakesModRM(e[1], Follow(e))
    PROVE  LET n == Follow(e)
               v == Displacement(n)
               w == ImmAfterRM(e[1], n)
           IN  /\ Addressed(f, n) /\ f.rm = n /\ n \in Byte /\ f.lead = e[1]
               /\ Len(e) = 2 + Size(v) + Size(w) /\ Size(v) \in 0 .. 2 /\ Size(w) \in 0 .. 2
               /\ v # << >> => f.args[1] = ValueAt(e, 2, v[1])
               /\ w # << >> => RMImm(f) = ValueAt(e, Len(e) - w[1], w[1])
<1> DEFINE n == Follow(e)
           v == Displacement(n)
           w == ImmAfterRM(e[1], n)
           y == OperandWidths(e[1], n)
<1>1. /\ Addressed(f, n) /\ f.rm = n /\ n \in Byte /\ f.lead = e[1] /\ Len(f.args) = Len(y)
      /\ y # << >> => f.args[1] = ValueAt(e, Len(e) - Size(y), y[1])
      /\ Len(y) = 2 => f.args[2] = ValueAt(e, Len(e) - y[2], y[2])
  BY DEF Parsed, Fields, Addressed
<1>2. /\ Len(e) = 2 + Size(v) + Size(w) /\ Size(v) \in 0 .. 2 /\ Size(w) \in 0 .. 2
  BY ModRMSize DEF Parsed, Stands
<1>3. y = v \o w
  BY DEF OperandWidths
<1>4. v \in {<< >>, << 1 >>, << 2 >>} /\ w \in {<< >>, << 1 >>, << 2 >>}
  BY Shorts
<1> HIDE DEF n, v, w
<1>5. /\ Len(y) = Len(v) + Len(w) /\ Len(v) \in 0 .. 1 /\ Len(w) \in 0 .. 1
      /\ v # << >> => Len(v) = 1 /\ v[1] \in {1, 2} /\ Size(v) = v[1]
      /\ w # << >> => Len(w) = 1 /\ w[1] \in {1, 2} /\ Size(w) = w[1]
      /\ v = << >> => Size(v) = 0 /\ Len(v) = 0 /\ y = w
      /\ w = << >> => Size(w) = 0 /\ Len(w) = 0
      /\ v # << >> => y[1] = v[1] /\ y # << >>
      /\ v # << >> /\ w # << >> => y[2] = w[1]
      /\ Size(y) = Size(v) + Size(w)
  <2> DEFINE z == v \o w
  <2>1. /\ Len(z) = Len(v) + Len(w) /\ Len(v) \in 0 .. 1 /\ Len(w) \in 0 .. 1
        /\ v # << >> => Len(v) = 1 /\ v[1] \in {1, 2} /\ Size(v) = v[1]
        /\ w # << >> => Len(w) = 1 /\ w[1] \in {1, 2} /\ Size(w) = w[1]
        /\ v = << >> => Size(v) = 0 /\ Len(v) = 0 /\ z = w
        /\ w = << >> => Size(w) = 0 /\ Len(w) = 0
        /\ v # << >> => z[1] = v[1] /\ z # << >>
        /\ v # << >> /\ w # << >> => z[2] = w[1]
        /\ Size(z) = Size(v) + Size(w)
    BY <1>4, JoinedWidths
  <2>2. y = z
    BY <1>3
  <2> HIDE DEF y, z
  <2>3. QED
    BY <2>1, <2>2
<1> HIDE DEF y
<1>6. v # << >> => f.args[1] = ValueAt(e, 2, v[1])
  <2>1. Len(e) - Size(y) = 2
    BY <1>2, <1>5
  <2>2. QED
    BY <1>1, <1>5, <2>1
<1>7. CASE w # << >> /\ v = << >>
  <2>1. Len(f.args) = 1 /\ y = w /\ Size(y) = w[1]
    BY <1>1, <1>5, <1>7
  <2>2. QED
    BY <1>1, <1>2, <1>6, <1>7, <2>1 DEF RMImm, n, v, w
<1>8. CASE w # << >> /\ v # << >>
  <2>0. Len(v) = 1 /\ Len(w) = 1 /\ y[2] = w[1] /\ Len(y) = Len(v) + Len(w)
    BY <1>5, <1>8
  <2>1. Len(f.args) = 2 /\ Len(y) = 2 /\ y[2] = w[1]
    BY <1>1, <2>0
  <2>2. QED
    BY <1>1, <1>2, <1>6, <1>8, <2>1 DEF RMImm, n, v, w
<1>9. QED
  BY <1>1, <1>2, <1>6, <1>7, <1>8 DEF n, v, w

(* Operand a with size v, in a decode with override t.                     *)
Again(a, t, v) ==
    IF a.kind = "mem" THEN MemArg(a.regs, a.base, DefaultSegment(a.regs, t), v)
    ELSE RegArg(a.reg, v)

(* An operand a ModR/M byte can give.                                      *)
Operand(a) ==
    \/ \E r \in 0 .. 7 : \E w : a = RegArg(r, w)
    \/ \E v \in Addressing, b \in Word16 : \E g, w : a = MemArg(v, b, g, w)

LEMMA KindsAreOperands ==
    ASSUME NEW a, NEW s, NEW w
    PROVE  (InRegister(a, w) => Operand(a)) /\ (InMemory(a, s, w) => Operand(a))
<1>1. InRegister(a, w) => Operand(a)
  BY DEF InRegister, Operand
<1>2. InMemory(a, s, w) => Operand(a)
  BY DEF InMemory, Operand
<1>3. QED
  BY <1>1, <1>2

(* The bytes t are a ModR/M byte and a displacement for operand a.         *)
OperandBytes(a, t, reg) ==
    /\ t \in Seq(Byte) /\ t # << >> /\ t[1] \in Byte /\ Reg(t[1]) = reg
    /\ Len(t) = 1 + Size(Displacement(t[1]))
    /\ a.kind = "reg" => Mod(t[1]) = 3 /\ Rm(t[1]) = a.reg
    /\ a.kind # "reg" =>
         /\ a.kind = "mem" /\ Mod(t[1]) # 3 /\ RegsOf(t[1]) = a.regs /\ a.base \in Word16
         /\ Displacement(t[1]) = << >> => a.base = 0
         /\ Displacement(t[1]) = <<1>> => Signed(t[2], 8) % 65536 = a.base
         /\ Displacement(t[1]) = <<2>> => t[2] + 256 * t[3] = a.base

LEMMA OperandWritten ==
    ASSUME NEW a, Operand(a), NEW reg \in 0 .. 7
    PROVE  OperandBytes(a, ModRM(a, reg), reg)
<1>1. ASSUME NEW r \in 0 .. 7, NEW w, a = RegArg(r, w) PROVE OperandBytes(a, ModRM(a, reg), reg)
  <2>2. a.kind = "reg" /\ a.reg = r
    BY <1>1 DEF RegArg
  <2> DEFINE n == 192 + 8 * reg + r
  <2>3. ModRM(a, reg) = <<n>>
    BY <2>2 DEF ModRM, IsMem, RmReg
  <2>4. n = 64 * 3 + 8 * reg + r /\ 3 \in 0 .. 3
    OBVIOUS
  <2> HIDE DEF n
  <2>5. n \in Byte /\ Mod(n) = 3 /\ Reg(n) = reg /\ Rm(n) = r
    BY <2>4, ByteFields
  <2>6. Size(Displacement(n)) = 0
    BY <2>5, DisplacementIs, WidthSizes
  <2>7. <<n>> \in Seq(Byte) /\ <<n>> # << >> /\ Len(<<n>>) = 1 /\ <<n>>[1] = n
    BY <2>5
  <2>8. QED
    BY <2>2, <2>3, <2>5, <2>6, <2>7 DEF OperandBytes
<1>2. ASSUME NEW v \in Addressing, NEW b \in Word16, NEW g, NEW w, a = MemArg(v, b, g, w)
      PROVE  OperandBytes(a, ModRM(a, reg), reg)
  <2>2. a.kind = "mem" /\ a.regs = v /\ a.base = b /\ "mem" # "reg"
    BY <1>2, WordIsWord DEF MemArg
  <2>3. ModRM(a, reg) = MemReg(a, reg)
    BY <2>2 DEF ModRM, IsMem
  <2>4. LET t == MemReg(MemArg(v, b, g, w), reg)
            n == t[1]
        IN  /\ RMBytesOf(t, n) /\ n \in Byte /\ Mod(n) # 3 /\ Reg(n) = reg /\ RegsOf(n) = v
            /\ Displacement(n) = << >> => b = 0
            /\ Displacement(n) = <<1>> => t[2] \in Byte /\ Signed(t[2], 8) % 65536 = b
            /\ Displacement(n) = <<2>> => t[2] + 256 * t[3] = b
    BY MemoryWritten
  <2>5. QED
    BY <1>2, <2>2, <2>3, <2>4 DEF RMBytesOf, OperandBytes
<1>3. QED
  BY <1>1, <1>2 DEF Operand

(* Opcode, ModR/M byte with its displacement, and what follows them.       *)
HeadedWith(b, t, u) == <<b>> \o t \o u

Laid(e, b, t, u) ==
    /\ e \in Seq(Byte) /\ Len(e) = 1 + Len(t) + Len(u) /\ e[1] = b /\ Follow(e) = t[1]
    /\ Len(t) \in Nat /\ Len(t) >= 1 /\ Len(u) \in Nat
    /\ \A k \in 1 .. Len(t) : e[k + 1] = t[k]
    /\ \A k \in 1 .. Len(u) : e[1 + Len(t) + k] = u[k]

LEMMA ThreeParts ==
    ASSUME NEW b \in Byte, NEW t \in Seq(Byte), t # << >>, NEW u \in Seq(Byte)
    PROVE  Laid(HeadedWith(b, t, u), b, t, u)
<1> DEFINE e == <<b>> \o t \o u
           c == <<b>> \o t
<1>1. /\ c \in Seq(Byte) /\ Len(c) = 1 + Len(t) /\ c[1] = b /\ Len(t) \in Nat /\ Len(u) \in Nat
      /\ \A k \in 1 .. Len(t) : c[k + 1] = t[k]
  BY LeadOf, LenProperties
<1>2. Len(t) >= 1
  <2>1. Len(t) # 0
    BY EmptySeq
  <2>2. QED
    BY <1>1, <2>1
<1> HIDE DEF c
<1>3. /\ c \o u \in Seq(Byte) /\ Len(c \o u) = Len(c) + Len(u)
      /\ \A k \in 1 .. Len(c) : (c \o u)[k] = c[k]
      /\ \A k \in 1 .. Len(u) : (c \o u)[k + Len(c)] = u[k]
  <2>1. c \in Seq(Byte) /\ u \in Seq(Byte)
    BY <1>1
  <2>2. QED
    BY <2>1, Joined
<1>4. e = c \o u
  BY DEF c
<1> HIDE DEF e
<1>5. e[1] = b
  BY <1>1, <1>2, <1>3, <1>4
<1>6. ASSUME NEW k \in 1 .. Len(t) PROVE e[k + 1] = t[k]
  <2>1. k + 1 \in 1 .. Len(c)
    BY <1>1
  <2>2. QED
    BY <1>1, <1>3, <1>4, <2>1
<1>7. ASSUME NEW k \in 1 .. Len(u) PROVE e[1 + Len(t) + k] = u[k]
  <2>1. 1 + Len(t) + k = k + Len(c)
    BY <1>1
  <2>2. QED
    BY <1>3, <1>4, <2>1
<1>8. Len(e) = 1 + Len(t) + Len(u)
  BY <1>1, <1>3, <1>4
<1>9. Follow(e) = t[1]
  <2>1. 1 \in 1 .. Len(t) /\ Len(e) > 1
    BY <1>1, <1>2, <1>8
  <2>2. e[1 + 1] = t[1]
    BY <1>6, <2>1
  <2>3. QED
    BY <2>1, <2>2 DEF Follow
<1>10. QED
  BY <1>1, <1>2, <1>3, <1>4, <1>5, <1>6, <1>7, <1>8, <1>9 DEF e, HeadedWith, Laid

LEMMA WordOf ==
    ASSUME NEW v \in Int
    PROVE  Word(v)[1] + 256 * Word(v)[2] = v % 65536 /\ v % 65536 \in Word16
<1>1. Word(v)[1] = v % 256 /\ Word(v)[2] = (v \div 256) % 256
  BY DEF Word
<1>2. (v % 256) + 256 * ((v \div 256) % 256) = v % 65536
  OBVIOUS
<1>3. v % 65536 \in Int /\ 0 <= v % 65536 /\ v % 65536 < 65536
  OBVIOUS
<1>4. QED
  BY <1>1, <1>2, <1>3, InWord16

(* The fields f have operand a, by a ModR/M byte with reg in its reg field.*)
HasOperand(f, a, b, reg) ==
    /\ f.lead = b /\ f.rm = ModRM(a, reg)[1] /\ f.rm \in Byte /\ Reg(f.rm) = reg
    /\ Mod(f.rm) = 3 <=> a.kind = "reg"
    /\ \A v : RM(f, v) = Again(a, f.segment, v)

(* What was written for an operand is decoded as that operand.             *)
LEMMA ReadOperand ==
    ASSUME NEW a, Operand(a), NEW reg \in 0 .. 7, NEW b \in Byte, NEW u \in Seq(Byte),
           NEW f, Parsed(f, HeadedWith(b, ModRM(a, reg), u)), TakesModRM(b, ModRM(a, reg)[1])
    PROVE  /\ HasOperand(f, a, b, reg)
           /\ ImmAfterRM(b, f.rm) = <<1>> => RMImm(f) = u[1]
           /\ ImmAfterRM(b, f.rm) = <<2>> => RMImm(f) = u[1] + 256 * u[2]
<1> DEFINE t == ModRM(a, reg)
           e == HeadedWith(b, t, u)
           n == t[1]
           v == Displacement(n)
           i == ImmAfterRM(b, n)
<1>0. OperandBytes(a, t, reg)
  BY OperandWritten
<1>1. /\ t \in Seq(Byte) /\ t # << >> /\ Len(t) = 1 + Size(v) /\ n \in Byte /\ Reg(n) = reg
      /\ a.kind = "reg" => Mod(n) = 3 /\ Rm(n) = a.reg
      /\ a.kind # "reg" =>
           /\ Mod(n) # 3 /\ RegsOf(n) = a.regs /\ a.kind = "mem"
           /\ v = << >> => a.base = 0
           /\ v = <<1>> => Signed(t[2], 8) % 65536 = a.base
           /\ v = <<2>> => t[2] + 256 * t[3] = a.base
           /\ a.base \in Word16
  BY <1>0 DEF OperandBytes
<1>21. Laid(e, b, t, u)
  BY <1>1, ThreeParts
<1>2. /\ e \in Seq(Byte) /\ Len(e) = 1 + Len(t) + Len(u) /\ e[1] = b /\ Follow(e) = n
      /\ Len(t) \in Nat /\ Len(t) >= 1 /\ Len(u) \in Nat
      /\ \A k \in 1 .. Len(t) : e[k + 1] = t[k]
      /\ \A k \in 1 .. Len(u) : e[1 + Len(t) + k] = u[k]
  BY <1>21 DEF Laid
<1>3. Parsed(f, e) /\ TakesModRM(e[1], Follow(e))
  BY <1>2
<1> HIDE DEF e
<1>4. /\ Addressed(f, n) /\ f.rm = n /\ f.lead = b
      /\ Len(e) = 2 + Size(v) + Size(i) /\ Size(v) \in 0 .. 2 /\ Size(i) \in 0 .. 2
      /\ v # << >> => f.args[1] = ValueAt(e, 2, v[1])
      /\ i # << >> => RMImm(f) = ValueAt(e, Len(e) - i[1], i[1])
  BY <1>2, <1>3, ParsedOperands
<1> HIDE DEF t, n, v, i
<1>5. Len(u) = Size(i)
  BY <1>1, <1>2, <1>4
<1>6. i = <<1>> => RMImm(f) = u[1]
  <2> SUFFICES ASSUME i = << 1 >> PROVE RMImm(f) = u[1]
    OBVIOUS
  <2>1. i # << >> /\ i[1] = 1 /\ Len(u) = 1
    BY <1>5, WidthSizes
  <2>2. RMImm(f) = e[(Len(e) - 1) + 1] /\ (Len(e) - 1) + 1 = 1 + Len(t) + 1
    BY <1>2, <1>4, <2>1 DEF ValueAt
  <2>3. 1 \in 1 .. Len(u)
    BY <2>1
  <2>4. QED
    BY <1>2, <2>2, <2>3
<1>7. i = <<2>> => RMImm(f) = u[1] + 256 * u[2]
  <2> SUFFICES ASSUME i = << 2 >> PROVE RMImm(f) = u[1] + 256 * u[2]
    OBVIOUS
  <2>1. i # << >> /\ i[1] = 2 /\ Len(u) = 2
    BY <1>5, WidthSizes
  <2>2. /\ RMImm(f) = e[(Len(e) - 2) + 1] + 256 * e[(Len(e) - 2) + 2]
        /\ (Len(e) - 2) + 1 = 1 + Len(t) + 1 /\ (Len(e) - 2) + 2 = 1 + Len(t) + 2
    BY <1>2, <1>4, <2>1 DEF ValueAt
  <2>3. 1 \in 1 .. Len(u) /\ 2 \in 1 .. Len(u)
    BY <2>1
  <2>4. QED
    BY <1>2, <2>2, <2>3
<1>8. ASSUME a.kind = "reg", NEW z PROVE RM(f, z) = Again(a, f.segment, z)
  <2>1. RM(f, z) = RegArg(Rm(n), z)
    BY <1>1, <1>4, <1>8, RegisterForm
  <2>2. QED
    BY <1>1, <1>8, <2>1 DEF Again
<1>9. ASSUME a.kind # "reg", NEW z PROVE RM(f, z) = Again(a, f.segment, z)
  <2>1. RM(f, z) = MemArg(RegsOf(f.rm), DispOf(f), DefaultSegment(RegsOf(f.rm), f.segment), z)
    BY <1>1, <1>4, <1>9, MemoryIs
  <2>2. DispOf(f) % 65536 = a.base /\ a.base % 65536 = a.base
    <3>1. a.base \in Word16 /\ a.base % 65536 = a.base
      BY <1>1, <1>9, WordIsWord
    <3>2. v = << >> \/ v = <<1>> \/ v = <<2>>
      BY DisplacementIs DEF v
    <3>3. CASE v = << >>
      <4>1. DispOf(f) = 0
        BY <1>4, <3>3 DEF DispOf, v
      <4>2. QED
        BY <1>1, <1>9, <3>1, <3>3, <4>1
    <3>4. CASE v = <<1>>
      <4>1. v # << >> /\ v[1] = 1 /\ Len(t) = 2
        BY <1>1, <3>4, WidthSizes
      <4>2. f.args[1] = e[2 + 1]
        BY <1>4, <4>1 DEF ValueAt
      <4>3. e[2 + 1] = t[2]
        <5>1. 2 \in 1 .. Len(t)
          BY <4>1
        <5>2. QED
          BY <1>2, <5>1
      <4>4. DispOf(f) = Signed(f.args[1], 8)
        BY <1>4, <3>4, <4>1 DEF DispOf, v
      <4>5. QED
        BY <1>1, <1>9, <3>1, <3>4, <4>2, <4>3, <4>4
    <3>5. CASE v = <<2>>
      <4>1. v # << >> /\ v[1] = 2 /\ Len(t) = 3 /\ v # <<1>>
        BY <1>1, <3>5, WidthSizes, Distinct
      <4>2. f.args[1] = e[2 + 1] + 256 * e[2 + 2]
        BY <1>4, <4>1 DEF ValueAt
      <4>3. e[2 + 1] = t[2] /\ e[2 + 2] = t[3]
        <5>1. 2 \in 1 .. Len(t) /\ 3 \in 1 .. Len(t) /\ 3 + 1 = 2 + 2
          BY <4>1
        <5>2. QED
          BY <1>2, <5>1
      <4>4. DispOf(f) = f.args[1]
        BY <1>4, <3>5, <4>1 DEF DispOf, v
      <4>5. QED
        BY <1>1, <1>9, <3>1, <3>5, <4>2, <4>3, <4>4
    <3>6. QED
      BY <3>2, <3>3, <3>4, <3>5
  <2>3. QED
    BY <1>1, <1>4, <1>9, <2>1, <2>2 DEF Again, MemArg
<1>10. Mod(n) = 3 <=> a.kind = "reg"
  BY <1>1
<1>11. HasOperand(f, a, b, reg)
  BY <1>1, <1>4, <1>8, <1>9, <1>10 DEF n, t, HasOperand
<1>12. QED
  BY <1>4, <1>6, <1>7, <1>11 DEF i

Headed(b, t) == <<b>> \o t

LEMMA HeadedAlone ==
    ASSUME NEW b \in Byte, NEW t \in Seq(Byte)
    PROVE  Headed(b, t) = HeadedWith(b, t, << >>)
<1>1. <<b>> \o t \in Seq(Byte)
  BY LeadOf
<1>2. QED
  BY <1>1, NoneBefore DEF HeadedWith, Headed

LEMMA ReadAlone ==
    ASSUME NEW a, Operand(a), NEW reg \in 0 .. 7, NEW b \in Byte,
           NEW f, Parsed(f, Headed(b, ModRM(a, reg))), TakesModRM(b, ModRM(a, reg)[1])
    PROVE  HasOperand(f, a, b, reg)
<1>1. OperandBytes(a, ModRM(a, reg), reg)
  BY OperandWritten
<1>2. ModRM(a, reg) \in Seq(Byte) /\ << >> \in Seq(Byte)
  BY <1>1 DEF OperandBytes
<1>3. Parsed(f, HeadedWith(b, ModRM(a, reg), << >>))
  BY <1>2, HeadedAlone
<1>4. QED
  BY <1>2, <1>3, ReadOperand

(* With a number of z bytes behind it.                                     *)
LEMMA ReadNumber ==
    ASSUME NEW a, Operand(a), NEW reg \in 0 .. 7, NEW b \in Byte, NEW z \in {1, 2}, NEW v \in Int,
           NEW f, Parsed(f, HeadedWith(b, ModRM(a, reg), Imm(v, z - 1))),
           TakesModRM(b, ModRM(a, reg)[1]), ImmAfterRM(b, ModRM(a, reg)[1]) = << z >>
    PROVE  /\ HasOperand(f, a, b, reg)
           /\ RMImm(f) = IF z = 2 THEN v % 65536 ELSE v % 256
<1> DEFINE u == Imm(v, z - 1)
<1>2. u \in Seq(Byte)
  BY NumberOf
<1>3. (z = 1 => u[1] = v % 256) /\ (z = 2 => u = Word(v))
  BY DEF Imm, ByteOf
<1> HIDE DEF u
<1>5. Parsed(f, HeadedWith(b, ModRM(a, reg), u))
  BY DEF u
<1>6. /\ HasOperand(f, a, b, reg)
      /\ ImmAfterRM(b, f.rm) = <<1>> => RMImm(f) = u[1]
      /\ ImmAfterRM(b, f.rm) = <<2>> => RMImm(f) = u[1] + 256 * u[2]
  BY <1>2, <1>5, ReadOperand
<1>61. f.rm = ModRM(a, reg)[1]
  BY <1>6 DEF HasOperand
<1>7. z = 1 => RMImm(f) = v % 256
  BY <1>3, <1>6, <1>61
<1>8. z = 2 => RMImm(f) = v % 65536
  BY <1>3, <1>6, <1>61, WordOf
<1>9. QED
  BY <1>6, <1>7, <1>8

-----------------------------------------------------------------------------
(* What the switch of x86_core.h makes of the fields of an encoding, row   *)
(* by row.                                                                 *)

LEMMA CaseAlu ==
    ASSUME NEW d, NEW x, Fields(d, x), d.lead < \h40, d.lead % 8 < 4, NEW at
    PROVE  /\ Case(d, at) = <<Alu[(d.lead \div 8) + 1],
                              Ordered(d.lead, RM(d, WidthOf(d.lead)), RMReg(d, WidthOf(d.lead)))>>
           /\ d.lead \in AluRM /\ TakesModRM(d.lead, x) /\ WidthOf(d.lead) \in {1, 2}
<1> DEFINE b == d.lead
           n == (b \div 8) + 1
           w == WidthOf(b)
           rm == RM(d, w)
           reg == RMReg(d, w)
<1>1. b \in 0 .. \h3F /\ b \in AluRM
  <2>1. b \in 0 .. 255 /\ b < \h40 /\ b % 8 < 4
    BY DEF Fields, Byte
  <2> HIDE DEF b
  <2>2. QED
    BY <2>1 DEF AluRM
<1>2. b \in Freely /\ b \notin {\hF6, \hF7}
  <2>1. b \in Freely
    BY <1>1, AluIsFree
  <2> HIDE DEF b
  <2>2. QED
    BY <1>1, <2>1
<1>3. d.op = "OK" /\ TakesModRM(b, x) /\ b \notin FPUEscapes /\ b \in Byte
  <2>1. d.op = "OK" /\ TakesModRM(b, x) /\ b \notin FPUEscapes
    BY <1>2, FreelyOK
  <2>2. b \in Byte
    BY DEF Fields
  <2>3. QED
    BY <2>1, <2>2
<1>4. b \notin DOMAIN PlainOneByte
  BY <1>3, ModRMFields
<1>5. Case(d, at) = Rows0to3(d)
  BY <1>3, <1>4, CaseRows
<1>6. w \in {1, 2}
  BY <1>1 DEF WidthOf
<1>7. Rows0to3(d) = <<Alu[n], Ordered(b, rm, reg)>>
  <2>1. b % 8 \notin {4, 5, 6, 7} /\ b % 8 < 4
    BY <1>1
  <2>2. QED
    BY <2>1 DEF Rows0to3
<1>8. QED
  BY <1>1, <1>3, <1>5, <1>6, <1>7

LEMMA CaseAluNumber ==
    ASSUME NEW d, NEW x, Fields(d, x), d.lead < \h40, d.lead % 8 \in {4, 5}, NEW at
    PROVE  /\ Case(d, at) = <<Alu[(d.lead \div 8) + 1],
                              <<RegArg(AX, WidthOf(d.lead)), ImmArg(d.args[1], WidthOf(d.lead))>> >>
           /\ WidthOf(d.lead) \in {1, 2} /\ d.lead \in 0 .. \h3F
           /\ ~TakesModRM(d.lead, x) /\ OperandWidths(d.lead, x) = Immediates(d.lead)
           /\ Immediates(d.lead) = <<WidthOf(d.lead)>>
<1> DEFINE b == d.lead
           n == b \div 8
           k == (b % 8) - 4
           w == WidthOf(b)
<1>1. b \in 0 .. \h3F /\ n \in 0 .. 7 /\ k \in 0 .. 1 /\ b = 8 * n + 4 + k
  <2>1. b \in 0 .. 255
    BY DEF Fields, Byte
  <2> HIDE DEF b
  <2>2. QED
    BY <2>1 DEF b
<1>2. w \in {1, 2} /\ w = 1 + k
  BY <1>1 DEF WidthOf
<1> HIDE DEF n, k, w
<1>3. /\ b \notin Absent \cup FPUEscapes \cup PeekOpcodes \cup ModRMOpcodes \cup {WaitOpcode}
      /\ Size(Immediates(b)) = w
  BY ZenonT(60), <1>1, <1>2, AluOpcodes
<1>5. d.op = "OK"
  BY <1>3, BareFields
<1>6. b \notin DOMAIN PlainOneByte
  BY <1>1 DEF PlainOneByte
<1>7. Case(d, at) = Rows0to3(d)
  BY <1>1, <1>3, <1>5, <1>6, CaseRows DEF Fields
<1>8. Rows0to3(d) = <<Alu[n + 1], <<RegArg(AX, w), ImmArg(d.args[1], w)>> >>
  <2>1. b % 8 \in {4, 5} /\ ~(b % 8 < 4) /\ b % 8 # 6 /\ b % 8 # 7
    BY <1>1
  <2>2. QED
    BY <2>1 DEF Rows0to3, n, w
<1>9. Immediates(b) = <<w>>
  <2>1. CASE k = 0
    <3>1. b % 8 = 4 /\ b < \h40 /\ b < \h80 /\ b \in Byte /\ w = 1
      BY <1>1, <1>2, <2>1 DEF Byte
    <3> HIDE DEF b
    <3>2. Immediates(b) = <<1>>
      <4>1. ImmRows0to7(b) = <<1>>
        BY <3>1 DEF ImmRows0to7
      <4>2. QED
        BY <3>1, <4>1, RowsOfImmediates
    <3>3. QED
      BY <3>1, <3>2
  <2>2. CASE k = 1
    <3>1. b % 8 = 5 /\ b % 8 # 4 /\ b < \h40 /\ b < \h80 /\ b \in Byte /\ w = 2
      BY <1>1, <1>2, <2>2 DEF Byte
    <3> HIDE DEF b
    <3>2. Immediates(b) = <<2>>
      <4>0. ~(b >= \h70)
        BY <1>1 DEF b
      <4>1. ImmRows0to7(b) = <<2>>
        BY <3>1, <4>0 DEF ImmRows0to7
      <4>2. QED
        BY <3>1, <4>1, RowsOfImmediates
    <3>3. QED
      BY <3>1, <3>2
  <2>3. QED
    BY <1>1, <2>1, <2>2
<1>10. ~TakesModRM(b, x) /\ OperandWidths(b, x) = Immediates(b)
  BY <1>3 DEF TakesModRM, OperandWidths
<1>11. QED
  BY <1>1, <1>2, <1>7, <1>8, <1>9, <1>10 DEF n, w

LEMMA CaseSegment ==
    ASSUME NEW d, NEW x, Fields(d, x), NEW r \in 0 .. 3, d.lead \in {8 * r + 6, 8 * r + 7}, NEW at
    PROVE  Case(d, at) = <<IF d.lead = 8 * r + 6 THEN "PUSH" ELSE "POP", <<SRegArg(r)>> >>
<1> DEFINE b == d.lead
           n == b \div 8
<1>1. b \in {\h06, \h07, \h0E, \h0F, \h16, \h17, \h1E, \h1F} /\ n = r /\ b % 8 \in {6, 7}
      /\ (b % 8 = 6 <=> b = 8 * r + 6)
  OBVIOUS
<1>2. b \in Bare
  BY <1>1 DEF Bare, Singles
<1>3. d.op = "OK" /\ b \in Byte /\ b \notin FPUEscapes
  BY <1>2, BareFieldsAre
<1>4. b \notin DOMAIN PlainOneByte /\ b < \h40
  BY <1>1 DEF PlainOneByte
<1>5. Case(d, at) = Rows0to3(d)
  BY <1>3, <1>4, CaseRows
<1>6. Rows0to3(d) = <<IF b % 8 = 6 THEN "PUSH" ELSE "POP", <<SRegArg(n)>> >>
  <2>1. n + 1 - 1 = n
    BY <1>1
  <2> DEFINE c == SRegArg(n + 1 - 1)
  <2>2. c = SRegArg(n)
    BY <2>1
  <2>3. b % 8 \notin {4, 5} /\ ~(b % 8 < 4)
    BY <1>1
  <2> HIDE DEF c
  <2>4. Rows0to3(d) = <<IF b % 8 = 6 THEN "PUSH" ELSE "POP", <<c>> >>
    BY <1>1, <2>3 DEF Rows0to3, c
  <2>5. QED
    BY <2>2, <2>4
<1>7. QED
  BY <1>1, <1>5, <1>6

LEMMA Case4to5 ==
    ASSUME NEW d, NEW x, Fields(d, x), d.lead \in \h40 .. \h5F, NEW at
    PROVE  /\ d.lead < \h48 => Case(d, at) = <<"INC", <<RegArg(d.lead % 8, 2)>> >>
           /\ d.lead >= \h48 /\ d.lead < \h50 => Case(d, at) = <<"DEC", <<RegArg(d.lead % 8, 2)>> >>
           /\ d.lead >= \h50 /\ d.lead < \h58 => Case(d, at) = <<"PUSH", <<RegArg(d.lead % 8, 2)>> >>
           /\ d.lead >= \h58 => Case(d, at) = <<"POP", <<RegArg(d.lead % 8, 2)>> >>
<1> DEFINE b == d.lead
<1>1. b \in Bare
  BY DEF Singles, Bare
<1>2. d.op = "OK" /\ b \in Byte /\ b \notin FPUEscapes
  BY <1>1, BareFieldsAre
<1>3. b \notin DOMAIN PlainOneByte
  BY DEF PlainOneByte
<1>4. Case(d, at) = Rows4to7(d, at)
  BY <1>2, <1>3, CaseRows
<1>5. b < \h48 => Rows4to7(d, at) = <<"INC", <<RegArg(b % 8, 2)>> >>
  BY DEF Rows4to7
<1>6. b >= \h48 /\ b < \h50 => Rows4to7(d, at) = <<"DEC", <<RegArg(b % 8, 2)>> >>
  BY DEF Rows4to7
<1>7. b >= \h50 /\ b < \h58 => Rows4to7(d, at) = <<"PUSH", <<RegArg(b % 8, 2)>> >>
  BY DEF Rows4to7
<1>8. b >= \h58 => Rows4to7(d, at) = <<"POP", <<RegArg(b % 8, 2)>> >>
  BY DEF Rows4to7
<1>9. QED
  BY <1>4, <1>5, <1>6, <1>7, <1>8

LEMMA CaseJcc ==
    ASSUME NEW d, NEW x, Fields(d, x), d.lead \in \h70 .. \h7F, NEW at
    PROVE  Case(d, at) = <<Jcc[(d.lead % 16) + 1], <<ShortTarget(d, at)>> >>
<1> DEFINE b == d.lead
<1>1. b \in Bare
  BY DEF WithByte, Bare
<1>2. d.op = "OK" /\ b \in Byte /\ b \notin FPUEscapes
  BY <1>1, BareFieldsAre
<1>3. b \notin DOMAIN PlainOneByte
  BY DEF PlainOneByte
<1>4. Case(d, at) = Rows4to7(d, at)
  BY <1>2, <1>3, CaseRows
<1>5. Rows4to7(d, at) = <<Jcc[(b % 16) + 1], <<ShortTarget(d, at)>> >>
  BY DEF Rows4to7
<1>6. QED
  BY <1>4, <1>5
LEMMA CaseRow8 ==
    ASSUME NEW d, NEW x, Fields(d, x), d.lead \in \h80 .. \h8E, NEW at
    PROVE  LET b == d.lead
               w == WidthOf(d.lead)
           IN  /\ b < \h83 => Case(d, at) = <<Alu[Reg(d.rm) + 1], <<RM(d, w), ImmArg(RMImm(d), w)>> >>
               /\ b = \h83 => Case(d, at) = <<Alu[Reg(d.rm) + 1],
                                            <<RM(d, 2), ImmArg(Signed(RMImm(d), 8), 2)>> >>
               /\ b \in \h84 .. \h85 => Case(d, at) = <<"TEST", <<RM(d, w), RMReg(d, w)>> >>
               /\ b \in \h86 .. \h87 => Case(d, at) = <<"XCHG", <<RM(d, w), RMReg(d, w)>> >>
               /\ b \in \h88 .. \h89 => Case(d, at) = <<"MOV", <<RM(d, w), RMReg(d, w)>> >>
               /\ b \in \h8A .. \h8B => Case(d, at) = <<"MOV", <<RMReg(d, w), RM(d, w)>> >>
               /\ b = \h8C => Case(d, at) = <<"MOV", <<RM(d, 2), SRegArg(Reg(d.rm))>> >>
               /\ b = \h8E => Case(d, at) = <<"MOV", <<SRegArg(Reg(d.rm)), RM(d, 2)>> >>
               /\ b = \h8D => Case(d, at) = <<"LEA", <<RMReg(d, 2), RM(d, 2)>> >>
<1> DEFINE b == d.lead
           w == WidthOf(d.lead)
<1>1. Case(d, at) = Row8(d)
  BY Row8Is
<1>2. b < \h83 => Row8(d) = <<Alu[Reg(d.rm) + 1], <<RM(d, w), ImmArg(RMImm(d), w)>> >>
  BY DEF Row8
<1>3. b = \h83 => Row8(d) = <<Alu[Reg(d.rm) + 1], <<RM(d, 2), ImmArg(Signed(RMImm(d), 8), 2)>> >>
  BY DEF Row8
<1>4. b \in \h84 .. \h85 => Row8(d) = <<"TEST", <<RM(d, w), RMReg(d, w)>> >>
  BY DEF Row8
<1>5. b \in \h86 .. \h87 => Row8(d) = <<"XCHG", <<RM(d, w), RMReg(d, w)>> >>
  BY DEF Row8
<1>6. b \in \h88 .. \h8B => Row8(d) = <<"MOV", Ordered(b, RM(d, w), RMReg(d, w))>>
  BY DEF Row8
<1>7. b \in {\h8C, \h8E} => Row8(d) = <<"MOV", Ordered(b, RM(d, 2), SRegArg(Reg(d.rm)))>>
  BY DEF Row8
<1>8. b = \h8D => Row8(d) = <<"LEA", <<RMReg(d, 2), RM(d, 2)>> >>
  BY DEF Row8
<1>9. /\ b \in {\h88, \h89, \h8C} => (b \div 2) % 2 = 0
      /\ b \in {\h8A, \h8B, \h8E} => (b \div 2) % 2 # 0
      /\ b \in \h88 .. \h89 => b \in {\h88, \h89, \h8C} /\ b \in \h88 .. \h8B
      /\ b \in \h8A .. \h8B => b \in {\h8A, \h8B, \h8E} /\ b \in \h88 .. \h8B
  OBVIOUS
<1> HIDE DEF b, w
<1>10. /\ b \in {\h88, \h89, \h8C} => \A p, q : Ordered(b, p, q) = <<p, q>>
       /\ b \in {\h8A, \h8B, \h8E} => \A p, q : Ordered(b, p, q) = <<q, p>>
  BY <1>9 DEF Ordered
<1>11. b \in \h88 .. \h89 => Row8(d) = <<"MOV", <<RM(d, w), RMReg(d, w)>> >>
  BY <1>6, <1>9, <1>10
<1>12. b \in \h8A .. \h8B => Row8(d) = <<"MOV", <<RMReg(d, w), RM(d, w)>> >>
  BY <1>6, <1>9, <1>10
<1>13. b = \h8C => Row8(d) = <<"MOV", <<RM(d, 2), SRegArg(Reg(d.rm))>> >>
  BY <1>7, <1>10
<1>14. b = \h8E => Row8(d) = <<"MOV", <<SRegArg(Reg(d.rm)), RM(d, 2)>> >>
  BY <1>7, <1>10
<1>15. QED
  BY <1>1, <1>2, <1>3, <1>4, <1>5, <1>8, <1>11, <1>12, <1>13, <1>14 DEF b, w

LEMMA CasePeek ==
    ASSUME NEW d, NEW x, Fields(d, x), d.lead \in PeekOpcodes, d.op # "UD_NOP", NEW at
    PROVE  /\ d.lead = \h8F => Case(d, at) = <<"POP", <<RM(d, 2)>> >>
           /\ d.lead = \hC4 => Case(d, at) = <<"LES", <<RMReg(d, 2), RM(d, 4)>> >>
           /\ d.lead = \hC5 => Case(d, at) = <<"LDS", <<RMReg(d, 2), RM(d, 4)>> >>
<1>1. d.lead \notin FPUEscapes /\ d.lead \notin DOMAIN PlainOneByte /\ d.lead \in Byte
  BY PeekFields
<1>2. d.lead = \h8F => Case(d, at) = Row8(d)
  BY <1>1, CaseRows
<1>3. d.lead = \h8F => Row8(d) = <<"POP", <<RM(d, 2)>> >>
  BY DEF Row8
<1>4. d.lead = \hC4 \/ d.lead = \hC5 => Case(d, at) = RowsCtoD(d)
  BY <1>1, CaseRows
<1>5. d.lead = \hC4 => RowsCtoD(d) = <<"LES", <<RMReg(d, 2), RM(d, 4)>> >>
  BY DEF RowsCtoD
<1>6. d.lead = \hC5 => RowsCtoD(d) = <<"LDS", <<RMReg(d, 2), RM(d, 4)>> >>
  BY DEF RowsCtoD
<1>7. QED
  BY <1>2, <1>3, <1>4, <1>5, <1>6

(* The groups, whose reg field has chosen an instruction.                  *)
LEMMA CaseGroup ==
    ASSUME NEW d, NEW x, Fields(d, x), d.lead \in ModRMOpcodes, d.op # "UD_NOP", NEW at
    PROVE  LET b == d.lead
               w == WidthOf(d.lead)
               n == Reg(d.rm) + 1
           IN  /\ b \in \hC0 .. \hC1 => Case(d, at) = <<Shifts[n], <<RM(d, w), ImmArg(RMImm(d), 1)>> >>
               /\ b \in \hD0 .. \hD1 => Case(d, at) = <<Shifts[n], <<RM(d, w), ImmArg(1, 1)>> >>
               /\ b \in \hD2 .. \hD3 => Case(d, at) = <<Shifts[n], <<RM(d, w), RegArg(CX, 1)>> >>
               /\ b \in \hC6 .. \hC7 => Case(d, at) = <<"MOV", <<RM(d, w), ImmArg(RMImm(d), w)>> >>
               /\ b \in \hF6 .. \hF7 /\ n = 1
                    => Case(d, at) = <<Group3[n], <<RM(d, w), ImmArg(RMImm(d), w)>> >>
               /\ b \in \hF6 .. \hF7 /\ n # 1 => Case(d, at) = <<Group3[n], <<RM(d, w)>> >>
               /\ b \in \hFE .. \hFF /\ n \in {4, 6} => Case(d, at) = <<Group5[n], <<RM(d, w + 2)>> >>
               /\ b \in \hFE .. \hFF /\ n \notin {4, 6} => Case(d, at) = <<Group5[n], <<RM(d, w)>> >>
<1> DEFINE b == d.lead
           w == WidthOf(d.lead)
           n == Reg(d.rm) + 1
<1>1. /\ b \in \hC0 .. \hDF => Case(d, at) = RowsCtoD(d)
      /\ b \in \hF0 .. \hFF => Case(d, at) = RowF(d)
      /\ Reg(d.rm) \in 0 .. 7 /\ d.lead \in Int
  <2>1. /\ b \in \hC0 .. \hDF => Case(d, at) = RowsCtoD(d)
        /\ b \in \hF0 .. \hFF => Case(d, at) = RowF(d)
    BY GroupCase
  <2>2. Reg(d.rm) \in 0 .. 7
    BY GroupCase
  <2>3. d.lead \in Int
    BY SMTT(30) DEF Fields, Byte
  <2>4. QED
    BY <2>1, <2>2, <2>3
<1>2. /\ b \in \hC0 .. \hC1 => RowsCtoD(d) = <<Shifts[n], <<RM(d, w), ImmArg(RMImm(d), 1)>> >>
      /\ b \in \hD0 .. \hD1 => RowsCtoD(d) = <<Shifts[n], <<RM(d, w), ImmArg(1, 1)>> >>
      /\ b \in \hD2 .. \hD3 => RowsCtoD(d) = <<Shifts[n], <<RM(d, w), RegArg(CX, 1)>> >>
      /\ b \in \hC6 .. \hC7 => RowsCtoD(d) = <<"MOV", <<RM(d, w), ImmArg(RMImm(d), w)>> >>
  BY <1>1, RowsCtoDIs
<1>3. b \in \hF6 .. \hF7 =>
        RowF(d) = <<Group3[n], <<RM(d, w)>> \o (IF Reg(d.rm) = 0 THEN <<ImmArg(RMImm(d), w)>> ELSE << >>)>>
  BY DEF RowF
<1>4. b \in \hFE .. \hFF => RowF(d) = <<Group5[n], <<RM(d, IF Reg(d.rm) \in {3, 5} THEN w + 2 ELSE w)>> >>
  BY DEF RowF
<1>5. \A p, q : <<p>> \o <<q>> = <<p, q>> /\ <<p>> \o << >> = <<p>>
  <2>1. \A p, q : <<p>> \o <<q>> = <<p, q>>
    <3>1. ASSUME NEW p, NEW q PROVE <<p>> \o <<q>> = <<p, q>>
      <4>1. p \in {p, q} /\ q \in {p, q}
        OBVIOUS
      <4>2. QED
        BY Zenon, <4>1, TwoItems
    <3>2. QED
      BY <3>1
  <2>2. \A p : <<p>> \o << >> = <<p>>
    <3>1. ASSUME NEW p PROVE <<p>> \o << >> = <<p>>
      <4>1. <<p>> \in Seq({p})
        OBVIOUS
      <4>2. QED
        BY <4>1, NoneBefore
    <3>2. QED
      BY <3>1
  <2>3. QED
    BY <2>1, <2>2
<1>6. (n = 1 <=> Reg(d.rm) = 0) /\ (n \in {4, 6} <=> Reg(d.rm) \in {3, 5})
  BY <1>1
<1>7. /\ b \in \hC0 .. \hC7 \/ b \in \hD0 .. \hD3 => b \in \hC0 .. \hDF
      /\ b \in \hF6 .. \hF7 \/ b \in \hFE .. \hFF => b \in \hF0 .. \hFF
      /\ b \in \hC0 .. \hC1 \/ b \in \hC6 .. \hC7 => b \in \hC0 .. \hC7
      /\ b \in \hD0 .. \hD1 \/ b \in \hD2 .. \hD3 => b \in \hD0 .. \hD3
  BY <1>1
<1> HIDE DEF b, w, n
<1>8. /\ b \in \hF6 .. \hF7 /\ n = 1 => RowF(d) = <<Group3[n], <<RM(d, w), ImmArg(RMImm(d), w)>> >>
      /\ b \in \hF6 .. \hF7 /\ n # 1 => RowF(d) = <<Group3[n], <<RM(d, w)>> >>
  BY <1>3, <1>5, <1>6
<1>9. /\ b \in \hFE .. \hFF /\ n \in {4, 6} => RowF(d) = <<Group5[n], <<RM(d, w + 2)>> >>
      /\ b \in \hFE .. \hFF /\ n \notin {4, 6} => RowF(d) = <<Group5[n], <<RM(d, w)>> >>
  BY <1>4, <1>6
<1>10. QED
  BY <1>1, <1>2, <1>7, <1>8, <1>9 DEF b, w, n

(* What has no operands, and the escapes.                                  *)
LEMMA CasePlain ==
    ASSUME NEW d, NEW x, Fields(d, x), d.lead \in DOMAIN PlainOneByte, NEW at
    PROVE  Case(d, at) = <<PlainOneByte[d.lead], << >> >>
<1>1. d.lead \in Singles /\ d.lead \in Bare /\ d.lead \notin FPUEscapes
  BY PlainBytes DEF Bare
<1>2. d.op = "OK"
  BY <1>1, BareFieldsAre
<1>3. QED
  BY <1>1, <1>2 DEF Case

LEMMA CaseEscape ==
    ASSUME NEW d, NEW x, Fields(d, x), d.lead \in FPUEscapes, d.op # "UD_NOP", NEW at
    PROVE  /\ Mod(x) = 3 => /\ Case(d, at)[1] = FpuRegisterForm(d)[1]
                            /\ Case(d, at)[2] = FpuRegisterForm(d)[2]
                            /\ FPURegister(d.lead, x) /\ d.fpu = x
                            /\ Reg(x) \in 0 .. 7 /\ Rm(x) \in 0 .. 7
           /\ Mod(x) # 3 => /\ Case(d, at)[1] = FpuMemoryForm(d)[1]
                            /\ Case(d, at)[2] = FpuMemoryForm(d)[2]
                            /\ FPUMemory(d.lead, x) /\ d.rm = x /\ Reg(x) \in 0 .. 7
                            /\ ~(d.lead = \hD9 /\ Reg(x) = 1) /\ ~(d.lead = \hDD /\ Reg(x) = 5)
                            /\ TakesModRM(d.lead, x)
<1> DEFINE i == [op |-> Case(d, at)[1], argv |-> Case(d, at)[2]]
<1>1. Made(i, d, at) /\ i.op = Case(d, at)[1] /\ i.argv = Case(d, at)[2]
  BY DEF Made
<1> HIDE DEF i
<1>2. CASE Mod(x) = 3
  BY <1>1, <1>2, RegisterEscape
<1>3. CASE Mod(x) # 3
  <2>1. FPUMemory(d.lead, x) => TakesModRM(d.lead, x)
    BY DEF TakesModRM
  <2>2. QED
    BY <1>1, <1>3, <2>1, MemoryEscape
<1>4. QED
  BY <1>2, <1>3

-----------------------------------------------------------------------------
(* Numbers behind an opcode without a ModR/M byte.                         *)

LEMMA HeadedIs ==
    ASSUME NEW b \in Byte, NEW t \in Seq(Byte)
    PROVE  /\ Headed(b, t) \in Seq(Byte) /\ Len(Headed(b, t)) = 1 + Len(t) /\ Headed(b, t)[1] = b
           /\ Len(t) \in Nat /\ \A k \in 1 .. Len(t) : Headed(b, t)[k + 1] = t[k]
<1>1. Len(t) \in Nat
  BY LenProperties
<1>2. QED
  BY <1>1, LeadOf DEF Headed

(* The bytes t are the number v in z bytes.                                *)
Represents(t, v, z) ==
    /\ t \in Seq(Byte) /\ Len(t) = z
    /\ z = 1 => t[1] = v % 256
    /\ z = 2 => t[1] + 256 * t[2] = v % 65536

(* What remains of v in z bytes.                                          *)
Cut(v, z) == IF z = 2 THEN v % 65536 ELSE v % 256

LEMMA WordIs ==
    ASSUME NEW v \in Int
    PROVE  Represents(Word(v), v, 2)
<1>1. Word(v) \in Seq(Byte) /\ Len(Word(v)) = 2
  BY WordBytes
<1>2. Word(v)[1] + 256 * Word(v)[2] = v % 65536
  BY WordOf
<1>3. QED
  BY <1>1, <1>2 DEF Represents

LEMMA ImmIs ==
    ASSUME NEW v \in Int, NEW z \in {1, 2}
    PROVE  Represents(Imm(v, z - 1), v, z)
<1>1. CASE z = 2
  <2>1. Imm(v, z - 1) = Word(v)
    BY <1>1 DEF Imm
  <2>2. QED
    BY <1>1, <2>1, WordIs
<1>2. CASE z = 1
  <2>1. Imm(v, z - 1) = << ByteOf(v) >>
    BY <1>2 DEF Imm
  <2>2. ByteOf(v) \in Byte /\ ByteOf(v) = v % 256
    BY DEF ByteOf, Byte
  <2>3. << ByteOf(v) >> \in Seq(Byte) /\ Len(<< ByteOf(v) >>) = 1 /\ << ByteOf(v) >>[1] = v % 256
    BY <2>2
  <2>4. Represents(<< ByteOf(v) >>, v, 1)
    BY <2>3 DEF Represents
  <2>5. QED
    BY <1>2, <2>1, <2>4
<1>3. QED
  BY <1>1, <1>2

(* A number behind an opcode.                                              *)
LEMMA NumberAt ==
    ASSUME NEW b \in Byte, NEW t, NEW v \in Int, NEW z \in {1, 2}, Represents(t, v, z)
    PROVE  /\ Len(Headed(b, t)) = 1 + z /\ Headed(b, t)[1] = b
           /\ ValueAt(Headed(b, t), 1, z) = Cut(v, z)
<1> DEFINE e == Headed(b, t)
<1>1. t \in Seq(Byte) /\ Len(t) = z
  BY DEF Represents
<1>2. /\ Len(e) = 1 + z /\ e[1] = b /\ \A k \in 1 .. Len(t) : e[k + 1] = t[k]
  BY <1>1, HeadedIs
<1> HIDE DEF e
<1>3. 1 \in 1 .. Len(t) /\ (z = 2 => 2 \in 1 .. Len(t))
  BY <1>1
<1>4. e[1 + 1] = t[1] /\ (z = 2 => e[2 + 1] = t[2])
  BY <1>2, <1>3
<1>5. ValueAt(e, 1, z) = IF z = 2 THEN t[1] + 256 * t[2] ELSE t[1]
  BY <1>4 DEF ValueAt
<1>6. QED
  BY <1>2, <1>5 DEF Represents, e, Cut

(* An opcode whose only operand is the number of z bytes that follows it.  *)
TakesNumber(b, z) ==
    /\ b \in Byte /\ b \notin PeekOpcodes \cup ModRMOpcodes \cup FPUEscapes
    /\ Immediates(b) = << z >>

LEMMA BareNumber ==
    ASSUME NEW b
    PROVE  /\ b \in WithByte => TakesNumber(b, 1)
           /\ b \in WithWord => TakesNumber(b, 2)
<1>1. b \in Bare => b \in Byte /\ b \notin PeekOpcodes \cup ModRMOpcodes \cup FPUEscapes
  BY BareOpcodes
<1>2. b \in WithByte \/ b \in WithWord => b \in Bare
  BY DEF Bare
<1>3. QED
  BY <1>1, <1>2, BareWidths DEF TakesNumber

LEMMA ParsedNumber ==
    ASSUME NEW f, NEW e, Parsed(f, e), NEW z \in {1, 2}, TakesNumber(e[1], z)
    PROVE  f.args[1] = ValueAt(e, Len(e) - z, z) /\ Fields(f, Follow(e)) /\ f.lead = e[1]
<1>1. OperandWidths(e[1], Follow(e)) = <<z>>
  BY DEF TakesNumber, OperandWidths, TakesModRM
<1>2. <<z>> # << >> /\ <<z>>[1] = z /\ Size(<<z>>) = z
  BY WidthSizes
<1>3. QED
  BY <1>1, <1>2 DEF Parsed

LEMMA ReadNumberAlone ==
    ASSUME NEW z \in {1, 2}, NEW b, TakesNumber(b, z), NEW v \in Int,
           NEW t, Represents(t, v, z), NEW f, Parsed(f, Headed(b, t))
    PROVE  /\ f.lead = b /\ Fields(f, Follow(Headed(b, t)))
           /\ f.args[1] = Cut(v, z)
<1>1. b \in Byte
  BY DEF TakesNumber
<1>2. /\ Len(Headed(b, t)) = 1 + z /\ Headed(b, t)[1] = b
      /\ ValueAt(Headed(b, t), 1, z) = Cut(v, z)
  BY ZenonT(60), <1>1, NumberAt
<1>3. Len(Headed(b, t)) - z = 1
  BY <1>2
<1>4. TakesNumber(Headed(b, t)[1], z)
  BY <1>2
<1>5. /\ f.args[1] = ValueAt(Headed(b, t), 1, z)
      /\ Fields(f, Follow(Headed(b, t))) /\ f.lead = b
  BY <1>2, <1>3, <1>4, ParsedNumber
<1>6. QED
  BY <1>2, <1>5

LEMMA ReadImm ==
    ASSUME NEW z \in {1, 2}, NEW b, TakesNumber(b, z), NEW v \in Int,
           NEW f, Parsed(f, Headed(b, Imm(v, z - 1)))
    PROVE  /\ f.lead = b /\ \E x : Fields(f, x)
           /\ f.args[1] = Cut(v, z)
BY ImmIs, ReadNumberAlone

LEMMA ReadPair ==
    ASSUME NEW b, TakesNumber(b, 1), NEW v \in Int, NEW f, Parsed(f, <<b, ByteOf(v)>>)
    PROVE  f.lead = b /\ f.args[1] = v % 256 /\ Fields(f, ByteOf(v))
<1>1. b \in Byte /\ ByteOf(v) \in Byte
  BY DEF TakesNumber, ByteOf, Byte
<1>2. <<b, ByteOf(v)>> = Headed(b, Imm(v, 1 - 1))
  BY <1>1, TwoBytes DEF Headed, Imm
<1>3. f.lead = b /\ f.args[1] = Cut(v, 1) /\ Fields(f, Follow(<<b, ByteOf(v)>>))
  BY <1>2, ImmIs, ReadNumberAlone
<1>4. Follow(<<b, ByteOf(v)>>) = ByteOf(v)
  BY DEF Follow
<1>5. QED
  BY <1>3, <1>4 DEF Cut

LEMMA ReadWord ==
    ASSUME NEW b, TakesNumber(b, 2), NEW v \in Int, NEW f, Parsed(f, Headed(b, Word(v)))
    PROVE  f.lead = b /\ f.args[1] = v % 65536 /\ \E x : Fields(f, x)
<1>1. f.lead = b /\ f.args[1] = Cut(v, 2) /\ Fields(f, Follow(Headed(b, Word(v))))
  BY WordIs, ReadNumberAlone
<1>2. QED
  BY <1>1 DEF Cut

LEMMA ReadFar ==
    ASSUME NEW b \in WithFar, NEW v \in Int, NEW g \in Int, NEW f, Parsed(f, HeadedWith(b, Word(v), Word(g)))
    PROVE  f.lead = b /\ f.args[1] = v % 65536 /\ f.args[2] = g % 65536 /\ \E x : Fields(f, x)
<1> DEFINE t == Word(v)
           u == Word(g)
           e == HeadedWith(b, t, u)
<1>1. /\ t \in Seq(Byte) /\ Len(t) = 2 /\ u \in Seq(Byte) /\ Len(u) = 2
  BY WordBytes
<1>2. t[1] + 256 * t[2] = v % 65536 /\ u[1] + 256 * u[2] = g % 65536
  BY WordOf
<1>3. b \in Byte /\ b \notin PeekOpcodes \cup ModRMOpcodes \cup FPUEscapes /\ Immediates(b) = <<2, 2>>
  BY BareOpcodes, BareWidths DEF Bare
<1>4. Parsed(f, e)
  OBVIOUS
<1> HIDE DEF t, u
<1>5. t # << >>
  BY <1>1, EmptySeq
<1>6. Laid(e, b, t, u)
  BY <1>1, <1>3, <1>5, ThreeParts
<1> HIDE DEF e
<1>7. /\ Len(e) = 5 /\ e[1] = b
      /\ \A k \in 1 .. 2 : e[k + 1] = t[k]
      /\ \A k \in 1 .. 2 : e[3 + k] = u[k]
  BY <1>1, <1>6 DEF Laid
<1>8. e[1 + 1] = t[1] /\ e[2 + 1] = t[2] /\ e[3 + 1] = u[1] /\ e[3 + 2] = u[2]
  BY <1>7
<1>9. OperandWidths(e[1], Follow(e)) = <<2, 2>>
  BY <1>3, <1>7 DEF OperandWidths, TakesModRM
<1>10. <<2, 2>> # << >> /\ <<2, 2>>[1] = 2 /\ <<2, 2>>[2] = 2 /\ Len(<<2, 2>>) = 2 /\ Size(<<2, 2>>) = 4
  BY DEF Size
<1>11. f.args[1] = ValueAt(e, 5 - 4, 2) /\ f.args[2] = ValueAt(e, 5 - 2, 2)
  BY <1>4, <1>7, <1>9, <1>10 DEF Parsed
<1>12. f.args[1] = e[1 + 1] + 256 * e[2 + 1] /\ f.args[2] = e[3 + 1] + 256 * e[3 + 2]
  BY <1>11 DEF ValueAt
<1>13. f.lead = b /\ Fields(f, Follow(e))
  BY <1>4, <1>7 DEF Parsed
<1>14. QED
  BY <1>2, <1>8, <1>12, <1>13

-----------------------------------------------------------------------------
(* Operands as they are found again.                                       *)

(* An operand of a ModR/M byte, of size w.                                 *)
Sized(a, w) == Operand(a) /\ a.size = w

(* Operand a in a decode with override t.                                  *)
Anew(a, t) ==
    IF a.kind = "mem" THEN MemArg(a.regs, a.base, DefaultSegment(a.regs, t), a.size) ELSE a

(* The switch makes op with operands v of the fields f.                    *)
Gives(f, at, op, v) == Case(f, at)[1] = op /\ Case(f, at)[2] = v

LEMMA GivesThat ==
    ASSUME NEW f, NEW at, NEW op, NEW v, Case(f, at) = <<op, v>>
    PROVE  Gives(f, at, op, v)
BY DEF Gives

(* The fields f are those of opcode b with a ModR/M byte for operand a and *)
(* the reg field reg.                                                      *)
Fetched(f, a, b, reg) ==
    /\ HasOperand(f, a, b, reg)
    /\ \A v : RMReg(f, v) = RegArg(reg, v)
    /\ \E x : Fields(f, x)

LEMMA SizedOperands ==
    ASSUME NEW d, NEW x, Addressed(d, x)
    PROVE  \A w : Sized(RM(d, w), w) /\ (Mod(x) # 3 => RM(d, w).kind = "mem")
<1> SUFFICES ASSUME NEW w
             PROVE  Sized(RM(d, w), w) /\ (Mod(x) # 3 => RM(d, w).kind = "mem")
  OBVIOUS
<1>1. CASE Mod(x) = 3
  <2>1. InRegister(RM(d, w), w)
    BY <1>1, OperandKinds
  <2>2. Operand(RM(d, w))
    BY <2>1, KindsAreOperands
  <2>3. RM(d, w).size = w
    BY <2>1 DEF InRegister, RegArg
  <2>4. QED
    BY <1>1, <2>2, <2>3 DEF Sized
<1>2. CASE Mod(x) # 3
  <2>1. InMemory(RM(d, w), d.segment, w)
    BY <1>2, OperandKinds
  <2>2. Operand(RM(d, w))
    BY <2>1, KindsAreOperands
  <2>3. RM(d, w).size = w /\ RM(d, w).kind = "mem"
    BY <2>1 DEF InMemory, MemArg
  <2>4. QED
    BY <2>2, <2>3 DEF Sized
<1>3. QED
  BY <1>1, <1>2

LEMMA SizedRegister ==
    ASSUME NEW r \in 0 .. 7, NEW w
    PROVE  Sized(RegArg(r, w), w)
BY DEF Sized, Operand, RegArg

(* A direct address is one.                                                *)
LEMMA SizedDirect ==
    ASSUME NEW b \in Word16, NEW g, NEW w
    PROVE  Sized(MemArg(<< >>, b, g, w), w)
<1>1. << >> \in Addressing
  BY DEF Addressing
<1>2. MemArg(<< >>, b, g, w).size = w
  BY DEF MemArg
<1>3. QED
  BY <1>1, <1>2 DEF Sized, Operand

LEMMA SizedKinds ==
    ASSUME NEW a, NEW w, Sized(a, w)
    PROVE  /\ Operand(a) /\ a.size = w
           /\ (IsReg(a) \/ IsMem(a)) /\ ~(IsReg(a) /\ IsMem(a)) /\ ~IsImm(a) /\ ~IsST(a)
           /\ IsReg(a) <=> a.kind = "reg"
           /\ IsMem(a) <=> a.kind = "mem"
           /\ IsReg(a) => a.reg \in 0 .. 7 /\ a = RegArg(a.reg, w)
           /\ ~IsReg(a) <=> IsMem(a)
           /\ ~IsImm(a) /\ ~IsST(a) /\ a.kind # "sreg"
<1>1. CASE \E r \in 0 .. 7 : \E z : a = RegArg(r, z)
  <2>0. PICK r \in 0 .. 7 : \E z : a = RegArg(r, z)
    BY <1>1
  <2>1. PICK z : a = RegArg(r, z)
    BY <2>0
  <2>2. a.kind = "reg" /\ a.reg = r /\ a.size = z
    BY <2>1 DEF RegArg
  <2>3. z = w
    BY <2>2 DEF Sized
  <2>4. QED
    BY <2>1, <2>2, <2>3 DEF Sized, IsReg, IsMem, IsImm, IsST
<1>2. CASE \E v \in Addressing, b \in Word16 : \E g, z : a = MemArg(v, b, g, z)
  <2>1. a.kind = "mem"
    BY <1>2 DEF MemArg
  <2>2. QED
    BY <2>1 DEF Sized, IsReg, IsMem, IsImm, IsST
<1>3. QED
  BY <1>1, <1>2 DEF Sized, Operand

LEMMA AgainIsAnew ==
    ASSUME NEW a, NEW w, Sized(a, w)
    PROVE  \A t : Again(a, t, w) = Anew(a, t)
<1>1. a.size = w /\ (a.kind = "mem" \/ a = RegArg(a.reg, w))
  BY SizedKinds
<1>2. QED
  BY <1>1 DEF Again, Anew

LEMMA AnewIs ==
    ASSUME NEW t
    PROVE  /\ \A r, w : Anew(RegArg(r, w), t) = RegArg(r, w)
           /\ \A r : Anew(SRegArg(r), t) = SRegArg(r)
           /\ \A r : Anew(STArg(r), t) = STArg(r)
           /\ \A v, w : Anew(ImmArg(v, w), t) = ImmArg(v, w)
           /\ \A v, w : Anew(FarArg(v, w), t) = FarArg(v, w)
BY DEF Anew, RegArg, SRegArg, STArg, ImmArg, FarArg

LEMMA ParsedFields ==
    ASSUME NEW f, NEW e, Parsed(f, e)
    PROVE  \E x : Fields(f, x)
BY DEF Parsed

LEMMA HasReg ==
    ASSUME NEW f, NEW a, NEW b, NEW reg, HasOperand(f, a, b, reg)
    PROVE  \A v : RMReg(f, v) = RegArg(reg, v)
BY DEF HasOperand, RMReg

LEMMA FetchAlone ==
    ASSUME NEW w, NEW a, Sized(a, w), NEW reg \in 0 .. 7, NEW b \in Byte,
           NEW f, Parsed(f, Headed(b, ModRM(a, reg))), TakesModRM(b, ModRM(a, reg)[1])
    PROVE  Fetched(f, a, b, reg)
<1>1. Operand(a)
  BY DEF Sized
<1>2. HasOperand(f, a, b, reg)
  BY <1>1, ReadAlone
<1>3. QED
  BY <1>2, HasReg, ParsedFields DEF Fetched

LEMMA FetchNumber ==
    ASSUME NEW w, NEW a, Sized(a, w), NEW reg \in 0 .. 7, NEW b \in Byte, NEW z \in {1, 2}, NEW v \in Int,
           NEW f, Parsed(f, HeadedWith(b, ModRM(a, reg), Imm(v, z - 1))),
           TakesModRM(b, ModRM(a, reg)[1]), ImmAfterRM(b, ModRM(a, reg)[1]) = << z >>
    PROVE  Fetched(f, a, b, reg) /\ RMImm(f) = Cut(v, z)
<1>1. Operand(a)
  BY DEF Sized
<1>2. HasOperand(f, a, b, reg) /\ RMImm(f) = IF z = 2 THEN v % 65536 ELSE v % 256
  BY <1>1, ReadNumber
<1>3. QED
  BY <1>2, HasReg, ParsedFields DEF Fetched, Cut

LEMMA FetchedIs ==
    ASSUME NEW f, NEW w, NEW a, Sized(a, w), NEW b, NEW reg, Fetched(f, a, b, reg)
    PROVE  /\ f.lead = b /\ Reg(f.rm) = reg /\ RM(f, w) = Anew(a, f.segment)
           /\ \A v : RM(f, v) = Again(a, f.segment, v)
           /\ \A v : RMReg(f, v) = RegArg(reg, v)
           /\ \E x : Fields(f, x)
<1>1. \A v : RM(f, v) = Again(a, f.segment, v)
  BY DEF Fetched, HasOperand
<1>2. RM(f, w) = Anew(a, f.segment)
  BY <1>1, AgainIsAnew
<1>3. QED
  BY <1>1, <1>2 DEF Fetched, HasOperand

LEMMA RegOfWritten ==
    ASSUME NEW w, NEW a, Sized(a, w), NEW reg \in 0 .. 7
    PROVE  /\ ModRM(a, reg)[1] \in Byte /\ Reg(ModRM(a, reg)[1]) = reg
           /\ Mod(ModRM(a, reg)[1]) # 3 <=> IsMem(a)
<1>1. OperandBytes(a, ModRM(a, reg), reg)
  BY OperandWritten DEF Sized
<1>2. QED
  BY <1>1, SizedKinds DEF OperandBytes

LEMMA TakesAlways ==
    ASSUME NEW b \in ModRMOpcodes, NEW m
    PROVE  TakesModRM(b, m) /\ b \in Byte
<1>1. b \in Byte
  BY DEF ModRMOpcodes, AluRM, ModRMRow8, ModRMRowC, ModRMRowF, Byte
<1>2. QED
  BY <1>1 DEF TakesModRM

-----------------------------------------------------------------------------
(* ADD to CMP, read back.                                                  *)

LEMMA IndexOf ==
    ASSUME NEW table, \A k \in DOMAIN table : k \in Int, NEW op, In(table, op)
    PROVE  table[Index(table, op) + 1] = op
<1>1. PICK k \in DOMAIN table : table[k] = op
  BY DEF In
<1> DEFINE c == CHOOSE n \in DOMAIN table : table[n] = op
<1>2. c \in DOMAIN table /\ table[c] = op
  BY <1>1
<1>3. Index(table, op) = c - 1
  BY DEF Index
<1> HIDE DEF c
<1>4. c - 1 + 1 = c
  BY <1>2
<1>5. QED
  BY <1>2, <1>3, <1>4

LEMMA WordOfSize ==
    ASSUME NEW a, NEW w \in {1, 2}, a.size = w
    PROVE  WordBit(a) = w - 1
BY DEF WordBit

LEMMA AluForms ==
    ASSUME NEW n \in 0 .. 7, NEW w \in {1, 2}, NEW a, Sized(a, w), NEW r
    PROVE  /\ EncodeAlu(n, a, RegArg(r, w)) = Headed(8 * n + (w - 1), ModRM(a, r))
           /\ IsMem(a) => EncodeAlu(n, RegArg(r, w), a) = Headed(8 * n + (w - 1) + 2, ModRM(a, r))
<1>1. /\ a.size = w /\ RegArg(r, w).size = w /\ RegArg(r, w).reg = r
      /\ ~IsMem(RegArg(r, w)) /\ IsReg(RegArg(r, w)) /\ ~IsImm(RegArg(r, w))
      /\ IsMem(a) => ~IsReg(a) /\ ~IsImm(a)
  BY DEF Sized, RegArg, IsMem, IsReg, IsImm
<1>2. WordBit(a) = w - 1 /\ WordBit(RegArg(r, w)) = w - 1
  BY <1>1, WordOfSize
<1>3. EncodeAlu(n, a, RegArg(r, w)) = <<8 * n + WordBit(a)>> \o ModRM(a, r)
  BY <1>1 DEF EncodeAlu
<1>4. IsMem(a) => EncodeAlu(n, RegArg(r, w), a) = <<8 * n + WordBit(RegArg(r, w)) + 2>> \o ModRM(a, r)
  BY <1>1 DEF EncodeAlu
<1>5. QED
  BY <1>2, <1>3, <1>4 DEF Headed

LEMMA AluBytes ==
    ASSUME NEW n \in 0 .. 7, NEW k \in 0 .. 3
    PROVE  /\ 8 * n + k \in ModRMOpcodes /\ 8 * n + k \in Byte /\ 8 * n + k < \h40
           /\ (8 * n + k) % 8 = k /\ (8 * n + k) \div 8 = n
<1>1. /\ 8 * n + k \in 0 .. \h3F /\ (8 * n + k) % 8 = k /\ (8 * n + k) \div 8 = n
  OBVIOUS
<1>2. QED
  BY <1>1 DEF ModRMOpcodes, AluRM, Byte

LEMMA AluOrder ==
    ASSUME NEW n \in 0 .. 7, NEW w \in {1, 2}, NEW p, NEW q
    PROVE  /\ WidthOf(8 * n + (w - 1)) = w /\ WidthOf(8 * n + (w - 1) + 2) = w
           /\ Ordered(8 * n + (w - 1), p, q) = <<p, q>>
           /\ Ordered(8 * n + (w - 1) + 2, p, q) = <<q, p>>
<1>1. /\ WidthOf(8 * n + (w - 1)) = w /\ WidthOf(8 * n + (w - 1) + 2) = w
  BY DEF WidthOf
<1>2. /\ ((8 * n + (w - 1)) \div 2) % 2 = 0 /\ ((8 * n + (w - 1) + 2) \div 2) % 2 = 1
  OBVIOUS
<1>3. QED
  BY <1>1, <1>2 DEF Ordered

LEMMA AluRegisterBack ==
    ASSUME NEW n \in 0 .. 7, NEW w \in {1, 2}, NEW a, Sized(a, w), NEW r \in 0 .. 7, NEW f, NEW at
    PROVE  /\ Parsed(f, EncodeAlu(n, a, RegArg(r, w)))
                => Gives(f, at, Alu[n + 1], <<Anew(a, f.segment), RegArg(r, w)>>)
           /\ IsMem(a) /\ Parsed(f, EncodeAlu(n, RegArg(r, w), a))
                => Gives(f, at, Alu[n + 1], <<RegArg(r, w), Anew(a, f.segment)>>)
<1> DEFINE b == 8 * n + (w - 1)
           c == 8 * n + (w - 1) + 2
<1>1. /\ b \in ModRMOpcodes /\ b \in Byte /\ b < \h40 /\ b % 8 < 4 /\ b \div 8 = n
      /\ WidthOf(b) = w
  <2>1. w - 1 \in 0 .. 3
    OBVIOUS
  <2>2. /\ b \in ModRMOpcodes /\ b \in Byte /\ b < \h40 /\ b % 8 = w - 1 /\ b \div 8 = n
    BY <2>1, AluBytes
  <2>3. WidthOf(b) = w
    BY AluOrder
  <2> HIDE DEF b
  <2>4. QED
    BY <2>2, <2>3
<1>2. /\ c \in ModRMOpcodes /\ c \in Byte /\ c < \h40 /\ c % 8 < 4 /\ c \div 8 = n
      /\ WidthOf(c) = w
  <2>1. (w - 1) + 2 \in 0 .. 3 /\ c = 8 * n + ((w - 1) + 2)
    OBVIOUS
  <2> HIDE DEF c
  <2>2. /\ c \in ModRMOpcodes /\ c \in Byte /\ c < \h40 /\ c % 8 = (w - 1) + 2 /\ c \div 8 = n
    BY <2>1, AluBytes
  <2>3. WidthOf(c) = w
    BY AluOrder DEF c
  <2>4. QED
    BY <2>2, <2>3
<1>3. /\ \A p, q : Ordered(b, p, q) = <<p, q>>
      /\ \A p, q : Ordered(c, p, q) = <<q, p>>
  BY AluOrder
<1>4. /\ EncodeAlu(n, a, RegArg(r, w)) = Headed(b, ModRM(a, r))
      /\ IsMem(a) => EncodeAlu(n, RegArg(r, w), a) = Headed(c, ModRM(a, r))
  BY AluForms
<1> HIDE DEF b, c
<1>5. ASSUME NEW o, o \in {b, c}, Parsed(f, Headed(o, ModRM(a, r)))
      PROVE  Gives(f, at, Alu[n + 1], Ordered(o, Anew(a, f.segment), RegArg(r, w)))
  <2>1. /\ o \in ModRMOpcodes /\ o \in Byte /\ o < \h40 /\ o % 8 < 4 /\ o \div 8 = n /\ WidthOf(o) = w
    BY <1>1, <1>2, <1>5
  <2>2. Fetched(f, a, o, r)
    BY <1>5, <2>1, TakesAlways, FetchAlone
  <2>3. /\ f.lead = o /\ RM(f, w) = Anew(a, f.segment) /\ RMReg(f, w) = RegArg(r, w)
        /\ \E x : Fields(f, x)
    BY <2>2, FetchedIs
  <2>4. Case(f, at) = <<Alu[n + 1], Ordered(o, RM(f, w), RMReg(f, w))>>
    BY <2>1, <2>3, CaseAlu
  <2>5. QED
    BY <2>3, <2>4, GivesThat
<1>6. QED
  BY <1>3, <1>4, <1>5

(* The numbers a ModR/M byte or the accumulator goes with.                 *)
Number(v, w) == v \in Int /\ IF w = 1 THEN 0 <= v /\ v < 256 ELSE -128 <= v /\ v < 65536

LEMMA CutIs ==
    ASSUME NEW w \in {1, 2}, NEW v, Number(v, w)
    PROVE  /\ v \in Int /\ Cut(v, w) = IF v < 0 THEN v + 65536 ELSE v
           /\ w = 1 => v >= 0
<1>1. CASE w = 1
  BY <1>1 DEF Number, Cut
<1>2. CASE w = 2
  <2>1. v \in Int /\ -128 <= v /\ v < 65536 /\ Cut(v, w) = v % 65536
    BY <1>2 DEF Number, Cut
  <2>2. v % 65536 = IF v < 0 THEN v + 65536 ELSE v
    BY <2>1
  <2>3. QED
    BY <1>2, <2>1, <2>2
<1>3. QED
  BY <1>1, <1>2

LEMMA SignedIs ==
    ASSUME NEW v \in Int
    PROVE  Signed(v, 8) = IF v % 256 >= 128 THEN (v % 256) - 256 ELSE v % 256
<1>1. 2 ^ 8 = 256 /\ 2 ^ (8 - 1) = 128
  OBVIOUS
<1>2. QED
  BY <1>1 DEF Signed

LEMMA ShortIs ==
    ASSUME NEW w \in {1, 2}, NEW v, Number(v, w), NEW a, a.size = w, Shorthand(a, v)
    PROVE  w = 2 /\ Signed(Cut(v, 1), 8) = IF v >= \hFF80 THEN v - 65536 ELSE v
<1>1. w = 2 /\ (v < \h80 \/ v >= \hFF80) /\ v \in Int /\ -128 <= v /\ v < 65536
  <2>1. w = 2 /\ (v < \h80 \/ v >= \hFF80)
    BY DEF Shorthand
  <2>2. QED
    BY <2>1 DEF Number
<1>2. Cut(v, 1) = v % 256
  BY DEF Cut
<1>3. Signed(v % 256, 8) = IF v % 256 >= 128 THEN (v % 256) - 256 ELSE v % 256
  <2>1. v % 256 \in Int /\ (v % 256) % 256 = v % 256
    BY <1>1
  <2>2. QED
    BY <2>1, SignedIs
<1>4. (IF v % 256 >= 128 THEN (v % 256) - 256 ELSE v % 256) = IF v >= \hFF80 THEN v - 65536 ELSE v
  BY <1>1
<1>5. QED
  BY <1>1, <1>2, <1>3, <1>4

LEMMA AluNumberForms ==
    ASSUME NEW n \in 0 .. 7, NEW w \in {1, 2}, NEW a, Sized(a, w), NEW v, NEW z
    PROVE  LET short == Shorthand(a, v)
               e == EncodeAlu(n, a, ImmArg(v, z))
           IN  /\ Accumulator(a) /\ ~short => e = Headed(8 * n + 4 + (w - 1), Imm(v, w - 1))
               /\ ~Accumulator(a) /\ ~short => e = HeadedWith(\h80 + (w - 1), ModRM(a, n), Imm(v, w - 1))
               /\ short => w = 2 /\ e = HeadedWith(\h83, ModRM(a, n), Imm(v, 1 - 1))
<1>1. WordBit(a) = w - 1 /\ a.size = w
  BY WordOfSize DEF Sized
<1>2. /\ ImmArg(v, z).value = v /\ ~IsMem(ImmArg(v, z)) /\ ~IsReg(ImmArg(v, z)) /\ IsImm(ImmArg(v, z))
  BY DEF ImmArg, IsMem, IsReg, IsImm
<1>3. Accumulator(a) /\ ~Shorthand(a, v)
        => EncodeAlu(n, a, ImmArg(v, z)) = <<8 * n + 4 + (w - 1)>> \o Imm(v, w - 1)
  BY <1>1, <1>2 DEF EncodeAlu
<1>4. ~Accumulator(a) /\ ~Shorthand(a, v)
        => EncodeAlu(n, a, ImmArg(v, z)) = <<\h80 + (w - 1)>> \o ModRM(a, n) \o Imm(v, w - 1)
  <2>1. \h80 + (w - 1) + 0 = \h80 + (w - 1)
    OBVIOUS
  <2>2. QED
    BY <1>1, <1>2, <2>1 DEF EncodeAlu
<1>5. Shorthand(a, v)
        => w = 2 /\ EncodeAlu(n, a, ImmArg(v, z)) = <<\h83>> \o ModRM(a, n) \o Imm(v, 1 - 1)
  <2>1. SUFFICES ASSUME Shorthand(a, v)
                 PROVE  w = 2 /\ EncodeAlu(n, a, ImmArg(v, z)) = <<\h83>> \o ModRM(a, n) \o Imm(v, 1 - 1)
    OBVIOUS
  <2>2. w = 2
    BY <1>1, <2>1 DEF Shorthand
  <2>3. \h80 + (w - 1) + 2 = \h83 /\ 1 - 1 = 0
    BY <2>2
  <2>4. EncodeAlu(n, a, ImmArg(v, z)) = <<\h80 + (w - 1) + 2>> \o ModRM(a, n) \o Imm(v, 0)
    BY <1>1, <1>2, <2>1 DEF EncodeAlu
  <2>5. QED
    BY <2>2, <2>3, <2>4
<1>6. QED
  BY <1>3, <1>4, <1>5 DEF Headed, HeadedWith

LEMMA AluImmediates ==
    ASSUME NEW n \in 0 .. 7, NEW w \in {1, 2}
    PROVE  LET b == 8 * n + 4 + (w - 1)
           IN  /\ TakesNumber(b, w) /\ b < \h40 /\ b % 8 \in {4, 5} /\ b \div 8 = n /\ WidthOf(b) = w
<1> DEFINE b == 8 * n + 4 + (w - 1)
<1>1. b \in 0 .. \h3F /\ b \div 8 = n /\ b % 8 = 3 + w
  OBVIOUS
<1>2. WidthOf(b) = w
  BY DEF WidthOf
<1>3. b \in Byte /\ b \notin PeekOpcodes \cup ModRMOpcodes \cup FPUEscapes
  <2>1. w - 1 \in 0 .. 1
    OBVIOUS
  <2>2. QED
    BY <2>1, AluOpcodes
<1> HIDE DEF b
<1>4. Immediates(b) = ImmRows0to7(b)
  BY <1>1, <1>3, RowsOfImmediates
<1>5. Immediates(b) = << w >>
  <2>1. CASE w = 1
    <3>1. b < \h40 /\ b % 8 = 4
      BY <1>1, <2>1
    <3>2. ImmRows0to7(b) = <<1>>
      BY SMTT(30), <3>1 DEF ImmRows0to7
    <3>3. QED
      BY <1>4, <2>1, <3>2
  <2>2. CASE w = 2
    <3>1. b < \h40 /\ b % 8 = 5 /\ b \in Int /\ b \notin \h70 .. \h7F
      BY <1>1, <2>2
    <3>2. ImmRows0to7(b) = <<2>>
      BY <3>1 DEF ImmRows0to7
    <3>3. QED
      BY <1>4, <2>2, <3>2
  <2>3. QED
    BY <2>1, <2>2
<1>6. b < \h40 /\ b % 8 \in {4, 5}
  BY <1>1
<1>7. QED
  BY <1>1, <1>2, <1>3, <1>5, <1>6 DEF TakesNumber, b

LEMMA Row80Bytes ==
    /\ \A b \in \h80 .. \h8E : b \in ModRMOpcodes /\ b \in Byte
    /\ \A m : ImmAfterRM(\h80, m) = <<1>> /\ ImmAfterRM(\h81, m) = <<2>> /\ ImmAfterRM(\h83, m) = <<1>>
<1>1. \A b \in \h80 .. \h8E : b \in ModRMOpcodes /\ b \in Byte
  BY DEF ModRMOpcodes, ModRMRow8, Byte
<1>2. \A m : ImmAfterRM(\h80, m) = <<1>> /\ ImmAfterRM(\h81, m) = <<2>> /\ ImmAfterRM(\h83, m) = <<1>>
  BY DEF ImmAfterRM
<1>3. QED
  BY <1>1, <1>2

(* The number as it is read back: the sign of a byte is kept.              *)
Resigned(v, w) == IF w = 2 /\ v >= \hFF80 THEN v - 65536 ELSE v

LEMMA AluNumberBack ==
    ASSUME NEW n \in 0 .. 7, NEW w \in {1, 2}, NEW a, Sized(a, w), NEW v, Number(v, w), NEW f, NEW at,
           Parsed(f, EncodeAlu(n, a, ImmArg(v, w)))
    PROVE  Gives(f, at, Alu[n + 1], <<Anew(a, f.segment), ImmArg(Resigned(v, w), w)>>)
<1> DEFINE short == Shorthand(a, v)
           e == EncodeAlu(n, a, ImmArg(v, w))
           t == f.segment
<1>1. /\ Accumulator(a) /\ ~short => e = Headed(8 * n + 4 + (w - 1), Imm(v, w - 1))
      /\ ~Accumulator(a) /\ ~short => e = HeadedWith(\h80 + (w - 1), ModRM(a, n), Imm(v, w - 1))
      /\ short => w = 2 /\ e = HeadedWith(\h83, ModRM(a, n), Imm(v, 1 - 1))
  BY AluNumberForms
<1>2. Parsed(f, e) /\ a.size = w
  BY DEF Sized
<1>3. v \in Int /\ (short => w = 2 /\ Signed(Cut(v, 1), 8) = IF v >= \hFF80 THEN v - 65536 ELSE v)
  BY <1>2, CutIs, ShortIs
<1>4. ~short => Cut(v, w) = v /\ Resigned(v, w) = v
  <2>1. SUFFICES ASSUME ~short PROVE Cut(v, w) = v /\ Resigned(v, w) = v
    OBVIOUS
  <2>2. /\ v \in Int /\ Cut(v, w) = IF v < 0 THEN v + 65536 ELSE v
        /\ w = 1 => v >= 0
    BY CutIs
  <2>3. w = 2 => v >= \h80 /\ v < \hFF80
    BY <1>2, <2>1, <2>2 DEF Shorthand
  <2>4. QED
    BY <2>2, <2>3 DEF Resigned
<1> HIDE DEF short, e
<1>5. CASE Accumulator(a) /\ ~short
  <2> DEFINE b == 8 * n + 4 + (w - 1)
  <2>1. TakesNumber(b, w) /\ b < \h40 /\ b % 8 \in {4, 5} /\ b \div 8 = n /\ WidthOf(b) = w
    BY AluImmediates
  <2> HIDE DEF b
  <2>2. Parsed(f, Headed(b, Imm(v, w - 1)))
    BY <1>1, <1>2, <1>5 DEF b
  <2>3. f.lead = b /\ f.args[1] = Cut(v, w) /\ \E x : Fields(f, x)
    BY <1>3, <2>1, <2>2, ReadImm
  <2>4. Case(f, at) = <<Alu[n + 1], <<RegArg(AX, w), ImmArg(Cut(v, w), w)>> >>
    BY <2>1, <2>3, CaseAluNumber
  <2>5. a = RegArg(AX, w)
    BY <1>5, SizedKinds DEF Accumulator
  <2>6. Anew(a, t) = RegArg(AX, w)
    BY <2>5, AnewIs
  <2>7. QED
    BY <1>4, <1>5, <2>4, <2>6, GivesThat
<1>6. CASE ~Accumulator(a) /\ ~short
  <2> DEFINE b == \h80 + (w - 1)
  <2>1. b \in \h80 .. \h81 /\ b \in \h80 .. \h8E /\ b < \h83 /\ WidthOf(b) = w /\ (b = \h80 <=> w = 1) /\ (b = \h81 <=> w = 2)
    BY DEF WidthOf
  <2> HIDE DEF b
  <2>2. b \in ModRMOpcodes /\ b \in Byte /\ ImmAfterRM(b, ModRM(a, n)[1]) = << w >>
    BY <2>1, Row80Bytes
  <2>3. Parsed(f, HeadedWith(b, ModRM(a, n), Imm(v, w - 1)))
    BY <1>1, <1>2, <1>6 DEF b
  <2>4. Fetched(f, a, b, n) /\ RMImm(f) = Cut(v, w)
    BY <1>3, <2>2, <2>3, TakesAlways, FetchNumber
  <2>5. f.lead = b /\ Reg(f.rm) = n /\ RM(f, w) = Anew(a, t) /\ \E x : Fields(f, x)
    BY <2>4, FetchedIs
  <2>6. Case(f, at) = <<Alu[n + 1], <<RM(f, w), ImmArg(Cut(v, w), w)>> >>
    BY <2>1, <2>4, <2>5, CaseRow8
  <2>7. QED
    BY <1>4, <1>6, <2>5, <2>6, GivesThat
<1>7. CASE short
  <2>1. w = 2 /\ Parsed(f, HeadedWith(\h83, ModRM(a, n), Imm(v, 1 - 1)))
    BY <1>1, <1>2, <1>7
  <2>2. \h83 \in ModRMOpcodes /\ \h83 \in Byte /\ ImmAfterRM(\h83, ModRM(a, n)[1]) = << 1 >>
    BY Row80Bytes
  <2>3. Fetched(f, a, \h83, n) /\ RMImm(f) = Cut(v, 1)
    BY <1>3, <2>1, <2>2, TakesAlways, FetchNumber
  <2>4. f.lead = \h83 /\ Reg(f.rm) = n /\ RM(f, 2) = Anew(a, t) /\ \E x : Fields(f, x)
    BY <2>1, <2>3, FetchedIs
  <2>5. Case(f, at) = <<Alu[n + 1], <<RM(f, 2), ImmArg(Signed(Cut(v, 1), 8), 2)>> >>
    BY <2>3, <2>4, CaseRow8
  <2>6. Signed(Cut(v, 1), 8) = Resigned(v, w)
    BY <1>3, <1>7, <2>1 DEF Resigned
  <2>7. QED
    BY <2>1, <2>4, <2>5, <2>6, GivesThat
<1>8. QED
  BY <1>5, <1>6, <1>7

-----------------------------------------------------------------------------
(* Opcodes without a ModR/M byte, read back.                               *)

LEMMA NumbersAreBare ==
    ASSUME NEW b, b \in WithByte \cup WithWord \cup WithFar
    PROVE  b \in Bare /\ b \notin DOMAIN PlainOneByte /\ b \in Int
<1>1. b \in Bare
  BY DEF Bare
<1>2. b \in Byte
  BY <1>1, BareOpcodes
<1>3. b \notin Singles
  BY DEF Singles, WithByte, WithWord, WithFar
<1>4. QED
  BY <1>1, <1>2, <1>3, PlainBytes DEF Byte

LEMMA ImmediateBack ==
    ASSUME NEW z \in {1, 2}, NEW b, IF z = 1 THEN b \in WithByte ELSE b \in WithWord,
           NEW v \in Int, NEW t, Represents(t, v, z), NEW f, Parsed(f, Headed(b, t)), NEW at
    PROVE  /\ f.lead = b /\ f.args[1] = Cut(v, z) /\ b \in Int
           /\ b \in \h90 .. \hBF => Case(f, at) = Rows9toB(f)
           /\ b \in \hC0 .. \hDF => Case(f, at) = RowsCtoD(f)
           /\ b \in \hE0 .. \hEF => Case(f, at) = RowE(f, at)
           /\ \E x : Fields(f, x)
<1>1. TakesNumber(b, z)
  BY BareNumber
<1>2. f.lead = b /\ f.args[1] = Cut(v, z) /\ Fields(f, Follow(Headed(b, t)))
  BY <1>1, ReadNumberAlone
<1>3. b \in Bare /\ b \notin DOMAIN PlainOneByte /\ b \in Int
  BY NumbersAreBare
<1>4. /\ b \in \h90 .. \hBF => Case(f, at) = Rows9toB(f)
      /\ b \in \hC0 .. \hDF => Case(f, at) = RowsCtoD(f)
      /\ b \in \hE0 .. \hEF => Case(f, at) = RowE(f, at)
  BY <1>2, <1>3, BareCase
<1>5. QED
  BY <1>2, <1>3, <1>4

(* One byte alone, and an opcode with a byte behind it.                    *)
LEMMA ReadSingle ==
    ASSUME NEW b, NEW f, Parsed(f, <<b>>)
    PROVE  f.lead = b /\ \E x : Fields(f, x)
BY DEF Parsed

-----------------------------------------------------------------------------
(* TEST.                                                                   *)

LEMMA TestForms ==
    ASSUME NEW w \in {1, 2}, NEW a, Sized(a, w), NEW r, NEW v, NEW z
    PROVE  /\ EncodeTest(a, RegArg(r, w)) = Headed(\h84 + (w - 1), ModRM(a, r))
           /\ Accumulator(a) => EncodeTest(a, ImmArg(v, z)) = Headed(\hA8 + (w - 1), Imm(v, w - 1))
           /\ ~Accumulator(a)
                => EncodeTest(a, ImmArg(v, z)) = HeadedWith(\hF6 + (w - 1), ModRM(a, 0), Imm(v, w - 1))
<1>1. WordBit(a) = w - 1
  BY WordOfSize DEF Sized
<1>2. /\ IsReg(RegArg(r, w)) /\ ~IsImm(RegArg(r, w)) /\ RegArg(r, w).reg = r
      /\ ImmArg(v, z).value = v /\ ~IsReg(ImmArg(v, z)) /\ IsImm(ImmArg(v, z))
  BY DEF ImmArg, RegArg, IsReg, IsImm
<1>3. EncodeTest(a, RegArg(r, w)) = <<\h84 + WordBit(a)>> \o ModRM(a, r)
  BY <1>2 DEF EncodeTest
<1>4. Accumulator(a) => EncodeTest(a, ImmArg(v, z)) = <<\hA8 + WordBit(a)>> \o Imm(v, WordBit(a))
  BY <1>2 DEF EncodeTest
<1>5. ~Accumulator(a)
        => EncodeTest(a, ImmArg(v, z)) = <<\hF6 + WordBit(a)>> \o ModRM(a, 0) \o Imm(v, WordBit(a))
  BY <1>2 DEF EncodeTest
<1>6. QED
  BY <1>1, <1>3, <1>4, <1>5 DEF Headed, HeadedWith

LEMMA RowFBytes ==
    ASSUME NEW w \in {1, 2}
    PROVE  /\ \hF6 + (w - 1) \in ModRMOpcodes /\ WidthOf(\hF6 + (w - 1)) = w
           /\ \hF6 + (w - 1) \in Byte /\ \hF6 + (w - 1) \in \hF6 .. \hF7
           /\ \A m : Reg(m) = 0 => ImmAfterRM(\hF6 + (w - 1), m) = << w >>
           /\ \hFE + (w - 1) \in ModRMOpcodes /\ WidthOf(\hFE + (w - 1)) = w
           /\ \hFE + (w - 1) \in Byte /\ \hFE + (w - 1) \in \hFE .. \hFF
           /\ \hC6 + (w - 1) \in ModRMOpcodes /\ WidthOf(\hC6 + (w - 1)) = w
           /\ \hC6 + (w - 1) \in Byte /\ \hC6 + (w - 1) \in \hC6 .. \hC7
           /\ \A m : Reg(m) = 0 => ImmAfterRM(\hC6 + (w - 1), m) = << w >>
<1>1. CASE w = 1
  BY <1>1 DEF ModRMOpcodes, ModRMRowF, ModRMRowC, WidthOf, Byte, ImmAfterRM
<1>2. CASE w = 2
  BY <1>2 DEF ModRMOpcodes, ModRMRowF, ModRMRowC, WidthOf, Byte, ImmAfterRM
<1>3. QED
  BY <1>1, <1>2

(* A number that is read back as it is.                                    *)
LEMMA CutNone ==
    ASSUME NEW w \in {1, 2}, NEW v, Number(v, w), v >= 0
    PROVE  v \in Int /\ Cut(v, w) = v
<1>1. v \in Int /\ Cut(v, w) = IF v < 0 THEN v + 65536 ELSE v
  BY CutIs
<1>2. QED
  BY <1>1

LEMMA TestBack ==
    ASSUME NEW w \in {1, 2}, NEW a, Sized(a, w), NEW r \in 0 .. 7, NEW f, f.op # "UD_NOP", NEW at,
           Parsed(f, EncodeTest(a, RegArg(r, w)))
    PROVE  Gives(f, at, "TEST", <<Anew(a, f.segment), RegArg(r, w)>>)
<1> DEFINE b == \h84 + (w - 1)
<1>1. b \in \h84 .. \h85 /\ b \in \h80 .. \h8E /\ WidthOf(b) = w
  BY DEF WidthOf
<1>2. EncodeTest(a, RegArg(r, w)) = Headed(b, ModRM(a, r))
  BY TestForms
<1> HIDE DEF b
<1>3. b \in ModRMOpcodes /\ b \in Byte
  BY <1>1, Row80Bytes
<1>4. Fetched(f, a, b, r)
  BY <1>2, <1>3, TakesAlways, FetchAlone
<1>5. f.lead = b /\ RM(f, w) = Anew(a, f.segment) /\ RMReg(f, w) = RegArg(r, w) /\ \E x : Fields(f, x)
  BY <1>4, FetchedIs
<1>6. Case(f, at) = <<"TEST", <<RM(f, w), RMReg(f, w)>> >>
  BY <1>1, <1>5, CaseRow8
<1>7. QED
  BY <1>5, <1>6, GivesThat

LEMMA TestNumberBack ==
    ASSUME NEW w \in {1, 2}, NEW a, Sized(a, w), NEW v, Number(v, w), v >= 0,
           NEW f, f.op # "UD_NOP", NEW at, Parsed(f, EncodeTest(a, ImmArg(v, w)))
    PROVE  Gives(f, at, "TEST", <<Anew(a, f.segment), ImmArg(v, w)>>)
<1>1. v \in Int /\ Cut(v, w) = v
  BY CutNone
<1>3. ASSUME Accumulator(a)
      PROVE  Gives(f, at, "TEST", <<Anew(a, f.segment), ImmArg(v, w)>>)
  <2> DEFINE b == \hA8 + (w - 1)
             t == Imm(v, w - 1)
  <2>1. b \in \hA8 .. \hA9 /\ b \in \h90 .. \hBF /\ WidthOf(b) = w /\ (b = \hA8 <=> w = 1) /\ (b = \hA9 <=> w = 2)
    BY DEF WidthOf
  <2>2. EncodeTest(a, ImmArg(v, w)) = Headed(b, t)
    BY <1>3, TestForms
  <2>3. Represents(t, v, w)
    BY <1>1, ImmIs
  <2> HIDE DEF b, t
  <2>4. IF w = 1 THEN b \in WithByte ELSE b \in WithWord
    BY <2>1 DEF WithByte, WithWord
  <2>5. Parsed(f, Headed(b, t))
    BY <1>3, <2>2
  <2>6. f.lead = b /\ f.args[1] = Cut(v, w) /\ b \in Int /\ Case(f, at) = Rows9toB(f)
    BY <1>1, <2>1, <2>3, <2>4, <2>5, ImmediateBack
  <2>7. Case(f, at) = <<"TEST", <<RegArg(AX, w), ImmArg(v, w)>> >>
    BY <1>1, <2>1, <2>6, Rows9toBIs
  <2>8. a = RegArg(AX, w)
    BY <1>3, SizedKinds DEF Accumulator
  <2>9. Anew(a, f.segment) = RegArg(AX, w)
    BY <2>8, AnewIs
  <2>10. QED
    BY <2>7, <2>9, GivesThat
<1>4. ASSUME ~Accumulator(a)
      PROVE  Gives(f, at, "TEST", <<Anew(a, f.segment), ImmArg(v, w)>>)
  <2> DEFINE b == \hF6 + (w - 1)
  <2>1. EncodeTest(a, ImmArg(v, w)) = HeadedWith(b, ModRM(a, 0), Imm(v, w - 1))
    BY <1>4, TestForms
  <2>2. /\ b \in ModRMOpcodes /\ WidthOf(b) = w /\ b \in Byte /\ b \in \hF6 .. \hF7
        /\ \A m : Reg(m) = 0 => ImmAfterRM(b, m) = << w >>
    BY RowFBytes
  <2> HIDE DEF b
  <2>3. Reg(ModRM(a, 0)[1]) = 0
    BY RegOfWritten
  <2>4. Fetched(f, a, b, 0) /\ RMImm(f) = Cut(v, w)
    BY <1>1, <1>4, <2>1, <2>2, <2>3, TakesAlways, FetchNumber
  <2>5. f.lead = b /\ Reg(f.rm) = 0 /\ RM(f, w) = Anew(a, f.segment) /\ \E x : Fields(f, x)
    BY <2>4, FetchedIs
  <2>6. Reg(f.rm) + 1 = 1 /\ Group3[1] = "TEST"
    BY <2>5 DEF Group3
  <2>7. Case(f, at) = <<"TEST", <<RM(f, w), ImmArg(v, w)>> >>
    BY <1>1, <2>2, <2>4, <2>5, <2>6, CaseGroup
  <2>8. QED
    BY <2>5, <2>7, GivesThat
<1>5. QED
  BY <1>3, <1>4

-----------------------------------------------------------------------------
(* XCHG: of two words of which one is AX, the form with one byte.          *)

LEMMA XchgForms ==
    ASSUME NEW w \in {1, 2}, NEW a, Sized(a, w), NEW r \in 0 .. 7
    PROVE  LET e == EncodeXchg(a, RegArg(r, w))
           IN  /\ IsReg(a) /\ w = 2 /\ a.reg = AX => e = << \h90 + r >>
               /\ IsReg(a) /\ w = 2 /\ a.reg # AX /\ r = AX => e = << \h90 + a.reg >>
               /\ ~(IsReg(a) /\ w = 2 /\ (a.reg = AX \/ r = AX))
                    => e = Headed(\h86 + (w - 1), ModRM(a, r))
<1>1. WordBit(a) = w - 1
  BY WordOfSize DEF Sized
<1>2. RegArg(r, w).reg = r
  BY DEF RegArg
<1>3. IsReg(a) <=> ~IsMem(a)
  BY SizedKinds
<1>4. WordBit(a) = 1 <=> w = 2
  BY <1>1
<1>5. XchgForm(a, RegArg(r, w)) = <<\h86 + WordBit(a)>> \o ModRM(a, r)
  BY <1>2, <1>3 DEF XchgForm, ModRM, MemRegFar
<1>6. IsReg(a) /\ w = 2 /\ a.reg = AX => EncodeXchg(a, RegArg(r, w)) = << \h90 + r >>
  BY <1>2, <1>4 DEF EncodeXchg
<1>7. IsReg(a) /\ w = 2 /\ a.reg # AX /\ r = AX => EncodeXchg(a, RegArg(r, w)) = << \h90 + a.reg >>
  BY <1>2, <1>4 DEF EncodeXchg
<1>8. ~(IsReg(a) /\ w = 2 /\ (a.reg = AX \/ r = AX))
        => EncodeXchg(a, RegArg(r, w)) = XchgForm(a, RegArg(r, w))
  BY <1>2, <1>4 DEF EncodeXchg
<1>9. QED
  BY <1>1, <1>5, <1>6, <1>7, <1>8 DEF Headed

LEMMA XchgSingle ==
    ASSUME NEW r \in 0 .. 7, NEW f, Parsed(f, << \h90 + r >>), NEW at
    PROVE  /\ r # 0 => Gives(f, at, "XCHG", <<RegArg(AX, 2), RegArg(r, 2)>>)
           /\ r = 0 => Gives(f, at, "NOP", << >>)
<1> DEFINE b == \h90 + r
<1>1. b \in \h90 .. \h97 /\ b % 8 = r /\ (r = 0 <=> b = \h90)
  OBVIOUS
<1> HIDE DEF b
<1>2. Parsed(f, <<b>>)
  BY DEF b
<1>3. f.lead = b /\ \E x : Fields(f, x)
  BY <1>2, ReadSingle
<1>4. CASE r # 0
  <2>1. b \in \h91 .. \h97 /\ b \in \h90 .. \hBF /\ b \in Int
    BY <1>1, <1>4
  <2>2. b \in Bare /\ b \notin DOMAIN PlainOneByte
    BY <2>1 DEF Bare, Singles, PlainOneByte
  <2>3. Case(f, at) = Rows9toB(f)
    BY <1>3, <2>1, <2>2, BareCase
  <2>4. Case(f, at) = <<"XCHG", <<RegArg(AX, 2), RegArg(r, 2)>> >>
    BY <1>1, <1>3, <2>1, <2>3, Rows9toBIs
  <2>5. QED
    BY <1>4, <2>4, GivesThat
<1>5. CASE r = 0
  <2>1. b = \h90
    BY <1>1, <1>5
  <2>2. \h90 \in DOMAIN PlainOneByte /\ PlainOneByte[\h90] = "NOP"
    BY DEF PlainOneByte
  <2>3. Case(f, at) = <<"NOP", << >> >>
    BY <1>3, <2>1, <2>2, CasePlain
  <2>4. QED
    BY <1>5, <2>3, GivesThat
<1>6. QED
  BY <1>4, <1>5

LEMMA XchgBack ==
    ASSUME NEW w \in {1, 2}, NEW a, Sized(a, w), NEW r \in 0 .. 7,
           NEW f, NEW at, Parsed(f, EncodeXchg(a, RegArg(r, w)))
    PROVE  \/ Gives(f, at, "XCHG", <<Anew(a, f.segment), RegArg(r, w)>>)
           \/ w = 2 /\ IsReg(a) /\ r = AX /\ a.reg # AX /\ Gives(f, at, "XCHG", <<RegArg(r, w), a>>)
           \/ w = 2 /\ IsReg(a) /\ r = AX /\ a.reg = AX /\ Gives(f, at, "NOP", << >>)
<1>1. IsReg(a) => a.reg \in 0 .. 7 /\ a = RegArg(a.reg, w)
  BY SizedKinds
<1>2. IsReg(a) => Anew(a, f.segment) = a
  BY <1>1, AnewIs
<1>3. CASE IsReg(a) /\ w = 2 /\ a.reg = AX
  <2>1. Parsed(f, << \h90 + r >>)
    BY <1>3, XchgForms
  <2>2. a = RegArg(AX, 2)
    BY <1>1, <1>3
  <2>3. QED
    BY <1>2, <1>3, <2>1, <2>2, XchgSingle DEF AX
<1>4. CASE IsReg(a) /\ w = 2 /\ a.reg # AX /\ r = AX
  <2>1. Parsed(f, << \h90 + a.reg >>)
    BY <1>4, XchgForms
  <2>2. Gives(f, at, "XCHG", <<RegArg(AX, 2), RegArg(a.reg, 2)>>)
    BY <1>1, <1>4, <2>1, XchgSingle DEF AX
  <2>3. QED
    BY <1>1, <1>4, <2>2
<1>5. CASE ~(IsReg(a) /\ w = 2 /\ (a.reg = AX \/ r = AX))
  <2> DEFINE b == \h86 + (w - 1)
  <2>1. b \in \h86 .. \h87 /\ b \in \h80 .. \h8E /\ WidthOf(b) = w
    BY DEF WidthOf
  <2>2. Parsed(f, Headed(b, ModRM(a, r)))
    BY <1>5, XchgForms
  <2> HIDE DEF b
  <2>3. b \in ModRMOpcodes /\ b \in Byte
    BY <2>1, Row80Bytes
  <2>4. Fetched(f, a, b, r)
    BY <2>2, <2>3, TakesAlways, FetchAlone
  <2>5. f.lead = b /\ RM(f, w) = Anew(a, f.segment) /\ RMReg(f, w) = RegArg(r, w) /\ \E x : Fields(f, x)
    BY <2>4, FetchedIs
  <2>6. Case(f, at) = <<"XCHG", <<RM(f, w), RMReg(f, w)>> >>
    BY <2>1, <2>5, CaseRow8
  <2>7. QED
    BY <2>5, <2>6, GivesThat
<1>6. QED
  BY <1>3, <1>4, <1>5

-----------------------------------------------------------------------------
(* MOV.                                                                    *)

LEMMA MovRegisterForms ==
    ASSUME NEW w \in {1, 2}, NEW a, Sized(a, w), NEW r \in 0 .. 7
    PROVE  /\ ~(Direct(a) /\ r = AX) => EncodeMov(a, RegArg(r, w)) = Headed(\h88 + (w - 1), ModRM(a, r))
           /\ Direct(a) /\ r = AX => EncodeMov(a, RegArg(r, w)) = Headed(\hA2 + (w - 1), Word(a.base))
           /\ IsMem(a) /\ ~(Direct(a) /\ r = AX)
                => EncodeMov(RegArg(r, w), a) = Headed(\h8A + (w - 1), ModRM(a, r))
           /\ Direct(a) /\ r = AX => EncodeMov(RegArg(r, w), a) = Headed(\hA0 + (w - 1), Word(a.base))
<1> DEFINE b == RegArg(r, w)
<1>1. /\ IsReg(b) /\ ~IsMem(b) /\ ~IsImm(b) /\ b.reg = r /\ b.size = w /\ b.kind # "sreg"
      /\ (Accumulator(b) <=> r = AX) /\ ~Direct(b)
  BY DEF RegArg, IsReg, IsMem, IsImm, Accumulator, Direct
<1>2. WordBit(a) = w - 1 /\ WordBit(b) = w - 1
  BY <1>1, WordOfSize DEF Sized
<1>3. (IsReg(a) <=> ~IsMem(a)) /\ ~IsImm(a) /\ a.kind # "sreg" /\ (Direct(a) => IsMem(a))
  BY SizedKinds DEF Direct
<1> HIDE DEF b
<1>4. ~(Direct(a) /\ r = AX) => EncodeMov(a, b) = <<\h88 + WordBit(a)>> \o ModRM(a, r)
  <2>1. CASE IsReg(a)
    BY <1>1, <1>3, <2>1 DEF EncodeMov
  <2>2. CASE IsMem(a)
    BY <1>1, <1>3, <2>2 DEF EncodeMov
  <2>3. QED
    BY <1>3, <2>1, <2>2
<1>5. Direct(a) /\ r = AX => EncodeMov(a, b) = <<\hA2 + WordBit(a)>> \o Word(a.base)
  BY <1>1, <1>3 DEF EncodeMov
<1>6. IsMem(a) /\ ~(Direct(a) /\ r = AX) => EncodeMov(b, a) = <<\h8A + WordBit(b)>> \o ModRM(a, r)
  BY <1>1, <1>3 DEF EncodeMov
<1>7. Direct(a) /\ r = AX => EncodeMov(b, a) = <<\hA0 + WordBit(b)>> \o Word(a.base)
  BY <1>1, <1>3 DEF EncodeMov
<1>8. QED
  BY <1>2, <1>4, <1>5, <1>6, <1>7 DEF Headed, b

LEMMA DirectIs ==
    ASSUME NEW w, NEW a, Sized(a, w), Direct(a)
    PROVE  /\ a.base \in Word16 /\ a.base \in Int /\ a.base % 65536 = a.base
           /\ \A f : Anew(a, f.segment) = MemArg(<< >>, a.base, Segmented(f, DS), w)
<1>1. a.kind = "mem" /\ a.regs = << >> /\ a.size = w
  BY DEF Direct, IsMem, Sized
<1>2. PICK v \in Addressing, b \in Word16 : \E g, z : a = MemArg(v, b, g, z)
  BY <1>1 DEF Sized, Operand, RegArg
<1>3. a.base = b % 65536 /\ b \in Int /\ 0 <= b /\ b < 65536
  BY <1>2, WordIsWord DEF MemArg
<1>4. b % 65536 = b
  BY <1>3
<1>5. a.base = b
  BY <1>3, <1>4
<1>6. DOMAIN << >> = {}
  OBVIOUS
<1>7. \A f : DefaultSegment(<< >>, f.segment) = Segmented(f, DS)
  BY <1>6 DEF DefaultSegment, Segmented
<1>8. QED
  BY <1>1, <1>2, <1>3, <1>4, <1>5, <1>7 DEF Anew

(* The forms of MOV with the accumulator and a direct address.             *)
LEMMA MovDirectBack ==
    ASSUME NEW w \in {1, 2}, NEW a, Sized(a, w), Direct(a), NEW f, NEW at
    PROVE  /\ Parsed(f, Headed(\hA2 + (w - 1), Word(a.base)))
                => Gives(f, at, "MOV", <<Anew(a, f.segment), RegArg(AX, w)>>)
           /\ Parsed(f, Headed(\hA0 + (w - 1), Word(a.base)))
                => Gives(f, at, "MOV", <<RegArg(AX, w), Anew(a, f.segment)>>)
<1> DEFINE m == MemArg(<< >>, a.base, Segmented(f, DS), w)
<1>1. a.base \in Int /\ a.base % 65536 = a.base /\ Anew(a, f.segment) = m
  BY DirectIs
<1>2. Represents(Word(a.base), a.base, 2) /\ Cut(a.base, 2) = a.base
  BY <1>1, WordIs DEF Cut
<1>3. ASSUME NEW b \in \hA0 .. \hA3, WidthOf(b) = w, Parsed(f, Headed(b, Word(a.base)))
      PROVE  Case(f, at) = <<"MOV", Ordered(b, RegArg(AX, w), m)>>
  <2>1. b \in WithWord /\ b \in \h90 .. \hBF
    BY DEF WithWord
  <2>2. f.lead = b /\ f.args[1] = Cut(a.base, 2) /\ b \in Int /\ Case(f, at) = Rows9toB(f)
    BY <1>1, <1>2, <1>3, <2>1, ImmediateBack
  <2>3. QED
    BY <1>2, <1>3, <2>2, Rows9toBIs
<1>4. /\ \hA2 + (w - 1) \in \hA0 .. \hA3 /\ WidthOf(\hA2 + (w - 1)) = w
      /\ \hA0 + (w - 1) \in \hA0 .. \hA3 /\ WidthOf(\hA0 + (w - 1)) = w
      /\ ((\hA2 + (w - 1)) \div 2) % 2 = 1 /\ ((\hA0 + (w - 1)) \div 2) % 2 = 0
  BY DEF WidthOf
<1>5. /\ Ordered(\hA2 + (w - 1), RegArg(AX, w), m) = <<m, RegArg(AX, w)>>
      /\ Ordered(\hA0 + (w - 1), RegArg(AX, w), m) = <<RegArg(AX, w), m>>
  BY <1>4 DEF Ordered
<1> HIDE DEF m
<1>6. QED
  BY <1>1, <1>3, <1>4, <1>5, GivesThat

LEMMA MovRegisterBack ==
    ASSUME NEW w \in {1, 2}, NEW a, Sized(a, w), NEW r \in 0 .. 7, NEW f, NEW at
    PROVE  /\ Parsed(f, EncodeMov(a, RegArg(r, w)))
                => Gives(f, at, "MOV", <<Anew(a, f.segment), RegArg(r, w)>>)
           /\ IsMem(a) /\ Parsed(f, EncodeMov(RegArg(r, w), a))
                => Gives(f, at, "MOV", <<RegArg(r, w), Anew(a, f.segment)>>)
<1>1. CASE Direct(a) /\ r = AX
  BY <1>1, MovRegisterForms, MovDirectBack
<1>2. CASE ~(Direct(a) /\ r = AX)
  <2> DEFINE b == \h88 + (w - 1)
             c == \h8A + (w - 1)
  <2>1. /\ EncodeMov(a, RegArg(r, w)) = Headed(b, ModRM(a, r))
        /\ IsMem(a) => EncodeMov(RegArg(r, w), a) = Headed(c, ModRM(a, r))
    BY <1>2, MovRegisterForms
  <2>2. /\ b \in \h88 .. \h89 /\ b \in \h80 .. \h8E /\ WidthOf(b) = w
        /\ c \in \h8A .. \h8B /\ c \in \h80 .. \h8E /\ WidthOf(c) = w
    BY DEF WidthOf
  <2> HIDE DEF b, c
  <2>3. ASSUME NEW o, o \in {b, c}, Parsed(f, Headed(o, ModRM(a, r)))
        PROVE  /\ f.lead = o /\ RM(f, w) = Anew(a, f.segment) /\ RMReg(f, w) = RegArg(r, w)
               /\ \E x : Fields(f, x)
    <3>1. o \in ModRMOpcodes /\ o \in Byte
      BY <2>2, <2>3, Row80Bytes
    <3>2. Fetched(f, a, o, r)
      BY <2>3, <3>1, TakesAlways, FetchAlone
    <3>3. QED
      BY <3>2, FetchedIs
  <2>4. ASSUME Parsed(f, Headed(b, ModRM(a, r)))
        PROVE  Gives(f, at, "MOV", <<Anew(a, f.segment), RegArg(r, w)>>)
    <3>1. /\ f.lead = b /\ RM(f, w) = Anew(a, f.segment) /\ RMReg(f, w) = RegArg(r, w)
          /\ \E x : Fields(f, x)
      BY <2>3, <2>4
    <3>2. Case(f, at) = <<"MOV", <<RM(f, w), RMReg(f, w)>> >>
      BY <2>2, <3>1, CaseRow8
    <3>3. QED
      BY <3>1, <3>2, GivesThat
  <2>5. ASSUME Parsed(f, Headed(c, ModRM(a, r)))
        PROVE  Gives(f, at, "MOV", <<RegArg(r, w), Anew(a, f.segment)>>)
    <3>1. /\ f.lead = c /\ RM(f, w) = Anew(a, f.segment) /\ RMReg(f, w) = RegArg(r, w)
          /\ \E x : Fields(f, x)
      BY <2>3, <2>5
    <3>2. Case(f, at) = <<"MOV", <<RMReg(f, w), RM(f, w)>> >>
      BY <2>2, <3>1, CaseRow8
    <3>3. QED
      BY <3>1, <3>2, GivesThat
  <2>6. QED
    BY <2>1, <2>4, <2>5
<1>3. QED
  BY <1>1, <1>2

LEMMA MovNumberForms ==
    ASSUME NEW w \in {1, 2}, NEW a, Sized(a, w), NEW v, NEW z
    PROVE  /\ IsReg(a) => EncodeMov(a, ImmArg(v, z)) = Headed(\hB0 + 8 * (w - 1) + a.reg, Imm(v, w - 1))
           /\ IsMem(a) => EncodeMov(a, ImmArg(v, z)) = HeadedWith(\hC6 + (w - 1), ModRM(a, 0), Imm(v, w - 1))
<1> DEFINE b == ImmArg(v, z)
<1>1. ~IsReg(b) /\ ~IsMem(b) /\ IsImm(b) /\ b.value = v /\ b.kind # "sreg"
  BY DEF ImmArg, IsReg, IsMem, IsImm
<1>2. WordBit(a) = w - 1
  BY WordOfSize DEF Sized
<1>3. (IsReg(a) <=> ~IsMem(a)) /\ ~IsImm(a) /\ a.kind # "sreg"
  BY SizedKinds
<1> HIDE DEF b
<1>4. IsReg(a) => EncodeMov(a, b) = <<\hB0 + 8 * WordBit(a) + a.reg>> \o Imm(v, WordBit(a))
  BY <1>1, <1>3 DEF EncodeMov
<1>5. IsMem(a) => EncodeMov(a, b) = <<\hC6 + WordBit(a)>> \o ModRM(a, 0) \o Imm(v, WordBit(a))
  BY <1>1, <1>3 DEF EncodeMov
<1>6. QED
  BY <1>2, <1>4, <1>5 DEF Headed, HeadedWith, b

LEMMA MovNumberBack ==
    ASSUME NEW w \in {1, 2}, NEW a, Sized(a, w), NEW v, Number(v, w), v >= 0,
           NEW f, f.op # "UD_NOP", NEW at, Parsed(f, EncodeMov(a, ImmArg(v, w)))
    PROVE  Gives(f, at, "MOV", <<Anew(a, f.segment), ImmArg(v, w)>>)
<1>1. v \in Int /\ Cut(v, w) = v
  BY CutNone
<1>2. CASE IsReg(a)
  <2> DEFINE b == \hB0 + 8 * (w - 1) + a.reg
             t == Imm(v, w - 1)
  <2>1. a.reg \in 0 .. 7 /\ a = RegArg(a.reg, w)
    BY <1>2, SizedKinds
  <2>2. /\ b \in \h90 .. \hBF /\ b % 8 = a.reg
        /\ w = 1 => b \in \hB0 .. \hB7
        /\ w = 2 => b \in \hB8 .. \hBF
    BY <2>1
  <2>3. Parsed(f, Headed(b, t))
    BY <1>2, MovNumberForms
  <2>a. Represents(t, v, w)
    BY <1>1, ImmIs
  <2>b. b \in \h90 .. \hBF
    BY <2>2
  <2> HIDE DEF b, t
  <2>4. IF w = 1 THEN b \in WithByte ELSE b \in WithWord
    BY <2>2 DEF WithByte, WithWord
  <2>c. TakesNumber(b, w)
    BY <2>4, BareNumber
  <2>d. f.lead = b /\ f.args[1] = Cut(v, w)
    BY <1>1, <2>3, <2>a, <2>c, ReadNumberAlone
  <2>e. Case(f, at) = Rows9toB(f)
    BY <1>1, <2>3, <2>a, <2>b, <2>4, ImmediateBack
  <2>5. f.lead = b /\ f.args[1] = Cut(v, w) /\ b \in Int /\ Case(f, at) = Rows9toB(f)
    BY <2>2, <2>d, <2>e
  <2>6. Case(f, at) = <<"MOV", <<RegArg(a.reg, w), ImmArg(v, w)>> >>
    <3>1. CASE w = 1
      BY <1>1, <2>2, <2>5, <3>1, Rows9toBIs
    <3>2. CASE w = 2
      BY <1>1, <2>2, <2>5, <3>2, Rows9toBIs
    <3>3. QED
      BY <3>1, <3>2
  <2>7. Anew(a, f.segment) = RegArg(a.reg, w)
    BY <2>1, AnewIs
  <2>8. QED
    BY <2>6, <2>7, GivesThat
<1>3. CASE IsMem(a)
  <2> DEFINE b == \hC6 + (w - 1)
  <2>1. Parsed(f, HeadedWith(b, ModRM(a, 0), Imm(v, w - 1)))
    BY <1>3, MovNumberForms
  <2>2. /\ b \in ModRMOpcodes /\ WidthOf(b) = w /\ b \in Byte /\ b \in \hC6 .. \hC7
        /\ \A m : Reg(m) = 0 => ImmAfterRM(b, m) = << w >>
    BY RowFBytes
  <2> HIDE DEF b
  <2>3. Reg(ModRM(a, 0)[1]) = 0
    BY RegOfWritten
  <2>4. Fetched(f, a, b, 0) /\ RMImm(f) = Cut(v, w)
    BY <1>1, <2>1, <2>2, <2>3, TakesAlways, FetchNumber
  <2>5. f.lead = b /\ RM(f, w) = Anew(a, f.segment) /\ \E x : Fields(f, x)
    BY <2>4, FetchedIs
  <2>6. Case(f, at) = <<"MOV", <<RM(f, w), ImmArg(v, w)>> >>
    BY <1>1, <2>2, <2>4, <2>5, CaseGroup
  <2>7. QED
    BY <2>5, <2>6, GivesThat
<1>4. QED
  BY <1>2, <1>3, SizedKinds

LEMMA MovSegmentBack ==
    ASSUME NEW a, Sized(a, 2), NEW r \in 0 .. 7, NEW f, NEW at
    PROVE  /\ Parsed(f, EncodeMov(a, SRegArg(r)))
                => Gives(f, at, "MOV", <<Anew(a, f.segment), SRegArg(r)>>)
           /\ Parsed(f, EncodeMov(SRegArg(r), a))
                => Gives(f, at, "MOV", <<SRegArg(r), Anew(a, f.segment)>>)
<1> DEFINE b == SRegArg(r)
<1>1. ~IsReg(b) /\ ~IsMem(b) /\ ~IsImm(b) /\ b.kind = "sreg" /\ b.reg = r
  BY DEF SRegArg, IsReg, IsMem, IsImm
<1>2. (IsReg(a) <=> ~IsMem(a)) /\ ~IsImm(a) /\ a.kind # "sreg"
  BY SizedKinds
<1> HIDE DEF b
<1>3. EncodeMov(a, b) = <<\h8C>> \o ModRM(a, r) /\ EncodeMov(b, a) = <<\h8E>> \o ModRM(a, r)
  BY <1>1, <1>2 DEF EncodeMov
<1>4. EncodeMov(a, b) = Headed(\h8C, ModRM(a, r)) /\ EncodeMov(b, a) = Headed(\h8E, ModRM(a, r))
  BY <1>3 DEF Headed
<1>5. ASSUME NEW o, o \in {\h8C, \h8E}, Parsed(f, Headed(o, ModRM(a, r)))
      PROVE  /\ f.lead = o /\ RM(f, 2) = Anew(a, f.segment) /\ Reg(f.rm) = r
             /\ \E x : Fields(f, x)
  <2>1. o \in \h80 .. \h8E
    BY <1>5
  <2>2. o \in ModRMOpcodes /\ o \in Byte
    BY <2>1, Row80Bytes
  <2>3. Fetched(f, a, o, r)
    BY <1>5, <2>2, TakesAlways, FetchAlone
  <2>4. QED
    BY <2>3, FetchedIs
<1>6. ASSUME Parsed(f, Headed(\h8C, ModRM(a, r)))
      PROVE  Gives(f, at, "MOV", <<Anew(a, f.segment), SRegArg(r)>>)
  <2>1. f.lead = \h8C /\ RM(f, 2) = Anew(a, f.segment) /\ Reg(f.rm) = r /\ \E x : Fields(f, x)
    BY <1>5, <1>6
  <2>2. Case(f, at) = <<"MOV", <<RM(f, 2), SRegArg(Reg(f.rm))>> >>
    BY <2>1, CaseRow8
  <2>3. QED
    BY <2>1, <2>2, GivesThat
<1>7. ASSUME Parsed(f, Headed(\h8E, ModRM(a, r)))
      PROVE  Gives(f, at, "MOV", <<SRegArg(r), Anew(a, f.segment)>>)
  <2>1. f.lead = \h8E /\ RM(f, 2) = Anew(a, f.segment) /\ Reg(f.rm) = r /\ \E x : Fields(f, x)
    BY <1>5, <1>7
  <2>2. Case(f, at) = <<"MOV", <<SRegArg(Reg(f.rm)), RM(f, 2)>> >>
    BY <2>1, CaseRow8
  <2>3. QED
    BY <2>1, <2>2, GivesThat
<1>8. QED
  BY <1>4, <1>6, <1>7 DEF b

-----------------------------------------------------------------------------
(* Groups: an opcode with a ModR/M byte and nothing behind it.             *)

LEMMA AloneBack ==
    ASSUME NEW w, NEW a, Sized(a, w), NEW n \in 0 .. 7, NEW b,
           b \in ModRMOpcodes \/ (b \in PeekOpcodes /\ IsMem(a)),
           NEW f, Parsed(f, Headed(b, ModRM(a, n)))
    PROVE  /\ f.lead = b /\ Reg(f.rm) = n /\ RM(f, w) = Anew(a, f.segment)
           /\ \A v : RM(f, v) = Again(a, f.segment, v)
           /\ \A v : RMReg(f, v) = RegArg(n, v)
           /\ \E x : Fields(f, x)
<1>1. b \in Byte /\ TakesModRM(b, ModRM(a, n)[1])
  <2>1. CASE b \in ModRMOpcodes
    BY <2>1, TakesAlways
  <2>2. CASE b \in PeekOpcodes /\ IsMem(a)
    <3>1. Mod(ModRM(a, n)[1]) # 3
      BY <2>2, RegOfWritten
    <3>2. ~IsExtension(ModRM(a, n)[1])
      BY <3>1 DEF Mod, IsExtension
    <3>3. b \in Byte
      BY <2>2 DEF PeekOpcodes, FarLoads, PopRM, Byte
    <3>4. QED
      BY <2>2, <3>2, <3>3 DEF TakesModRM
  <2>3. QED
    BY <2>1, <2>2
<1>2. Fetched(f, a, b, n)
  BY <1>1, FetchAlone
<1>3. QED
  BY <1>2, FetchedIs

-----------------------------------------------------------------------------
(* PUSH and POP.                                                           *)

LEMMA StackForms ==
    ASSUME NEW w, NEW a, Sized(a, w)
    PROVE  /\ IsReg(a) => EncodePush(a) = << \h50 + a.reg >> /\ EncodePop(a) = << \h58 + a.reg >>
           /\ IsMem(a) => /\ EncodePush(a) = Headed(\hFF, ModRM(a, 6))
                          /\ EncodePop(a) = Headed(\h8F, ModRM(a, 0))
<1>1. (IsReg(a) <=> ~IsMem(a)) /\ a.kind # "sreg"
  BY SizedKinds
<1>2. IsReg(a) => EncodePush(a) = << \h50 + a.reg >> /\ EncodePop(a) = << \h58 + a.reg >>
  BY <1>1 DEF EncodePush, EncodePop
<1>3. IsMem(a) => EncodePush(a) = << \hFF >> \o ModRM(a, 6) /\ EncodePop(a) = << \h8F >> \o ModRM(a, 0)
  BY <1>1 DEF EncodePush, EncodePop
<1>4. QED
  BY <1>2, <1>3 DEF Headed

LEMMA StackBack ==
    ASSUME NEW w, NEW a, Sized(a, w), NEW f, f.op # "UD_NOP", NEW at
    PROVE  /\ Parsed(f, EncodePush(a)) => Gives(f, at, "PUSH", <<Again(a, f.segment, 2)>>)
           /\ Parsed(f, EncodePop(a)) => Gives(f, at, "POP", <<Again(a, f.segment, 2)>>)
<1>1. CASE IsReg(a)
  <2>1. a.reg \in 0 .. 7 /\ Again(a, f.segment, 2) = RegArg(a.reg, 2)
    BY <1>1, SizedKinds DEF Again
  <2>2. ASSUME Parsed(f, EncodePush(a))
        PROVE  Gives(f, at, "PUSH", <<RegArg(a.reg, 2)>>)
    <3> DEFINE b == \h50 + a.reg
    <3>1. b \in \h40 .. \h5F /\ b >= \h50 /\ b < \h58 /\ b % 8 = a.reg
      BY <2>1
    <3>2. Parsed(f, <<b>>)
      BY <1>1, <2>2, StackForms
    <3> HIDE DEF b
    <3>3. f.lead = b /\ \E x : Fields(f, x)
      BY <3>2, ReadSingle
    <3>4. Case(f, at) = <<"PUSH", <<RegArg(a.reg, 2)>> >>
      BY <3>1, <3>3, Case4to5
    <3>5. QED
      BY <3>4, GivesThat
  <2>3. ASSUME Parsed(f, EncodePop(a))
        PROVE  Gives(f, at, "POP", <<RegArg(a.reg, 2)>>)
    <3> DEFINE b == \h58 + a.reg
    <3>1. b \in \h40 .. \h5F /\ b >= \h58 /\ b % 8 = a.reg
      BY <2>1
    <3>2. Parsed(f, <<b>>)
      BY <1>1, <2>3, StackForms
    <3> HIDE DEF b
    <3>3. f.lead = b /\ \E x : Fields(f, x)
      BY <3>2, ReadSingle
    <3>4. Case(f, at) = <<"POP", <<RegArg(a.reg, 2)>> >>
      BY <3>1, <3>3, Case4to5
    <3>5. QED
      BY <3>4, GivesThat
  <2>4. QED
    BY <2>1, <2>2, <2>3
<1>2. CASE IsMem(a)
  <2>1. ASSUME Parsed(f, EncodePush(a))
        PROVE  Gives(f, at, "PUSH", <<Again(a, f.segment, 2)>>)
    <3>1. \hFF \in ModRMOpcodes /\ WidthOf(\hFF) = 2
      BY DEF ModRMOpcodes, ModRMRowF, WidthOf
    <3>2. Parsed(f, Headed(\hFF, ModRM(a, 6)))
      BY <1>2, <2>1, StackForms
    <3>3. f.lead = \hFF /\ Reg(f.rm) = 6 /\ RM(f, 2) = Again(a, f.segment, 2) /\ \E x : Fields(f, x)
      BY <3>1, <3>2, AloneBack
    <3>4. Reg(f.rm) + 1 = 7 /\ Group5[7] = "PUSH"
      BY <3>3 DEF Group5
    <3>5. Case(f, at) = <<"PUSH", <<RM(f, 2)>> >>
      BY <3>1, <3>3, <3>4, CaseGroup
    <3>6. QED
      BY <3>3, <3>5, GivesThat
  <2>2. ASSUME Parsed(f, EncodePop(a))
        PROVE  Gives(f, at, "POP", <<Again(a, f.segment, 2)>>)
    <3>1. \h8F \in PeekOpcodes
      BY DEF PeekOpcodes, PopRM
    <3>2. Parsed(f, Headed(\h8F, ModRM(a, 0)))
      BY <1>2, <2>2, StackForms
    <3>3. f.lead = \h8F /\ RM(f, 2) = Again(a, f.segment, 2) /\ \E x : Fields(f, x)
      BY <1>2, <3>1, <3>2, AloneBack
    <3>4. Case(f, at) = <<"POP", <<RM(f, 2)>> >>
      BY <3>1, <3>3, CasePeek
    <3>5. QED
      BY <3>3, <3>4, GivesThat
  <2>3. QED
    BY <2>1, <2>2
<1>3. QED
  BY <1>1, <1>2, SizedKinds

LEMMA SegmentStackBack ==
    ASSUME NEW r \in 0 .. 3, NEW f, NEW at
    PROVE  /\ Parsed(f, EncodePush(SRegArg(r))) => Gives(f, at, "PUSH", <<SRegArg(r)>>)
           /\ Parsed(f, EncodePop(SRegArg(r))) => Gives(f, at, "POP", <<SRegArg(r)>>)
<1>1. EncodePush(SRegArg(r)) = << 8 * r + 6 >> /\ EncodePop(SRegArg(r)) = << 8 * r + 7 >>
  BY DEF EncodePush, EncodePop, SRegArg, IsReg, IsMem
<1>2. 8 * r + 6 # 8 * r + 7
  OBVIOUS
<1>3. ASSUME NEW b, b \in {8 * r + 6, 8 * r + 7}, Parsed(f, <<b>>)
      PROVE  Case(f, at) = <<IF b = 8 * r + 6 THEN "PUSH" ELSE "POP", <<SRegArg(r)>> >>
  BY <1>3, ReadSingle, CaseSegment
<1>4. Parsed(f, << 8 * r + 6 >>) => Case(f, at) = <<"PUSH", <<SRegArg(r)>> >>
  BY <1>3
<1>5. Parsed(f, << 8 * r + 7 >>) => Case(f, at) = <<"POP", <<SRegArg(r)>> >>
  BY <1>2, <1>3
<1>6. QED
  BY <1>1, <1>4, <1>5, GivesThat

-----------------------------------------------------------------------------
(* INC and DEC.                                                            *)

LEMMA IncDecForms ==
    ASSUME NEW n \in {0, 1}, NEW w \in {1, 2}, NEW a, Sized(a, w)
    PROVE  /\ IsReg(a) /\ w = 2 => EncodeIncDec(n, a) = << \h40 + 8 * n + a.reg >>
           /\ ~(IsReg(a) /\ w = 2) => EncodeIncDec(n, a) = Headed(\hFE + (w - 1), ModRM(a, n))
<1>1. WordBit(a) = w - 1
  BY WordOfSize DEF Sized
<1>2. /\ IsReg(a) /\ WordBit(a) = 1 => EncodeIncDec(n, a) = << \h40 + 8 * n + a.reg >>
      /\ ~(IsReg(a) /\ WordBit(a) = 1) => EncodeIncDec(n, a) = << \hFE + WordBit(a) >> \o ModRM(a, n)
  BY DEF EncodeIncDec
<1>3. (w - 1 = 1) <=> w = 2
  OBVIOUS
<1>4. QED
  BY <1>1, <1>2, <1>3 DEF Headed

LEMMA IncDecBack ==
    ASSUME NEW n \in {0, 1}, NEW w \in {1, 2}, NEW a, Sized(a, w), NEW f, f.op # "UD_NOP", NEW at,
           Parsed(f, EncodeIncDec(n, a))
    PROVE  Gives(f, at, IF n = 0 THEN "INC" ELSE "DEC", <<Anew(a, f.segment)>>)
<1>1. CASE IsReg(a) /\ w = 2
  <2> DEFINE b == \h40 + 8 * n + a.reg
  <2>1. a.reg \in 0 .. 7 /\ a = RegArg(a.reg, 2)
    BY <1>1, SizedKinds
  <2>2. b \in \h40 .. \h5F /\ b % 8 = a.reg /\ (n = 0 => b < \h48) /\ (n # 0 => b >= \h48 /\ b < \h50)
    BY <2>1
  <2>3. Parsed(f, <<b>>)
    BY <1>1, IncDecForms
  <2> HIDE DEF b
  <2>4. f.lead = b /\ \E x : Fields(f, x)
    BY <2>3, ReadSingle
  <2>5. Case(f, at) = <<IF n = 0 THEN "INC" ELSE "DEC", <<RegArg(a.reg, 2)>> >>
    BY <2>2, <2>4, Case4to5
  <2>6. Anew(a, f.segment) = RegArg(a.reg, 2)
    BY <2>1, AnewIs
  <2>7. QED
    BY <2>5, <2>6, GivesThat
<1>2. CASE ~(IsReg(a) /\ w = 2)
  <2> DEFINE b == \hFE + (w - 1)
  <2>1. b \in ModRMOpcodes /\ b \in \hFE .. \hFF /\ WidthOf(b) = w
    BY RowFBytes
  <2>2. Parsed(f, Headed(b, ModRM(a, n)))
    BY <1>2, IncDecForms
  <2> HIDE DEF b
  <2>3. n \in 0 .. 7
    OBVIOUS
  <2>4. f.lead = b /\ Reg(f.rm) = n /\ RM(f, w) = Anew(a, f.segment) /\ \E x : Fields(f, x)
    BY <2>1, <2>2, <2>3, AloneBack
  <2>5. Reg(f.rm) + 1 \notin {4, 6} /\ Group5[Reg(f.rm) + 1] = IF n = 0 THEN "INC" ELSE "DEC"
    BY <2>4 DEF Group5
  <2>6. Case(f, at) = <<Group5[Reg(f.rm) + 1], <<RM(f, w)>> >>
    BY <2>1, <2>4, <2>5, CaseGroup
  <2>7. QED
    BY <2>4, <2>5, <2>6, GivesThat
<1>3. QED
  BY <1>1, <1>2

-----------------------------------------------------------------------------
(* LEA, LES and LDS of memory.                                             *)

LEMMA LoadBack ==
    ASSUME NEW z, NEW a, Sized(a, z), IsMem(a), NEW r \in 0 .. 7, NEW f, f.op # "UD_NOP", NEW at
    PROVE  /\ z = 2 /\ Parsed(f, EncodeLoad(\h8D, RegArg(r, 2), a))
                => Gives(f, at, "LEA", <<RegArg(r, 2), Anew(a, f.segment)>>)
           /\ z = 4 /\ Parsed(f, EncodeLoad(\hC4, RegArg(r, 2), a))
                => Gives(f, at, "LES", <<RegArg(r, 2), Anew(a, f.segment)>>)
           /\ z = 4 /\ Parsed(f, EncodeLoad(\hC5, RegArg(r, 2), a))
                => Gives(f, at, "LDS", <<RegArg(r, 2), Anew(a, f.segment)>>)
<1>1. \A b : EncodeLoad(b, RegArg(r, 2), a) = Headed(b, ModRM(a, r))
  BY DEF EncodeLoad, Headed, RegArg
<1>2. ASSUME z = 2, Parsed(f, Headed(\h8D, ModRM(a, r)))
      PROVE  Gives(f, at, "LEA", <<RegArg(r, 2), Anew(a, f.segment)>>)
  <2>1. \h8D \in ModRMOpcodes
    BY Row80Bytes
  <2>2. f.lead = \h8D /\ RM(f, 2) = Anew(a, f.segment) /\ RMReg(f, 2) = RegArg(r, 2) /\ \E x : Fields(f, x)
    BY <1>2, <2>1, AloneBack
  <2>3. Case(f, at) = <<"LEA", <<RMReg(f, 2), RM(f, 2)>> >>
    BY <2>2, CaseRow8
  <2>4. QED
    BY <2>2, <2>3, GivesThat
<1>3. ASSUME z = 4, NEW b, b \in {\hC4, \hC5}, Parsed(f, Headed(b, ModRM(a, r)))
      PROVE  Case(f, at) = <<IF b = \hC4 THEN "LES" ELSE "LDS", <<RegArg(r, 2), Anew(a, f.segment)>> >>
  <2>1. b \in PeekOpcodes
    BY <1>3 DEF PeekOpcodes, FarLoads
  <2>2. f.lead = b /\ RM(f, 4) = Anew(a, f.segment) /\ RMReg(f, 2) = RegArg(r, 2) /\ \E x : Fields(f, x)
    BY <1>3, <2>1, AloneBack
  <2>3. Case(f, at) = <<IF b = \hC4 THEN "LES" ELSE "LDS", <<RMReg(f, 2), RM(f, 4)>> >>
    BY <1>3, <2>1, <2>2, CasePeek
  <2>4. QED
    BY <2>2, <2>3
<1>4. z = 4 /\ Parsed(f, Headed(\hC4, ModRM(a, r)))
        => Case(f, at) = <<"LES", <<RegArg(r, 2), Anew(a, f.segment)>> >>
  BY <1>3
<1>5. z = 4 /\ Parsed(f, Headed(\hC5, ModRM(a, r)))
        => Case(f, at) = <<"LDS", <<RegArg(r, 2), Anew(a, f.segment)>> >>
  BY <1>3
<1>6. QED
  BY <1>1, <1>2, <1>4, <1>5, GivesThat

-----------------------------------------------------------------------------
(* The shifts.                                                             *)

LEMMA ShiftForms ==
    ASSUME NEW n, NEW w \in {1, 2}, NEW a, Sized(a, w)
    PROVE  /\ EncodeShift(n, a, RegArg(CX, 1)) = Headed(\hD2 + (w - 1), ModRM(a, n))
           /\ EncodeShift(n, a, ImmArg(1, 1)) = Headed(\hD0 + (w - 1), ModRM(a, n))
           /\ \A v : v # 1
                => EncodeShift(n, a, ImmArg(v, 1)) = HeadedWith(\hC0 + (w - 1), ModRM(a, n), Imm(v, 1 - 1))
<1>1. WordBit(a) = w - 1
  BY WordOfSize DEF Sized
<1>2. /\ IsReg(RegArg(CX, 1)) /\ ~IsImm(RegArg(CX, 1))
      /\ \A v : ImmArg(v, 1).value = v /\ ~IsReg(ImmArg(v, 1)) /\ IsImm(ImmArg(v, 1))
  BY DEF ImmArg, RegArg, IsReg, IsImm
<1>3. EncodeShift(n, a, RegArg(CX, 1)) = <<\hD2 + WordBit(a)>> \o ModRM(a, n)
  BY <1>2 DEF EncodeShift
<1>4. EncodeShift(n, a, ImmArg(1, 1)) = <<\hD0 + WordBit(a)>> \o ModRM(a, n)
  BY <1>2 DEF EncodeShift
<1>5. ASSUME NEW v, v # 1
      PROVE  EncodeShift(n, a, ImmArg(v, 1)) = <<\hC0 + WordBit(a)>> \o ModRM(a, n) \o << ByteOf(v) >>
  BY <1>2, <1>5 DEF EncodeShift
<1>6. ASSUME NEW v, v # 1
      PROVE  EncodeShift(n, a, ImmArg(v, 1)) = HeadedWith(\hC0 + (w - 1), ModRM(a, n), Imm(v, 1 - 1))
  <2>1. Imm(v, 1 - 1) = << ByteOf(v) >>
    BY DEF Imm
  <2>2. EncodeShift(n, a, ImmArg(v, 1)) = <<\hC0 + WordBit(a)>> \o ModRM(a, n) \o << ByteOf(v) >>
    BY <1>5, <1>6
  <2>3. QED
    BY <1>1, <2>1, <2>2 DEF HeadedWith
<1>7. QED
  BY <1>1, <1>3, <1>4, <1>6 DEF Headed

LEMMA ShiftBytes ==
    ASSUME NEW w \in {1, 2}
    PROVE  /\ \hD2 + (w - 1) \in ModRMOpcodes /\ WidthOf(\hD2 + (w - 1)) = w /\ \hD2 + (w - 1) \in \hD2 .. \hD3
           /\ \hD0 + (w - 1) \in ModRMOpcodes /\ WidthOf(\hD0 + (w - 1)) = w /\ \hD0 + (w - 1) \in \hD0 .. \hD1
           /\ \hC0 + (w - 1) \in ModRMOpcodes /\ WidthOf(\hC0 + (w - 1)) = w /\ \hC0 + (w - 1) \in \hC0 .. \hC1
           /\ \A m : ImmAfterRM(\hC0 + (w - 1), m) = << 1 >>
<1>1. CASE w = 1
  BY <1>1 DEF ModRMOpcodes, ModRMRowC, WidthOf, ImmAfterRM
<1>2. CASE w = 2
  BY <1>2 DEF ModRMOpcodes, ModRMRowC, WidthOf, ImmAfterRM
<1>3. QED
  BY <1>1, <1>2

LEMMA ShiftCountBack ==
    ASSUME NEW n \in 0 .. 7, NEW w \in {1, 2}, NEW a, Sized(a, w), NEW f, f.op # "UD_NOP", NEW at,
           Parsed(f, EncodeShift(n, a, RegArg(CX, 1)))
    PROVE  Gives(f, at, Shifts[n + 1], <<Anew(a, f.segment), RegArg(CX, 1)>>)
<1> DEFINE b == \hD2 + (w - 1)
<1>1. b \in ModRMOpcodes /\ WidthOf(b) = w /\ b \in \hD2 .. \hD3
  BY ShiftBytes
<1>2. Parsed(f, Headed(b, ModRM(a, n)))
  BY ShiftForms
<1> HIDE DEF b
<1>3. f.lead = b /\ Reg(f.rm) = n /\ RM(f, w) = Anew(a, f.segment) /\ \E x : Fields(f, x)
  BY <1>1, <1>2, AloneBack
<1>4. Case(f, at) = <<Shifts[Reg(f.rm) + 1], <<RM(f, w), RegArg(CX, 1)>> >>
  BY <1>1, <1>3, CaseGroup
<1>5. QED
  BY <1>3, <1>4, GivesThat

LEMMA ShiftBack ==
    ASSUME NEW n \in 0 .. 7, NEW w \in {1, 2}, NEW a, Sized(a, w), NEW f, f.op # "UD_NOP", NEW at,
           NEW v \in Byte, Parsed(f, EncodeShift(n, a, ImmArg(v, 1)))
    PROVE  Gives(f, at, Shifts[n + 1], <<Anew(a, f.segment), ImmArg(v, 1)>>)
<1>2. ASSUME v = 1
      PROVE  Gives(f, at, Shifts[n + 1], <<Anew(a, f.segment), ImmArg(1, 1)>>)
  <2> DEFINE b == \hD0 + (w - 1)
  <2>1. b \in ModRMOpcodes /\ WidthOf(b) = w /\ b \in \hD0 .. \hD1
    BY ShiftBytes
  <2>2. Parsed(f, Headed(b, ModRM(a, n)))
    BY <1>2, ShiftForms
  <2> HIDE DEF b
  <2>3. f.lead = b /\ Reg(f.rm) = n /\ RM(f, w) = Anew(a, f.segment) /\ \E x : Fields(f, x)
    BY <2>1, <2>2, AloneBack
  <2>4. Case(f, at) = <<Shifts[Reg(f.rm) + 1], <<RM(f, w), ImmArg(1, 1)>> >>
    BY <2>1, <2>3, CaseGroup
  <2>5. QED
    BY <2>3, <2>4, GivesThat
<1>3. ASSUME v # 1
      PROVE  Gives(f, at, Shifts[n + 1], <<Anew(a, f.segment), ImmArg(v, 1)>>)
  <2> DEFINE b == \hC0 + (w - 1)
  <2>1. b \in ModRMOpcodes /\ WidthOf(b) = w /\ b \in \hC0 .. \hC1 /\ \A m : ImmAfterRM(b, m) = << 1 >>
    BY ShiftBytes
  <2>2. Parsed(f, HeadedWith(b, ModRM(a, n), Imm(v, 1 - 1)))
    BY <1>3, ShiftForms
  <2> HIDE DEF b
  <2>3. v \in Int /\ Cut(v, 1) = v
    BY DEF Byte, Cut
  <2>4. Fetched(f, a, b, n) /\ RMImm(f) = Cut(v, 1)
    BY <2>1, <2>2, <2>3, TakesAlways, FetchNumber
  <2>5. f.lead = b /\ Reg(f.rm) = n /\ RM(f, w) = Anew(a, f.segment) /\ \E x : Fields(f, x)
    BY <2>4, FetchedIs
  <2>6. Case(f, at) = <<Shifts[Reg(f.rm) + 1], <<RM(f, w), ImmArg(RMImm(f), 1)>> >>
    BY <2>1, <2>5, CaseGroup
  <2>7. QED
    BY <2>3, <2>4, <2>5, <2>6, GivesThat
<1>4. QED
  BY <1>2, <1>3

-----------------------------------------------------------------------------
(* NOT to IDIV.                                                            *)

LEMMA Group3Back ==
    ASSUME NEW n \in 2 .. 7, NEW w \in {1, 2}, NEW a, Sized(a, w), NEW f, f.op # "UD_NOP", NEW at,
           Parsed(f, << \hF6 + WordBit(a) >> \o ModRM(a, n))
    PROVE  Gives(f, at, Group3[n + 1], <<Anew(a, f.segment)>>)
<1> DEFINE b == \hF6 + (w - 1)
<1>1. WordBit(a) = w - 1
  BY WordOfSize DEF Sized
<1>2. Parsed(f, Headed(b, ModRM(a, n)))
  BY <1>1 DEF Headed
<1>3. b \in ModRMOpcodes /\ WidthOf(b) = w /\ b \in \hF6 .. \hF7
  BY RowFBytes
<1> HIDE DEF b
<1>4. f.lead = b /\ Reg(f.rm) = n /\ RM(f, w) = Anew(a, f.segment) /\ \E x : Fields(f, x)
  BY <1>2, <1>3, AloneBack
<1>5. n + 1 # 1
  OBVIOUS
<1>6. Case(f, at) = <<Group3[Reg(f.rm) + 1], <<RM(f, w)>> >>
  BY <1>3, <1>4, <1>5, CaseGroup
<1>7. QED
  BY <1>4, <1>6, GivesThat

-----------------------------------------------------------------------------
(* Instructions of one byte, or with a number behind it.                   *)

LEMMA SingleBack ==
    ASSUME NEW b \in Singles, b \notin DOMAIN PlainOneByte, NEW f, Parsed(f, <<b>>), NEW at
    PROVE  /\ f.lead = b /\ b \in Int
           /\ b \in \h90 .. \hBF => Case(f, at) = Rows9toB(f)
           /\ b \in \hC0 .. \hDF => Case(f, at) = RowsCtoD(f)
           /\ b \in \hE0 .. \hEF => Case(f, at) = RowE(f, at)
<1>1. f.lead = b /\ \E x : Fields(f, x)
  BY ReadSingle
<1>2. b \in Bare
  BY DEF Bare
<1>3. b \in Int
  BY <1>2, BareOpcodes DEF Byte
<1>4. QED
  BY <1>1, <1>2, <1>3, BareCase

LEMMA PairBack ==
    ASSUME NEW b \in WithByte, NEW v \in Byte, NEW f, Parsed(f, <<b, ByteOf(v)>>), NEW at
    PROVE  /\ f.lead = b /\ f.args[1] = v /\ b \in Int
           /\ b \in \h90 .. \hBF => Case(f, at) = Rows9toB(f)
           /\ b \in \hC0 .. \hDF => Case(f, at) = RowsCtoD(f)
           /\ b \in \hE0 .. \hEF => Case(f, at) = RowE(f, at)
<1>1. TakesNumber(b, 1) /\ v \in Int /\ v % 256 = v
  BY BareNumber DEF Byte
<1>2. f.lead = b /\ f.args[1] = v /\ \E x : Fields(f, x)
  BY <1>1, ReadPair
<1>3. b \in Bare /\ b \notin DOMAIN PlainOneByte /\ b \in Int
  BY NumbersAreBare
<1>4. QED
  BY <1>2, <1>3, BareCase

LEMMA StringBytes ==
    ASSUME NEW w \in {1, 2}, NEW n, n \in {\hA4, \hA6, \hAA, \hAC, \hAE}
    PROVE  /\ n + (w - 1) \in Singles /\ n + (w - 1) \notin DOMAIN PlainOneByte
           /\ n + (w - 1) \in n .. n + 1 /\ n + (w - 1) \in \h90 .. \hBF /\ WidthOf(n + (w - 1)) = w
<1>1. n \in Int /\ w - 1 \in {0, 1}
  OBVIOUS
<1>2. CASE w = 1
  BY <1>2 DEF Singles, PlainOneByte, WidthOf
<1>3. CASE w = 2
  BY <1>3 DEF Singles, PlainOneByte, WidthOf
<1>4. QED
  BY <1>2, <1>3

StringRows(b, f, w) ==
    /\ b \in \hA4 .. \hA5 => Rows9toB(f) = <<"MOVS", <<StringDest(w), StringSource(f, w)>> >>
    /\ b \in \hA6 .. \hA7 => Rows9toB(f) = <<"CMPS", <<StringDest(w), StringSource(f, w)>> >>
    /\ b \in \hAA .. \hAB => Rows9toB(f) = <<"STOS", <<StringDest(w)>> >>
    /\ b \in \hAC .. \hAD => Rows9toB(f) = <<"LODS", <<StringSource(f, w)>> >>
    /\ b \in \hAE .. \hAF => Rows9toB(f) = <<"SCAS", <<StringDest(w)>> >>

LEMMA StringBack ==
    ASSUME NEW w \in {1, 2}, NEW f, NEW at
    PROVE  /\ Parsed(f, << \hA4 + (w - 1) >>) => Gives(f, at, "MOVS", <<StringDest(w), StringSource(f, w)>>)
           /\ Parsed(f, << \hA6 + (w - 1) >>) => Gives(f, at, "CMPS", <<StringDest(w), StringSource(f, w)>>)
           /\ Parsed(f, << \hAA + (w - 1) >>) => Gives(f, at, "STOS", <<StringDest(w)>>)
           /\ Parsed(f, << \hAC + (w - 1) >>) => Gives(f, at, "LODS", <<StringSource(f, w)>>)
           /\ Parsed(f, << \hAE + (w - 1) >>) => Gives(f, at, "SCAS", <<StringDest(w)>>)
<1>1. ASSUME NEW n, n \in {\hA4, \hA6, \hAA, \hAC, \hAE}, Parsed(f, << n + (w - 1) >>)
      PROVE  /\ n = \hA4 => Case(f, at) = <<"MOVS", <<StringDest(w), StringSource(f, w)>> >>
             /\ n = \hA6 => Case(f, at) = <<"CMPS", <<StringDest(w), StringSource(f, w)>> >>
             /\ n = \hAA => Case(f, at) = <<"STOS", <<StringDest(w)>> >>
             /\ n = \hAC => Case(f, at) = <<"LODS", <<StringSource(f, w)>> >>
             /\ n = \hAE => Case(f, at) = <<"SCAS", <<StringDest(w)>> >>
  <2> DEFINE b == n + (w - 1)
  <2>1. b \in Singles /\ b \notin DOMAIN PlainOneByte /\ b \in n .. n + 1 /\ b \in \h90 .. \hBF /\ WidthOf(b) = w
    BY <1>1, StringBytes
  <2>2. Parsed(f, <<b>>)
    BY <1>1
  <2> HIDE DEF b
  <2>3. f.lead = b /\ b \in Int /\ Case(f, at) = Rows9toB(f)
    BY <2>1, <2>2, SingleBack
  <2>a. /\ n = \hA4 => b \in \hA4 .. \hA5
        /\ n = \hA6 => b \in \hA6 .. \hA7
        /\ n = \hAA => b \in \hAA .. \hAB
        /\ n = \hAC => b \in \hAC .. \hAD
        /\ n = \hAE => b \in \hAE .. \hAF
    BY <2>1
  <2>b. StringRows(b, f, w)
    BY <2>1, <2>3, Rows9toBIs DEF StringRows
  <2>4. /\ n = \hA4 => Rows9toB(f) = <<"MOVS", <<StringDest(w), StringSource(f, w)>> >>
        /\ n = \hA6 => Rows9toB(f) = <<"CMPS", <<StringDest(w), StringSource(f, w)>> >>
        /\ n = \hAA => Rows9toB(f) = <<"STOS", <<StringDest(w)>> >>
        /\ n = \hAC => Rows9toB(f) = <<"LODS", <<StringSource(f, w)>> >>
        /\ n = \hAE => Rows9toB(f) = <<"SCAS", <<StringDest(w)>> >>
    BY <2>a, <2>b DEF StringRows
  <2>5. QED
    BY <2>3, <2>4
<1>2. Parsed(f, << \hA4 + (w - 1) >>) => Case(f, at) = <<"MOVS", <<StringDest(w), StringSource(f, w)>> >>
  BY <1>1
<1>3. Parsed(f, << \hA6 + (w - 1) >>) => Case(f, at) = <<"CMPS", <<StringDest(w), StringSource(f, w)>> >>
  BY <1>1
<1>4. Parsed(f, << \hAA + (w - 1) >>) => Case(f, at) = <<"STOS", <<StringDest(w)>> >>
  BY <1>1
<1>5. Parsed(f, << \hAC + (w - 1) >>) => Case(f, at) = <<"LODS", <<StringSource(f, w)>> >>
  BY <1>1
<1>6. Parsed(f, << \hAE + (w - 1) >>) => Case(f, at) = <<"SCAS", <<StringDest(w)>> >>
  BY <1>1
<1>7. QED
  BY <1>2, <1>3, <1>4, <1>5, <1>6, GivesThat

-----------------------------------------------------------------------------
(* IN and OUT.                                                             *)

LEMMA PortForms ==
    ASSUME NEW w \in {1, 2}
    PROVE  /\ EncodeIn(RegArg(AX, w), RegArg(DX, 2)) = << \hEC + (w - 1) >>
           /\ \A v : EncodeIn(RegArg(AX, w), ImmArg(v, 0)) = << \hE4 + (w - 1), ByteOf(v) >>
           /\ EncodeOut(RegArg(DX, 2), RegArg(AX, w)) = << \hEE + (w - 1) >>
           /\ \A v : EncodeOut(ImmArg(v, 0), RegArg(AX, w)) = << \hE6 + (w - 1), ByteOf(v) >>
<1>1. WordBit(RegArg(AX, w)) = w - 1
  BY WordOfSize DEF RegArg
<1>2. /\ IsReg(RegArg(DX, 2))
      /\ \A v : ~IsReg(ImmArg(v, 0)) /\ ImmArg(v, 0).value = v
  BY DEF IsReg, RegArg, ImmArg
<1>3. QED
  BY <1>1, <1>2 DEF EncodeIn, EncodeOut

LEMMA PortBytes ==
    ASSUME NEW w \in {1, 2}
    PROVE  /\ \A n \in {\hEC, \hEE} :
                /\ n + (w - 1) \in Singles /\ n + (w - 1) \notin DOMAIN PlainOneByte
                /\ n + (w - 1) \in n .. n + 1 /\ n + (w - 1) \in \hE0 .. \hEF /\ WidthOf(n + (w - 1)) = w
           /\ \A n \in {\hE4, \hE6} :
                /\ n + (w - 1) \in WithByte
                /\ n + (w - 1) \in n .. n + 1 /\ n + (w - 1) \in \hE0 .. \hEF /\ WidthOf(n + (w - 1)) = w
<1>1. CASE w = 1
  BY <1>1 DEF Singles, WithByte, PlainOneByte, WidthOf
<1>2. CASE w = 2
  BY <1>2 DEF Singles, WithByte, PlainOneByte, WidthOf
<1>3. QED
  BY <1>1, <1>2

LEMMA PortCountBack ==
    ASSUME NEW w \in {1, 2}, NEW f, NEW at
    PROVE  /\ Parsed(f, EncodeIn(RegArg(AX, w), RegArg(DX, 2)))
                => Gives(f, at, "IN", <<RegArg(AX, w), RegArg(DX, 2)>>)
           /\ Parsed(f, EncodeOut(RegArg(DX, 2), RegArg(AX, w)))
                => Gives(f, at, "OUT", <<RegArg(DX, 2), RegArg(AX, w)>>)
<1>1. ASSUME NEW n, n \in {\hEC, \hEE}, Parsed(f, << n + (w - 1) >>)
      PROVE  /\ n = \hEC => Case(f, at) = <<"IN", <<RegArg(AX, w), RegArg(DX, 2)>> >>
             /\ n = \hEE => Case(f, at) = <<"OUT", <<RegArg(DX, 2), RegArg(AX, w)>> >>
  <2> DEFINE b == n + (w - 1)
  <2>1. b \in Singles /\ b \notin DOMAIN PlainOneByte /\ b \in n .. n + 1 /\ b \in \hE0 .. \hEF /\ WidthOf(b) = w
    BY <1>1, PortBytes
  <2>2. Parsed(f, <<b>>)
    BY <1>1
  <2> HIDE DEF b
  <2>3. f.lead = b /\ b \in Int /\ Case(f, at) = RowE(f, at)
    BY <2>1, <2>2, SingleBack
  <2>4. /\ n = \hEC => RowE(f, at) = <<"IN", <<RegArg(AX, w), RegArg(DX, 2)>> >>
        /\ n = \hEE => RowE(f, at) = <<"OUT", <<RegArg(DX, 2), RegArg(AX, w)>> >>
    BY <1>1, <2>1, <2>3, RowEIs
  <2>5. QED
    BY <2>3, <2>4
<1>2. Parsed(f, << \hEC + (w - 1) >>) => Case(f, at) = <<"IN", <<RegArg(AX, w), RegArg(DX, 2)>> >>
  BY <1>1
<1>3. Parsed(f, << \hEE + (w - 1) >>) => Case(f, at) = <<"OUT", <<RegArg(DX, 2), RegArg(AX, w)>> >>
  BY <1>1
<1>4. QED
  BY <1>2, <1>3, PortForms, GivesThat

LEMMA PortBack ==
    ASSUME NEW w \in {1, 2}, NEW v \in Byte, NEW f, NEW at
    PROVE  /\ Parsed(f, EncodeIn(RegArg(AX, w), ImmArg(v, 0)))
                => Gives(f, at, "IN", <<RegArg(AX, w), ImmArg(v, 0)>>)
           /\ Parsed(f, EncodeOut(ImmArg(v, 0), RegArg(AX, w)))
                => Gives(f, at, "OUT", <<ImmArg(v, 0), RegArg(AX, w)>>)
<1>1. ASSUME NEW n, n \in {\hE4, \hE6}, Parsed(f, << n + (w - 1), ByteOf(v) >>)
      PROVE  /\ n = \hE4 => Case(f, at) = <<"IN", <<RegArg(AX, w), ImmArg(v, 0)>> >>
             /\ n = \hE6 => Case(f, at) = <<"OUT", <<ImmArg(v, 0), RegArg(AX, w)>> >>
  <2> DEFINE b == n + (w - 1)
  <2>1. b \in WithByte /\ b \in n .. n + 1 /\ b \in \hE0 .. \hEF /\ WidthOf(b) = w
    BY <1>1, PortBytes
  <2>2. Parsed(f, <<b, ByteOf(v)>>)
    BY <1>1
  <2> HIDE DEF b
  <2>3. f.lead = b /\ b \in Int /\ Case(f, at) = RowE(f, at) /\ f.args[1] = v
    BY <2>1, <2>2, PairBack
  <2>4. /\ n = \hE4 => RowE(f, at) = <<"IN", <<RegArg(AX, w), ImmArg(v, 0)>> >>
        /\ n = \hE6 => RowE(f, at) = <<"OUT", <<ImmArg(v, 0), RegArg(AX, w)>> >>
    BY <1>1, <2>1, <2>3, RowEIs
  <2>5. QED
    BY <2>3, <2>4
<1>2. Parsed(f, << \hE4 + (w - 1), ByteOf(v) >>) => Case(f, at) = <<"IN", <<RegArg(AX, w), ImmArg(v, 0)>> >>
  BY <1>1
<1>3. Parsed(f, << \hE6 + (w - 1), ByteOf(v) >>) => Case(f, at) = <<"OUT", <<ImmArg(v, 0), RegArg(AX, w)>> >>
  BY <1>1
<1>4. QED
  BY <1>2, <1>3, PortForms, GivesThat

-----------------------------------------------------------------------------
(* INT, AAM and AAD, RET and RETF, and what has no operands.               *)

LEMMA InterruptBack ==
    ASSUME NEW v \in Byte, NEW f, NEW at
    PROVE  /\ Parsed(f, EncodeInt(ImmArg(v, 0))) => Gives(f, at, "INT", <<ImmArg(v, 0)>>)
           /\ Parsed(f, << \hD4, ByteOf(v) >>) => Gives(f, at, "AAM", <<ImmArg(v, 1)>>)
           /\ Parsed(f, << \hD5, ByteOf(v) >>) => Gives(f, at, "AAD", <<ImmArg(v, 1)>>)
<1>1. EncodeInt(ImmArg(v, 0)) = IF v = 3 THEN << \hCC >> ELSE << \hCD, ByteOf(v) >>
  BY DEF EncodeInt, ImmArg
<1>2. ASSUME Parsed(f, << \hCC >>)
      PROVE  Case(f, at) = <<"INT", <<ImmArg(3, 0)>> >>
  <2>1. \hCC \in Singles /\ \hCC \notin DOMAIN PlainOneByte
    BY DEF Singles, PlainOneByte
  <2>2. f.lead = \hCC /\ \hCC \in Int /\ Case(f, at) = RowsCtoD(f)
    BY <1>2, <2>1, SingleBack
  <2>3. QED
    BY <2>2, RowsCtoDIs
<1>3. ASSUME NEW b, b \in {\hCD, \hD4, \hD5}, Parsed(f, << b, ByteOf(v) >>)
      PROVE  /\ b = \hCD => Case(f, at) = <<"INT", <<ImmArg(v, 0)>> >>
             /\ b = \hD4 => Case(f, at) = <<"AAM", <<ImmArg(v, 1)>> >>
             /\ b = \hD5 => Case(f, at) = <<"AAD", <<ImmArg(v, 1)>> >>
  <2>1. b \in WithByte /\ b \in \hC0 .. \hDF
    BY <1>3 DEF WithByte
  <2>2. f.lead = b /\ b \in Int /\ Case(f, at) = RowsCtoD(f) /\ f.args[1] = v
    BY <1>3, <2>1, PairBack
  <2>3. QED
    BY <2>2, RowsCtoDIs
<1>4. Parsed(f, << \hCD, ByteOf(v) >>) => Case(f, at) = <<"INT", <<ImmArg(v, 0)>> >>
  BY <1>3
<1>5. Parsed(f, << \hD4, ByteOf(v) >>) => Case(f, at) = <<"AAM", <<ImmArg(v, 1)>> >>
  BY <1>3
<1>6. Parsed(f, << \hD5, ByteOf(v) >>) => Case(f, at) = <<"AAD", <<ImmArg(v, 1)>> >>
  BY <1>3
<1>7. QED
  BY <1>1, <1>2, <1>4, <1>5, <1>6, GivesThat

LEMMA PlainBack ==
    ASSUME NEW b \in DOMAIN PlainOneByte, NEW f, Parsed(f, <<b>>), NEW at
    PROVE  Gives(f, at, PlainOneByte[b], << >>)
<1>1. f.lead = b /\ \E x : Fields(f, x)
  BY ReadSingle
<1>2. Case(f, at) = <<PlainOneByte[b], << >> >>
  BY <1>1, CasePlain
<1>3. QED
  BY <1>2, GivesThat

LEMMA OneByteNames ==
    ASSUME NEW op \in DOMAIN OneByteCode
    PROVE  OneByteCode[op] \in DOMAIN PlainOneByte /\ PlainOneByte[OneByteCode[op]] = op
<1>1. CASE op \in {"DAA", "DAS", "AAA", "AAS", "CBW", "CWD", "FWAIT", "PUSHF"}
  BY <1>1 DEF OneByteCode, PlainOneByte
<1>2. CASE op \in {"POPF", "SAHF", "LAHF", "INTO", "IRET", "SALC", "XLAT", "HLT"}
  BY <1>2 DEF OneByteCode, PlainOneByte
<1>3. CASE op \in {"CMC", "CLC", "STC", "CLI", "STI", "CLD", "STD", "NOP"}
  BY <1>3 DEF OneByteCode, PlainOneByte
<1>4. QED
  BY <1>1, <1>2, <1>3 DEF OneByteCode

LEMMA OneByteBack ==
    ASSUME NEW op \in DOMAIN OneByteCode, NEW f, Parsed(f, << OneByteCode[op] >>), NEW at
    PROVE  Gives(f, at, op, << >>)
BY OneByteNames, PlainBack

LEMMA PlainReturnBack ==
    ASSUME NEW f, NEW at
    PROVE  /\ Parsed(f, EncodeReturn(\hC2, << >>)) => Gives(f, at, "RET", << >>)
           /\ Parsed(f, EncodeReturn(\hCA, << >>)) => Gives(f, at, "RETF", << >>)
<1>1. EncodeReturn(\hC2, << >>) = << \hC3 >> /\ EncodeReturn(\hCA, << >>) = << \hCB >>
  BY DEF EncodeReturn
<1>2. /\ \hC3 \in DOMAIN PlainOneByte /\ PlainOneByte[\hC3] = "RET"
      /\ \hCB \in DOMAIN PlainOneByte /\ PlainOneByte[\hCB] = "RETF"
  BY DEF PlainOneByte
<1>3. Parsed(f, << \hC3 >>) => Gives(f, at, "RET", << >>)
  BY <1>2, PlainBack
<1>4. Parsed(f, << \hCB >>) => Gives(f, at, "RETF", << >>)
  BY <1>2, PlainBack
<1>5. QED
  BY <1>1, <1>3, <1>4

LEMMA ReturnBack ==
    ASSUME NEW v \in Word16, NEW f, NEW at
    PROVE  /\ Parsed(f, EncodeReturn(\hC2, <<ImmArg(v, 2)>>)) => Gives(f, at, "RET", <<ImmArg(v, 2)>>)
           /\ Parsed(f, EncodeReturn(\hCA, <<ImmArg(v, 0)>>)) => Gives(f, at, "RETF", <<ImmArg(v, 0)>>)
<1>2. \A z : ImmArg(v, z).value = v /\ <<ImmArg(v, z)>> # << >> /\ <<ImmArg(v, z)>>[1] = ImmArg(v, z)
  BY DEF ImmArg
<1>3. \A b, z : EncodeReturn(b, <<ImmArg(v, z)>>) = Headed(b, Word(v))
  BY <1>2 DEF EncodeReturn, Headed
<1>5. ASSUME NEW b, b \in {\hC2, \hCA}, Parsed(f, Headed(b, Word(v)))
      PROVE  /\ b = \hC2 => Case(f, at) = <<"RET", <<ImmArg(v, 2)>> >>
             /\ b = \hCA => Case(f, at) = <<"RETF", <<ImmArg(v, 0)>> >>
  <2>1. b \in WithWord /\ b \in \hC0 .. \hDF
    BY <1>5 DEF WithWord
  <2>2. v \in Int /\ v % 65536 = v
    BY DEF Word16
  <2>3. f.lead = b /\ f.args[1] = v /\ \E x : Fields(f, x)
    BY <1>5, <2>1, <2>2, BareNumber, ReadWord
  <2>4. b \in Bare /\ b \notin DOMAIN PlainOneByte /\ b \in Int
    BY <2>1, NumbersAreBare
  <2>5. Case(f, at) = RowsCtoD(f)
    BY <2>1, <2>3, <2>4, BareCase
  <2>6. QED
    BY <2>3, <2>4, <2>5, RowsCtoDIs
<1>6. Parsed(f, Headed(\hC2, Word(v))) => Case(f, at) = <<"RET", <<ImmArg(v, 2)>> >>
  BY <1>5
<1>7. Parsed(f, Headed(\hCA, Word(v))) => Case(f, at) = <<"RETF", <<ImmArg(v, 0)>> >>
  BY <1>5
<1>8. QED
  BY <1>3, <1>6, <1>7, GivesThat

-----------------------------------------------------------------------------
(* Transfers of control.                                                   *)

LEMMA ShortTargetBack ==
    ASSUME NEW v \in Int, NEW at \in Int, InByte(v - at - 2),
           NEW f, f.len = 2, f.args[1] = (v - at - 2) % 256
    PROVE  ShortTarget(f, at) = ImmArg(v, 2)
<1> DEFINE u == v - at - 2
<1>1. u \in Int /\ -128 <= u /\ u < 128
  BY DEF InByte
<1> HIDE DEF u
<1>2. u % 256 \in Int /\ (u % 256) % 256 = u % 256 /\ (IF u % 256 >= 128 THEN (u % 256) - 256 ELSE u % 256) = u
  BY <1>1
<1>3. Signed(u % 256, 8) = u
  BY <1>2, SignedIs
<1>4. f.args[1] = u % 256
  BY DEF u
<1>5. at + f.len + Signed(f.args[1], 8) = v
  BY <1>3, <1>4 DEF u
<1>6. QED
  BY <1>5 DEF ShortTarget

LEMMA NearTargetBack ==
    ASSUME NEW v \in Int, NEW at \in Int, NEW f, f.len = 3, f.args[1] = (v - at - 3) % 65536
    PROVE  NearTarget(f, at) = ImmArg(v % 65536, 2)
<1>1. (at + 3 + ((v - at - 3) % 65536)) % 65536 = v % 65536
  OBVIOUS
<1>2. QED
  BY <1>1 DEF NearTarget

LEMMA JumpForms ==
    ASSUME NEW v \in Int, NEW at \in Int
    PROVE  /\ InByte(v - at - 2) => EncodeJmp(ImmArg(v, 2), at) = << \hEB, ByteOf(v - at - 2) >>
           /\ ~InByte(v - at - 2) /\ Near(v - at)
                => EncodeJmp(ImmArg(v, 2), at) = Headed(\hE9, Word(v - at - 3))
           /\ ~InByte(v - at - 2) /\ ~Near(v - at)
                => EncodeJmp(ImmArg(v, 2), at) = << \h66, \hE9 >> \o Dword(v - at - 6)
           /\ Near(v - at) => EncodeCall(ImmArg(v, 2), at) = Headed(\hE8, Word(v - at - 3))
           /\ ~Near(v - at) => EncodeCall(ImmArg(v, 2), at) = << \h66, \hE8 >> \o Dword(v - at - 6)
<1> DEFINE a == ImmArg(v, 2)
<1>1. IsImm(a) /\ a.value = v
  BY DEF ImmArg, IsImm
<1> HIDE DEF a
<1>2. /\ InByte(v - at - 2) => EncodeJmp(a, at) = << \hEB, ByteOf(v - at - 2) >>
      /\ ~InByte(v - at - 2) => EncodeJmp(a, at) = EncodeNear(\hE9, v - at)
      /\ EncodeCall(a, at) = EncodeNear(\hE8, v - at)
  BY <1>1 DEF EncodeJmp, EncodeCall
<1>3. \A b : /\ Near(v - at) => EncodeNear(b, v - at) = Headed(b, Word(v - at - 3))
             /\ ~Near(v - at) => EncodeNear(b, v - at) = << \h66, b >> \o Dword(v - at - 6)
  BY DEF EncodeNear, Headed
<1>4. QED
  <2>1. /\ Near(v - at) => EncodeNear(\hE9, v - at) = Headed(\hE9, Word(v - at - 3))
        /\ ~Near(v - at) => EncodeNear(\hE9, v - at) = << \h66, \hE9 >> \o Dword(v - at - 6)
    BY <1>3
  <2>2. /\ Near(v - at) => EncodeNear(\hE8, v - at) = Headed(\hE8, Word(v - at - 3))
        /\ ~Near(v - at) => EncodeNear(\hE8, v - at) = << \h66, \hE8 >> \o Dword(v - at - 6)
    BY <1>3
  <2>3. /\ InByte(v - at - 2) => EncodeJmp(a, at) = << \hEB, ByteOf(v - at - 2) >>
        /\ ~InByte(v - at - 2) /\ Near(v - at) => EncodeJmp(a, at) = Headed(\hE9, Word(v - at - 3))
        /\ ~InByte(v - at - 2) /\ ~Near(v - at) => EncodeJmp(a, at) = << \h66, \hE9 >> \o Dword(v - at - 6)
    BY <1>2, <2>1, Zenon
  <2>4. /\ Near(v - at) => EncodeCall(a, at) = Headed(\hE8, Word(v - at - 3))
        /\ ~Near(v - at) => EncodeCall(a, at) = << \h66, \hE8 >> \o Dword(v - at - 6)
    BY <1>2, <2>2, Zenon
  <2>5. QED
    BY <2>3, <2>4, Zenon DEF a

LEMMA BranchForms ==
    ASSUME NEW u \in Int, InByte(u - 2)
    PROVE  \A n : /\ EncodeJcc(n, u) = << \h70 + n, ByteOf(u - 2) >>
                  /\ EncodeLoop(n, u) = << n, ByteOf(u - 2) >>
  BY DEF EncodeJcc, EncodeLoop

LEMMA NearLength ==
    ASSUME NEW u \in Int, NEW b \in Byte
    PROVE  Len(Headed(b, Word(u))) = 3
<1> DEFINE t == Word(u)
<1>2. t \in Seq(Byte) /\ Len(t) = 2
  BY WordBytes
<1> HIDE DEF t
<1>5. Len(Headed(b, t)) = 1 + Len(t)
  BY <1>2, HeadedIs
<1>4. Len(Headed(b, t)) = 3
  BY <1>2, <1>5
<1>6. QED
  BY <1>4 DEF t

\* What sixteen bits hold of v, a name that the lemmas about jumps leave closed.
Wrapped(v) == v % 65536

LEMMA JumpBack ==
    ASSUME NEW v \in Int, NEW at \in Int, NEW f, Parsed(f, EncodeJmp(ImmArg(v, 2), at)),
           f.len = Len(EncodeJmp(ImmArg(v, 2), at)), InByte(v - at - 2) \/ Near(v - at)
    PROVE  Gives(f, at, "JMP", <<ImmArg(IF InByte(v - at - 2) THEN v ELSE Wrapped(v), 2)>>)
<1>1. CASE InByte(v - at - 2)
  <2>1. EncodeJmp(ImmArg(v, 2), at) = << \hEB, ByteOf(v - at - 2) >>
    BY <1>1, JumpForms
  <2>2. \hEB \in WithByte /\ v - at - 2 \in Int
    BY DEF WithByte
  <2>3. f.lead = \hEB /\ f.args[1] = (v - at - 2) % 256 /\ \E x : Fields(f, x)
    BY <2>1, <2>2, BareNumber, ReadPair
  <2>4. \hEB \in Bare /\ \hEB \notin DOMAIN PlainOneByte /\ \hEB \in Int
    BY <2>2, NumbersAreBare
  <2>5. Case(f, at) = RowE(f, at)
    BY <2>3, <2>4, BareCase
  <2>6. Case(f, at) = <<"JMP", <<ShortTarget(f, at)>> >>
    BY <2>3, <2>4, <2>5, RowEIs
  <2>7. f.len = 2
    BY <2>1
  <2>8. ShortTarget(f, at) = ImmArg(v, 2)
    BY <1>1, <2>3, <2>7, ShortTargetBack
  <2>9. QED
    BY <1>1, <2>6, <2>8, GivesThat
<1>2. CASE ~InByte(v - at - 2)
  <2>1. EncodeJmp(ImmArg(v, 2), at) = Headed(\hE9, Word(v - at - 3))
    BY <1>2, JumpForms
  <2>2. \hE9 \in WithWord /\ v - at - 3 \in Int
    BY DEF WithWord
  <2>3. f.lead = \hE9 /\ f.args[1] = (v - at - 3) % 65536 /\ \E x : Fields(f, x)
    BY <2>1, <2>2, BareNumber, ReadWord
  <2>4. \hE9 \in Bare /\ \hE9 \notin DOMAIN PlainOneByte /\ \hE9 \in Int
    BY <2>2, NumbersAreBare
  <2>5. Case(f, at) = RowE(f, at)
    BY <2>3, <2>4, BareCase
  <2>6. Case(f, at) = <<"JMP", <<NearTarget(f, at)>> >>
    BY <2>3, <2>4, <2>5, RowEIs
  <2>7. Len(Headed(\hE9, Word(v - at - 3))) = 3
    <3>1. \hE9 \in Byte
      BY DEF Byte
    <3>2. QED
      BY <2>2, <3>1, NearLength, Zenon
  <2>8. f.len = 3
    BY <2>1, <2>7, Zenon
  <2>9. NearTarget(f, at) = ImmArg(Wrapped(v), 2)
    BY <2>3, <2>8, NearTargetBack DEF Wrapped
  <2>10. QED
    BY <1>2, <2>6, <2>9, GivesThat
<1>3. QED
  BY <1>1, <1>2

LEMMA CallBack ==
    ASSUME NEW v \in Int, NEW at \in Int, Near(v - at), NEW f, Parsed(f, EncodeCall(ImmArg(v, 2), at)),
           f.len = Len(EncodeCall(ImmArg(v, 2), at))
    PROVE  Gives(f, at, "CALL", <<ImmArg(Wrapped(v), 2)>>)
<1>1. EncodeCall(ImmArg(v, 2), at) = Headed(\hE8, Word(v - at - 3))
  BY JumpForms
<1>2. \hE8 \in WithWord /\ v - at - 3 \in Int
  BY DEF WithWord
<1>3. f.lead = \hE8 /\ f.args[1] = (v - at - 3) % 65536 /\ \E x : Fields(f, x)
  BY <1>1, <1>2, BareNumber, ReadWord
<1>4. \hE8 \in Bare /\ \hE8 \notin DOMAIN PlainOneByte /\ \hE8 \in Int
  BY <1>2, NumbersAreBare
<1>5. Case(f, at) = RowE(f, at)
  BY <1>3, <1>4, BareCase
<1>6. Case(f, at) = <<"CALL", <<NearTarget(f, at)>> >>
  BY <1>3, <1>4, <1>5, RowEIs
<1>7. Len(Headed(\hE8, Word(v - at - 3))) = 3
  <2>1. \hE8 \in Byte
    BY DEF Byte
  <2>2. QED
    BY <1>2, <2>1, NearLength, Zenon
<1>8. f.len = 3
  BY <1>1, <1>7, Zenon
<1>9. NearTarget(f, at) = ImmArg(Wrapped(v), 2)
  BY <1>3, <1>8, NearTargetBack DEF Wrapped
<1>10. QED
  BY <1>6, <1>9, GivesThat

LEMMA BranchBack ==
    ASSUME NEW v \in Int, NEW at \in Int, InByte(v - at - 2), NEW f, f.len = 2
    PROVE  /\ \A n \in 0 .. 15 : Parsed(f, EncodeJcc(n, v - at)) => Gives(f, at, Jcc[n + 1], <<ImmArg(v, 2)>>)
           /\ \A n \in 0 .. 3 : Parsed(f, EncodeLoop(\hE0 + n, v - at))
                                  => Gives(f, at, Loops[n + 1], <<ImmArg(v, 2)>>)
<1>1. v - at - 2 \in Int
  OBVIOUS
<1>0. v - at \in Int
  OBVIOUS
<1>2. ASSUME NEW b, b \in WithByte, Parsed(f, << b, ByteOf(v - at - 2) >>)
      PROVE  f.lead = b /\ ShortTarget(f, at) = ImmArg(v, 2) /\ \E x : Fields(f, x)
  <2>1. f.lead = b /\ f.args[1] = (v - at - 2) % 256 /\ \E x : Fields(f, x)
    BY <1>1, <1>2, BareNumber, ReadPair
  <2>2. QED
    BY <2>1, ShortTargetBack
<1>3. ASSUME NEW n \in 0 .. 15, Parsed(f, EncodeJcc(n, v - at))
      PROVE  Gives(f, at, Jcc[n + 1], <<ImmArg(v, 2)>>)
  <2> DEFINE b == \h70 + n
  <2>1. b \in WithByte /\ b \in \h70 .. \h7F /\ b % 16 = n
    BY DEF WithByte
  <2>2. Parsed(f, << b, ByteOf(v - at - 2) >>)
    BY <1>0, <1>1, <1>3, BranchForms
  <2> HIDE DEF b
  <2>3. f.lead = b /\ ShortTarget(f, at) = ImmArg(v, 2) /\ \E x : Fields(f, x)
    BY <1>2, <2>1, <2>2
  <2>4. Case(f, at) = <<Jcc[(b % 16) + 1], <<ShortTarget(f, at)>> >>
    BY <2>1, <2>3, CaseJcc
  <2>5. QED
    BY <2>1, <2>3, <2>4, GivesThat
<1>4. ASSUME NEW n \in 0 .. 3, Parsed(f, EncodeLoop(\hE0 + n, v - at))
      PROVE  Gives(f, at, Loops[n + 1], <<ImmArg(v, 2)>>)
  <2> DEFINE b == \hE0 + n
  <2>1. b \in WithByte /\ b \in \hE0 .. \hE3 /\ b \in \hE0 .. \hEF /\ b - \hE0 = n
    BY DEF WithByte
  <2>2. Parsed(f, << b, ByteOf(v - at - 2) >>)
    BY <1>0, <1>1, <1>4, BranchForms
  <2> HIDE DEF b
  <2>3. f.lead = b /\ ShortTarget(f, at) = ImmArg(v, 2) /\ \E x : Fields(f, x)
    BY <1>2, <2>1, <2>2
  <2>4. b \in Bare /\ b \notin DOMAIN PlainOneByte /\ b \in Int
    BY <2>1, NumbersAreBare
  <2>5. Case(f, at) = RowE(f, at)
    BY <2>1, <2>3, <2>4, BareCase
  <2>6. Case(f, at) = <<Loops[b - \hE0 + 1], <<ShortTarget(f, at)>> >>
    BY <2>1, <2>3, <2>4, <2>5, RowEIs
  <2>7. QED
    BY <2>1, <2>3, <2>6, GivesThat
<1>5. QED
  BY <1>3, <1>4

LEMMA IndirectBack ==
    ASSUME NEW a, NEW f, f.op # "UD_NOP", NEW at
    PROVE  /\ Sized(a, 2) /\ Parsed(f, EncodeCall(a, at)) => Gives(f, at, "CALL", <<Anew(a, f.segment)>>)
           /\ Sized(a, 2) /\ Parsed(f, EncodeJmp(a, at)) => Gives(f, at, "JMP", <<Anew(a, f.segment)>>)
           /\ Sized(a, 4) /\ IsMem(a) /\ Parsed(f, EncodeFar(\h9A, 3, a))
                => Gives(f, at, "CALL_FAR", <<Anew(a, f.segment)>>)
           /\ Sized(a, 4) /\ IsMem(a) /\ Parsed(f, EncodeFar(\hEA, 5, a))
                => Gives(f, at, "JMP_FAR", <<Anew(a, f.segment)>>)
<1>1. \hFF \in ModRMOpcodes /\ WidthOf(\hFF) = 2
  BY DEF ModRMOpcodes, ModRMRowF, WidthOf
<1>2. ASSUME NEW n \in 2 .. 5, NEW w, w = IF n \in {3, 5} THEN 4 ELSE 2, Sized(a, w),
             Parsed(f, Headed(\hFF, ModRM(a, n)))
      PROVE  Case(f, at) = <<Group5[n + 1], <<Anew(a, f.segment)>> >>
  <2>1. f.lead = \hFF /\ Reg(f.rm) = n /\ RM(f, w) = Anew(a, f.segment) /\ \E x : Fields(f, x)
    BY <1>1, <1>2, AloneBack
  <2>2. n + 1 \in {4, 6} <=> n \in {3, 5}
    OBVIOUS
  <2>3. n \in {3, 5} => Case(f, at) = <<Group5[n + 1], <<RM(f, 4)>> >>
    BY <1>1, <2>1, <2>2, CaseGroup
  <2>4. n \notin {3, 5} => Case(f, at) = <<Group5[n + 1], <<RM(f, 2)>> >>
    BY <1>1, <2>1, <2>2, CaseGroup
  <2>5. QED
    BY <1>2, <2>1, <2>3, <2>4
<1>3. ASSUME Sized(a, 2)
      PROVE  EncodeCall(a, at) = Headed(\hFF, ModRM(a, 2)) /\ EncodeJmp(a, at) = Headed(\hFF, ModRM(a, 4))
  <2>1. ~IsImm(a)
    BY <1>3, SizedKinds
  <2>2. QED
    BY <2>1 DEF EncodeCall, EncodeJmp, EncodeIndirectJump, Headed
<1>4. IsMem(a) => /\ EncodeFar(\h9A, 3, a) = Headed(\hFF, ModRM(a, 3))
                  /\ EncodeFar(\hEA, 5, a) = Headed(\hFF, ModRM(a, 5))
  BY DEF EncodeFar, MemRegFar, ModRM, Headed
<1>5. Group5[3] = "CALL" /\ Group5[5] = "JMP" /\ Group5[4] = "CALL_FAR" /\ Group5[6] = "JMP_FAR"
  BY DEF Group5
<1>6. Sized(a, 2) /\ Parsed(f, Headed(\hFF, ModRM(a, 2))) => Case(f, at) = <<"CALL", <<Anew(a, f.segment)>> >>
  BY <1>2, <1>5
<1>7. Sized(a, 2) /\ Parsed(f, Headed(\hFF, ModRM(a, 4))) => Case(f, at) = <<"JMP", <<Anew(a, f.segment)>> >>
  BY <1>2, <1>5
<1>8. Sized(a, 4) /\ Parsed(f, Headed(\hFF, ModRM(a, 3)))
        => Case(f, at) = <<"CALL_FAR", <<Anew(a, f.segment)>> >>
  BY <1>2, <1>5
<1>9. Sized(a, 4) /\ Parsed(f, Headed(\hFF, ModRM(a, 5)))
        => Case(f, at) = <<"JMP_FAR", <<Anew(a, f.segment)>> >>
  BY <1>2, <1>5
<1>10. QED
  BY <1>3, <1>4, <1>6, <1>7, <1>8, <1>9, GivesThat

LEMMA FarBack ==
    ASSUME NEW v \in Word16, NEW g \in Word16, NEW f, NEW at
    PROVE  /\ Parsed(f, EncodeFar(\h9A, 3, FarArg(v, g))) => Gives(f, at, "CALL_FAR", <<FarArg(v, g)>>)
           /\ Parsed(f, EncodeFar(\hEA, 5, FarArg(v, g))) => Gives(f, at, "JMP_FAR", <<FarArg(v, g)>>)
<1>1. v \in Int /\ v % 65536 = v /\ g \in Int /\ g % 65536 = g
  BY DEF Word16
<1>2. \A b, n : EncodeFar(b, n, FarArg(v, g)) = HeadedWith(b, Word(v), Word(g))
  BY DEF EncodeFar, FarArg, IsMem, HeadedWith
<1>3. ASSUME NEW b, b \in WithFar, Parsed(f, HeadedWith(b, Word(v), Word(g)))
      PROVE  /\ b = \h9A => Case(f, at) = <<"CALL_FAR", <<FarArg(v, g)>> >>
             /\ b = \hEA => Case(f, at) = <<"JMP_FAR", <<FarArg(v, g)>> >>
  <2>1. f.lead = b /\ f.args[1] = v /\ f.args[2] = g /\ \E x : Fields(f, x)
    BY <1>1, <1>3, ReadFar
  <2>2. b \in Bare /\ b \notin DOMAIN PlainOneByte /\ b \in Int
    BY <1>3, NumbersAreBare
  <2>3. CASE b = \h9A
    <3>1. Case(f, at) = Rows9toB(f)
      BY <2>1, <2>2, <2>3, BareCase
    <3>2. QED
      BY <2>1, <2>2, <2>3, <3>1, Rows9toBIs
  <2>4. CASE b = \hEA
    <3>1. Case(f, at) = RowE(f, at)
      BY <2>1, <2>2, <2>4, BareCase
    <3>2. QED
      BY <2>1, <2>2, <2>4, <3>1, RowEIs
  <2>5. QED
    BY <2>3, <2>4
<1>4. \h9A \in WithFar /\ \hEA \in WithFar
  BY DEF WithFar
<1>5. Parsed(f, HeadedWith(\h9A, Word(v), Word(g))) => Case(f, at) = <<"CALL_FAR", <<FarArg(v, g)>> >>
  BY <1>3, <1>4
<1>6. Parsed(f, HeadedWith(\hEA, Word(v), Word(g))) => Case(f, at) = <<"JMP_FAR", <<FarArg(v, g)>> >>
  BY <1>3, <1>4
<1>7. QED
  BY <1>2, <1>5, <1>6, GivesThat

-----------------------------------------------------------------------------
(* The FPU.                                                                *)

(* An escape and a byte whose mod field is 3.                              *)
LEMMA EscapePair ==
    ASSUME NEW b \in FPUEscapes, NEW x \in Byte, Mod(x) = 3, NEW f, f.op # "UD_NOP",
           Parsed(f, <<b, x>>), NEW at
    PROVE  /\ Case(f, at)[1] = FpuRegisterForm(f)[1] /\ Case(f, at)[2] = FpuRegisterForm(f)[2]
           /\ f.lead = b /\ f.fpu = x
<1>1. Follow(<<b, x>>) = x /\ <<b, x>>[1] = b
  BY DEF Follow
<1>2. Fields(f, x) /\ f.lead = b
  BY <1>1 DEF Parsed
<1>3. QED
  BY <1>2, CaseEscape

LEMMA StackPair ==
    ASSUME NEW b \in FPUEscapes, NEW a, a.kind # "mem", a.reg \in 0 .. 7, NEW n \in 0 .. 7,
           NEW f, f.op # "UD_NOP", Parsed(f, Headed(b, ModRM(a, n))), NEW at
    PROVE  /\ Case(f, at)[1] = FpuRegisterForm(f)[1] /\ Case(f, at)[2] = FpuRegisterForm(f)[2]
           /\ f.lead = b /\ Reg(f.fpu) = n /\ f.fpu % 8 = a.reg
<1> DEFINE x == 64 * 3 + 8 * n + a.reg
<1>1. x \in Byte /\ Mod(x) = 3 /\ Reg(x) = n /\ Rm(x) = a.reg
  BY ByteFields
<1>2. ModRM(a, n) = <<x>>
  <2>1. 192 + 8 * n + a.reg = x
    OBVIOUS
  <2>2. QED
    BY <2>1 DEF ModRM, IsMem, RmReg
<1> HIDE DEF x
<1>3. b \in Byte
  BY DEF FPUEscapes, Byte
<1>4. Headed(b, ModRM(a, n)) = <<b, x>>
  BY <1>1, <1>2, <1>3, TwoBytes DEF Headed
<1>5. Parsed(f, <<b, x>>)
  BY <1>4
<1>6. QED
  BY <1>1, <1>5, EscapePair DEF Rm

LEMMA RegisterForms ==
    ASSUME NEW d
    PROVE  LET x  == d.fpu
               st == STArg(x % 8)
           IN  /\ d.lead = \hD8 => FpuRegisterForm(d) = <<FpuArith[Reg(x) + 1], <<STArg(0), st>> >>
               /\ d.lead = \hDC => FpuRegisterForm(d) = <<FpuArithR[Reg(x) + 1], <<st, STArg(0)>> >>
               /\ d.lead = \hDE /\ Reg(x) # 3
                    => FpuRegisterForm(d) = <<FpuArithP[Reg(x) + 1], <<st, STArg(0)>> >>
               /\ d.lead = \hDE /\ Reg(x) = 3
                    => FpuRegisterForm(d) = <<FpuArithP[Reg(x) + 1], <<STArg(0), st>> >>
               /\ d.lead = \hD9 /\ Reg(x) = 0 => FpuRegisterForm(d) = <<"FLD", <<st>> >>
               /\ d.lead = \hD9 /\ Reg(x) = 1 => FpuRegisterForm(d) = <<"FXCH", <<st>> >>
               /\ d.lead = \hD9 /\ Reg(x) > 1 => FpuRegisterForm(d) = <<PlainFpu(x), << >> >>
               /\ d.lead = \hDA => FpuRegisterForm(d) = <<"FUCOMPP", << >> >>
               /\ d.lead = \hDB => FpuRegisterForm(d) = <<PlainControl[x - \hDF], << >> >>
               /\ d.lead = \hDD => FpuRegisterForm(d) = <<FpuStack[Reg(x) + 1], <<st>> >>
               /\ d.lead = \hDF => FpuRegisterForm(d) = <<"FSTSW", <<RegArg(AX, 2)>> >>
<1>1. Reg(d.fpu) = 0 => Reg(d.fpu) # 1 /\ ~(Reg(d.fpu) > 1)
  OBVIOUS
<1>2. Reg(d.fpu) = 1 => Reg(d.fpu) # 0 /\ ~(Reg(d.fpu) > 1)
  OBVIOUS
<1>3. Reg(d.fpu) > 1 => Reg(d.fpu) # 0 /\ Reg(d.fpu) # 1
  OBVIOUS
<1> DEFINE x == d.fpu
           st == STArg(x % 8)
<1>4. d.lead = \hD8 => FpuRegisterForm(d) = <<FpuArith[Reg(x) + 1], <<STArg(0), st>> >>
  BY DEF FpuRegisterForm
<1>5. d.lead = \hDC => FpuRegisterForm(d) = <<FpuArithR[Reg(x) + 1], <<st, STArg(0)>> >>
  BY DEF FpuRegisterForm
<1>6. /\ d.lead = \hDE /\ Reg(x) # 3 => FpuRegisterForm(d) = <<FpuArithP[Reg(x) + 1], <<st, STArg(0)>> >>
      /\ d.lead = \hDE /\ Reg(x) = 3 => FpuRegisterForm(d) = <<FpuArithP[Reg(x) + 1], <<STArg(0), st>> >>
  BY DEF FpuRegisterForm
<1>7. /\ d.lead = \hD9 /\ Reg(x) = 0 => FpuRegisterForm(d) = <<"FLD", <<st>> >>
      /\ d.lead = \hD9 /\ Reg(x) = 1 => FpuRegisterForm(d) = <<"FXCH", <<st>> >>
      /\ d.lead = \hD9 /\ Reg(x) > 1 => FpuRegisterForm(d) = <<PlainFpu(x), << >> >>
  BY SMTT(30), <1>1, <1>2, <1>3 DEF FpuRegisterForm
<1>8. /\ d.lead = \hDA => FpuRegisterForm(d) = <<"FUCOMPP", << >> >>
      /\ d.lead = \hDB => FpuRegisterForm(d) = <<PlainControl[x - \hDF], << >> >>
  BY DEF FpuRegisterForm
<1>9. /\ d.lead = \hDD => FpuRegisterForm(d) = <<FpuStack[Reg(x) + 1], <<st>> >>
      /\ d.lead = \hDF => FpuRegisterForm(d) = <<"FSTSW", <<RegArg(AX, 2)>> >>
  BY DEF FpuRegisterForm
<1>10. QED
  BY <1>4, <1>5, <1>6, <1>7, <1>8, <1>9

LEMMA StackArithBack ==
    ASSUME NEW n \in 0 .. 7, NEW r \in 0 .. 7, NEW f, f.op # "UD_NOP", NEW at
    PROVE  /\ Parsed(f, Headed(\hD8, ModRM(STArg(r), n)))
                => Gives(f, at, FpuArith[n + 1], <<STArg(0), STArg(r)>>)
           /\ Parsed(f, Headed(\hDC, ModRM(STArg(r), n)))
                => Gives(f, at, FpuArithR[n + 1], <<STArg(r), STArg(0)>>)
           /\ n # 3 /\ Parsed(f, Headed(\hDE, ModRM(STArg(r), n)))
                => Gives(f, at, FpuArithP[n + 1], <<STArg(r), STArg(0)>>)
           /\ n = 0 /\ Parsed(f, Headed(\hD9, ModRM(STArg(r), n)))
                => Gives(f, at, "FLD", <<STArg(r)>>)
           /\ n = 1 /\ Parsed(f, Headed(\hD9, ModRM(STArg(r), n)))
                => Gives(f, at, "FXCH", <<STArg(r)>>)
           /\ Parsed(f, Headed(\hDD, ModRM(STArg(r), n)))
                => Gives(f, at, FpuStack[n + 1], <<STArg(r)>>)
           /\ Parsed(f, Headed(\hDF, ModRM(RegArg(AX, 2), n)))
                => Gives(f, at, "FSTSW", <<RegArg(AX, 2)>>)
<1>1. STArg(r).kind # "mem" /\ STArg(r).reg = r
  BY StackArgIs DEF IsMem
<1>2. ASSUME NEW b, b \in FPUEscapes, Parsed(f, Headed(b, ModRM(STArg(r), n)))
      PROVE  /\ Case(f, at)[1] = FpuRegisterForm(f)[1] /\ Case(f, at)[2] = FpuRegisterForm(f)[2]
             /\ f.lead = b /\ Reg(f.fpu) = n /\ f.fpu % 8 = r
  <2> DEFINE a == STArg(r)
  <2>1. a.kind # "mem" /\ a.reg = r /\ Parsed(f, Headed(b, ModRM(a, n)))
    BY <1>1, <1>2
  <2> HIDE DEF a
  <2>2. QED
    BY <1>2, <2>1, StackPair
<1>3. \A b \in {\hD8, \hD9, \hDC, \hDD, \hDE, \hDF} : b \in FPUEscapes
  BY DEF FPUEscapes
<1>4. ASSUME NEW op, NEW v, FpuRegisterForm(f) = <<op, v>>,
             Case(f, at)[1] = FpuRegisterForm(f)[1], Case(f, at)[2] = FpuRegisterForm(f)[2]
      PROVE  Gives(f, at, op, v)
  BY <1>4 DEF Gives
<1>5. Parsed(f, Headed(\hD8, ModRM(STArg(r), n))) => Gives(f, at, FpuArith[n + 1], <<STArg(0), STArg(r)>>)
  BY <1>2, <1>3, <1>4, RegisterForms
<1>6. Parsed(f, Headed(\hDC, ModRM(STArg(r), n))) => Gives(f, at, FpuArithR[n + 1], <<STArg(r), STArg(0)>>)
  BY <1>2, <1>3, <1>4, RegisterForms
<1>7. n # 3 /\ Parsed(f, Headed(\hDE, ModRM(STArg(r), n)))
        => Gives(f, at, FpuArithP[n + 1], <<STArg(r), STArg(0)>>)
  BY <1>2, <1>3, <1>4, RegisterForms
<1>8. n = 0 /\ Parsed(f, Headed(\hD9, ModRM(STArg(r), n))) => Gives(f, at, "FLD", <<STArg(r)>>)
  BY <1>2, <1>3, <1>4, RegisterForms
<1>9. n = 1 /\ Parsed(f, Headed(\hD9, ModRM(STArg(r), n))) => Gives(f, at, "FXCH", <<STArg(r)>>)
  BY <1>2, <1>3, <1>4, RegisterForms
<1>10. Parsed(f, Headed(\hDD, ModRM(STArg(r), n))) => Gives(f, at, FpuStack[n + 1], <<STArg(r)>>)
  BY <1>2, <1>3, <1>4, RegisterForms
<1>11. ASSUME Parsed(f, Headed(\hDF, ModRM(RegArg(AX, 2), n)))
       PROVE  Gives(f, at, "FSTSW", <<RegArg(AX, 2)>>)
  <2>1. RegArg(AX, 2).kind # "mem" /\ RegArg(AX, 2).reg \in 0 .. 7
    BY DEF RegArg, AX
  <2>2. /\ Case(f, at)[1] = FpuRegisterForm(f)[1] /\ Case(f, at)[2] = FpuRegisterForm(f)[2]
        /\ f.lead = \hDF
    BY SMTT(30), <1>3, <1>11, <2>1, StackPair
  <2>3. QED
    BY <1>4, <2>2, RegisterForms
<1>12. QED
  BY <1>5, <1>6, <1>7, <1>8, <1>9, <1>10, <1>11

(* Without operands.                                                       *)
LEMMA NoOperandNames ==
    ASSUME NEW op \in DOMAIN FpuNoOperand
    PROVE  PlainFpu(FpuNoOperand[op]) = op
<1>1. CASE op \in {"F2XM1", "FABS", "FCHS", "FCOS", "FDECSTP", "FINCSTP", "FLD1", "FLDL2T", "FLDL2E"}
  BY <1>1 DEF PlainFpu, FpuNoOperand
<1>2. CASE op \in {"FLDPI", "FLDLG2", "FLDLN2", "FLDZ", "FNOP", "FPATAN", "FPREM", "FPREM1", "FPTAN"}
  BY <1>2 DEF PlainFpu, FpuNoOperand
<1>3. CASE op \in {"FRNDINT", "FSCALE", "FSIN", "FSINCOS", "FSQRT", "FTST", "FXAM", "FXTRACT", "FYL2X", "FYL2XP1"}
  BY <1>3 DEF PlainFpu, FpuNoOperand
<1>4. QED
  BY <1>1, <1>2, <1>3 DEF FpuNoOperand

LEMMA ControlNames ==
    ASSUME NEW op, op \in {"FCLEX", "FDISI", "FENI", "FINIT"}
    PROVE  FpuControl[op] \in \hE0 .. \hE3 /\ PlainControl[FpuControl[op] - \hDF] = op
BY DEF FpuControl, PlainControl

LEMMA PlainFpuBack ==
    ASSUME NEW f, f.op # "UD_NOP", NEW at
    PROVE  /\ \A op \in DOMAIN FpuNoOperand : Parsed(f, <<\hD9, FpuNoOperand[op]>>) => Gives(f, at, op, << >>)
           /\ \A op \in {"FCLEX", "FDISI", "FENI", "FINIT"} :
                 Parsed(f, <<\hDB, FpuControl[op]>>) => Gives(f, at, op, << >>)
           /\ Parsed(f, <<\hDA, \hE9>>) => Gives(f, at, "FUCOMPP", << >>)
<1>1. \hD9 \in FPUEscapes /\ \hDB \in FPUEscapes /\ \hDA \in FPUEscapes
  BY DEF FPUEscapes
<1>2. ASSUME NEW op \in DOMAIN FpuNoOperand, Parsed(f, <<\hD9, FpuNoOperand[op]>>)
      PROVE  Gives(f, at, op, << >>)
  <2> DEFINE x == FpuNoOperand[op]
  <2>1. x \in {\hD0, \hE0, \hE1, \hE4, \hE5} \cup \hE8 .. \hEE \cup \hF0 .. \hFF
    BY FpuCodes
  <2>2. Parsed(f, <<\hD9, x>>) /\ PlainFpu(x) = op
    BY <1>2, NoOperandNames
  <2> HIDE DEF x
  <2>3. x \in Byte /\ Mod(x) = 3 /\ Reg(x) > 1
    BY <2>1 DEF Byte, Mod, Reg
  <2>4. /\ Case(f, at)[1] = FpuRegisterForm(f)[1] /\ Case(f, at)[2] = FpuRegisterForm(f)[2]
        /\ f.lead = \hD9 /\ f.fpu = x
    BY <1>1, <2>2, <2>3, EscapePair
  <2>5. FpuRegisterForm(f) = <<op, << >> >>
    BY <2>2, <2>3, <2>4, RegisterForms
  <2>6. QED
    BY <2>4, <2>5 DEF Gives
<1>3. ASSUME NEW op, op \in {"FCLEX", "FDISI", "FENI", "FINIT"}, Parsed(f, <<\hDB, FpuControl[op]>>)
      PROVE  Gives(f, at, op, << >>)
  <2> DEFINE x == FpuControl[op]
  <2>1. x \in \hE0 .. \hE3 /\ PlainControl[x - \hDF] = op
    BY <1>3, ControlNames
  <2>2. Parsed(f, <<\hDB, x>>)
    BY <1>3
  <2> HIDE DEF x
  <2>3. x \in Byte /\ Mod(x) = 3
    BY <2>1 DEF Byte, Mod
  <2>4. /\ Case(f, at)[1] = FpuRegisterForm(f)[1] /\ Case(f, at)[2] = FpuRegisterForm(f)[2]
        /\ f.lead = \hDB /\ f.fpu = x
    BY <1>1, <2>2, <2>3, EscapePair
  <2>5. FpuRegisterForm(f) = <<op, << >> >>
    BY <2>1, <2>4, RegisterForms
  <2>6. QED
    BY <2>4, <2>5 DEF Gives
<1>4. ASSUME Parsed(f, <<\hDA, \hE9>>)
      PROVE  Gives(f, at, "FUCOMPP", << >>)
  <2>1. \hE9 \in Byte /\ Mod(\hE9) = 3
    BY DEF Byte, Mod
  <2>2. /\ Case(f, at)[1] = FpuRegisterForm(f)[1] /\ Case(f, at)[2] = FpuRegisterForm(f)[2]
        /\ f.lead = \hDA
    BY <1>1, <1>4, <2>1, EscapePair
  <2>3. QED
    BY <2>2, RegisterForms DEF Gives
<1>5. QED
  BY <1>2, <1>3, <1>4

(* Of memory.                                                              *)
LEMMA MemoryEscapeBack ==
    ASSUME NEW w, NEW a, Sized(a, w), IsMem(a), NEW n \in 0 .. 7, NEW b \in FPUEscapes,
           NEW f, f.op # "UD_NOP", Parsed(f, Headed(b, ModRM(a, n))), NEW at
    PROVE  /\ Case(f, at)[1] = FpuMemoryForm(f)[1] /\ Case(f, at)[2] = FpuMemoryForm(f)[2]
           /\ f.lead = b /\ Reg(f.rm) = n /\ RM(f, w) = Anew(a, f.segment)
           /\ \A v : RM(f, v) = Again(a, f.segment, v)
<1> DEFINE t == ModRM(a, n)
<1>1. b \in Byte
  BY DEF FPUEscapes, Byte
<1>2. Operand(a) /\ a.kind = "mem"
  BY DEF Sized, IsMem
<1>3. OperandBytes(a, t, n)
  BY <1>2, OperandWritten
<1>4. t \in Seq(Byte) /\ t # << >> /\ t[1] \in Byte /\ Mod(t[1]) # 3
  BY <1>2, <1>3 DEF OperandBytes
<1> HIDE DEF t
<1>5. Follow(Headed(b, t)) = t[1] /\ Headed(b, t)[1] = b
  BY <1>1, <1>4, LeadOf DEF Headed
<1>6. Fields(f, t[1]) /\ f.lead = b
  BY <1>5 DEF Parsed, t
<1>7. /\ TakesModRM(b, t[1])
      /\ Case(f, at)[1] = FpuMemoryForm(f)[1] /\ Case(f, at)[2] = FpuMemoryForm(f)[2]
  BY <1>4, <1>6, CaseEscape
<1>8. Fetched(f, a, b, n)
  BY <1>1, <1>7, FetchAlone DEF t
<1>9. QED
  BY <1>7, <1>8, FetchedIs

LEMMA MemoryEscapeFields ==
    ASSUME NEW w, NEW a, Sized(a, w), IsMem(a), NEW n \in 0 .. 7, NEW b \in FPUEscapes,
           NEW f, f.op # "UD_NOP", Parsed(f, Headed(b, ModRM(a, n)))
    PROVE  f.lead = b /\ Reg(f.rm) = n /\ RM(f, w) = Anew(a, f.segment) /\ \A v : RM(f, v) = Again(a, f.segment, v)
<1>1. /\ Case(f, 0)[1] = FpuMemoryForm(f)[1] /\ Case(f, 0)[2] = FpuMemoryForm(f)[2]
      /\ f.lead = b /\ Reg(f.rm) = n /\ RM(f, w) = Anew(a, f.segment)
      /\ \A v : RM(f, v) = Again(a, f.segment, v)
  BY MemoryEscapeBack
<1>2. QED
  BY <1>1

LEMMA MemoryGives ==
    ASSUME NEW w, NEW a, Sized(a, w), IsMem(a), NEW n \in 0 .. 7, NEW b \in FPUEscapes,
           NEW f, f.op # "UD_NOP", Parsed(f, Headed(b, ModRM(a, n))), NEW at
    PROVE  \A op, v : FpuMemoryForm(f) = <<op, v>> => Gives(f, at, op, v)
<1>1. Case(f, at)[1] = FpuMemoryForm(f)[1] /\ Case(f, at)[2] = FpuMemoryForm(f)[2]
  BY MemoryEscapeBack
<1>2. QED
  BY <1>1 DEF Gives

LEMMA MemoryArithBack ==
    ASSUME NEW w \in {4, 8}, NEW a, Sized(a, w), IsMem(a), NEW n \in 0 .. 7, NEW b, NEW f, f.op # "UD_NOP",
           b = (IF w = 4 THEN \hD8 ELSE \hDC), Parsed(f, Headed(b, ModRM(a, n))), NEW at
    PROVE  Gives(f, at, FpuArith[n + 1], <<STArg(0), Anew(a, f.segment)>>)
<1>0. b \in {\hD8, \hDC} /\ b \in FPUEscapes /\ (b = \hD8 => w = 4) /\ (b = \hDC => w = 8)
  BY DEF FPUEscapes
<1>1. f.lead = b /\ Reg(f.rm) = n /\ RM(f, w) = Anew(a, f.segment)
  BY <1>0, MemoryEscapeFields
<1>2. FpuMemoryForm(f) = <<FpuArith[n + 1], <<STArg(0), RM(f, w)>> >>
  BY <1>0, <1>1, MemoryForms
<1>3. QED
  BY <1>0, <1>1, <1>2, MemoryGives

LEMMA MemoryIntegerBack ==
    ASSUME NEW w \in {2, 4}, NEW a, Sized(a, w), IsMem(a), NEW n \in 0 .. 7, NEW b, NEW f, f.op # "UD_NOP",
           b = (IF w = 4 THEN \hDA ELSE \hDE), Parsed(f, Headed(b, ModRM(a, n))), NEW at
    PROVE  Gives(f, at, FpuInt[n + 1], <<Anew(a, f.segment)>>)
<1>0. b \in {\hDA, \hDE} /\ b \in FPUEscapes /\ (b = \hDA => w = 4) /\ (b = \hDE => w = 2)
  BY DEF FPUEscapes
<1>1. f.lead = b /\ Reg(f.rm) = n /\ RM(f, w) = Anew(a, f.segment)
  BY <1>0, MemoryEscapeFields
<1>5. n + 1 \in 1 .. 8
  OBVIOUS
<1>6. /\ FpuMemory(\hDA)[n + 1] = <<FpuInt[n + 1], 4>>
      /\ FpuMemory(\hDE)[n + 1] = <<FpuInt[n + 1], 2>>
  BY <1>5 DEF FpuMemory
<1>7. FpuMemory(b)[n + 1][1] = FpuInt[n + 1] /\ FpuMemory(b)[n + 1][2] = w
  BY <1>0, <1>6
<1>2. FpuMemoryForm(f) = <<FpuMemory(b)[n + 1][1], <<RM(f, FpuMemory(b)[n + 1][2])>> >>
  BY <1>0, <1>1, MemoryForms
<1>3. FpuMemoryForm(f) = <<FpuInt[n + 1], <<RM(f, w)>> >>
  BY <1>2, <1>7
<1>4. QED
  BY <1>0, <1>1, <1>3, MemoryGives

(* The loads and stores: a form with operand size v.                       *)
FormIs(b, n, op, v) == FpuMemory(b)[n + 1] = <<op, v>>

LEMMA MemoryMoveBack ==
    ASSUME NEW w, NEW a, Sized(a, w), IsMem(a), NEW n \in 0 .. 7, NEW b \in {\hD9, \hDB, \hDD, \hDF},
           NEW f, f.op # "UD_NOP", Parsed(f, Headed(b, ModRM(a, n))), NEW at,
           NEW op, NEW v, FormIs(b, n, op, v)
    PROVE  /\ b \in {\hD9, \hDD} => Gives(f, at, op, <<Again(a, f.segment, v)>>)
           /\ b \in {\hDB, \hDF} => Gives(f, at, op, <<STArg(0), Again(a, f.segment, v)>>)
<1>0. b \in FPUEscapes
  BY DEF FPUEscapes
<1>1. f.lead = b /\ Reg(f.rm) = n /\ RM(f, v) = Again(a, f.segment, v)
  BY <1>0, MemoryEscapeFields
<1>2. b \in {\hD9, \hDD} => FpuMemoryForm(f) = <<op, <<RM(f, v)>> >>
  BY <1>0, <1>1, MemoryForms DEF FormIs
<1>3. b \in {\hDB, \hDF} => FpuMemoryForm(f) = <<op, <<STArg(0), RM(f, v)>> >>
  BY <1>0, <1>1, MemoryForms DEF FormIs
<1>4. b \in {\hD9, \hDD} => Gives(f, at, op, <<Again(a, f.segment, v)>>)
  BY <1>0, <1>1, <1>2, MemoryGives
<1>5. b \in {\hDB, \hDF} => Gives(f, at, op, <<STArg(0), Again(a, f.segment, v)>>)
  BY <1>0, <1>1, <1>3, MemoryGives
<1>6. QED
  BY <1>4, <1>5

-----------------------------------------------------------------------------
(* The numbers of a decode are bytes and words.                            *)
Ranged(d, x) ==
    \A k \in 1 .. Len(OperandWidths(d.lead, x)) :
        /\ OperandWidths(d.lead, x)[k] = 1 => d.args[k] \in Byte
        /\ OperandWidths(d.lead, x)[k] = 2 => d.args[k] \in Word16

LEMMA RangedWhole ==
    ASSUME NEW s, Whole(s)
    PROVE  Ranged(FlatDecode(s), Second(s))
<1> DEFINE w == WidthsOf(s)
           a == FlatDecode(s).args
           n == PrefixLength(s)
           at == OperandsAt(s)
<1>1. w \in Widths /\ Len(w) \in 0 .. 2
  BY WidthsAre DEF WidthsOf
<1>2. n \in Nat
  BY WholeBytes DEF Whole
<1>3. at \in {n + 1, n + 2}
  BY DEF OperandsAt
<1>4. \A k \in 1 .. Len(w) : w[k] \in {1, 2}
  BY <1>1, ElementOfSeq DEF Widths
<1>5. /\ Len(w) > 0 /\ w[1] = 1 => a[1] \in Byte
      /\ Len(w) > 0 /\ w[1] = 2 => a[1] \in Word16
  BY ArgsAre
<1>6. ASSUME Len(w) = 2 PROVE (w[2] = 1 => a[2] \in Byte) /\ (w[2] = 2 => a[2] \in Word16)
  <2> DEFINE v == FirstOperand(s)
             u == ValueAt(s, at + w[1], w[2])
  <2>1. a = <<v, u>>
    BY <1>1, <1>6, FlatOfTwo DEF Decoding
  <2>2. w[1] \in {1, 2} /\ w[2] \in {1, 2}
    BY <1>4, <1>6
  <2> HIDE DEF w, a, n, at, v
  <2>3. at + w[1] \in Int /\ 0 <= at + w[1] /\ at + w[1] <= n + 4
    BY <1>2, <1>3, <2>2
  <2>4. (w[2] = 1 => u \in Byte) /\ (w[2] = 2 => u \in Word16)
    BY <2>2, <2>3, ValuesAre DEF n
  <2> HIDE DEF u
  <2>5. QED
    BY <2>1, <2>4
<1>7. w = OperandWidths(FlatDecode(s).lead, Second(s))
  BY DEF WidthsOf, FlatDecode, Opcode
<1> HIDE DEF w, a, n, at
<1>8. ASSUME NEW k \in 1 .. Len(w) PROVE (w[k] = 1 => a[k] \in Byte) /\ (w[k] = 2 => a[k] \in Word16)
  BY <1>1, <1>5, <1>6
<1>9. QED
  BY <1>7, <1>8 DEF Ranged, a

LEMMA RangedFirst ==
    ASSUME NEW d, NEW x, Ranged(d, x)
    PROVE  /\ OperandWidths(d.lead, x) = << 1 >> => d.args[1] \in Byte
           /\ OperandWidths(d.lead, x) = << 2 >> => d.args[1] \in Word16
           /\ OperandWidths(d.lead, x) = << 2, 2 >> => d.args[1] \in Word16 /\ d.args[2] \in Word16
<1> DEFINE w == OperandWidths(d.lead, x)
<1>1. \A k \in 1 .. Len(w) : (w[k] = 1 => d.args[k] \in Byte) /\ (w[k] = 2 => d.args[k] \in Word16)
  BY DEF Ranged
<1> HIDE DEF w
<1>2. w = << 1 >> => d.args[1] \in Byte
  BY <1>1
<1>3. w = << 2 >> => d.args[1] \in Word16
  BY <1>1
<1>4. w = << 2, 2 >> => d.args[1] \in Word16 /\ d.args[2] \in Word16
  BY <1>1
<1>5. QED
  BY <1>2, <1>3, <1>4 DEF w

LEMMA RangedBare ==
    ASSUME NEW d, NEW x, Fields(d, x), Ranged(d, x)
    PROVE  /\ d.lead \in WithByte => d.args[1] \in Byte
           /\ d.lead \in WithWord => d.args[1] \in Word16
           /\ d.lead \in WithFar => d.args[1] \in Word16 /\ d.args[2] \in Word16
<1>1. d.lead \in Bare => OperandWidths(d.lead, x) = Immediates(d.lead)
  BY BareOpcodes DEF OperandWidths, TakesModRM
<1>2. d.lead \in WithByte \cup WithWord \cup WithFar => d.lead \in Bare
  BY DEF Bare
<1>3. QED
  BY <1>1, <1>2, BareWidths, RangedFirst

LEMMA RangedAfterRM ==
    ASSUME NEW d, NEW x, Fields(d, x), Ranged(d, x), TakesModRM(d.lead, x)
    PROVE  /\ ImmAfterRM(d.lead, x) = << 1 >> => RMImm(d) \in Byte
           /\ ImmAfterRM(d.lead, x) = << 2 >> => RMImm(d) \in Word16
<1> DEFINE v == Displacement(x)
           u == ImmAfterRM(d.lead, x)
           w == OperandWidths(d.lead, x)
<1>1. w = v \o u
  BY DEF OperandWidths
<1>2. v \in {<< >>, << 1 >>, << 2 >>} /\ u \in {<< >>, << 1 >>, << 2 >>}
  BY Shorts
<1>3. /\ Len(d.args) = Len(w)
      /\ \A k \in 1 .. Len(w) : (w[k] = 1 => d.args[k] \in Byte) /\ (w[k] = 2 => d.args[k] \in Word16)
  BY DEF Ranged, Fields
<1>4. RMImm(d) = d.args[Len(w)]
  BY <1>3 DEF RMImm
<1> HIDE DEF v, u, w
<1>5. ASSUME u # << >> PROVE Len(w) \in 1 .. 2 /\ w[Len(w)] = u[1]
  <2>1. CASE v = << >>
    BY <1>1, <1>2, <1>5, <2>1, JoinedWidths
  <2>2. CASE v # << >>
    BY <1>1, <1>2, <1>5, <2>2, JoinedWidths
  <2>3. QED
    BY <2>1, <2>2
<1>6. (u = << 1 >> => u # << >> /\ u[1] = 1) /\ (u = << 2 >> => u # << >> /\ u[1] = 2)
  OBVIOUS
<1>7. Len(w) \in 1 .. 2 => Len(w) \in 1 .. Len(w)
  BY SMTT(30)
<1>8. QED
  BY <1>3, <1>4, <1>5, <1>6, <1>7 DEF u

-----------------------------------------------------------------------------
(* What becomes of an instruction i that is encoded and decoded again.     *)

(* The fields f are a decode of the encoding e.  What transfers control    *)
(* has no prefixes.                                                        *)
ReadsAs(f, e, op) == Parsed(f, e) /\ f.op # "UD_NOP" /\ (TransfersTo(op) => f.len = Len(e))

Proper(a) == a.kind = "mem" => Operand(a)

(* The reasons for a loss that do not lie in the prefixes.                 *)
Odd(i, at) ==
    \/ Wraps(i, at) \/ Outreaches(i, at) \/ WidensByte(i) \/ HasNoForm(i)
    \/ Flips(i) \/ MisreadsStore(i) \/ BecomesNop(i)

(* The operands u, decoded with override t, are the operands v.            *)
AsBefore(op, v, u, t) ==
    \/ op # "XCHG" /\ v = << >> /\ u = << >>
    \/ \E p : /\ op # "XCHG" /\ (IsMem(p) => op \notin ToES \cup ShiftOps)
              /\ v = <<p>> /\ Proper(p) /\ u = <<Anew(p, t)>>
    \/ \E p, q : /\ v = <<p, q>> /\ Proper(p) /\ Proper(q) /\ ~(IsMem(p) /\ IsMem(q))
                 /\ (op \in Unsegmented => ~IsMem(q))
                 /\ u = <<Anew(p, t), Anew(q, t)>>

AsStrings(op, v, u, t) ==
    \/ \E w : op \in ToES /\ v = <<StringDest(w)>> /\ u = v
    \/ \E w, q : /\ op \in {"MOVS", "CMPS"} /\ v = <<StringDest(w), q>> /\ IsMem(q) /\ Operand(q)
                 /\ u = <<StringDest(w), Anew(q, t)>>

(* A number whose sign has been extended.                                  *)
AsSigned(op, v, u, t) ==
    \E p, x, w : /\ op \in AluOps /\ w \in {1, 2} /\ Number(x, w) /\ Sized(p, w)
                 /\ v = <<p, ImmArg(x, w)>> /\ u = <<Anew(p, t), ImmArg(Resigned(x, w), w)>>

(* A target that has wrapped.                                              *)
AsTarget(op, v, u, at) ==
    \E x \in Int : op \in {"JMP", "CALL"} /\ v = <<ImmArg(x, 2)>> /\ u = <<ImmArg(x % 65536, 2)>> /\ Near(x - at)

(* Registers in the other order.                                           *)
AsTurned(op, v, u) ==
    \E r \in 1 .. 7 : /\ op = "XCHG" /\ v = <<RegArg(r, 2), RegArg(AX, 2)>>
                      /\ u = <<RegArg(AX, 2), RegArg(r, 2)>>

Kept(i, f, at) ==
    /\ Case(f, at)[1] = i.op
    /\ LET u == Case(f, at)[2]
           t == f.segment
       IN  \/ AsBefore(i.op, i.argv, u, t) \/ AsStrings(i.op, i.argv, u, t) \/ AsSigned(i.op, i.argv, u, t)
           \/ AsTarget(i.op, i.argv, u, at) \/ AsTurned(i.op, i.argv, u)

Lost(i, f, at) ==
    \/ BecomesNop(i) /\ Gives(f, at, "NOP", << >>)
    \/ \E p, w : /\ WidensByte(i) /\ i.argv = <<p>> /\ Sized(p, w) /\ w # 2
                 /\ Gives(f, at, i.op, <<Again(p, f.segment, 2)>>)
    \/ \E op \in {"FSUB", "FSUBR", "FDIV", "FDIVR"}, r \in 1 .. 7 :
          Flips(i) /\ op # i.op /\ Gives(f, at, op, <<STArg(r), STArg(0)>>)
    \/ /\ i.op = "FSTP" /\ Len(i.argv) = 2 /\ i.argv[1] = STArg(0)
       /\ Gives(f, at, "FSTP", <<STArg(0)>>)
    \/ \E p : /\ i.op = "FISTP" /\ i.argv = <<STArg(0), p>> /\ Sized(p, 8) /\ IsMem(p)
              /\ Gives(f, at, "FISTP", <<STArg(0), Again(p, f.segment, 2)>>)

Verdict(i, at) ==
    \/ EncodeCase(i, at) = << >> /\ Odd(i, at)
    \/ Wraps(i, at) /\ i.argv[1].value \in Int
    \/ Outreaches(i, at)
    \/ ~Odd(i, at) /\ EncodeCase(i, at) # << >>
       /\ \A f : ReadsAs(f, EncodeCase(i, at), i.op) => Kept(i, f, at)
    \/ i.op # "JMP" /\ Odd(i, at) /\ \A f : ReadsAs(f, EncodeCase(i, at), i.op) => Lost(i, f, at)

OddOps == {"JMP", "CALL", "PUSH", "POP", "UD", "UD_NOP", "FCOMPP", "LEA", "LES", "LDS",
           "FADD", "FMUL", "FCOM", "FCOMP", "FSUB", "FSUBR", "FDIV", "FDIVR", "FSTP", "FISTP", "XCHG"}

(* No other instruction has a reason for a loss of its own.                *)
LEMMA Ordinary ==
    ASSUME NEW i, NEW at, i.op \notin OddOps, ~In(Jcc, i.op), ~In(Loops, i.op)
    PROVE  ~Odd(i, at)
<1>1. ~Wraps(i, at) /\ ~Outreaches(i, at) /\ ~WidensByte(i)
  BY DEF OddOps, Wraps, Outreaches, WidensByte
<1>2. ~HasNoForm(i)
  BY TablesAre, FpuTablesAre DEF OddOps, HasNoForm, NoCase
<1>3. ~Flips(i) /\ ~MisreadsStore(i) /\ ~BecomesNop(i)
  BY DEF OddOps, Flips, MisreadsStore, BecomesNop
<1>4. QED
  BY <1>1, <1>2, <1>3 DEF Odd

LEMMA BranchNames ==
    ASSUME NEW op, op \in OddOps \cup IntegerOps \cup FpuOps \cup FarOps \cup {"RET", "RETF"}
    PROVE  ~In(Jcc, op) /\ ~In(Loops, op)
<1>1. op \in DOMAIN FpuNoOperand => ~In(Jcc, op) /\ ~In(Loops, op)
  BY TransfersAre DEF FpuNoOperand
<1>2. op \in OddOps => ~In(Jcc, op) /\ ~In(Loops, op)
  BY TransfersAre DEF OddOps
<1>3. op \in IntegerOps => ~In(Jcc, op) /\ ~In(Loops, op)
  BY TransfersAre DEF IntegerOps, AluOps
<1>4. op \in FarOps \cup {"RET", "RETF"} => ~In(Jcc, op) /\ ~In(Loops, op)
  BY TransfersAre DEF FarOps
<1>5. op \in FpuOps => ~In(Jcc, op) /\ ~In(Loops, op)
  BY <1>1, FpuOpsAre, TransfersAre
<1>6. QED
  BY <1>2, <1>3, <1>4, <1>5

LEMMA ProperKinds ==
    /\ \A r, w : Proper(RegArg(r, w))
    /\ \A r : Proper(SRegArg(r)) /\ Proper(STArg(r))
    /\ \A v, w : Proper(ImmArg(v, w)) /\ Proper(FarArg(v, w))
    /\ \A a, w : Sized(a, w) => Proper(a)
BY DEF Proper, RegArg, SRegArg, STArg, ImmArg, FarArg, Sized

(* Instructions whose operands are found again.                            *)
LEMMA Keep0 ==
    ASSUME NEW i, NEW at, i.argv = << >>, i.op # "XCHG", ~Odd(i, at), EncodeCase(i, at) # << >>,
           \A f : ReadsAs(f, EncodeCase(i, at), i.op) => Gives(f, at, i.op, << >>)
    PROVE  Verdict(i, at)
<1>1. ASSUME NEW f, ReadsAs(f, EncodeCase(i, at), i.op) PROVE Kept(i, f, at)
  BY <1>1 DEF Kept, Gives, AsBefore
<1>2. QED
  BY <1>1 DEF Verdict

LEMMA Keep1 ==
    ASSUME NEW i, NEW at, NEW p, i.argv = <<p>>, Proper(p), i.op # "XCHG", IsMem(p) => i.op \notin ToES \cup ShiftOps, ~Odd(i, at), EncodeCase(i, at) # << >>,
           \A f : ReadsAs(f, EncodeCase(i, at), i.op) => Gives(f, at, i.op, <<Anew(p, f.segment)>>)
    PROVE  Verdict(i, at)
<1>1. ASSUME NEW f, ReadsAs(f, EncodeCase(i, at), i.op) PROVE Kept(i, f, at)
  <2>1. Gives(f, at, i.op, <<Anew(p, f.segment)>>)
    BY <1>1
  <2>2. QED
    BY <2>1 DEF Kept, Gives, AsBefore
<1>2. QED
  BY <1>1 DEF Verdict

LEMMA Keep2 ==
    ASSUME NEW i, NEW at, NEW p, NEW q, i.argv = <<p, q>>, Proper(p), Proper(q), ~(IsMem(p) /\ IsMem(q)),
           i.op \in Unsegmented => ~IsMem(q),
           ~Odd(i, at), EncodeCase(i, at) # << >>,
           \A f : ReadsAs(f, EncodeCase(i, at), i.op)
                    => Gives(f, at, i.op, <<Anew(p, f.segment), Anew(q, f.segment)>>)
    PROVE  Verdict(i, at)
<1>1. ASSUME NEW f, ReadsAs(f, EncodeCase(i, at), i.op) PROVE Kept(i, f, at)
  <2>1. Gives(f, at, i.op, <<Anew(p, f.segment), Anew(q, f.segment)>>)
    BY <1>1
  <2>2. QED
    BY <2>1 DEF Kept, Gives, AsBefore
<1>2. QED
  BY <1>1 DEF Verdict

(* What has memory for its only operand writes no ES:DI.                   *)
LEMMA OtherStrings ==
    ASSUME NEW op,
           op \in {"PUSH", "POP", "INC", "DEC", "LODS", "JMP", "CALL", "JMP_FAR", "CALL_FAR"}
                 \cup DOMAIN Group3Code \cup FpuMoves
                 \cup {"FIADD", "FIMUL", "FICOM", "FICOMP", "FISUB", "FISUBR", "FIDIV", "FIDIVR"}
    PROVE  op \notin ToES \cup ShiftOps /\ op # "XCHG"
BY ShiftIs DEF ToES, Group3Code, FpuMoves, FpuStackCode

(* Something is written.                                                   *)
LEMMA Filled ==
    ASSUME NEW t \in Seq(Byte)
    PROVE  /\ \A b \in Byte : Headed(b, t) # << >>
           /\ \A b \in Byte : \A u \in Seq(Byte) : HeadedWith(b, t, u) # << >>
<1>1. ASSUME NEW b \in Byte PROVE <<b>> \in Seq(Byte) /\ Len(<<b>>) = 1
  OBVIOUS
<1>2. ASSUME NEW b \in Byte PROVE Headed(b, t) \in Seq(Byte) /\ Len(Headed(b, t)) = 1 + Len(t)
  BY <1>1, Joined DEF Headed
<1>3. ASSUME NEW b \in Byte, NEW u \in Seq(Byte) PROVE Len(HeadedWith(b, t, u)) = 1 + Len(t) + Len(u)
  <2>1. Headed(b, t) \in Seq(Byte) /\ Len(Headed(b, t)) = 1 + Len(t)
    BY <1>2
  <2>2. HeadedWith(b, t, u) = Headed(b, t) \o u
    BY DEF HeadedWith, Headed
  <2>3. Len(HeadedWith(b, t, u)) = Len(Headed(b, t)) + Len(u)
    BY <2>1, <2>2, Joined
  <2>4. QED
    BY <2>1, <2>3
<1>4. Len(t) \in Nat /\ Len(<< >>) = 0
  OBVIOUS
<1>5. ASSUME NEW b \in Byte PROVE Headed(b, t) # << >>
  <2>1. Len(Headed(b, t)) = 1 + Len(t)
    BY <1>2
  <2>2. Len(Headed(b, t)) # 0
    BY <2>1, <1>4
  <2>3. QED
    BY <2>2, <1>4
<1>6. ASSUME NEW b \in Byte, NEW u \in Seq(Byte) PROVE HeadedWith(b, t, u) # << >>
  <2>1. Len(HeadedWith(b, t, u)) = 1 + Len(t) + Len(u) /\ Len(u) \in Nat
    BY <1>3
  <2>2. Len(HeadedWith(b, t, u)) # 0
    BY <2>1, <1>4
  <2>3. QED
    BY <2>2, <1>4
<1>7. QED
  BY <1>5, <1>6

LEMMA ImmBytes ==
    ASSUME NEW z \in {1, 2}, NEW v \in Int
    PROVE  Imm(v, z - 1) \in Seq(Byte)
<1>1. Represents(Imm(v, z - 1), v, z)
  BY ImmIs
<1>2. QED
  BY <1>1 DEF Represents

(* An opcode with a ModR/M byte, and perhaps a number behind it.           *)
LEMMA FilledRM ==
    ASSUME NEW a, NEW w, Sized(a, w), NEW reg \in 0 .. 7
    PROVE  /\ \A b \in Byte : Headed(b, ModRM(a, reg)) # << >>
           /\ \A b \in Byte : \A z \in {1, 2} : \A v \in Int : HeadedWith(b, ModRM(a, reg), Imm(v, z - 1)) # << >>
<1>1. Operand(a)
  BY DEF Sized
<1>2. OperandBytes(a, ModRM(a, reg), reg)
  BY <1>1, OperandWritten
<1>3. ModRM(a, reg) \in Seq(Byte)
  BY <1>2 DEF OperandBytes
<1>4. ASSUME NEW z \in {1, 2}, NEW v \in Int PROVE Imm(v, z - 1) \in Seq(Byte)
  BY ImmBytes
<1>5. QED
  BY <1>3, <1>4, Filled

LEMMA FilledNumber ==
    ASSUME NEW b \in Byte, NEW v \in Int
    PROVE  /\ \A z \in {1, 2} : Headed(b, Imm(v, z - 1)) # << >>
           /\ Headed(b, Word(v)) # << >>
<1>1. ASSUME NEW z \in {1, 2} PROVE Imm(v, z - 1) \in Seq(Byte)
  BY ImmBytes
<1>2. Word(v) \in Seq(Byte)
  BY WordIs DEF Represents
<1>3. QED
  BY <1>1, <1>2, Filled

(* Operands that are no memory.                                            *)
Fixed(b) == b.kind # "mem" /\ \A t : Anew(b, t) = b

LEMMA FixedKinds ==
    /\ \A r, w : Fixed(RegArg(r, w))
    /\ \A r : Fixed(SRegArg(r)) /\ Fixed(STArg(r))
    /\ \A v, w : Fixed(ImmArg(v, w)) /\ Fixed(FarArg(v, w))
<1>1. /\ \A r, w : RegArg(r, w).kind # "mem"
      /\ \A r : SRegArg(r).kind # "mem" /\ STArg(r).kind # "mem"
      /\ \A v, w : ImmArg(v, w).kind # "mem" /\ FarArg(v, w).kind # "mem"
  BY DEF RegArg, SRegArg, STArg, ImmArg, FarArg
<1>2. QED
  BY <1>1, AnewIs DEF Fixed

LEMMA FixedIsProper ==
    ASSUME NEW b, Fixed(b)
    PROVE  Proper(b) /\ ~IsMem(b) /\ \A t : Anew(b, t) = b
BY DEF Fixed, Proper, IsMem

LEMMA KeepLeft ==
    ASSUME NEW i, NEW at, NEW p, NEW q, i.argv = <<p, q>>, NEW w, Sized(p, w), Fixed(q),
           ~Odd(i, at), EncodeCase(i, at) # << >>,
           \A f : ReadsAs(f, EncodeCase(i, at), i.op) => Gives(f, at, i.op, <<Anew(p, f.segment), q>>)
    PROVE  Verdict(i, at)
<1>1. Proper(p) /\ Proper(q) /\ ~IsMem(q) /\ \A t : Anew(q, t) = q
  BY ProperKinds, FixedIsProper
<1>2. ASSUME NEW f, ReadsAs(f, EncodeCase(i, at), i.op)
      PROVE  Gives(f, at, i.op, <<Anew(p, f.segment), Anew(q, f.segment)>>)
  <2>1. Gives(f, at, i.op, <<Anew(p, f.segment), q>>)
    BY <1>2
  <2>2. QED
    BY <1>1, <2>1
<1>3. QED
  BY <1>1, <1>2, Keep2

LEMMA SegmentedOps ==
    ASSUME NEW op, op \in AluOps \cup {"MOV", "LEA", "LES", "LDS"} \cup FpuOps
    PROVE  op \notin Unsegmented
<1>1. Unsegmented = {"XCHG", "JMP", "CALL", "JMP_FAR", "CALL_FAR", "ROL", "ROR", "RCL", "RCR", "SHL", "SHR", "SAR"}
  BY ShiftIs DEF Unsegmented, FarOps
<1>2. CASE op \in AluOps \cup {"MOV", "LEA", "LES", "LDS"}
  BY <1>1, <1>2 DEF AluOps
<1>3. CASE op \in FpuOps
  BY <1>1, <1>3, FpuOpsAre DEF FpuNoOperand
<1>4. QED
  BY <1>2, <1>3

LEMMA KeepRight ==
    ASSUME NEW i, NEW at, NEW p, NEW q, i.argv = <<p, q>>, NEW w, Sized(q, w), Fixed(p), i.op \notin Unsegmented,
           ~Odd(i, at), EncodeCase(i, at) # << >>,
           \A f : ReadsAs(f, EncodeCase(i, at), i.op) => Gives(f, at, i.op, <<p, Anew(q, f.segment)>>)
    PROVE  Verdict(i, at)
<1>1. Proper(p) /\ Proper(q) /\ ~IsMem(p) /\ \A t : Anew(p, t) = p
  BY ProperKinds, FixedIsProper
<1>2. ASSUME NEW f, ReadsAs(f, EncodeCase(i, at), i.op)
      PROVE  Gives(f, at, i.op, <<Anew(p, f.segment), Anew(q, f.segment)>>)
  <2>1. Gives(f, at, i.op, <<p, Anew(q, f.segment)>>)
    BY <1>2
  <2>2. QED
    BY <1>1, <2>1
<1>3. QED
  BY <1>1, <1>2, Keep2

LEMMA KeepBoth ==
    ASSUME NEW i, NEW at, NEW p, NEW q, i.argv = <<p, q>>, Fixed(p), Fixed(q),
           ~Odd(i, at), EncodeCase(i, at) # << >>,
           \A f : ReadsAs(f, EncodeCase(i, at), i.op) => Gives(f, at, i.op, <<p, q>>)
    PROVE  Verdict(i, at)
<1>1. Proper(p) /\ Proper(q) /\ ~IsMem(p) /\ ~IsMem(q) /\ (\A t : Anew(p, t) = p) /\ (\A t : Anew(q, t) = q)
  BY FixedIsProper
<1>2. ASSUME NEW f, ReadsAs(f, EncodeCase(i, at), i.op)
      PROVE  Gives(f, at, i.op, <<Anew(p, f.segment), Anew(q, f.segment)>>)
  <2>1. Gives(f, at, i.op, <<p, q>>)
    BY <1>2
  <2>2. QED
    BY <1>1, <2>1
<1>3. QED
  BY <1>1, <1>2, Keep2

LEMMA KeepFixed ==
    ASSUME NEW i, NEW at, NEW p, i.argv = <<p>>, Fixed(p), i.op # "XCHG", ~Odd(i, at), EncodeCase(i, at) # << >>,
           \A f : ReadsAs(f, EncodeCase(i, at), i.op) => Gives(f, at, i.op, <<p>>)
    PROVE  Verdict(i, at)
<1>1. Proper(p) /\ ~IsMem(p) /\ \A t : Anew(p, t) = p
  BY FixedIsProper
<1>2. ASSUME NEW f, ReadsAs(f, EncodeCase(i, at), i.op)
      PROVE  Gives(f, at, i.op, <<Anew(p, f.segment)>>)
  <2>1. Gives(f, at, i.op, <<p>>)
    BY <1>2
  <2>2. QED
    BY <1>1, <2>1
<1>3. QED
  BY <1>1, <1>2, Keep1

LEMMA OrdinaryInteger ==
    ASSUME NEW i, NEW at, i.op \in IntegerOps \cup FarOps \cup {"RET", "RETF"} \cup FpuOps, i.op \notin OddOps
    PROVE  ~Odd(i, at)
BY BranchNames, Ordinary

LEMMA ReadsAsIs ==
    ASSUME NEW f, NEW e, NEW op, ReadsAs(f, e, op)
    PROVE  Parsed(f, e) /\ f.op # "UD_NOP" /\ (TransfersTo(op) => f.len = Len(e))
BY DEF ReadsAs

-----------------------------------------------------------------------------
(* ADD to CMP.                                                             *)
LEMMA AluOrdinary ==
    ASSUME NEW i, NEW at, i.op \in AluOps
    PROVE  /\ ~Odd(i, at) /\ Index(Alu, i.op) \in 0 .. 7 /\ Alu[Index(Alu, i.op) + 1] = i.op
           /\ EncodeCase(i, at) = EncodeAlu(Index(Alu, i.op), i.argv[1], i.argv[2])
<1>1. i.op \in IntegerOps /\ i.op \notin OddOps
  BY DEF AluOps, IntegerOps, OddOps
<1>2. ~Odd(i, at)
  BY <1>1, OrdinaryInteger
<1>3. \A k \in DOMAIN Alu : k \in Int
  BY DEF Alu
<1>4. Alu[Index(Alu, i.op) + 1] = i.op
  BY <1>3, AluIs, IndexOf
<1>5. QED
  BY <1>2, <1>4, AluDispatch

LEMMA VerdictAlu ==
    ASSUME NEW i, NEW at, i.op \in AluOps, NEW w \in {1, 2}, NEW a, Sized(a, w), NEW r \in 0 .. 7,
           i.argv = <<a, RegArg(r, w)>> \/ (IsMem(a) /\ i.argv = <<RegArg(r, w), a>>)
    PROVE  Verdict(i, at)
<1> DEFINE n == Index(Alu, i.op)
<1>1. ~Odd(i, at) /\ n \in 0 .. 7 /\ Alu[n + 1] = i.op /\ EncodeCase(i, at) = EncodeAlu(n, i.argv[1], i.argv[2])
  BY AluOrdinary
<1> HIDE DEF n
<1>2. 8 * n + (w - 1) \in Byte /\ 8 * n + (w - 1) + 2 \in Byte
  BY <1>1 DEF Byte
<1>3. Fixed(RegArg(r, w))
  BY FixedKinds
<1>4. CASE i.argv = <<a, RegArg(r, w)>>
  <2>1. EncodeCase(i, at) = EncodeAlu(n, a, RegArg(r, w))
    BY <1>1, <1>4
  <2>2. EncodeCase(i, at) # << >>
    BY SMTT(30), <1>1, <1>2, <2>1, AluForms, FilledRM
  <2>3. ASSUME NEW f, ReadsAs(f, EncodeCase(i, at), i.op)
        PROVE  Gives(f, at, i.op, <<Anew(a, f.segment), RegArg(r, w)>>)
    BY <1>1, <2>1, <2>3, ReadsAsIs, AluRegisterBack
  <2>4. QED
    BY <1>1, <1>3, <1>4, <2>2, <2>3, KeepLeft
<1>5. CASE IsMem(a) /\ i.argv = <<RegArg(r, w), a>>
  <2>1. EncodeCase(i, at) = EncodeAlu(n, RegArg(r, w), a)
    BY <1>1, <1>5
  <2>5. EncodeCase(i, at) = Headed(8 * n + (w - 1) + 2, ModRM(a, r))
    BY <1>1, <1>5, <2>1, AluForms
  <2>2. EncodeCase(i, at) # << >>
    BY <1>2, <2>5, FilledRM
  <2>3. ASSUME NEW f, ReadsAs(f, EncodeCase(i, at), i.op)
        PROVE  Gives(f, at, i.op, <<RegArg(r, w), Anew(a, f.segment)>>)
    BY <1>1, <1>5, <2>1, <2>3, ReadsAsIs, AluRegisterBack
  <2>4. i.op \notin Unsegmented
    BY SegmentedOps
  <2>6. QED
    BY <1>1, <1>3, <1>5, <2>2, <2>3, <2>4, KeepRight
<1>6. QED
  BY <1>4, <1>5

LEMMA VerdictAluNumber ==
    ASSUME NEW i, NEW at, i.op \in AluOps, NEW w \in {1, 2}, NEW a, Sized(a, w), NEW v, Number(v, w),
           i.argv = <<a, ImmArg(v, w)>>
    PROVE  Verdict(i, at)
<1> DEFINE n == Index(Alu, i.op)
<1>1. ~Odd(i, at) /\ n \in 0 .. 7 /\ Alu[n + 1] = i.op /\ EncodeCase(i, at) = EncodeAlu(n, i.argv[1], i.argv[2])
  BY AluOrdinary
<1> HIDE DEF n
<1>2. EncodeCase(i, at) = EncodeAlu(n, a, ImmArg(v, w)) /\ v \in Int
  BY <1>1 DEF Number
<1>3. 8 * n + 4 + (w - 1) \in Byte /\ \h80 + (w - 1) \in Byte /\ \h83 \in Byte
  BY <1>1 DEF Byte
<1>4. EncodeCase(i, at) # << >>
  <2>1. CASE Shorthand(a, v)
    BY <1>1, <1>2, <1>3, <2>1, AluNumberForms, FilledRM
  <2>2. CASE ~Shorthand(a, v) /\ Accumulator(a)
    <3>1. EncodeCase(i, at) = Headed(8 * n + 4 + (w - 1), Imm(v, w - 1))
      BY <1>1, <1>2, <2>2, AluNumberForms
    <3>2. Headed(8 * n + 4 + (w - 1), Imm(v, w - 1)) # << >>
      BY <1>2, <1>3, FilledNumber
    <3> QED
      BY <3>1, <3>2
  <2>3. CASE ~Shorthand(a, v) /\ ~Accumulator(a)
    BY <1>1, <1>2, <1>3, <2>3, AluNumberForms, FilledRM
  <2>4. QED
    BY <2>1, <2>2, <2>3
<1>5. ASSUME NEW f, ReadsAs(f, EncodeCase(i, at), i.op) PROVE Kept(i, f, at)
  <2>1. Gives(f, at, i.op, <<Anew(a, f.segment), ImmArg(Resigned(v, w), w)>>)
    BY <1>1, <1>2, <1>5, ReadsAsIs, AluNumberBack
  <2>2. QED
    BY <2>1 DEF Kept, Gives, AsSigned
<1>6. QED
  BY <1>1, <1>4, <1>5 DEF Verdict

(* TEST.                                                                   *)
LEMMA TestOrdinary ==
    ASSUME NEW i, NEW at, i.op = "TEST"
    PROVE  ~Odd(i, at) /\ EncodeCase(i, at) = EncodeTest(i.argv[1], i.argv[2])
<1>1. i.op \in IntegerOps /\ i.op \notin OddOps
  BY DEF IntegerOps, OddOps
<1>2. ~Odd(i, at)
  BY <1>1, OrdinaryInteger
<1>3. EncodeInteger(i) = EncodeTest(i.argv[1], i.argv[2])
  BY AluIs, ShiftIs, TablesAre DEF EncodeInteger, AluOps
<1>4. QED
  BY <1>1, <1>2, <1>3, IntegerCase

LEMMA VerdictTest ==
    ASSUME NEW i, NEW at, i.op = "TEST", NEW w \in {1, 2}, NEW a, Sized(a, w), NEW r \in 0 .. 7,
           i.argv = <<a, RegArg(r, w)>>
    PROVE  Verdict(i, at)
<1>1. ~Odd(i, at) /\ EncodeCase(i, at) = EncodeTest(a, RegArg(r, w))
  BY TestOrdinary
<1>2. EncodeCase(i, at) = Headed(\h84 + (w - 1), ModRM(a, r)) /\ \h84 + (w - 1) \in Byte
  BY <1>1, TestForms DEF Byte
<1>3. EncodeCase(i, at) # << >>
  BY <1>2, FilledRM
<1>4. ASSUME NEW f, ReadsAs(f, EncodeCase(i, at), i.op)
      PROVE  Gives(f, at, i.op, <<Anew(a, f.segment), RegArg(r, w)>>)
  <2>1. Parsed(f, EncodeTest(a, RegArg(r, w))) /\ f.op # "UD_NOP"
    BY <1>1, <1>4, ReadsAsIs
  <2>2. Gives(f, at, "TEST", <<Anew(a, f.segment), RegArg(r, w)>>)
    BY <2>1, TestBack
  <2>3. QED
    BY <2>2
<1>5. QED
  BY <1>1, <1>3, <1>4, FixedKinds, KeepLeft

LEMMA VerdictTestNumber ==
    ASSUME NEW i, NEW at, i.op = "TEST", NEW w \in {1, 2}, NEW a, Sized(a, w), NEW v, Number(v, w), v >= 0,
           i.argv = <<a, ImmArg(v, w)>>
    PROVE  Verdict(i, at)
<1>1. ~Odd(i, at) /\ EncodeCase(i, at) = EncodeTest(a, ImmArg(v, w))
  BY TestOrdinary
<1>2. v \in Int /\ \hA8 + (w - 1) \in Byte /\ \hF6 + (w - 1) \in Byte
  BY DEF Byte, Number
<1>3. EncodeCase(i, at) # << >>
  <2>1. CASE Accumulator(a)
    <3>1. EncodeCase(i, at) = Headed(\hA8 + (w - 1), Imm(v, w - 1))
      BY <1>1, <2>1, TestForms
    <3>2. QED
      BY <1>2, <3>1, FilledNumber
  <2>2. CASE ~Accumulator(a)
    <3>1. EncodeCase(i, at) = HeadedWith(\hF6 + (w - 1), ModRM(a, 0), Imm(v, w - 1))
      BY <1>1, <2>2, TestForms
    <3>2. QED
      BY <1>2, <3>1, FilledRM
  <2>3. QED
    BY <2>1, <2>2
<1>4. ASSUME NEW f, ReadsAs(f, EncodeCase(i, at), i.op)
      PROVE  Gives(f, at, i.op, <<Anew(a, f.segment), ImmArg(v, w)>>)
  <2>1. Parsed(f, EncodeTest(a, ImmArg(v, w))) /\ f.op # "UD_NOP"
    BY <1>1, <1>4, ReadsAsIs
  <2>2. Gives(f, at, "TEST", <<Anew(a, f.segment), ImmArg(v, w)>>)
    BY <2>1, TestNumberBack
  <2>3. QED
    BY <2>2
<1>5. QED
  BY <1>1, <1>3, <1>4, FixedKinds, KeepLeft

(* XCHG.                                                                   *)
LEMMA XchgCase ==
    ASSUME NEW i, NEW at, i.op = "XCHG"
    PROVE  EncodeCase(i, at) = EncodeXchg(i.argv[1], i.argv[2])
<1>1. i.op \in IntegerOps
  BY DEF IntegerOps
<1>2. EncodeInteger(i) = EncodeXchg(i.argv[1], i.argv[2])
  BY AluIs, ShiftIs, TablesAre DEF EncodeInteger, AluOps
<1>3. QED
  BY <1>1, <1>2, IntegerCase

LEMMA XchgOrdinary ==
    ASSUME NEW i, NEW at, i.op = "XCHG", ~BecomesNop(i)
    PROVE  ~Odd(i, at)
<1>1. ~Wraps(i, at) /\ ~Outreaches(i, at) /\ ~WidensByte(i)
  BY BranchNames DEF OddOps, Wraps, Outreaches, WidensByte
<1>2. ~HasNoForm(i)
  BY TablesAre, FpuTablesAre DEF HasNoForm, NoCase
<1>3. ~Flips(i) /\ ~MisreadsStore(i)
  BY DEF Flips, MisreadsStore
<1>4. QED
  BY <1>1, <1>2, <1>3 DEF Odd

LEMMA VerdictXchg ==
    ASSUME NEW i, NEW at, i.op = "XCHG", NEW w \in {1, 2}, NEW a, Sized(a, w), NEW r \in 0 .. 7,
           i.argv = <<a, RegArg(r, w)>>
    PROVE  Verdict(i, at)
<1>1. EncodeCase(i, at) = EncodeXchg(a, RegArg(r, w))
  BY XchgCase
<1>2. EncodeCase(i, at) # << >>
  <2>1. CASE IsReg(a) /\ w = 2 /\ (a.reg = AX \/ r = AX)
    <3>1. \E b : EncodeCase(i, at) = <<b>>
      BY <1>1, <2>1, XchgForms
    <3>2. QED
      BY <3>1
  <2>2. CASE ~(IsReg(a) /\ w = 2 /\ (a.reg = AX \/ r = AX))
    <3>1. EncodeCase(i, at) = Headed(\h86 + (w - 1), ModRM(a, r)) /\ \h86 + (w - 1) \in Byte
      BY <1>1, <2>2, XchgForms DEF Byte
    <3>2. QED
      BY <3>1, FilledRM
  <2>3. QED
    BY <2>1, <2>2
<1>3. IsReg(a) => a.reg \in 0 .. 7 /\ a = RegArg(a.reg, w)
  BY SizedKinds
<1>4. BecomesNop(i) <=> a = RegArg(AX, 2) /\ RegArg(r, w) = RegArg(AX, 2)
  BY DEF BecomesNop
<1>5. RegArg(r, w) = RegArg(AX, 2) <=> r = AX /\ w = 2
  BY DEF RegArg
<1>6. a = RegArg(AX, 2) => IsReg(a) /\ a.reg = AX
  BY DEF RegArg, IsReg
<1>7. ASSUME NEW f, ReadsAs(f, EncodeCase(i, at), i.op)
      PROVE  \/ Gives(f, at, "XCHG", <<Anew(a, f.segment), RegArg(r, w)>>)
             \/ w = 2 /\ IsReg(a) /\ r = AX /\ a.reg # AX /\ Gives(f, at, "XCHG", <<RegArg(r, w), a>>)
             \/ w = 2 /\ IsReg(a) /\ r = AX /\ a.reg = AX /\ Gives(f, at, "NOP", << >>)
  <2>1. Parsed(f, EncodeXchg(a, RegArg(r, w)))
    BY <1>1, <1>7, ReadsAsIs
  <2>2. QED
    BY <2>1, XchgBack
<1>8. CASE BecomesNop(i)
  <2>1. a = RegArg(AX, 2) /\ r = AX /\ w = 2
    BY <1>4, <1>5, <1>8
  <2>2. Odd(i, at)
    BY <1>8 DEF Odd
  <2>3. EncodeXchg(a, RegArg(r, w)) = << \h90 + r >>
    BY <1>6, <2>1, XchgForms
  <2>4. ASSUME NEW f, ReadsAs(f, EncodeCase(i, at), i.op) PROVE Lost(i, f, at)
    <3>1. Parsed(f, << \h90 + r >>)
      BY <1>1, <2>3, <2>4, ReadsAsIs
    <3>2. Gives(f, at, "NOP", << >>)
      BY <2>1, <3>1, XchgSingle DEF AX
    <3>3. QED
      BY <1>8, <3>2 DEF Lost
  <2>5. QED
    BY <2>2, <2>4 DEF Verdict
<1>9. CASE ~BecomesNop(i)
  <2>1. ~Odd(i, at)
    BY <1>9, XchgOrdinary
  <2>2. ASSUME NEW f, ReadsAs(f, EncodeCase(i, at), i.op) PROVE Kept(i, f, at)
    <3>1. CASE Gives(f, at, "XCHG", <<Anew(a, f.segment), RegArg(r, w)>>)
      <4>1. Anew(RegArg(r, w), f.segment) = RegArg(r, w) /\ Proper(RegArg(r, w)) /\ Proper(a) /\ ~IsMem(RegArg(r, w))
        BY FixedKinds, FixedIsProper, ProperKinds
      <4>2. AsBefore(i.op, i.argv, <<Anew(a, f.segment), RegArg(r, w)>>, f.segment)
        BY <4>1 DEF AsBefore
      <4>3. QED
        BY <3>1, <4>2 DEF Kept, Gives
    <3>2. CASE w = 2 /\ IsReg(a) /\ r = AX /\ a.reg # AX /\ Gives(f, at, "XCHG", <<RegArg(r, w), a>>)
      <4>1. a.reg \in 1 .. 7 /\ a = RegArg(a.reg, 2)
        BY <1>3, <3>2 DEF AX
      <4>2. AsTurned(i.op, i.argv, <<RegArg(r, w), a>>)
        BY <3>2, <4>1 DEF AsTurned
      <4>3. QED
        BY <3>2, <4>2 DEF Kept, Gives
    <3>3. ~(w = 2 /\ IsReg(a) /\ r = AX /\ a.reg = AX)
      BY <1>3, <1>4, <1>5, <1>9
    <3>4. QED
      BY <1>7, <2>2, <3>1, <3>2, <3>3
  <2>3. QED
    BY <1>2, <2>1, <2>2 DEF Verdict
<1>10. QED
  BY <1>8, <1>9

(* What the integer cases of the encoder write.                            *)
LEMMA IntegerDispatch ==
    ASSUME NEW i, NEW at
    PROVE  /\ i.op = "MOV" => ~Odd(i, at) /\ EncodeCase(i, at) = EncodeMov(i.argv[1], i.argv[2])
           /\ i.op = "INC" => ~Odd(i, at) /\ EncodeCase(i, at) = EncodeIncDec(0, i.argv[1])
           /\ i.op = "DEC" => ~Odd(i, at) /\ EncodeCase(i, at) = EncodeIncDec(1, i.argv[1])
           /\ i.op = "IN" => ~Odd(i, at) /\ EncodeCase(i, at) = EncodeIn(i.argv[1], i.argv[2])
           /\ i.op = "OUT" => ~Odd(i, at) /\ EncodeCase(i, at) = EncodeOut(i.argv[1], i.argv[2])
           /\ i.op = "INT" => ~Odd(i, at) /\ EncodeCase(i, at) = EncodeInt(i.argv[1])
           /\ i.op = "PUSH" => EncodeCase(i, at) = EncodePush(i.argv[1])
           /\ i.op = "POP" => EncodeCase(i, at) = EncodePop(i.argv[1])
           /\ i.op \in DOMAIN StringCode => ~Odd(i, at) /\ EncodeCase(i, at) = << StringCode[i.op] + WordBit(i.argv[1]) >>
           /\ i.op \in DOMAIN LoadCode => EncodeCase(i, at) = EncodeLoad(LoadCode[i.op], i.argv[1], i.argv[2])
           /\ i.op \in DOMAIN Group3Code => ~Odd(i, at) /\ EncodeCase(i, at) = << \hF6 + WordBit(i.argv[1]) >> \o ModRM(i.argv[1], Group3Code[i.op])
           /\ i.op \in ShiftOps => ~Odd(i, at) /\ EncodeCase(i, at) = EncodeShift(Index(Shifts, i.op), i.argv[1], i.argv[2])
<1>1. i.op = "MOV" => ~Odd(i, at) /\ EncodeCase(i, at) = EncodeMov(i.argv[1], i.argv[2])
  <2> SUFFICES ASSUME i.op = "MOV" PROVE ~Odd(i, at) /\ EncodeCase(i, at) = EncodeMov(i.argv[1], i.argv[2])
    OBVIOUS
  <2>1. i.op \in IntegerOps /\ i.op \notin OddOps
    BY DEF IntegerOps, OddOps
  <2>2. ~Odd(i, at)
    BY <2>1, OrdinaryInteger
  <2>3. EncodeInteger(i) = EncodeMov(i.argv[1], i.argv[2])
    BY AluIs, ShiftIs, TablesAre DEF EncodeInteger, AluOps
  <2>4. QED
    BY <2>1, <2>2, <2>3, IntegerCase
<1>2. i.op = "INC" => ~Odd(i, at) /\ EncodeCase(i, at) = EncodeIncDec(0, i.argv[1])
  <2> SUFFICES ASSUME i.op = "INC" PROVE ~Odd(i, at) /\ EncodeCase(i, at) = EncodeIncDec(0, i.argv[1])
    OBVIOUS
  <2>1. i.op \in IntegerOps /\ i.op \notin OddOps
    BY DEF IntegerOps, OddOps
  <2>2. ~Odd(i, at)
    BY <2>1, OrdinaryInteger
  <2>3. EncodeInteger(i) = EncodeIncDec(0, i.argv[1])
    BY AluIs, ShiftIs, TablesAre DEF EncodeInteger, AluOps
  <2>4. QED
    BY <2>1, <2>2, <2>3, IntegerCase
<1>3. i.op = "DEC" => ~Odd(i, at) /\ EncodeCase(i, at) = EncodeIncDec(1, i.argv[1])
  <2> SUFFICES ASSUME i.op = "DEC" PROVE ~Odd(i, at) /\ EncodeCase(i, at) = EncodeIncDec(1, i.argv[1])
    OBVIOUS
  <2>1. i.op \in IntegerOps /\ i.op \notin OddOps
    BY DEF IntegerOps, OddOps
  <2>2. ~Odd(i, at)
    BY <2>1, OrdinaryInteger
  <2>3. EncodeInteger(i) = EncodeIncDec(1, i.argv[1])
    BY AluIs, ShiftIs, TablesAre DEF EncodeInteger, AluOps
  <2>4. QED
    BY <2>1, <2>2, <2>3, IntegerCase
<1>4. i.op = "IN" => ~Odd(i, at) /\ EncodeCase(i, at) = EncodeIn(i.argv[1], i.argv[2])
  <2> SUFFICES ASSUME i.op = "IN" PROVE ~Odd(i, at) /\ EncodeCase(i, at) = EncodeIn(i.argv[1], i.argv[2])
    OBVIOUS
  <2>1. i.op \in IntegerOps /\ i.op \notin OddOps
    BY DEF IntegerOps, OddOps
  <2>2. ~Odd(i, at)
    BY <2>1, OrdinaryInteger
  <2>3. EncodeInteger(i) = EncodeIn(i.argv[1], i.argv[2])
    BY AluIs, ShiftIs, TablesAre DEF EncodeInteger, AluOps
  <2>4. QED
    BY <2>1, <2>2, <2>3, IntegerCase
<1>5. i.op = "OUT" => ~Odd(i, at) /\ EncodeCase(i, at) = EncodeOut(i.argv[1], i.argv[2])
  <2> SUFFICES ASSUME i.op = "OUT" PROVE ~Odd(i, at) /\ EncodeCase(i, at) = EncodeOut(i.argv[1], i.argv[2])
    OBVIOUS
  <2>1. i.op \in IntegerOps /\ i.op \notin OddOps
    BY DEF IntegerOps, OddOps
  <2>2. ~Odd(i, at)
    BY <2>1, OrdinaryInteger
  <2>3. EncodeInteger(i) = EncodeOut(i.argv[1], i.argv[2])
    BY AluIs, ShiftIs, TablesAre DEF EncodeInteger, AluOps
  <2>4. QED
    BY <2>1, <2>2, <2>3, IntegerCase
<1>6. i.op = "INT" => ~Odd(i, at) /\ EncodeCase(i, at) = EncodeInt(i.argv[1])
  <2> SUFFICES ASSUME i.op = "INT" PROVE ~Odd(i, at) /\ EncodeCase(i, at) = EncodeInt(i.argv[1])
    OBVIOUS
  <2>1. i.op \in IntegerOps /\ i.op \notin OddOps
    BY DEF IntegerOps, OddOps
  <2>2. ~Odd(i, at)
    BY <2>1, OrdinaryInteger
  <2>3. EncodeInteger(i) = EncodeInt(i.argv[1])
    BY AluIs, ShiftIs, TablesAre DEF EncodeInteger, AluOps
  <2>4. QED
    BY <2>1, <2>2, <2>3, IntegerCase
<1>7. i.op = "PUSH" => EncodeCase(i, at) = EncodePush(i.argv[1])
  <2> SUFFICES ASSUME i.op = "PUSH" PROVE EncodeCase(i, at) = EncodePush(i.argv[1])
    OBVIOUS
  <2>1. i.op \in IntegerOps
    BY DEF IntegerOps
  <2>3. EncodeInteger(i) = EncodePush(i.argv[1])
    BY AluIs, ShiftIs, TablesAre DEF EncodeInteger, AluOps
  <2>4. QED
    BY <2>1, <2>3, IntegerCase
<1>8. i.op = "POP" => EncodeCase(i, at) = EncodePop(i.argv[1])
  <2> SUFFICES ASSUME i.op = "POP" PROVE EncodeCase(i, at) = EncodePop(i.argv[1])
    OBVIOUS
  <2>1. i.op \in IntegerOps
    BY DEF IntegerOps
  <2>3. EncodeInteger(i) = EncodePop(i.argv[1])
    BY AluIs, ShiftIs, TablesAre DEF EncodeInteger, AluOps
  <2>4. QED
    BY <2>1, <2>3, IntegerCase
<1>9. i.op \in DOMAIN StringCode => ~Odd(i, at) /\ EncodeCase(i, at) = << StringCode[i.op] + WordBit(i.argv[1]) >>
  <2> SUFFICES ASSUME i.op \in DOMAIN StringCode PROVE ~Odd(i, at) /\ EncodeCase(i, at) = << StringCode[i.op] + WordBit(i.argv[1]) >>
    OBVIOUS
  <2>1. i.op \in IntegerOps /\ i.op \notin OddOps
    BY TablesAre DEF IntegerOps, OddOps
  <2>2. ~Odd(i, at)
    BY <2>1, OrdinaryInteger
  <2>3. EncodeInteger(i) = << StringCode[i.op] + WordBit(i.argv[1]) >>
    BY AluIs, ShiftIs, TablesAre DEF EncodeInteger, AluOps
  <2>4. QED
    BY <2>1, <2>2, <2>3, IntegerCase
<1>10. i.op \in DOMAIN LoadCode => EncodeCase(i, at) = EncodeLoad(LoadCode[i.op], i.argv[1], i.argv[2])
  <2> SUFFICES ASSUME i.op \in DOMAIN LoadCode PROVE EncodeCase(i, at) = EncodeLoad(LoadCode[i.op], i.argv[1], i.argv[2])
    OBVIOUS
  <2>1. i.op \in IntegerOps
    BY TablesAre DEF IntegerOps
  <2>3. EncodeInteger(i) = EncodeLoad(LoadCode[i.op], i.argv[1], i.argv[2])
    BY AluIs, ShiftIs, TablesAre DEF EncodeInteger, AluOps
  <2>4. QED
    BY <2>1, <2>3, IntegerCase
<1>11. i.op \in DOMAIN Group3Code => ~Odd(i, at) /\ EncodeCase(i, at) = << \hF6 + WordBit(i.argv[1]) >> \o ModRM(i.argv[1], Group3Code[i.op])
  <2> SUFFICES ASSUME i.op \in DOMAIN Group3Code PROVE ~Odd(i, at) /\ EncodeCase(i, at) = << \hF6 + WordBit(i.argv[1]) >> \o ModRM(i.argv[1], Group3Code[i.op])
    OBVIOUS
  <2>1. i.op \in IntegerOps /\ i.op \notin OddOps
    BY TablesAre DEF IntegerOps, OddOps
  <2>2. ~Odd(i, at)
    BY <2>1, OrdinaryInteger
  <2>3. EncodeInteger(i) = << \hF6 + WordBit(i.argv[1]) >> \o ModRM(i.argv[1], Group3Code[i.op])
    BY SMTT(30), AluIs, ShiftIs, TablesAre DEF EncodeInteger, AluOps
  <2>4. QED
    BY <2>1, <2>2, <2>3, IntegerCase
<1>12. i.op \in ShiftOps => ~Odd(i, at) /\ EncodeCase(i, at) = EncodeShift(Index(Shifts, i.op), i.argv[1], i.argv[2])
  <2> SUFFICES ASSUME i.op \in ShiftOps PROVE ~Odd(i, at) /\ EncodeCase(i, at) = EncodeShift(Index(Shifts, i.op), i.argv[1], i.argv[2])
    OBVIOUS
  <2>1. i.op \in IntegerOps /\ i.op \notin OddOps
    BY ShiftIs DEF IntegerOps, OddOps
  <2>2. ~Odd(i, at)
    BY <2>1, OrdinaryInteger
  <2>3. EncodeInteger(i) = EncodeShift(Index(Shifts, i.op), i.argv[1], i.argv[2])
    BY AluIs, ShiftIs, TablesAre DEF EncodeInteger, AluOps
  <2>4. QED
    BY <2>1, <2>2, <2>3, IntegerCase
<1>13. QED
  BY <1>1, <1>2, <1>3, <1>4, <1>5, <1>6, <1>7, <1>8, <1>9, <1>10, <1>11, <1>12

(* MOV.                                                                    *)
LEMMA VerdictMov ==
    ASSUME NEW i, NEW at, i.op = "MOV", NEW w \in {1, 2}, NEW a, Sized(a, w), NEW r \in 0 .. 7,
           i.argv = <<a, RegArg(r, w)>> \/ (IsMem(a) /\ i.argv = <<RegArg(r, w), a>>)
    PROVE  Verdict(i, at)
<1>1. ~Odd(i, at) /\ EncodeCase(i, at) = EncodeMov(i.argv[1], i.argv[2])
  BY IntegerDispatch
<1>2. \A b \in {\h88, \h8A, \hA0, \hA2} : b + (w - 1) \in Byte
  BY DEF Byte
<1>3. Fixed(RegArg(r, w))
  BY FixedKinds
<1>4. Direct(a) => a.base \in Int
  BY DirectIs
<1>5. CASE i.argv = <<a, RegArg(r, w)>>
  <2>1. EncodeCase(i, at) = EncodeMov(a, RegArg(r, w))
    BY <1>1, <1>5
  <2>2. EncodeCase(i, at) # << >>
    <3>1. CASE Direct(a) /\ r = AX
      <4>1. EncodeCase(i, at) = Headed(\hA2 + (w - 1), Word(a.base)) /\ \hA2 + (w - 1) \in Byte
        BY <1>2, <2>1, <3>1, MovRegisterForms
      <4>2. QED
        BY <1>4, <3>1, <4>1, FilledNumber
    <3>2. CASE ~(Direct(a) /\ r = AX)
      <4>1. EncodeCase(i, at) = Headed(\h88 + (w - 1), ModRM(a, r)) /\ \h88 + (w - 1) \in Byte
        BY <1>2, <2>1, <3>2, MovRegisterForms
      <4>2. QED
        BY <4>1, FilledRM
    <3>3. QED
      BY <3>1, <3>2
  <2>3. ASSUME NEW f, ReadsAs(f, EncodeCase(i, at), i.op)
        PROVE  Gives(f, at, i.op, <<Anew(a, f.segment), RegArg(r, w)>>)
    <3>1. Gives(f, at, "MOV", <<Anew(a, f.segment), RegArg(r, w)>>)
      BY <2>1, <2>3, ReadsAsIs, MovRegisterBack
    <3>2. QED
      BY <3>1
  <2>4. QED
    BY <1>1, <1>3, <1>5, <2>2, <2>3, KeepLeft
<1>6. CASE IsMem(a) /\ i.argv = <<RegArg(r, w), a>>
  <2>1. EncodeCase(i, at) = EncodeMov(RegArg(r, w), a)
    BY <1>1, <1>6
  <2>2. EncodeCase(i, at) # << >>
    <3>1. CASE Direct(a) /\ r = AX
      <4>1. EncodeCase(i, at) = Headed(\hA0 + (w - 1), Word(a.base)) /\ \hA0 + (w - 1) \in Byte
        BY <1>2, <2>1, <3>1, MovRegisterForms
      <4>2. QED
        BY <1>4, <3>1, <4>1, FilledNumber
    <3>2. CASE ~(Direct(a) /\ r = AX)
      <4>1. EncodeCase(i, at) = Headed(\h8A + (w - 1), ModRM(a, r)) /\ \h8A + (w - 1) \in Byte
        BY <1>2, <1>6, <2>1, <3>2, MovRegisterForms
      <4>2. QED
        BY <4>1, FilledRM
    <3>3. QED
      BY <3>1, <3>2
  <2>3. ASSUME NEW f, ReadsAs(f, EncodeCase(i, at), i.op)
        PROVE  Gives(f, at, i.op, <<RegArg(r, w), Anew(a, f.segment)>>)
    <3>1. Gives(f, at, "MOV", <<RegArg(r, w), Anew(a, f.segment)>>)
      BY <1>6, <2>1, <2>3, ReadsAsIs, MovRegisterBack
    <3>2. QED
      BY <3>1
  <2>4. QED
    BY <1>1, <1>3, <1>6, <2>2, <2>3, SegmentedOps, KeepRight
<1>7. QED
  BY <1>5, <1>6

LEMMA VerdictMovNumber ==
    ASSUME NEW i, NEW at, i.op = "MOV", NEW w \in {1, 2}, NEW a, Sized(a, w), NEW v, Number(v, w), v >= 0,
           i.argv = <<a, ImmArg(v, w)>>
    PROVE  Verdict(i, at)
<1>1. ~Odd(i, at) /\ EncodeCase(i, at) = EncodeMov(a, ImmArg(v, w))
  <2>1. ~Odd(i, at) /\ EncodeCase(i, at) = EncodeMov(i.argv[1], i.argv[2])
    BY IntegerDispatch
  <2>2. QED
    BY <2>1
<1>2. v \in Int /\ \hC6 + (w - 1) \in Byte
  BY DEF Byte, Number
<1>3. EncodeCase(i, at) # << >>
  <2>1. CASE IsReg(a)
    <3>1. EncodeCase(i, at) = Headed(\hB0 + 8 * (w - 1) + a.reg, Imm(v, w - 1))
      BY <1>1, <2>1, MovNumberForms
    <3>2. a.reg \in 0 .. 7
      BY <2>1, SizedKinds
    <3>3. \hB0 + 8 * (w - 1) + a.reg \in Byte
      BY <3>2 DEF Byte
    <3>4. QED
      BY <1>2, <3>1, <3>3, FilledNumber
  <2>2. CASE IsMem(a)
    <3>1. EncodeCase(i, at) = HeadedWith(\hC6 + (w - 1), ModRM(a, 0), Imm(v, w - 1))
      BY <1>1, <2>2, MovNumberForms
    <3>2. QED
      BY <1>2, <3>1, FilledRM
  <2>3. QED
    BY <2>1, <2>2, SizedKinds
<1>4. ASSUME NEW f, ReadsAs(f, EncodeCase(i, at), i.op)
      PROVE  Gives(f, at, i.op, <<Anew(a, f.segment), ImmArg(v, w)>>)
  <2>1. Gives(f, at, "MOV", <<Anew(a, f.segment), ImmArg(v, w)>>)
    BY <1>1, <1>4, ReadsAsIs, MovNumberBack
  <2>2. QED
    BY <2>1
<1>5. QED
  BY <1>1, <1>3, <1>4, FixedKinds, KeepLeft

LEMMA MovSegmentForms ==
    ASSUME NEW a, Sized(a, 2), NEW r
    PROVE  /\ EncodeMov(a, SRegArg(r)) = Headed(\h8C, ModRM(a, r))
           /\ EncodeMov(SRegArg(r), a) = Headed(\h8E, ModRM(a, r))
<1>1. /\ IsReg(a) \/ IsMem(a)
      /\ ~IsImm(a) /\ a.kind # "sreg" /\ (IsReg(a) => ~IsMem(a))
  BY SizedKinds
<1>2. ~IsReg(SRegArg(r)) /\ ~IsMem(SRegArg(r)) /\ ~IsImm(SRegArg(r)) /\ SRegArg(r).kind = "sreg" /\ SRegArg(r).reg = r
  BY DEF SRegArg, IsReg, IsMem, IsImm
<1>3. EncodeMov(a, SRegArg(r)) = <<\h8C>> \o ModRM(a, SRegArg(r).reg)
  BY <1>1, <1>2 DEF EncodeMov
<1>4. EncodeMov(SRegArg(r), a) = <<\h8E>> \o ModRM(a, SRegArg(r).reg)
  BY <1>1, <1>2 DEF EncodeMov
<1>5. QED
  BY <1>2, <1>3, <1>4 DEF Headed

LEMMA VerdictMovSegment ==
    ASSUME NEW i, NEW at, i.op = "MOV", NEW a, Sized(a, 2), NEW r \in 0 .. 7,
           i.argv = <<a, SRegArg(r)>> \/ i.argv = <<SRegArg(r), a>>
    PROVE  Verdict(i, at)
<1>1. ~Odd(i, at) /\ EncodeCase(i, at) = EncodeMov(i.argv[1], i.argv[2])
  BY IntegerDispatch
<1>2. \h8C \in Byte /\ \h8E \in Byte
  BY DEF Byte
<1>3. Fixed(SRegArg(r))
  BY FixedKinds
<1>4. CASE i.argv = <<a, SRegArg(r)>>
  <2>1. EncodeCase(i, at) = EncodeMov(a, SRegArg(r))
    BY <1>1, <1>4
  <2>2. EncodeCase(i, at) = Headed(\h8C, ModRM(a, r))
    BY <2>1, MovSegmentForms
  <2>3. EncodeCase(i, at) # << >>
    BY <1>2, <2>2, FilledRM
  <2>4. ASSUME NEW f, ReadsAs(f, EncodeCase(i, at), i.op)
        PROVE  Gives(f, at, i.op, <<Anew(a, f.segment), SRegArg(r)>>)
    <3>1. Gives(f, at, "MOV", <<Anew(a, f.segment), SRegArg(r)>>)
      BY <2>1, <2>4, ReadsAsIs, MovSegmentBack
    <3>2. QED
      BY <3>1
  <2>5. QED
    BY <1>1, <1>3, <1>4, <2>3, <2>4, KeepLeft
<1>5. CASE i.argv = <<SRegArg(r), a>>
  <2>1. EncodeCase(i, at) = EncodeMov(SRegArg(r), a)
    BY <1>1, <1>5
  <2>2. EncodeCase(i, at) = Headed(\h8E, ModRM(a, r))
    BY <2>1, MovSegmentForms
  <2>3. EncodeCase(i, at) # << >>
    BY <1>2, <2>2, FilledRM
  <2>4. ASSUME NEW f, ReadsAs(f, EncodeCase(i, at), i.op)
        PROVE  Gives(f, at, i.op, <<SRegArg(r), Anew(a, f.segment)>>)
    <3>1. Gives(f, at, "MOV", <<SRegArg(r), Anew(a, f.segment)>>)
      BY <2>1, <2>4, ReadsAsIs, MovSegmentBack
    <3>2. QED
      BY <3>1
  <2>5. QED
    BY <1>1, <1>3, <1>5, <2>3, <2>4, SegmentedOps, KeepRight
<1>6. QED
  BY <1>4, <1>5

(* PUSH and POP.                                                           *)
LEMMA StackOrdinary ==
    ASSUME NEW i, NEW at, i.op = "PUSH" \/ i.op = "POP", ~WidensByte(i)
    PROVE  ~Odd(i, at)
<1>1. ~Wraps(i, at) /\ ~Outreaches(i, at) /\ ~BecomesNop(i)
  BY BranchNames DEF OddOps, Wraps, Outreaches, BecomesNop
<1>2. ~HasNoForm(i)
  BY TablesAre, FpuTablesAre DEF HasNoForm, NoCase
<1>3. ~Flips(i) /\ ~MisreadsStore(i)
  BY DEF Flips, MisreadsStore
<1>4. QED
  BY <1>1, <1>2, <1>3 DEF Odd

LEMMA StackFilled ==
    ASSUME NEW w, NEW a, Sized(a, w)
    PROVE  EncodePush(a) # << >> /\ EncodePop(a) # << >>
<1>1. CASE IsReg(a)
  <2>1. EncodePush(a) = << \h50 + a.reg >> /\ EncodePop(a) = << \h58 + a.reg >>
    BY <1>1, StackForms
  <2>2. QED
    BY <2>1
<1>2. CASE IsMem(a)
  <2>1. EncodePush(a) = Headed(\hFF, ModRM(a, 6)) /\ EncodePop(a) = Headed(\h8F, ModRM(a, 0))
    BY <1>2, StackForms
  <2>2. \hFF \in Byte /\ \h8F \in Byte
    BY DEF Byte
  <2>3. QED
    BY <2>1, <2>2, FilledRM
<1>3. QED
  BY <1>1, <1>2, SizedKinds

LEMMA VerdictStack ==
    ASSUME NEW i, NEW at, i.op = "PUSH" \/ i.op = "POP", NEW w \in {1, 2}, NEW a, Sized(a, w), i.argv = <<a>>
    PROVE  Verdict(i, at)
<1>1. /\ i.op = "PUSH" => EncodeCase(i, at) = EncodePush(i.argv[1])
      /\ i.op = "POP" => EncodeCase(i, at) = EncodePop(i.argv[1])
  BY IntegerDispatch
<1>2. /\ i.op = "PUSH" => EncodeCase(i, at) = EncodePush(a)
      /\ i.op = "POP" => EncodeCase(i, at) = EncodePop(a)
  BY <1>1
<1>3. EncodeCase(i, at) # << >>
  BY <1>2, StackFilled
<1>4. ASSUME NEW f, ReadsAs(f, EncodeCase(i, at), i.op)
      PROVE  Gives(f, at, i.op, <<Again(a, f.segment, 2)>>)
  <2>1. Parsed(f, EncodeCase(i, at)) /\ f.op # "UD_NOP"
    BY <1>4, ReadsAsIs
  <2>2. CASE i.op = "PUSH"
    <3>1. Gives(f, at, "PUSH", <<Again(a, f.segment, 2)>>)
      BY <1>2, <2>1, <2>2, StackBack
    <3>2. QED
      BY <2>2, <3>1
  <2>3. CASE i.op = "POP"
    <3>1. Gives(f, at, "POP", <<Again(a, f.segment, 2)>>)
      BY <1>2, <2>1, <2>3, StackBack
    <3>2. QED
      BY <2>3, <3>1
  <2>4. QED
    BY <2>2, <2>3
<1>5. (IsReg(a) \/ IsMem(a)) /\ (IsReg(a) <=> a.kind = "reg") /\ (IsMem(a) <=> a.kind = "mem") /\ a.size = w
  BY SizedKinds
<1>6. CASE w = 1
  <2>1. WidensByte(i)
    BY <1>5, <1>6 DEF WidensByte
  <2>2. ASSUME NEW f, ReadsAs(f, EncodeCase(i, at), i.op) PROVE Lost(i, f, at)
    <3>1. Gives(f, at, i.op, <<Again(a, f.segment, 2)>>) /\ w # 2
      BY <1>4, <1>6, <2>2
    <3>2. QED
      BY <2>1, <3>1 DEF Lost
  <2>3. QED
    BY <2>1, <2>2 DEF Verdict, Odd
<1>7. CASE w = 2
  <2>1. ~WidensByte(i)
    BY <1>5, <1>7 DEF WidensByte
  <2>2. ~Odd(i, at)
    BY <2>1, StackOrdinary
  <2>3. \A t : Again(a, t, 2) = Anew(a, t)
    BY <1>7, AgainIsAnew
  <2>4. ASSUME NEW f, ReadsAs(f, EncodeCase(i, at), i.op)
        PROVE  Gives(f, at, i.op, <<Anew(a, f.segment)>>)
    <3>1. Gives(f, at, i.op, <<Again(a, f.segment, 2)>>)
      BY <1>4, <2>4
    <3>2. QED
      BY <2>3, <3>1
  <2>5. Proper(a)
    BY ProperKinds
  <2>6. QED
    BY <1>3, <2>2, <2>4, <2>5, OtherStrings, Keep1
<1>8. QED
  BY <1>6, <1>7

LEMMA SegmentStackForms ==
    ASSUME NEW r
    PROVE  EncodePush(SRegArg(r)) = << 8 * r + 6 >> /\ EncodePop(SRegArg(r)) = << 8 * r + 7 >>
<1>1. ~IsReg(SRegArg(r)) /\ ~IsMem(SRegArg(r)) /\ SRegArg(r).kind = "sreg" /\ SRegArg(r).reg = r
  BY DEF SRegArg, IsReg, IsMem
<1>2. QED
  BY <1>1 DEF EncodePush, EncodePop

LEMMA VerdictSegmentStack ==
    ASSUME NEW i, NEW at, i.op = "PUSH" \/ i.op = "POP", NEW r \in 0 .. 3, i.argv = <<SRegArg(r)>>
    PROVE  Verdict(i, at)
<1>1. /\ i.op = "PUSH" => EncodeCase(i, at) = EncodePush(i.argv[1])
      /\ i.op = "POP" => EncodeCase(i, at) = EncodePop(i.argv[1])
  BY IntegerDispatch
<1>2. /\ i.op = "PUSH" => EncodeCase(i, at) = EncodePush(SRegArg(r))
      /\ i.op = "POP" => EncodeCase(i, at) = EncodePop(SRegArg(r))
  BY <1>1
<1>3. EncodeCase(i, at) # << >>
  BY <1>2, SegmentStackForms
<1>4. ASSUME NEW f, ReadsAs(f, EncodeCase(i, at), i.op)
      PROVE  Gives(f, at, i.op, <<SRegArg(r)>>)
  <2>1. Parsed(f, EncodeCase(i, at)) /\ f.op # "UD_NOP"
    BY <1>4, ReadsAsIs
  <2>2. CASE i.op = "PUSH"
    <3>1. Gives(f, at, "PUSH", <<SRegArg(r)>>)
      BY <1>2, <2>1, <2>2, SegmentStackBack
    <3>2. QED
      BY <2>2, <3>1
  <2>3. CASE i.op = "POP"
    <3>1. Gives(f, at, "POP", <<SRegArg(r)>>)
      BY <1>2, <2>1, <2>3, SegmentStackBack
    <3>2. QED
      BY <2>3, <3>1
  <2>4. QED
    BY <2>2, <2>3
<1>5. ~WidensByte(i)
  BY DEF WidensByte, SRegArg
<1>6. ~Odd(i, at)
  BY <1>5, StackOrdinary
<1>7. QED
  BY <1>3, <1>4, <1>6, FixedKinds, KeepFixed

(* INC and DEC.                                                            *)
LEMMA VerdictIncDec ==
    ASSUME NEW i, NEW at, i.op = "INC" \/ i.op = "DEC", NEW w \in {1, 2}, NEW a, Sized(a, w), i.argv = <<a>>
    PROVE  Verdict(i, at)
<1> DEFINE n == IF i.op = "INC" THEN 0 ELSE 1
<1>1. ~Odd(i, at) /\ EncodeCase(i, at) = EncodeIncDec(n, i.argv[1])
  BY IntegerDispatch
<1>2. EncodeCase(i, at) = EncodeIncDec(n, a)
  BY <1>1
<1>3. n \in {0, 1} /\ i.op = IF n = 0 THEN "INC" ELSE "DEC"
  OBVIOUS
<1> HIDE DEF n
<1>4. EncodeCase(i, at) # << >>
  <2>1. CASE IsReg(a) /\ w = 2
    <3>1. EncodeCase(i, at) = << \h40 + 8 * n + a.reg >>
      BY <1>2, <1>3, <2>1, IncDecForms
    <3>2. QED
      BY <3>1
  <2>2. CASE ~(IsReg(a) /\ w = 2)
    <3>1. EncodeCase(i, at) = Headed(\hFE + (w - 1), ModRM(a, n)) /\ \hFE + (w - 1) \in Byte /\ n \in 0 .. 7
      BY <1>2, <1>3, <2>2, IncDecForms DEF Byte
    <3>2. QED
      BY <3>1, FilledRM
  <2>3. QED
    BY <2>1, <2>2
<1>5. ASSUME NEW f, ReadsAs(f, EncodeCase(i, at), i.op)
      PROVE  Gives(f, at, i.op, <<Anew(a, f.segment)>>)
  <2>1. Gives(f, at, IF n = 0 THEN "INC" ELSE "DEC", <<Anew(a, f.segment)>>)
    BY <1>2, <1>3, <1>5, ReadsAsIs, IncDecBack
  <2>2. QED
    BY <1>3, <2>1
<1>6. Proper(a)
  BY ProperKinds
<1>7. QED
  BY <1>1, <1>4, <1>5, <1>6, OtherStrings, Keep1

(* LEA, LES and LDS.                                                       *)
LEMMA LoadOrdinary ==
    ASSUME NEW i, NEW at, i.op \in DOMAIN LoadCode, ~IsReg(i.argv[2])
    PROVE  ~Odd(i, at)
<1>1. i.op \in {"LEA", "LES", "LDS"}
  BY TablesAre
<1>2. ~Wraps(i, at) /\ ~Outreaches(i, at) /\ ~WidensByte(i) /\ ~BecomesNop(i)
  BY <1>1, BranchNames DEF OddOps, Wraps, Outreaches, WidensByte, BecomesNop
<1>3. ~HasNoForm(i)
  BY <1>1, FpuTablesAre DEF HasNoForm, NoCase
<1>4. ~Flips(i) /\ ~MisreadsStore(i)
  BY <1>1 DEF Flips, MisreadsStore
<1>5. QED
  BY <1>2, <1>3, <1>4 DEF Odd

LEMMA LoadCodes ==
    LoadCode["LEA"] = \h8D /\ LoadCode["LES"] = \hC4 /\ LoadCode["LDS"] = \hC5
  BY DEF LoadCode

LEMMA VerdictLoad ==
    ASSUME NEW i, NEW at, NEW z, (i.op = "LEA" /\ z = 2) \/ (i.op \in {"LES", "LDS"} /\ z = 4),
           NEW a, Sized(a, z), NEW r \in 0 .. 7, i.argv = <<RegArg(r, 2), a>>
    PROVE  Verdict(i, at)
<1>1. i.op \in DOMAIN LoadCode
  BY TablesAre
<1>2. EncodeCase(i, at) = EncodeLoad(LoadCode[i.op], i.argv[1], i.argv[2])
  BY <1>1, IntegerDispatch
<1>3. EncodeCase(i, at) = EncodeLoad(LoadCode[i.op], RegArg(r, 2), a)
  BY <1>2
<1>4. (IsReg(a) <=> ~IsMem(a)) /\ i.argv[2] = a
  BY SizedKinds
<1>5. CASE IsReg(a)
  <2>1. EncodeCase(i, at) = << >>
    BY <1>3, <1>4, <1>5 DEF EncodeLoad
  <2>2. HasNoForm(i)
    BY <1>1, <1>4, <1>5 DEF HasNoForm
  <2>3. QED
    BY <2>1, <2>2 DEF Verdict, Odd
<1>6. CASE IsMem(a)
  <2>1. ~Odd(i, at)
    BY <1>1, <1>4, <1>6, LoadOrdinary
  <2>2. EncodeLoad(LoadCode[i.op], RegArg(r, 2), a) = Headed(LoadCode[i.op], ModRM(a, r))
    BY <1>6 DEF EncodeLoad, Headed, RegArg
  <2>3. LoadCode[i.op] \in Byte
    BY LoadCodes DEF Byte
  <2>4. EncodeCase(i, at) # << >>
    BY <1>3, <2>2, <2>3, FilledRM
  <2>5. ASSUME NEW f, ReadsAs(f, EncodeCase(i, at), i.op)
        PROVE  Gives(f, at, i.op, <<RegArg(r, 2), Anew(a, f.segment)>>)
    <3>1. Parsed(f, EncodeLoad(LoadCode[i.op], RegArg(r, 2), a)) /\ f.op # "UD_NOP"
      BY <1>3, <2>5, ReadsAsIs
    <3>2. CASE i.op = "LEA"
      <4>1. Gives(f, at, "LEA", <<RegArg(r, 2), Anew(a, f.segment)>>)
        BY <1>6, <3>1, <3>2, LoadCodes, LoadBack
      <4>2. QED
        BY <3>2, <4>1
    <3>3. CASE i.op = "LES"
      <4>1. Gives(f, at, "LES", <<RegArg(r, 2), Anew(a, f.segment)>>)
        BY <1>6, <3>1, <3>3, LoadCodes, LoadBack
      <4>2. QED
        BY <3>3, <4>1
    <3>4. CASE i.op = "LDS"
      <4>1. Gives(f, at, "LDS", <<RegArg(r, 2), Anew(a, f.segment)>>)
        BY <1>6, <3>1, <3>4, LoadCodes, LoadBack
      <4>2. QED
        BY <3>4, <4>1
    <3>5. QED
      BY <3>2, <3>3, <3>4
  <2>6. i.op \notin Unsegmented
    BY TablesAre, SegmentedOps
  <2>7. QED
    BY <2>1, <2>4, <2>5, <2>6, FixedKinds, KeepRight
<1>7. QED
  BY <1>4, <1>5, <1>6

(* The shifts.                                                             *)
LEMMA ShiftOpcodesAre ==
    ASSUME NEW w \in {1, 2}
    PROVE  \A b \in {\hC0, \hD0, \hD2} : b + (w - 1) \in Byte
  BY DEF Byte

LEMMA ByteIsInt ==
    ASSUME NEW v \in Byte
    PROVE  v \in Int
  BY DEF Byte

LEMMA ShiftNumber ==
    ASSUME NEW op \in ShiftOps
    PROVE  Index(Shifts, op) \in 0 .. 7 /\ Shifts[Index(Shifts, op) + 1] = op
<1>1. In(Shifts, op)
  BY ShiftIs DEF In, Shifts
<1>2. \A k \in DOMAIN Shifts : k \in Int
  BY DEF Shifts
<1>3. Shifts[Index(Shifts, op) + 1] = op
  BY <1>1, <1>2, IndexOf
<1>4. Index(Shifts, op) \in 0 .. 7
  BY <1>1 DEF In, Index, Shifts
<1>5. QED
  BY <1>3, <1>4

LEMMA VerdictShift ==
    ASSUME NEW i, NEW at, i.op \in ShiftOps, NEW w \in {1, 2}, NEW a, Sized(a, w),
           i.argv = <<a, RegArg(CX, 1)>> \/ \E v \in Byte : i.argv = <<a, ImmArg(v, 1)>>
    PROVE  Verdict(i, at)
<1> DEFINE n == Index(Shifts, i.op)
<1>1. ~Odd(i, at) /\ EncodeCase(i, at) = EncodeShift(n, i.argv[1], i.argv[2])
  BY IntegerDispatch
<1>2. n \in 0 .. 7 /\ Shifts[n + 1] = i.op
  BY ShiftNumber
<1> HIDE DEF n
<1>3. \A b \in {\hC0, \hD0, \hD2} : b + (w - 1) \in Byte
  BY ShiftOpcodesAre
<1>4. CASE i.argv = <<a, RegArg(CX, 1)>>
  <2>1. EncodeCase(i, at) = EncodeShift(n, a, RegArg(CX, 1))
    BY <1>1, <1>4
  <2>2. EncodeCase(i, at) = Headed(\hD2 + (w - 1), ModRM(a, n)) /\ \hD2 + (w - 1) \in Byte
    BY <1>3, <2>1, ShiftForms
  <2>3. EncodeCase(i, at) # << >>
    BY <1>2, <2>2, FilledRM
  <2>4. ASSUME NEW f, ReadsAs(f, EncodeCase(i, at), i.op)
        PROVE  Gives(f, at, i.op, <<Anew(a, f.segment), RegArg(CX, 1)>>)
    <3>1. Gives(f, at, Shifts[n + 1], <<Anew(a, f.segment), RegArg(CX, 1)>>)
      BY <1>2, <2>1, <2>4, ReadsAsIs, ShiftCountBack
    <3>2. QED
      BY <1>2, <3>1
  <2>5. QED
    BY <1>1, <1>4, <2>3, <2>4, FixedKinds, KeepLeft
<1>5. ASSUME NEW v \in Byte, i.argv = <<a, ImmArg(v, 1)>> PROVE Verdict(i, at)
  <2>1. EncodeCase(i, at) = EncodeShift(n, a, ImmArg(v, 1))
    BY <1>1, <1>5
  <2>2. EncodeCase(i, at) # << >>
    <3>1. CASE v = 1
      <4>1. EncodeCase(i, at) = Headed(\hD0 + (w - 1), ModRM(a, n)) /\ \hD0 + (w - 1) \in Byte
        BY <1>3, <2>1, <3>1, ShiftForms
      <4>2. QED
        BY <1>2, <4>1, FilledRM
    <3>2. CASE v # 1
      <4>1. EncodeCase(i, at) = HeadedWith(\hC0 + (w - 1), ModRM(a, n), Imm(v, 1 - 1)) /\ \hC0 + (w - 1) \in Byte
        BY <1>3, <2>1, <3>2, ShiftForms
      <4>2. v \in Int
        BY <1>5, ByteIsInt
      <4>3. QED
        BY <1>2, <4>1, <4>2, FilledRM
    <3>3. QED
      BY <3>1, <3>2
  <2>3. ASSUME NEW f, ReadsAs(f, EncodeCase(i, at), i.op)
        PROVE  Gives(f, at, i.op, <<Anew(a, f.segment), ImmArg(v, 1)>>)
    <3>1. Gives(f, at, Shifts[n + 1], <<Anew(a, f.segment), ImmArg(v, 1)>>)
      BY <1>2, <2>1, <2>3, ReadsAsIs, ShiftBack
    <3>2. QED
      BY <1>2, <3>1
  <2>4. QED
    BY <1>1, <1>5, <2>2, <2>3, FixedKinds, KeepLeft
<1>6. QED
  BY <1>4, <1>5

(* NOT to IDIV.                                                            *)
LEMMA Group3Names ==
    ASSUME NEW op \in DOMAIN Group3Code
    PROVE  Group3Code[op] \in 2 .. 7 /\ Group3[Group3Code[op] + 1] = op
<1>1. op \in {"NOT", "NEG", "MUL", "IMUL", "DIV", "IDIV"}
  BY TablesAre
<1>2. QED
  BY <1>1 DEF Group3Code, Group3

LEMMA VerdictGroup3 ==
    ASSUME NEW i, NEW at, i.op \in DOMAIN Group3Code, NEW w \in {1, 2}, NEW a, Sized(a, w), i.argv = <<a>>
    PROVE  Verdict(i, at)
<1> DEFINE n == Group3Code[i.op]
<1>1. ~Odd(i, at) /\ EncodeCase(i, at) = << \hF6 + WordBit(i.argv[1]) >> \o ModRM(i.argv[1], n)
  BY IntegerDispatch
<1>2. EncodeCase(i, at) = << \hF6 + WordBit(a) >> \o ModRM(a, n)
  BY <1>1
<1>3. n \in 2 .. 7 /\ Group3[n + 1] = i.op
  BY Group3Names
<1> HIDE DEF n
<1>4. WordBit(a) = w - 1
  BY WordOfSize DEF Sized
<1>5. EncodeCase(i, at) = Headed(\hF6 + (w - 1), ModRM(a, n)) /\ \hF6 + (w - 1) \in Byte /\ n \in 0 .. 7
  <2>1. EncodeCase(i, at) = Headed(\hF6 + (w - 1), ModRM(a, n))
    BY <1>2, <1>4 DEF Headed
  <2>2. QED
    BY <1>3, <2>1 DEF Byte
<1>6. EncodeCase(i, at) # << >>
  BY <1>5, FilledRM
<1>7. ASSUME NEW f, ReadsAs(f, EncodeCase(i, at), i.op)
      PROVE  Gives(f, at, i.op, <<Anew(a, f.segment)>>)
  <2>1. Gives(f, at, Group3[n + 1], <<Anew(a, f.segment)>>)
    BY <1>2, <1>3, <1>7, ReadsAsIs, Group3Back
  <2>2. QED
    BY <1>3, <2>1
<1>8. Proper(a)
  BY ProperKinds
<1>9. QED
  BY <1>1, <1>6, <1>7, <1>8, OtherStrings, Keep1

(* The string instructions.                                                *)
LEMMA SourceIs ==
    ASSUME NEW g, NEW w
    PROVE  LET q == MemArg(<<SI>>, 0, g, w)
           IN  /\ IsMem(q) /\ q.kind = "mem" /\ Operand(q) /\ q.size = w
               /\ \A f : Anew(q, f.segment) = StringSource(f, w)
<1> DEFINE q == MemArg(<<SI>>, 0, g, w)
<1>1. q.kind = "mem" /\ q.regs = <<SI>> /\ q.base = 0 /\ q.size = w /\ IsMem(q)
  BY DEF MemArg, IsMem
<1>2. <<SI>> \in Addressing
  <2>1. Regs16(4) = <<SI>>
    BY DEF Regs16
  <2>2. 4 \in 0 .. 7
    OBVIOUS
  <2>3. QED
    BY <2>1, <2>2 DEF Addressing
<1>3. 0 \in Word16
  BY DEF Word16
<1>4. Operand(q)
  BY <1>2, <1>3 DEF Operand
<1>5. \A t : DefaultSegment(<<SI>>, t) = IF t # NoSegment THEN t ELSE DS
  BY DEF DefaultSegment, SI, BP, SP
<1>6. ASSUME NEW f PROVE Anew(q, f.segment) = StringSource(f, w)
  <2>1. Anew(q, f.segment) = MemArg(<<SI>>, 0, DefaultSegment(<<SI>>, f.segment), w)
    BY <1>1 DEF Anew
  <2>2. DefaultSegment(<<SI>>, f.segment) = Segmented(f, DS)
    BY <1>5 DEF Segmented
  <2>3. QED
    BY <2>1, <2>2 DEF StringSource
<1>7. QED
  BY <1>1, <1>4, <1>6

LEMMA StringCodes ==
    /\ StringCode["MOVS"] = \hA4 /\ StringCode["CMPS"] = \hA6 /\ StringCode["STOS"] = \hAA
    /\ StringCode["LODS"] = \hAC /\ StringCode["SCAS"] = \hAE
  BY DEF StringCode

LEMMA DestIs == ASSUME NEW w PROVE StringDest(w).size = w
  BY DEF StringDest, MemArg

LEMMA VerdictStrings ==
    ASSUME NEW i, NEW at, i.op \in {"MOVS", "CMPS"}, NEW w \in {1, 2}, NEW g,
           i.argv = <<StringDest(w), MemArg(<<SI>>, 0, g, w)>>
    PROVE  Verdict(i, at)
<1> DEFINE q == MemArg(<<SI>>, 0, g, w)
<1>1. i.op \in DOMAIN StringCode
  BY TablesAre
<1>2. ~Odd(i, at) /\ EncodeCase(i, at) = << StringCode[i.op] + WordBit(i.argv[1]) >>
  BY <1>1, IntegerDispatch
<1>3. i.argv[1] = StringDest(w) /\ StringDest(w).size = w
  BY DestIs
<1>4. WordBit(i.argv[1]) = w - 1
  BY <1>3, WordOfSize
<1>5. EncodeCase(i, at) = << StringCode[i.op] + (w - 1) >>
  BY <1>2, <1>4
<1>6. EncodeCase(i, at) # << >>
  BY <1>5
<1>7. ASSUME NEW f, ReadsAs(f, EncodeCase(i, at), i.op)
      PROVE  Gives(f, at, i.op, <<StringDest(w), StringSource(f, w)>>)
  <2>1. Parsed(f, << StringCode[i.op] + (w - 1) >>)
    BY <1>5, <1>7, ReadsAsIs
  <2>2. CASE i.op = "MOVS"
    <3>1. Parsed(f, << \hA4 + (w - 1) >>)
      BY <2>1, <2>2, StringCodes
    <3>2. Gives(f, at, "MOVS", <<StringDest(w), StringSource(f, w)>>)
      BY <3>1, StringBack
    <3>3. QED
      BY <2>2, <3>2
  <2>3. CASE i.op = "CMPS"
    <3>1. Parsed(f, << \hA6 + (w - 1) >>)
      BY <2>1, <2>3, StringCodes
    <3>2. Gives(f, at, "CMPS", <<StringDest(w), StringSource(f, w)>>)
      BY <3>1, StringBack
    <3>3. QED
      BY <2>3, <3>2
  <2>4. QED
    BY <2>2, <2>3
<1>8. IsMem(q) /\ Operand(q) /\ \A f : Anew(q, f.segment) = StringSource(f, w)
  BY SourceIs
<1>9. i.argv = <<StringDest(w), q>>
  OBVIOUS
<1> HIDE DEF q
<1>10. ASSUME NEW f, ReadsAs(f, EncodeCase(i, at), i.op) PROVE Kept(i, f, at)
  <2>1. Gives(f, at, i.op, <<StringDest(w), Anew(q, f.segment)>>)
    BY <1>7, <1>8, <1>10
  <2>2. QED
    BY <1>8, <1>9, <2>1 DEF Kept, Gives, AsStrings
<1>11. QED
  BY <1>2, <1>6, <1>10 DEF Verdict

LEMMA VerdictString ==
    ASSUME NEW i, NEW at, NEW w \in {1, 2}, NEW g,
           \/ i.op \in ToES /\ i.argv = <<StringDest(w)>>
           \/ i.op = "LODS" /\ i.argv = <<MemArg(<<SI>>, 0, g, w)>>
    PROVE  Verdict(i, at)
<1> DEFINE q == MemArg(<<SI>>, 0, g, w)
<1>1. i.op \in DOMAIN StringCode
  BY TablesAre DEF ToES
<1>2. ~Odd(i, at) /\ EncodeCase(i, at) = << StringCode[i.op] + WordBit(i.argv[1]) >>
  BY <1>1, IntegerDispatch
<1>3. StringDest(w).size = w /\ q.size = w /\ Operand(q) /\ q.kind = "mem" /\ \A f : Anew(q, f.segment) = StringSource(f, w)
  BY DestIs, SourceIs
<1> HIDE DEF q
<1>4. i.argv[1].size = w
  BY <1>3 DEF q
<1>5. WordBit(i.argv[1]) = w - 1
  BY <1>4, WordOfSize
<1>6. EncodeCase(i, at) = << StringCode[i.op] + (w - 1) >>
  BY <1>2, <1>5
<1>7. EncodeCase(i, at) # << >>
  BY <1>6
<1>8. CASE i.op = "LODS" /\ i.argv = <<q>>
  <2>1. ASSUME NEW f, ReadsAs(f, EncodeCase(i, at), i.op)
        PROVE  Gives(f, at, i.op, <<Anew(q, f.segment)>>)
    <3>1. Parsed(f, << \hAC + (w - 1) >>)
      BY <1>6, <1>8, <2>1, ReadsAsIs, StringCodes
    <3>2. Gives(f, at, "LODS", <<StringSource(f, w)>>)
      BY <3>1, StringBack
    <3>3. QED
      BY <1>3, <1>8, <3>2
  <2>2. Proper(q)
    BY <1>3 DEF Proper
  <2>3. QED
    BY <1>2, <1>7, <1>8, <2>1, <2>2, OtherStrings, Keep1
<1>9. CASE i.op \in ToES /\ i.argv = <<StringDest(w)>>
  <2>1. ASSUME NEW f, ReadsAs(f, EncodeCase(i, at), i.op)
        PROVE  Gives(f, at, i.op, <<StringDest(w)>>)
    <3>1. Parsed(f, << StringCode[i.op] + (w - 1) >>)
      BY <1>6, <2>1, ReadsAsIs
    <3>2. CASE i.op = "STOS"
      <4>1. Parsed(f, << \hAA + (w - 1) >>)
        BY <3>1, <3>2, StringCodes
      <4>2. Gives(f, at, "STOS", <<StringDest(w)>>)
        BY <4>1, StringBack
      <4>3. QED
        BY <3>2, <4>2
    <3>3. CASE i.op = "SCAS"
      <4>1. Parsed(f, << \hAE + (w - 1) >>)
        BY <3>1, <3>3, StringCodes
      <4>2. Gives(f, at, "SCAS", <<StringDest(w)>>)
        BY <4>1, StringBack
      <4>3. QED
        BY <3>3, <4>2
    <3>4. QED
      BY <1>9, <3>2, <3>3 DEF ToES
  <2>2. ASSUME NEW f, ReadsAs(f, EncodeCase(i, at), i.op) PROVE Kept(i, f, at)
    <3>1. Gives(f, at, i.op, <<StringDest(w)>>)
      BY <2>1, <2>2
    <3>2. QED
      BY <1>9, <3>1 DEF Kept, Gives, AsStrings
  <2>3. QED
    BY <1>2, <1>7, <2>2 DEF Verdict
<1>10. QED
  BY <1>8, <1>9 DEF q

(* IN and OUT.                                                             *)
LEMMA VerdictPortCount ==
    ASSUME NEW i, NEW at, NEW w \in {1, 2},
           \/ i.op = "IN" /\ i.argv = <<RegArg(AX, w), RegArg(DX, 2)>>
           \/ i.op = "OUT" /\ i.argv = <<RegArg(DX, 2), RegArg(AX, w)>>
    PROVE  Verdict(i, at)
<1>1. \A r, z : Fixed(RegArg(r, z))
  BY FixedKinds
<1>2. CASE i.op = "IN" /\ i.argv = <<RegArg(AX, w), RegArg(DX, 2)>>
  <2>1. ~Odd(i, at) /\ EncodeCase(i, at) = EncodeIn(i.argv[1], i.argv[2])
    BY <1>2, IntegerDispatch
  <2>2. EncodeCase(i, at) = EncodeIn(RegArg(AX, w), RegArg(DX, 2))
    BY <1>2, <2>1
  <2>3. EncodeCase(i, at) # << >>
    BY <2>2, PortForms
  <2>4. ASSUME NEW f, ReadsAs(f, EncodeCase(i, at), i.op)
        PROVE  Gives(f, at, i.op, <<RegArg(AX, w), RegArg(DX, 2)>>)
    <3>1. Gives(f, at, "IN", <<RegArg(AX, w), RegArg(DX, 2)>>)
      BY <2>2, <2>4, ReadsAsIs, PortCountBack
    <3>2. QED
      BY <1>2, <3>1
  <2>5. QED
    BY <1>1, <1>2, <2>1, <2>3, <2>4, KeepBoth
<1>3. CASE i.op = "OUT" /\ i.argv = <<RegArg(DX, 2), RegArg(AX, w)>>
  <2>1. ~Odd(i, at) /\ EncodeCase(i, at) = EncodeOut(i.argv[1], i.argv[2])
    BY <1>3, IntegerDispatch
  <2>2. EncodeCase(i, at) = EncodeOut(RegArg(DX, 2), RegArg(AX, w))
    BY <1>3, <2>1
  <2>3. EncodeCase(i, at) # << >>
    BY <2>2, PortForms
  <2>4. ASSUME NEW f, ReadsAs(f, EncodeCase(i, at), i.op)
        PROVE  Gives(f, at, i.op, <<RegArg(DX, 2), RegArg(AX, w)>>)
    <3>1. Gives(f, at, "OUT", <<RegArg(DX, 2), RegArg(AX, w)>>)
      BY <2>2, <2>4, ReadsAsIs, PortCountBack
    <3>2. QED
      BY <1>3, <3>1
  <2>5. QED
    BY <1>1, <1>3, <2>1, <2>3, <2>4, KeepBoth
<1>4. QED
  BY <1>2, <1>3

LEMMA VerdictPort ==
    ASSUME NEW i, NEW at, NEW w \in {1, 2}, NEW v \in Byte,
           \/ i.op = "IN" /\ i.argv = <<RegArg(AX, w), ImmArg(v, 0)>>
           \/ i.op = "OUT" /\ i.argv = <<ImmArg(v, 0), RegArg(AX, w)>>
    PROVE  Verdict(i, at)
<1>1. \A r, z : Fixed(RegArg(r, z)) /\ Fixed(ImmArg(r, z))
  BY FixedKinds
<1>2. CASE i.op = "IN" /\ i.argv = <<RegArg(AX, w), ImmArg(v, 0)>>
  <2>1. ~Odd(i, at) /\ EncodeCase(i, at) = EncodeIn(i.argv[1], i.argv[2])
    BY <1>2, IntegerDispatch
  <2>2. EncodeCase(i, at) = EncodeIn(RegArg(AX, w), ImmArg(v, 0))
    BY <1>2, <2>1
  <2>3. EncodeCase(i, at) # << >>
    BY <2>2, PortForms
  <2>4. ASSUME NEW f, ReadsAs(f, EncodeCase(i, at), i.op)
        PROVE  Gives(f, at, i.op, <<RegArg(AX, w), ImmArg(v, 0)>>)
    <3>1. Gives(f, at, "IN", <<RegArg(AX, w), ImmArg(v, 0)>>)
      BY <2>2, <2>4, ReadsAsIs, PortBack
    <3>2. QED
      BY <1>2, <3>1
  <2>5. QED
    BY <1>1, <1>2, <2>1, <2>3, <2>4, KeepBoth
<1>3. CASE i.op = "OUT" /\ i.argv = <<ImmArg(v, 0), RegArg(AX, w)>>
  <2>1. ~Odd(i, at) /\ EncodeCase(i, at) = EncodeOut(i.argv[1], i.argv[2])
    BY <1>3, IntegerDispatch
  <2>2. EncodeCase(i, at) = EncodeOut(ImmArg(v, 0), RegArg(AX, w))
    BY <1>3, <2>1
  <2>3. EncodeCase(i, at) # << >>
    BY <2>2, PortForms
  <2>4. ASSUME NEW f, ReadsAs(f, EncodeCase(i, at), i.op)
        PROVE  Gives(f, at, i.op, <<ImmArg(v, 0), RegArg(AX, w)>>)
    <3>1. Gives(f, at, "OUT", <<ImmArg(v, 0), RegArg(AX, w)>>)
      BY <2>2, <2>4, ReadsAsIs, PortBack
    <3>2. QED
      BY <1>3, <3>1
  <2>5. QED
    BY <1>1, <1>3, <2>1, <2>3, <2>4, KeepBoth
<1>4. QED
  BY <1>2, <1>3

(* INT, AAM and AAD.                                                       *)
LEMMA InterruptForms ==
    ASSUME NEW v
    PROVE  EncodeInt(ImmArg(v, 0)) # << >> /\ ImmArg(v, 0).value = v /\ ImmArg(v, 1).value = v
  BY DEF EncodeInt, ImmArg

LEMMA AdjustDispatch ==
    ASSUME NEW i, NEW at, i.op \in {"AAM", "AAD"}
    PROVE  /\ ~Odd(i, at)
           /\ i.op = "AAM" => EncodeCase(i, at) = << \hD4, ByteOf(i.argv[1].value) >>
           /\ i.op = "AAD" => EncodeCase(i, at) = << \hD5, ByteOf(i.argv[1].value) >>
<1>1. i.op \in IntegerOps /\ i.op \notin OddOps
  BY DEF IntegerOps, OddOps
<1>2. ~Odd(i, at)
  BY <1>1, OrdinaryInteger
<1>3. i.op = "AAM" => EncodeInteger(i) = << \hD4, ByteOf(i.argv[1].value) >>
  BY AluIs, ShiftIs, TablesAre DEF EncodeInteger, AluOps
<1>4. i.op = "AAD" => EncodeInteger(i) = << \hD5, ByteOf(i.argv[1].value) >>
  BY AluIs, ShiftIs, TablesAre DEF EncodeInteger, AluOps
<1>5. EncodeCase(i, at) = EncodeInteger(i)
  BY <1>1, IntegerCase
<1>6. QED
  BY <1>2, <1>3, <1>4, <1>5, Zenon

LEMMA VerdictInterrupt ==
    ASSUME NEW i, NEW at, NEW v \in Byte,
           \/ i.op = "INT" /\ i.argv = <<ImmArg(v, 0)>>
           \/ i.op \in {"AAM", "AAD"} /\ i.argv = <<ImmArg(v, 1)>>
    PROVE  Verdict(i, at)
<1>1. \A z : Fixed(ImmArg(v, z))
  BY FixedKinds
<1>2. CASE i.op = "INT" /\ i.argv = <<ImmArg(v, 0)>>
  <2>1. ~Odd(i, at) /\ EncodeCase(i, at) = EncodeInt(i.argv[1])
    BY <1>2, IntegerDispatch
  <2>2. EncodeCase(i, at) = EncodeInt(ImmArg(v, 0))
    BY <1>2, <2>1
  <2>3. EncodeCase(i, at) # << >>
    BY <2>2, InterruptForms
  <2>4. ASSUME NEW f, ReadsAs(f, EncodeCase(i, at), i.op)
        PROVE  Gives(f, at, i.op, <<ImmArg(v, 0)>>)
    <3>1. Gives(f, at, "INT", <<ImmArg(v, 0)>>)
      BY <2>2, <2>4, ReadsAsIs, InterruptBack
    <3>2. QED
      BY <1>2, <3>1
  <2>5. QED
    BY <1>1, <1>2, <2>1, <2>3, <2>4, KeepFixed
<1>3. CASE i.op = "AAM" /\ i.argv = <<ImmArg(v, 1)>>
  <2>1. ~Odd(i, at) /\ EncodeCase(i, at) = << \hD4, ByteOf(i.argv[1].value) >>
    BY <1>3, AdjustDispatch
  <2>2. EncodeCase(i, at) = << \hD4, ByteOf(v) >>
    BY <1>3, <2>1, InterruptForms
  <2>3. EncodeCase(i, at) # << >>
    BY <2>2
  <2>4. ASSUME NEW f, ReadsAs(f, EncodeCase(i, at), i.op)
        PROVE  Gives(f, at, i.op, <<ImmArg(v, 1)>>)
    <3>1. Gives(f, at, "AAM", <<ImmArg(v, 1)>>)
      BY <2>2, <2>4, ReadsAsIs, InterruptBack
    <3>2. QED
      BY <1>3, <3>1
  <2>5. QED
    BY <1>1, <1>3, <2>1, <2>3, <2>4, KeepFixed
<1>4. CASE i.op = "AAD" /\ i.argv = <<ImmArg(v, 1)>>
  <2>1. ~Odd(i, at) /\ EncodeCase(i, at) = << \hD5, ByteOf(i.argv[1].value) >>
    BY <1>4, AdjustDispatch
  <2>2. EncodeCase(i, at) = << \hD5, ByteOf(v) >>
    BY <1>4, <2>1, InterruptForms
  <2>3. EncodeCase(i, at) # << >>
    BY <2>2
  <2>4. ASSUME NEW f, ReadsAs(f, EncodeCase(i, at), i.op)
        PROVE  Gives(f, at, i.op, <<ImmArg(v, 1)>>)
    <3>1. Gives(f, at, "AAD", <<ImmArg(v, 1)>>)
      BY <2>2, <2>4, ReadsAsIs, InterruptBack
    <3>2. QED
      BY <1>4, <3>1
  <2>5. QED
    BY <1>1, <1>4, <2>1, <2>3, <2>4, KeepFixed
<1>5. QED
  BY <1>2, <1>3, <1>4

(* What has no operands.                                                   *)
LEMMA VerdictOneByte ==
    ASSUME NEW i, NEW at, i.op \in DOMAIN OneByteCode, i.argv = << >>
    PROVE  Verdict(i, at)
<1>1. i.op \notin OddOps /\ ~In(Jcc, i.op) /\ ~In(Loops, i.op) /\ i.op \notin NoCase
  BY TransfersAre DEF OneByteCode, OddOps, NoCase
<1>2. ~Odd(i, at)
  BY <1>1, Ordinary
<1>3. EncodeCase(i, at) = << OneByteCode[i.op] >>
  <2>1. i.op \notin FpuOps
    BY FpuOpsAre DEF OneByteCode, FpuNoOperand
  <2>2. ~TransfersTo(i.op)
    BY <1>1 DEF TransfersTo, Transfers, FarOps, OneByteCode
  <2>3. QED
    BY <1>1, <2>1, <2>2 DEF EncodeCase
<1>4. EncodeCase(i, at) # << >>
  BY <1>3
<1>5. ASSUME NEW f, ReadsAs(f, EncodeCase(i, at), i.op)
      PROVE  Gives(f, at, i.op, << >>)
  BY <1>3, <1>5, ReadsAsIs, OneByteBack
<1>6. QED
  BY <1>1, <1>2, <1>4, <1>5, Keep0 DEF OddOps

(* RET and RETF.                                                           *)
LEMMA ReturnFilled ==
    ASSUME NEW v \in Word16
    PROVE  /\ \A b \in {\hC2, \hCA} : EncodeReturn(b, << >>) # << >>
           /\ \A b \in {\hC2, \hCA} : \A z : EncodeReturn(b, <<ImmArg(v, z)>>) # << >>
<1>1. \A b : EncodeReturn(b, << >>) = <<b + 1>>
  BY DEF EncodeReturn
<1>2. \A z : ImmArg(v, z).value = v /\ <<ImmArg(v, z)>> # << >> /\ <<ImmArg(v, z)>>[1] = ImmArg(v, z)
  BY DEF ImmArg
<1>3. \A b, z : EncodeReturn(b, <<ImmArg(v, z)>>) = Headed(b, Word(v))
  BY <1>2 DEF EncodeReturn, Headed
<1>4. \A b \in {\hC2, \hCA} : b \in Byte
  BY DEF Byte
<1>5. v \in Int
  BY DEF Word16
<1>6. \A b \in {\hC2, \hCA} : Headed(b, Word(v)) # << >>
  BY <1>4, <1>5, FilledNumber
<1>7. QED
  BY <1>1, <1>3, <1>6

LEMMA ReturnOrdinary ==
    ASSUME NEW i, NEW at, i.op \in {"RET", "RETF"}
    PROVE  /\ ~Odd(i, at)
           /\ i.op = "RET" => EncodeCase(i, at) = EncodeReturn(\hC2, i.argv)
           /\ i.op = "RETF" => EncodeCase(i, at) = EncodeReturn(\hCA, i.argv)
<1>1. i.op \notin OddOps
  BY DEF OddOps
<1>2. ~Odd(i, at)
  BY <1>1, OrdinaryInteger
<1>3. QED
  BY <1>2, TransferDispatch

LEMMA VerdictPlainReturn ==
    ASSUME NEW i, NEW at, i.op \in {"RET", "RETF"}, i.argv = << >>
    PROVE  Verdict(i, at)
<1>1. /\ ~Odd(i, at)
      /\ i.op = "RET" => EncodeCase(i, at) = EncodeReturn(\hC2, << >>)
      /\ i.op = "RETF" => EncodeCase(i, at) = EncodeReturn(\hCA, << >>)
  BY ReturnOrdinary
<1>2. 0 \in Word16
  BY DEF Word16
<1>3. EncodeCase(i, at) # << >>
  BY <1>1, <1>2, ReturnFilled
<1>4. ASSUME NEW f, ReadsAs(f, EncodeCase(i, at), i.op)
      PROVE  Gives(f, at, i.op, << >>)
  <2>1. i.op = "RET" => Gives(f, at, "RET", << >>)
    BY <1>1, <1>4, ReadsAsIs, PlainReturnBack
  <2>2. i.op = "RETF" => Gives(f, at, "RETF", << >>)
    BY <1>1, <1>4, ReadsAsIs, PlainReturnBack
  <2>3. QED
    BY <2>1, <2>2
<1>5. QED
  BY <1>1, <1>3, <1>4, Keep0

LEMMA VerdictReturn ==
    ASSUME NEW i, NEW at, NEW v \in Word16,
           \/ i.op = "RET" /\ i.argv = <<ImmArg(v, 2)>>
           \/ i.op = "RETF" /\ i.argv = <<ImmArg(v, 0)>>
    PROVE  Verdict(i, at)
<1>1. ~Odd(i, at)
  BY ReturnOrdinary
<1>2. /\ i.op = "RET" => EncodeCase(i, at) = EncodeReturn(\hC2, <<ImmArg(v, 2)>>)
      /\ i.op = "RETF" => EncodeCase(i, at) = EncodeReturn(\hCA, <<ImmArg(v, 0)>>)
  <2>1. /\ i.op = "RET" => EncodeCase(i, at) = EncodeReturn(\hC2, i.argv)
        /\ i.op = "RETF" => EncodeCase(i, at) = EncodeReturn(\hCA, i.argv)
    BY ReturnOrdinary
  <2>2. QED
    BY <2>1
<1>3. EncodeCase(i, at) # << >>
  BY <1>2, ReturnFilled
<1>4. CASE i.op = "RET"
  <2>1. ASSUME NEW f, ReadsAs(f, EncodeCase(i, at), i.op)
        PROVE  Gives(f, at, i.op, <<ImmArg(v, 2)>>)
    <3>1. Gives(f, at, "RET", <<ImmArg(v, 2)>>)
      BY ZenonT(60), <1>2, <1>4, <2>1, ReadsAsIs, ReturnBack
    <3>2. QED
      BY <1>4, <3>1
  <2>2. QED
    BY <1>1, <1>3, <1>4, <2>1, FixedKinds, KeepFixed
<1>5. CASE i.op = "RETF"
  <2>1. ASSUME NEW f, ReadsAs(f, EncodeCase(i, at), i.op)
        PROVE  Gives(f, at, i.op, <<ImmArg(v, 0)>>)
    <3>1. Gives(f, at, "RETF", <<ImmArg(v, 0)>>)
      BY ZenonT(60), <1>2, <1>5, <2>1, ReadsAsIs, ReturnBack
    <3>2. QED
      BY <1>5, <3>1
  <2>2. QED
    BY <1>1, <1>3, <1>5, <2>1, FixedKinds, KeepFixed
<1>6. QED
  BY <1>4, <1>5

(* JMP and CALL.                                                           *)
LEMMA JumpOrdinary ==
    ASSUME NEW i, NEW at, i.op \in {"JMP", "CALL"}, ~Wraps(i, at)
    PROVE  ~Odd(i, at)
<1>1. ~Outreaches(i, at) /\ ~WidensByte(i) /\ ~BecomesNop(i)
  BY BranchNames DEF OddOps, Outreaches, WidensByte, BecomesNop
<1>2. ~HasNoForm(i)
  BY TablesAre, FpuTablesAre DEF HasNoForm, NoCase
<1>3. ~Flips(i) /\ ~MisreadsStore(i)
  BY DEF Flips, MisreadsStore
<1>4. QED
  BY <1>1, <1>2, <1>3 DEF Odd

LEMMA JumpDispatch ==
    ASSUME NEW i, NEW at, NEW a, i.argv = <<a>>
    PROVE  /\ i.op = "JMP" => EncodeCase(i, at) = EncodeJmp(a, at)
           /\ i.op = "CALL" => EncodeCase(i, at) = EncodeCall(a, at)
           /\ i.op = "JMP_FAR" => EncodeCase(i, at) = EncodeFar(\hEA, 5, a)
           /\ i.op = "CALL_FAR" => EncodeCase(i, at) = EncodeFar(\h9A, 3, a)
<1>1. i.argv[1] = a
  OBVIOUS
<1>2. QED
  BY <1>1, TransferDispatch

LEMMA NumberTarget ==
    ASSUME NEW v
    PROVE  IsImm(ImmArg(v, 2)) /\ ImmArg(v, 2).value = v
  BY DEF IsImm, ImmArg

LEMMA JumpFilled ==
    ASSUME NEW v \in Int, NEW at \in Int, Near(v - at)
    PROVE  EncodeJmp(ImmArg(v, 2), at) # << >> /\ EncodeCall(ImmArg(v, 2), at) # << >>
<1>1. \hE9 \in Byte /\ \hE8 \in Byte /\ v - at - 3 \in Int
  BY DEF Byte
<1>2. Headed(\hE9, Word(v - at - 3)) # << >> /\ Headed(\hE8, Word(v - at - 3)) # << >>
  BY <1>1, FilledNumber
<1>3. CASE InByte(v - at - 2)
  <2>1. EncodeJmp(ImmArg(v, 2), at) = << \hEB, ByteOf(v - at - 2) >>
    BY <1>3, JumpForms
  <2>2. EncodeCall(ImmArg(v, 2), at) = Headed(\hE8, Word(v - at - 3))
    BY JumpForms
  <2>3. << \hEB, ByteOf(v - at - 2) >> # << >>
    OBVIOUS
  <2>4. QED
    BY <1>2, <2>1, <2>2, <2>3, Zenon
<1>4. CASE ~InByte(v - at - 2)
  <2>1. EncodeJmp(ImmArg(v, 2), at) = Headed(\hE9, Word(v - at - 3))
    BY <1>4, JumpForms
  <2>2. EncodeCall(ImmArg(v, 2), at) = Headed(\hE8, Word(v - at - 3))
    BY JumpForms
  <2>3. QED
    BY <1>2, <2>1, <2>2
<1>5. QED
  BY <1>3, <1>4

LEMMA VerdictJump ==
    ASSUME NEW i, NEW at \in Int, i.op \in {"JMP", "CALL"}, NEW v \in Int, i.argv = <<ImmArg(v, 2)>>
    PROVE  Verdict(i, at)
<1>1. Wraps(i, at) <=> ~Near(v - at)
  <2>1. i.argv[1] = ImmArg(v, 2)
    OBVIOUS
  <2>2. QED
    BY <2>1, NumberTarget DEF Wraps
<1>2. CASE ~Near(v - at)
  <2>1. i.argv[1].value = v
    BY NumberTarget
  <2>2. QED
    BY <1>1, <1>2, <2>1 DEF Verdict
<1>3. CASE Near(v - at)
  <2>1. ~Odd(i, at)
    BY <1>1, <1>3, JumpOrdinary
  <2>2. /\ i.op = "JMP" => EncodeCase(i, at) = EncodeJmp(ImmArg(v, 2), at)
        /\ i.op = "CALL" => EncodeCase(i, at) = EncodeCall(ImmArg(v, 2), at)
    BY JumpDispatch
  <2>3. EncodeCase(i, at) # << >>
    BY <1>3, <2>2, JumpFilled
  <2>4. TransfersTo(i.op)
    BY DEF TransfersTo, Transfers
  <2>5. ASSUME NEW f, ReadsAs(f, EncodeCase(i, at), i.op)
        PROVE  \/ Gives(f, at, i.op, <<ImmArg(v, 2)>>)
               \/ Gives(f, at, i.op, <<ImmArg(Wrapped(v), 2)>>)
    <3>1. Parsed(f, EncodeCase(i, at)) /\ f.len = Len(EncodeCase(i, at))
      BY <2>4, <2>5, ReadsAsIs
    <3>2. CASE i.op = "JMP"
      <4>1. Gives(f, at, "JMP", <<ImmArg(IF InByte(v - at - 2) THEN v ELSE Wrapped(v), 2)>>)
        BY <1>3, <2>2, <3>1, <3>2, JumpBack
      <4>2. QED
        BY <3>2, <4>1
    <3>3. CASE i.op = "CALL"
      <4>1. EncodeCase(i, at) = EncodeCall(ImmArg(v, 2), at)
        BY <2>2, <3>3
      <4>2. Parsed(f, EncodeCall(ImmArg(v, 2), at)) /\ f.len = Len(EncodeCall(ImmArg(v, 2), at))
        BY <3>1, <4>1
      <4>3. Gives(f, at, "CALL", <<ImmArg(Wrapped(v), 2)>>)
        BY <1>3, <4>2, CallBack, Zenon
      <4>4. QED
        BY <3>3, <4>3
    <3>4. QED
      BY <3>2, <3>3
  <2>6. ASSUME NEW f, ReadsAs(f, EncodeCase(i, at), i.op) PROVE Kept(i, f, at)
    <3>1. CASE Gives(f, at, i.op, <<ImmArg(Wrapped(v), 2)>>)
      BY <1>3, <3>1 DEF Kept, Gives, AsTarget, Wrapped
    <3>2. CASE Gives(f, at, i.op, <<ImmArg(v, 2)>>)
      <4>1. Proper(ImmArg(v, 2)) /\ ~IsMem(ImmArg(v, 2)) /\ Anew(ImmArg(v, 2), f.segment) = ImmArg(v, 2)
        BY FixedKinds, FixedIsProper
      <4>2. Gives(f, at, i.op, <<Anew(ImmArg(v, 2), f.segment)>>)
        BY <3>2, <4>1
      <4>3. QED
        BY <4>1, <4>2 DEF Kept, Gives, AsBefore
    <3>3. QED
      BY <2>5, <2>6, <3>1, <3>2
  <2>7. QED
    BY <2>1, <2>3, <2>6 DEF Verdict
<1>4. QED
  BY <1>2, <1>3

(* Jcc, LOOP and JCXZ.                                                     *)
LEMMA BranchOrdinary ==
    ASSUME NEW i, NEW at, In(Jcc, i.op) \/ In(Loops, i.op), ~Outreaches(i, at)
    PROVE  ~Odd(i, at)
<1>1. i.op \notin OddOps
  BY BranchNames
<1>2. ~Wraps(i, at) /\ ~WidensByte(i)
  BY <1>1 DEF OddOps, Wraps, WidensByte
<1>3. ~HasNoForm(i)
  BY <1>1, TablesAre, FpuTablesAre DEF OddOps, HasNoForm, NoCase
<1>4. ~Flips(i) /\ ~MisreadsStore(i) /\ ~BecomesNop(i)
  BY <1>1 DEF OddOps, Flips, MisreadsStore, BecomesNop
<1>5. QED
  BY <1>2, <1>3, <1>4 DEF Odd

LEMMA BranchNumber ==
    ASSUME NEW op
    PROVE  /\ In(Jcc, op) => Jcc[Index(Jcc, op) + 1] = op /\ Index(Jcc, op) \in 0 .. 15
           /\ In(Loops, op) => Loops[Index(Loops, op) + 1] = op /\ Index(Loops, op) \in 0 .. 3
<1>1. (\A k \in DOMAIN Jcc : k \in Int) /\ (\A k \in DOMAIN Loops : k \in Int)
  BY DEF Jcc, Loops
<1>2. In(Jcc, op) => Jcc[Index(Jcc, op) + 1] = op
  BY <1>1, IndexOf
<1>3. In(Loops, op) => Loops[Index(Loops, op) + 1] = op
  BY <1>1, IndexOf
<1>4. In(Jcc, op) => Index(Jcc, op) \in 0 .. 15
  BY DEF Index, In, Jcc
<1>5. In(Loops, op) => Index(Loops, op) \in 0 .. 3
  BY DEF Index, In, Loops
<1>6. QED
  BY <1>2, <1>3, <1>4, <1>5

LEMMA VerdictBranch ==
    ASSUME NEW i, NEW at \in Int, In(Jcc, i.op) \/ In(Loops, i.op), NEW v \in Int, i.argv = <<ImmArg(v, 2)>>
    PROVE  Verdict(i, at)
<1>1. i.argv[1].value = v
  BY NumberTarget
<1>2. Outreaches(i, at) <=> ~InByte(v - at - 2)
  BY <1>1 DEF Outreaches
<1>3. CASE ~InByte(v - at - 2)
  BY <1>2, <1>3 DEF Verdict
<1>4. CASE InByte(v - at - 2)
  <2>1. ~Odd(i, at)
    BY <1>2, <1>4, BranchOrdinary
  <2>2. v - at \in Int /\ InByte((v - at) - 2)
    BY <1>4
  <2>3. /\ In(Jcc, i.op) => EncodeCase(i, at) = EncodeJcc(Index(Jcc, i.op), v - at)
        /\ In(Loops, i.op) => EncodeCase(i, at) = EncodeLoop(\hE0 + Index(Loops, i.op), v - at)
    BY <1>1, TransferDispatch
  <2>4. \E b, c : EncodeCase(i, at) = <<b, c>>
    <3>1. CASE In(Jcc, i.op)
      BY <2>2, <2>3, <3>1, BranchForms
    <3>2. CASE In(Loops, i.op)
      BY <2>2, <2>3, <3>2, BranchForms
    <3>3. QED
      BY <3>1, <3>2
  <2>5. EncodeCase(i, at) # << >> /\ Len(EncodeCase(i, at)) = 2
    BY <2>4
  <2>6. TransfersTo(i.op)
    BY DEF TransfersTo
  <2>7. ASSUME NEW f, ReadsAs(f, EncodeCase(i, at), i.op)
        PROVE  Gives(f, at, i.op, <<ImmArg(v, 2)>>)
    <3>1. Parsed(f, EncodeCase(i, at)) /\ f.len = 2
      BY <2>5, <2>6, <2>7, ReadsAsIs
    <3>2. CASE In(Jcc, i.op)
      <4> DEFINE n == Index(Jcc, i.op)
      <4>1. n \in 0 .. 15 /\ Jcc[n + 1] = i.op
        BY <3>2, BranchNumber
      <4>2. Parsed(f, EncodeJcc(n, v - at))
        BY <2>3, <3>1, <3>2
      <4> HIDE DEF n
      <4>3. Gives(f, at, Jcc[n + 1], <<ImmArg(v, 2)>>)
        BY <1>4, <3>1, <4>1, <4>2, BranchBack
      <4>4. QED
        BY <4>1, <4>3
    <3>3. CASE In(Loops, i.op)
      <4> DEFINE n == Index(Loops, i.op)
      <4>1. n \in 0 .. 3 /\ Loops[n + 1] = i.op
        BY <3>3, BranchNumber
      <4>2. Parsed(f, EncodeLoop(\hE0 + n, v - at))
        BY <2>3, <3>1, <3>3
      <4> HIDE DEF n
      <4>3. Gives(f, at, Loops[n + 1], <<ImmArg(v, 2)>>)
        BY <1>4, <3>1, <4>1, <4>2, BranchBack
      <4>4. QED
        BY <4>1, <4>3
    <3>4. QED
      BY <3>2, <3>3
  <2>8. i.op # "XCHG"
    <3>1. "XCHG" \in OddOps
      BY DEF OddOps
    <3>2. ~In(Jcc, "XCHG") /\ ~In(Loops, "XCHG")
      BY <3>1, BranchNames
    <3>3. QED
      BY <3>2
  <2>9. QED
    BY <2>1, <2>5, <2>7, <2>8, FixedKinds, KeepFixed
<1>5. QED
  BY <1>3, <1>4

(* Jumps and calls through a register or memory.                           *)
LEMMA IndirectForms ==
    ASSUME NEW w, NEW a, Sized(a, w), NEW at
    PROVE  /\ EncodeCall(a, at) = Headed(\hFF, ModRM(a, 2)) /\ EncodeJmp(a, at) = Headed(\hFF, ModRM(a, 4))
           /\ IsMem(a) => /\ EncodeFar(\h9A, 3, a) = Headed(\hFF, ModRM(a, 3))
                          /\ EncodeFar(\hEA, 5, a) = Headed(\hFF, ModRM(a, 5))
<1>1. ~IsImm(a)
  BY SizedKinds
<1>2. EncodeCall(a, at) = <<\hFF>> \o ModRM(a, 2)
  BY <1>1 DEF EncodeCall, EncodeIndirectJump
<1>3. EncodeJmp(a, at) = <<\hFF>> \o ModRM(a, 4)
  BY <1>1 DEF EncodeJmp, EncodeIndirectJump
<1>4. IsMem(a) => /\ EncodeFar(\h9A, 3, a) = <<\hFF>> \o ModRM(a, 3)
                  /\ EncodeFar(\hEA, 5, a) = <<\hFF>> \o ModRM(a, 5)
  BY DEF EncodeFar, ModRM, MemRegFar
<1>5. QED
  BY <1>2, <1>3, <1>4 DEF Headed

LEMMA VerdictIndirect ==
    ASSUME NEW i, NEW at, i.op \in {"JMP", "CALL"}, NEW a, Sized(a, 2), i.argv = <<a>>
    PROVE  Verdict(i, at)
<1>1. ~IsImm(a) /\ i.argv[1] = a
  BY SizedKinds
<1>2. ~Odd(i, at)
  BY <1>1, JumpOrdinary DEF Wraps
<1>3. /\ i.op = "JMP" => EncodeCase(i, at) = EncodeJmp(a, at)
      /\ i.op = "CALL" => EncodeCase(i, at) = EncodeCall(a, at)
  BY JumpDispatch
<1>4. \hFF \in Byte
  BY DEF Byte
<1>5. EncodeCase(i, at) # << >>
  <2>1. CASE i.op = "JMP"
    <3>1. EncodeCase(i, at) = Headed(\hFF, ModRM(a, 4))
      BY <1>3, <2>1, IndirectForms
    <3>2. QED
      BY <1>4, <3>1, FilledRM
  <2>2. CASE i.op = "CALL"
    <3>1. EncodeCase(i, at) = Headed(\hFF, ModRM(a, 2))
      BY <1>3, <2>2, IndirectForms
    <3>2. QED
      BY <1>4, <3>1, FilledRM
  <2>3. QED
    BY <2>1, <2>2
<1>6. ASSUME NEW f, ReadsAs(f, EncodeCase(i, at), i.op)
      PROVE  Gives(f, at, i.op, <<Anew(a, f.segment)>>)
  <2>1. Parsed(f, EncodeCase(i, at)) /\ f.op # "UD_NOP"
    BY <1>6, ReadsAsIs
  <2>2. CASE i.op = "JMP"
    <3>1. Gives(f, at, "JMP", <<Anew(a, f.segment)>>)
      BY <1>3, <2>1, <2>2, IndirectBack
    <3>2. QED
      BY <2>2, <3>1
  <2>3. CASE i.op = "CALL"
    <3>1. Gives(f, at, "CALL", <<Anew(a, f.segment)>>)
      BY <1>3, <2>1, <2>3, IndirectBack
    <3>2. QED
      BY <2>3, <3>1
  <2>4. QED
    BY <2>2, <2>3
<1>7. Proper(a)
  BY ProperKinds
<1>8. QED
  BY <1>2, <1>5, <1>6, <1>7, OtherStrings, Keep1

LEMMA FarOrdinary ==
    ASSUME NEW i, NEW at, i.op \in {"JMP_FAR", "CALL_FAR"}
    PROVE  ~Odd(i, at)
<1>1. i.op \in FarOps /\ i.op \notin OddOps
  BY DEF FarOps, OddOps
<1>2. QED
  BY <1>1, OrdinaryInteger

LEMMA VerdictFarMemory ==
    ASSUME NEW i, NEW at, i.op \in {"JMP_FAR", "CALL_FAR"}, NEW a, Sized(a, 4), IsMem(a), i.argv = <<a>>
    PROVE  Verdict(i, at)
<1>1. ~Odd(i, at)
  BY FarOrdinary
<1>2. /\ i.op = "JMP_FAR" => EncodeCase(i, at) = EncodeFar(\hEA, 5, a)
      /\ i.op = "CALL_FAR" => EncodeCase(i, at) = EncodeFar(\h9A, 3, a)
  BY JumpDispatch
<1>3. \hFF \in Byte
  BY DEF Byte
<1>4. EncodeCase(i, at) # << >>
  <2>1. CASE i.op = "JMP_FAR"
    <3>1. EncodeCase(i, at) = Headed(\hFF, ModRM(a, 5))
      BY <1>2, <2>1, IndirectForms
    <3>2. QED
      BY <1>3, <3>1, FilledRM
  <2>2. CASE i.op = "CALL_FAR"
    <3>1. EncodeCase(i, at) = Headed(\hFF, ModRM(a, 3))
      BY <1>2, <2>2, IndirectForms
    <3>2. QED
      BY <1>3, <3>1, FilledRM
  <2>3. QED
    BY <2>1, <2>2
<1>5. ASSUME NEW f, ReadsAs(f, EncodeCase(i, at), i.op)
      PROVE  Gives(f, at, i.op, <<Anew(a, f.segment)>>)
  <2>1. Parsed(f, EncodeCase(i, at)) /\ f.op # "UD_NOP"
    BY <1>5, ReadsAsIs
  <2>2. CASE i.op = "JMP_FAR"
    <3>1. Gives(f, at, "JMP_FAR", <<Anew(a, f.segment)>>)
      BY <1>2, <2>1, <2>2, IndirectBack
    <3>2. QED
      BY <2>2, <3>1
  <2>3. CASE i.op = "CALL_FAR"
    <3>1. Gives(f, at, "CALL_FAR", <<Anew(a, f.segment)>>)
      BY <1>2, <2>1, <2>3, IndirectBack
    <3>2. QED
      BY <2>3, <3>1
  <2>4. QED
    BY <2>2, <2>3
<1>6. Proper(a)
  BY ProperKinds
<1>7. QED
  BY <1>1, <1>4, <1>5, <1>6, OtherStrings, Keep1

LEMMA FarForms ==
    ASSUME NEW v, NEW g
    PROVE  \A b, n : EncodeFar(b, n, FarArg(v, g)) = <<b>> \o Word(v) \o Word(g)
  BY DEF EncodeFar, FarArg, IsMem

LEMMA FarFilled ==
    ASSUME NEW v, NEW g
    PROVE  \A b, n : EncodeFar(b, n, FarArg(v, g)) # << >>
<1>1. ASSUME NEW b, NEW n PROVE EncodeFar(b, n, FarArg(v, g)) # << >>
  <2>1. EncodeFar(b, n, FarArg(v, g)) = <<b>> \o Word(v) \o Word(g)
    BY FarForms
  <2>2. <<b>> \o Word(v) \o Word(g) # << >>
    BY DEF Word
  <2>3. QED
    BY <2>1, <2>2
<1>2. QED
  BY <1>1

LEMMA VerdictFar ==
    ASSUME NEW i, NEW at, i.op \in {"JMP_FAR", "CALL_FAR"}, NEW v \in Word16, NEW g \in Word16,
           i.argv = <<FarArg(v, g)>>
    PROVE  Verdict(i, at)
<1>1. ~Odd(i, at)
  BY FarOrdinary
<1>2. /\ i.op = "JMP_FAR" => EncodeCase(i, at) = EncodeFar(\hEA, 5, FarArg(v, g))
      /\ i.op = "CALL_FAR" => EncodeCase(i, at) = EncodeFar(\h9A, 3, FarArg(v, g))
  BY JumpDispatch
<1>3. EncodeCase(i, at) # << >>
  BY <1>2, FarFilled
<1>4. ASSUME NEW f, ReadsAs(f, EncodeCase(i, at), i.op)
      PROVE  Gives(f, at, i.op, <<FarArg(v, g)>>)
  <2>1. Parsed(f, EncodeCase(i, at)) /\ f.op # "UD_NOP"
    BY <1>4, ReadsAsIs
  <2>2. CASE i.op = "JMP_FAR"
    <3>1. Gives(f, at, "JMP_FAR", <<FarArg(v, g)>>)
      BY <1>2, <2>1, <2>2, FarBack
    <3>2. QED
      BY <2>2, <3>1
  <2>3. CASE i.op = "CALL_FAR"
    <3>1. Gives(f, at, "CALL_FAR", <<FarArg(v, g)>>)
      BY <1>2, <2>1, <2>3, FarBack
    <3>2. QED
      BY <2>3, <3>1
  <2>4. QED
    BY <2>2, <2>3
<1>5. QED
  BY <1>1, <1>3, <1>4, FixedKinds, KeepFixed

-----------------------------------------------------------------------------
(* The FPU.                                                                *)

ArithNames == {"FADD", "FMUL", "FCOM", "FCOMP", "FSUB", "FSUBR", "FDIV", "FDIVR"}
IntNames   == {"FIADD", "FIMUL", "FICOM", "FICOMP", "FISUB", "FISUBR", "FIDIV", "FIDIVR"}
PopNames   == {"FADDP", "FMULP", "FSUBP", "FSUBRP", "FDIVP", "FDIVRP"}

LEMMA ArithOrdinary ==
    ASSUME NEW i, NEW at, i.op \in ArithNames,
           i.argv # <<STArg(0), STArg(0)>>, ~Flips(i)
    PROVE  ~Odd(i, at)
<1>1. ~Wraps(i, at) /\ ~WidensByte(i) /\ ~MisreadsStore(i) /\ ~BecomesNop(i)
  BY DEF ArithNames, Wraps, WidensByte, MisreadsStore, BecomesNop
<1>2. ~In(Jcc, i.op) /\ ~In(Loops, i.op)
  BY BranchNames DEF ArithNames, OddOps
<1>3. ~Outreaches(i, at)
  BY <1>2 DEF Outreaches
<1>4. ~HasNoForm(i)
  BY TablesAre DEF HasNoForm, NoCase, ArithNames
<1>5. QED
  BY <1>1, <1>3, <1>4 DEF Odd

LEMMA StackKinds ==
    ASSUME NEW r
    PROVE  /\ STArg(r).reg = r /\ IsST(STArg(r)) /\ ~IsMem(STArg(r)) /\ ~IsReg(STArg(r)) /\ ~IsImm(STArg(r))
           /\ \A n : ModRM(STArg(r), n) = <<192 + 8 * n + r>>
           /\ \A b, n : Headed(b, ModRM(STArg(r), n)) # << >>
<1>1. STArg(r).reg = r /\ IsST(STArg(r)) /\ ~IsMem(STArg(r)) /\ ~IsReg(STArg(r)) /\ ~IsImm(STArg(r))
  BY DEF STArg, IsST, IsMem, IsReg, IsImm
<1>2. \A n : ModRM(STArg(r), n) = <<192 + 8 * n + r>>
  BY <1>1 DEF ModRM, RmReg
<1>3. ASSUME NEW b, NEW n PROVE Headed(b, ModRM(STArg(r), n)) # << >>
  <2>1. \A c : <<b>> \o <<c>> # << >>
    OBVIOUS
  <2>2. QED
    BY <1>2, <2>1 DEF Headed
<1>4. QED
  BY <1>1, <1>2, <1>3

LEMMA StackForms2 ==
    ASSUME NEW n, NEW r \in 0 .. 7, NEW q \in 0 .. 7
    PROVE  /\ r # 0 => EncodeFpuArith(n, STArg(0), STArg(r)) = Headed(\hD8, ModRM(STArg(r), n))
           /\ r # 0 => EncodeFpuArith(n, STArg(r), STArg(q)) = Headed(\hDC, ModRM(STArg(r), n))
           /\ EncodeFpuArith(n, STArg(0), STArg(0)) = << >>
<1>1. /\ STArg(r).reg = r /\ IsST(STArg(r)) /\ STArg(q).reg = q /\ IsST(STArg(q))
      /\ STArg(0).reg = 0 /\ IsST(STArg(0)) /\ ~IsMem(STArg(r)) /\ ~IsMem(STArg(q)) /\ ~IsMem(STArg(0))
  BY StackKinds
<1> DEFINE a == STArg(r)
           b == STArg(q)
           z == STArg(0)
<1>2. /\ a.reg = r /\ IsST(a) /\ b.reg = q /\ IsST(b) /\ z.reg = 0 /\ IsST(z)
      /\ ~IsMem(a) /\ ~IsMem(b) /\ ~IsMem(z)
  BY <1>1
<1> HIDE DEF a, b, z
<1>3. r # 0 => EncodeFpuArith(n, z, a) = <<\hD8>> \o ModRM(a, n)
  BY <1>2 DEF EncodeFpuArith
<1>4. r # 0 => EncodeFpuArith(n, a, b) = <<\hDC>> \o ModRM(a, n)
  BY <1>2 DEF EncodeFpuArith
<1>5. EncodeFpuArith(n, z, z) = << >>
  BY <1>2 DEF EncodeFpuArith
<1>6. QED
  BY <1>3, <1>4, <1>5 DEF a, b, z, Headed

(* The operations with two stack registers.                                *)
LEMMA ArithNumber ==
    ASSUME NEW i, NEW at, i.op \in ArithNames
    PROVE  LET n == Index(FpuArith, i.op)
           IN  /\ n \in 0 .. 7 /\ FpuArith[n + 1] = i.op
               /\ EncodeCase(i, at) = EncodeFpuArith(n, i.argv[1], i.argv[2])
<1>1. Index(FpuArith, i.op) \in 0 .. 7 /\ FpuArith[Index(FpuArith, i.op) + 1] = i.op
  BY DEF Index, FpuArith, ArithNames
<1>2. EncodeCase(i, at) = EncodeFpuArith(Index(FpuArith, i.op), i.argv[1], i.argv[2])
  BY FpuDispatch DEF ArithNames
<1>3. QED
  BY <1>1, <1>2

LEMMA VerdictToTop ==
    ASSUME NEW i, NEW at, i.op \in ArithNames, NEW r \in 0 .. 7, i.argv = <<STArg(0), STArg(r)>>
    PROVE  Verdict(i, at)
<1> DEFINE n == Index(FpuArith, i.op)
<1>1. n \in 0 .. 7 /\ FpuArith[n + 1] = i.op /\ EncodeCase(i, at) = EncodeFpuArith(n, i.argv[1], i.argv[2])
  BY ArithNumber
<1> HIDE DEF n
<1>2. EncodeCase(i, at) = EncodeFpuArith(n, STArg(0), STArg(r))
  BY <1>1
<1>3. CASE r = 0
  <2>1. EncodeCase(i, at) = << >>
    BY <1>2, <1>3, StackForms2
  <2>2. HasNoForm(i)
    BY <1>3, FpuTablesAre DEF HasNoForm, ArithNames
  <2>3. QED
    BY <2>1, <2>2 DEF Verdict, Odd
<1>4. CASE r # 0
  <2>1. EncodeCase(i, at) = Headed(\hD8, ModRM(STArg(r), n))
    BY <1>2, <1>4, StackForms2
  <2>2. EncodeCase(i, at) # << >>
    BY <2>1, StackKinds
  <2>3. i.argv # <<STArg(0), STArg(0)>>
    <3>1. STArg(r) # STArg(0)
      BY <1>4, StackKinds
    <3>2. QED
      BY <3>1
  <2>4. ~Flips(i)
    BY StackKinds DEF Flips
  <2>5. ~Odd(i, at)
    BY <2>3, <2>4, ArithOrdinary
  <2>6. ASSUME NEW f, ReadsAs(f, EncodeCase(i, at), i.op) PROVE Gives(f, at, i.op, <<STArg(0), STArg(r)>>)
    <3>1. Parsed(f, Headed(\hD8, ModRM(STArg(r), n))) /\ f.op # "UD_NOP"
      BY <2>1, <2>6, ReadsAsIs
    <3>2. Gives(f, at, FpuArith[n + 1], <<STArg(0), STArg(r)>>)
      BY <1>1, <3>1, StackArithBack
    <3>3. QED
      BY <1>1, <3>2
  <2>7. QED
    BY <2>2, <2>5, <2>6, FixedKinds, KeepBoth
<1>5. QED
  BY <1>3, <1>4

(* The names at one place of the two tables.                               *)
LEMMA Reversed ==
    ASSUME NEW n \in 0 .. 7, FpuArith[n + 1] \in {"FADD", "FMUL", "FSUB", "FSUBR", "FDIV", "FDIVR"}
    PROVE  /\ FpuArith[n + 1] \in {"FADD", "FMUL"} => FpuArithR[n + 1] = FpuArith[n + 1]
           /\ FpuArith[n + 1] \in {"FSUB", "FSUBR", "FDIV", "FDIVR"}
                => /\ FpuArithR[n + 1] \in {"FSUB", "FSUBR", "FDIV", "FDIVR"}
                   /\ FpuArithR[n + 1] # FpuArith[n + 1]
  BY DEF FpuArith, FpuArithR

LEMMA VerdictFromTop ==
    ASSUME NEW i, NEW at, i.op \in {"FADD", "FMUL", "FSUB", "FSUBR", "FDIV", "FDIVR"},
           NEW r \in 0 .. 7, i.argv = <<STArg(r), STArg(0)>>
    PROVE  Verdict(i, at)
<1>0. i.op \in ArithNames
  BY DEF ArithNames
<1> DEFINE n == Index(FpuArith, i.op)
<1>1. n \in 0 .. 7 /\ FpuArith[n + 1] = i.op /\ EncodeCase(i, at) = EncodeFpuArith(n, i.argv[1], i.argv[2])
  BY <1>0, ArithNumber
<1> HIDE DEF n
<1>2. CASE r = 0
  BY <1>0, <1>2, VerdictToTop
<1>3. CASE r # 0
  <2>1. EncodeCase(i, at) = Headed(\hDC, ModRM(STArg(r), n))
    BY <1>1, <1>3, StackForms2
  <2>2. EncodeCase(i, at) # << >>
    BY <2>1, StackKinds
  <2>3. i.argv # <<STArg(0), STArg(0)>>
    <3>1. STArg(r) # STArg(0)
      BY <1>3, StackKinds
    <3>2. QED
      BY <3>1
  <2>4. ASSUME NEW f, ReadsAs(f, EncodeCase(i, at), i.op)
        PROVE  Gives(f, at, FpuArithR[n + 1], <<STArg(r), STArg(0)>>)
    <3>1. Parsed(f, Headed(\hDC, ModRM(STArg(r), n))) /\ f.op # "UD_NOP"
      BY <2>1, <2>4, ReadsAsIs
    <3>2. QED
      BY <1>1, <3>1, StackArithBack
  <2>5. IsST(i.argv[1]) /\ i.argv[1].reg = r
    BY StackKinds
  <2>6. CASE i.op \in {"FADD", "FMUL"}
    <3>1. ~Flips(i)
      BY <2>6 DEF Flips
    <3>2. ~Odd(i, at)
      BY <1>0, <2>3, <3>1, ArithOrdinary
    <3>3. FpuArithR[n + 1] = i.op
      BY <1>1, <2>6, Reversed
    <3>4. \A f : ReadsAs(f, EncodeCase(i, at), i.op) => Gives(f, at, i.op, <<STArg(r), STArg(0)>>)
      BY <2>4, <3>3
    <3>5. QED
      BY <2>2, <3>2, <3>4, FixedKinds, KeepBoth
  <2>7. CASE i.op \in {"FSUB", "FSUBR", "FDIV", "FDIVR"}
    <3>1. Flips(i)
      BY <1>3, <2>5, <2>7 DEF Flips
    <3>2. FpuArithR[n + 1] \in {"FSUB", "FSUBR", "FDIV", "FDIVR"} /\ FpuArithR[n + 1] # i.op
      BY <1>1, <2>7, Reversed
    <3>3. r \in 1 .. 7
      BY <1>3
    <3>4. ASSUME NEW f, ReadsAs(f, EncodeCase(i, at), i.op) PROVE Lost(i, f, at)
      <4>1. Gives(f, at, FpuArithR[n + 1], <<STArg(r), STArg(0)>>)
        BY <2>4, <3>4
      <4>2. QED
        BY <3>1, <3>2, <3>3, <4>1 DEF Lost
    <3>5. Odd(i, at)
      BY <3>1 DEF Odd
    <3>6. QED
      BY <3>4, <3>5 DEF Verdict
  <2>8. QED
    BY <2>6, <2>7
<1>4. QED
  BY <1>2, <1>3

LEMMA VerdictPop ==
    ASSUME NEW i, NEW at, i.op \in PopNames, NEW r \in 0 .. 7, i.argv = <<STArg(r), STArg(0)>>
    PROVE  Verdict(i, at)
<1> DEFINE n == FpuPopCode[i.op]
<1>1. n \in 0 .. 7 /\ n # 3 /\ FpuArithP[n + 1] = i.op
  BY DEF FpuPopCode, FpuArithP, PopNames
<1>2. EncodeCase(i, at) = EncodeFpuPop(n, i.argv[1])
  BY FpuDispatch DEF PopNames
<1> HIDE DEF n
<1>3. EncodeCase(i, at) = Headed(\hDE, ModRM(STArg(r), n))
  BY <1>2 DEF EncodeFpuPop, Headed
<1>4. EncodeCase(i, at) # << >>
  BY <1>3, StackKinds
<1>5. i.op \in FpuOps /\ i.op \notin OddOps
  BY FpuOpsAre DEF PopNames, OddOps
<1>6. ~Odd(i, at)
  BY <1>5, OrdinaryInteger
<1>7. ASSUME NEW f, ReadsAs(f, EncodeCase(i, at), i.op) PROVE Gives(f, at, i.op, <<STArg(r), STArg(0)>>)
  <2>1. Parsed(f, Headed(\hDE, ModRM(STArg(r), n))) /\ f.op # "UD_NOP"
    BY <1>3, <1>7, ReadsAsIs
  <2>2. Gives(f, at, FpuArithP[n + 1], <<STArg(r), STArg(0)>>)
    BY <1>1, <2>1, StackArithBack
  <2>3. QED
    BY <1>1, <2>2
<1>8. QED
  BY <1>4, <1>6, <1>7, FixedKinds, KeepBoth

(* FLD to FUCOMP of a stack register, and what takes no operands.          *)
LEMMA MoveOrdinary ==
    ASSUME NEW i, NEW at, i.op \in FpuMoves \cup IntNames, ~MisreadsStore(i)
    PROVE  ~Odd(i, at)
<1>1. ~Wraps(i, at) /\ ~WidensByte(i) /\ ~Flips(i) /\ ~BecomesNop(i)
  BY FpuTablesAre DEF IntNames, Wraps, WidensByte, Flips, BecomesNop
<1>2. ~In(Jcc, i.op) /\ ~In(Loops, i.op)
  <2>1. i.op \in FpuOps
    <3>1. i.op \in FpuMoves => i.op \in FpuOps
      BY DEF FpuOps
    <3>2. i.op \in IntNames => i.op \in FpuOps
      BY FpuOpsAre DEF IntNames
    <3>3. QED
      BY <3>1, <3>2
  <2>2. QED
    BY <2>1, BranchNames
<1>3. ~Outreaches(i, at)
  BY <1>2 DEF Outreaches
<1>4. ~HasNoForm(i)
  BY TablesAre, FpuTablesAre DEF HasNoForm, NoCase, IntNames
<1>5. QED
  BY <1>1, <1>3, <1>4 DEF Odd

LEMMA OneStackOperand ==
    ASSUME NEW i, i.op \in FpuMoves, NEW a, i.argv = <<a>>, ~IsReg(a), ~IsMem(a)
    PROVE  ~MisreadsStore(i) /\ (IsST(a) => EncodeFpuMove(i.op, i.argv) = Headed(FpuStackCode[i.op][1], ModRM(a, FpuStackCode[i.op][2])))
<1>1. Len(i.argv) = 1 /\ DOMAIN i.argv = {1} /\ i.argv[1] = a
  OBVIOUS
<1>2. ~MisreadsStore(i)
  BY <1>1 DEF MisreadsStore
<1>3. IsST(a) => EncodeFpuMove(i.op, i.argv) = <<FpuStackCode[i.op][1]>> \o ModRM(a, FpuStackCode[i.op][2])
  BY <1>1 DEF EncodeFpuMove
<1>4. QED
  BY <1>2, <1>3 DEF Headed

LEMMA VerdictStackMove ==
    ASSUME NEW i, NEW at, NEW r \in 0 .. 7, i.argv = <<STArg(r)>>,
           i.op \in {"FLD", "FXCH", "FFREE", "FST", "FSTP", "FUCOM", "FUCOMP"}
    PROVE  Verdict(i, at)
<1>1. i.op \in FpuMoves /\ IsST(STArg(r)) /\ ~IsReg(STArg(r)) /\ ~IsMem(STArg(r))
  BY FpuTablesAre, StackKinds
<1>2. ~Odd(i, at)
  BY <1>1, OneStackOperand, MoveOrdinary
<1>3. EncodeCase(i, at) = Headed(FpuStackCode[i.op][1], ModRM(STArg(r), FpuStackCode[i.op][2]))
  BY <1>1, OneStackOperand, FpuDispatch
<1>4. EncodeCase(i, at) # << >>
  BY <1>3, StackKinds
<1>5. ASSUME NEW f, ReadsAs(f, EncodeCase(i, at), i.op) PROVE Gives(f, at, i.op, <<STArg(r)>>)
  <2>1. Parsed(f, Headed(FpuStackCode[i.op][1], ModRM(STArg(r), FpuStackCode[i.op][2]))) /\ f.op # "UD_NOP"
    BY <1>3, <1>5, ReadsAsIs
  <2>2. CASE i.op = "FLD"
    <3>1. Parsed(f, Headed(\hD9, ModRM(STArg(r), 0)))
      BY <2>1, <2>2, StackCodes
    <3>2. \A n \in 0 .. 7 : n = 0 /\ Parsed(f, Headed(\hD9, ModRM(STArg(r), n))) => Gives(f, at, "FLD", <<STArg(r)>>)
      BY <2>1, StackArithBack
    <3>4. 0 \in 0 .. 7
      OBVIOUS
    <3>3. QED
      BY <2>2, <3>1, <3>2, <3>4
  <2>3. CASE i.op = "FXCH"
    <3>1. Parsed(f, Headed(\hD9, ModRM(STArg(r), 1)))
      BY <2>1, <2>3, StackCodes
    <3>2. \A n \in 0 .. 7 : n = 1 /\ Parsed(f, Headed(\hD9, ModRM(STArg(r), n))) => Gives(f, at, "FXCH", <<STArg(r)>>)
      BY <2>1, StackArithBack
    <3>3. 1 \in 0 .. 7
      OBVIOUS
    <3>4. QED
      BY <2>3, <3>1, <3>2, <3>3
  <2>4. ASSUME NEW n \in 0 .. 7, FpuStackCode[i.op] = <<\hDD, n>>, FpuStack[n + 1] = i.op
        PROVE  Gives(f, at, i.op, <<STArg(r)>>)
    <3>1. Parsed(f, Headed(\hDD, ModRM(STArg(r), n)))
      BY <2>1, <2>4
    <3>2. Gives(f, at, FpuStack[n + 1], <<STArg(r)>>)
      BY <2>1, <3>1, StackArithBack
    <3>3. QED
      BY <2>4, <3>2
  <2>5. CASE i.op \in {"FFREE", "FST", "FSTP", "FUCOM", "FUCOMP"}
    <3>1. \E n \in 0 .. 7 : FpuStackCode[i.op] = <<\hDD, n>> /\ FpuStack[n + 1] = i.op
      BY <2>5 DEF FpuStackCode, FpuStack
    <3>2. QED
      BY <2>4, <3>1
  <2>6. QED
    BY <2>2, <2>3, <2>5
<1>6. QED
  BY <1>2, <1>4, <1>5, FixedKinds, KeepFixed

LEMMA VerdictStatus ==
    ASSUME NEW i, NEW at, i.op = "FSTSW", i.argv = <<RegArg(AX, 2)>>
    PROVE  Verdict(i, at)
<1> DEFINE a == RegArg(AX, 2)
<1>0. i.argv = <<a>> /\ IsReg(a) /\ ~IsMem(a) /\ Fixed(a) /\ a.kind # "mem" /\ a.reg = 0
  BY FixedKinds DEF RegArg, IsReg, IsMem, AX
<1> HIDE DEF a
<1>1. i.op \in FpuMoves /\ Len(i.argv) = 1 /\ DOMAIN i.argv = {1} /\ i.argv[1] = a
  BY <1>0, FpuTablesAre
<1>2. ~Odd(i, at)
  BY <1>1, MoveOrdinary DEF MisreadsStore
<1>3. EncodeFpuMove(i.op, i.argv) = Headed(\hDF, ModRM(a, 4))
  BY <1>0, <1>1 DEF EncodeFpuMove, Headed
<1>4. EncodeCase(i, at) = Headed(\hDF, ModRM(a, 4))
  BY <1>1, <1>3, FpuDispatch
<1>5. EncodeCase(i, at) # << >>
  <2>1. ModRM(a, 4) = <<192 + 8 * 4 + a.reg>>
    BY <1>0 DEF ModRM, RmReg
  <2>2. \A b, c : <<b>> \o <<c>> # << >>
    OBVIOUS
  <2>3. QED
    BY <1>4, <2>1, <2>2 DEF Headed
<1>6. ASSUME NEW f, ReadsAs(f, EncodeCase(i, at), i.op) PROVE Gives(f, at, i.op, <<a>>)
  <2>1. Parsed(f, Headed(\hDF, ModRM(RegArg(AX, 2), 4))) /\ f.op # "UD_NOP"
    BY <1>4, <1>6, ReadsAsIs DEF a
  <2>2. 0 \in 0 .. 7 /\ 4 \in 0 .. 7
    OBVIOUS
  <2>3. Gives(f, at, "FSTSW", <<RegArg(AX, 2)>>)
    BY <2>1, <2>2, StackArithBack
  <2>4. QED
    BY <2>3 DEF a
<1>7. QED
  BY <1>0, <1>2, <1>5, <1>6, KeepFixed

LEMMA VerdictPlainFpu ==
    ASSUME NEW i, NEW at, i.argv = << >>,
           i.op \in DOMAIN FpuNoOperand \cup {"FCLEX", "FDISI", "FENI", "FINIT", "FUCOMPP"}
    PROVE  Verdict(i, at)
<1>1. i.op \in FpuOps
  BY FpuOpsAre
<1>2. i.op \notin OddOps
  <2>1. i.op \in DOMAIN FpuNoOperand => i.op \notin OddOps
    BY DEF FpuNoOperand, OddOps
  <2>2. QED
    BY <2>1 DEF OddOps
<1>3. ~Odd(i, at)
  BY <1>1, <1>2, OrdinaryInteger
<1>4. \A b, c : <<b, c>> # << >>
  OBVIOUS
<1>5. EncodeCase(i, at) # << >> /\ \A f : ReadsAs(f, EncodeCase(i, at), i.op) => Gives(f, at, i.op, << >>)
  <2>1. CASE i.op \in DOMAIN FpuNoOperand
    <3>1. EncodeCase(i, at) = <<\hD9, FpuNoOperand[i.op]>>
      BY <2>1, FpuDispatch
    <3>2. ASSUME NEW f, ReadsAs(f, EncodeCase(i, at), i.op) PROVE Gives(f, at, i.op, << >>)
      <4>1. Parsed(f, <<\hD9, FpuNoOperand[i.op]>>) /\ f.op # "UD_NOP"
        BY <3>1, <3>2, ReadsAsIs
      <4>2. QED
        BY <2>1, <4>1, PlainFpuBack
    <3>3. QED
      BY <1>4, <3>1, <3>2
  <2>2. CASE i.op \in {"FCLEX", "FDISI", "FENI", "FINIT"}
    <3>1. EncodeCase(i, at) = <<\hDB, FpuControl[i.op]>>
      BY <2>2, FpuDispatch
    <3>2. ASSUME NEW f, ReadsAs(f, EncodeCase(i, at), i.op) PROVE Gives(f, at, i.op, << >>)
      <4>1. Parsed(f, <<\hDB, FpuControl[i.op]>>) /\ f.op # "UD_NOP"
        BY <3>1, <3>2, ReadsAsIs
      <4>2. QED
        BY <2>2, <4>1, PlainFpuBack
    <3>3. QED
      BY <1>4, <3>1, <3>2
  <2>3. CASE i.op = "FUCOMPP"
    <3>1. EncodeCase(i, at) = <<\hDA, \hE9>>
      BY <2>3, FpuDispatch
    <3>2. ASSUME NEW f, ReadsAs(f, EncodeCase(i, at), i.op) PROVE Gives(f, at, i.op, << >>)
      <4>1. Parsed(f, <<\hDA, \hE9>>) /\ f.op # "UD_NOP"
        BY <3>1, <3>2, ReadsAsIs
      <4>2. Gives(f, at, "FUCOMPP", << >>)
        BY <4>1, PlainFpuBack
      <4>3. QED
        BY <2>3, <4>2
    <3>3. QED
      BY <1>4, <3>1, <3>2
  <2>4. QED
    BY <2>1, <2>2, <2>3
<1>6. QED
  BY <1>2, <1>3, <1>5, Keep0 DEF OddOps

-----------------------------------------------------------------------------
(* The memory forms.                                                       *)
LEMMA EscapeFilled ==
    ASSUME NEW a, NEW w, Sized(a, w), NEW n \in 0 .. 7, NEW b \in FPUEscapes
    PROVE  Headed(b, ModRM(a, n)) # << >>
<1>1. b \in Byte
  BY DEF FPUEscapes, Byte
<1>2. QED
  BY <1>1, FilledRM

LEMMA VerdictMemoryArith ==
    ASSUME NEW i, NEW at, i.op \in ArithNames, NEW w \in {4, 8}, NEW a, Sized(a, w), IsMem(a),
           i.argv = <<STArg(0), a>>
    PROVE  Verdict(i, at)
<1> DEFINE n == Index(FpuArith, i.op)
           b == IF w = 4 THEN \hD8 ELSE \hDC
<1>1. n \in 0 .. 7 /\ FpuArith[n + 1] = i.op /\ EncodeCase(i, at) = EncodeFpuArith(n, i.argv[1], i.argv[2])
  BY ArithNumber
<1>2. b \in FPUEscapes /\ (w = 4 => b = \hD8) /\ (w = 8 => b = \hDC)
  BY DEF FPUEscapes
<1> HIDE DEF n
<1>3. a.size = w /\ ~IsST(a)
  BY SizedKinds
<1>4. EncodeFpuArith(n, STArg(0), a) = <<b>> \o ModRM(a, n)
  BY <1>3 DEF EncodeFpuArith
<1> HIDE DEF b
<1>5. EncodeCase(i, at) = Headed(b, ModRM(a, n))
  BY <1>1, <1>4 DEF Headed
<1>6. EncodeCase(i, at) # << >>
  BY <1>1, <1>2, <1>5, EscapeFilled
<1>7. ~Flips(i)
  BY StackKinds DEF Flips
<1>8. i.argv # <<STArg(0), STArg(0)>>
  <2>1. a # STArg(0)
    BY <1>3, StackKinds
  <2>2. QED
    BY <2>1
<1>9. ~Odd(i, at)
  BY <1>7, <1>8, ArithOrdinary
<1>10. ASSUME NEW f, ReadsAs(f, EncodeCase(i, at), i.op)
       PROVE  Gives(f, at, i.op, <<STArg(0), Anew(a, f.segment)>>)
  <2>1. Parsed(f, Headed(b, ModRM(a, n))) /\ f.op # "UD_NOP"
    BY <1>5, <1>10, ReadsAsIs
  <2>2. Gives(f, at, FpuArith[n + 1], <<STArg(0), Anew(a, f.segment)>>)
    BY <1>1, <2>1, MemoryArithBack DEF b
  <2>3. QED
    BY <1>1, <2>2
<1>11. i.op \notin Unsegmented
  BY FpuOpsAre, SegmentedOps DEF ArithNames
<1>12. QED
  BY <1>6, <1>9, <1>10, <1>11, FixedKinds, KeepRight

LEMMA VerdictMemoryInteger ==
    ASSUME NEW i, NEW at, i.op \in IntNames, NEW w \in {2, 4}, NEW a, Sized(a, w), IsMem(a), i.argv = <<a>>
    PROVE  Verdict(i, at)
<1> DEFINE n == Index(FpuInt, i.op)
           b == IF w = 4 THEN \hDA ELSE \hDE
<1>1. n \in 0 .. 7 /\ FpuInt[n + 1] = i.op
  BY DEF Index, FpuInt, IntNames
<1>2. b \in FPUEscapes /\ (w = 4 => b = \hDA) /\ (w = 2 => b = \hDE)
  BY DEF FPUEscapes
<1> HIDE DEF n
<1>3. a.size = w /\ ~IsST(a) /\ Proper(a)
  BY SizedKinds, ProperKinds
<1>4. EncodeFpuInt(n, a) = <<b>> \o ModRM(a, n)
  BY <1>3 DEF EncodeFpuInt
<1> HIDE DEF b
<1>5. EncodeCase(i, at) = EncodeFpuInt(n, i.argv[1])
  BY FpuDispatch DEF n, IntNames
<1>6. EncodeCase(i, at) = Headed(b, ModRM(a, n))
  BY <1>4, <1>5 DEF Headed
<1>7. EncodeCase(i, at) # << >>
  BY <1>1, <1>2, <1>6, EscapeFilled
<1>8. ~Odd(i, at)
  BY MoveOrdinary DEF MisreadsStore, IntNames
<1>9. ASSUME NEW f, ReadsAs(f, EncodeCase(i, at), i.op) PROVE Gives(f, at, i.op, <<Anew(a, f.segment)>>)
  <2>1. Parsed(f, Headed(b, ModRM(a, n))) /\ f.op # "UD_NOP"
    BY <1>6, <1>9, ReadsAsIs
  <2>2. Gives(f, at, FpuInt[n + 1], <<Anew(a, f.segment)>>)
    BY <1>1, <2>1, MemoryIntegerBack DEF b
  <2>3. QED
    BY <1>1, <2>2
<1>10. QED
  BY <1>3, <1>7, <1>8, <1>9, OtherStrings, Keep1 DEF IntNames

(* Loads and stores of memory: the encoder takes the operand a.            *)
CodeIs(op, w, b, n) == FpuMemCode(op, w) = <<b, n>>

LEMMA MemoryMoveIs ==
    ASSUME NEW i, NEW at, i.op \in FpuMoves, NEW a, NEW w, Sized(a, w), IsMem(a),
           i.argv = <<a>> \/ (i.op \in SkipsST0 /\ i.argv = <<STArg(0), a>>),
           NEW b, NEW n, CodeIs(i.op, w, b, n)
    PROVE  EncodeCase(i, at) = Headed(b, ModRM(a, n))
<1>1. EncodeCase(i, at) = EncodeFpuMove(i.op, i.argv)
  BY FpuDispatch
<1>2. ~IsReg(a) /\ ~IsST(a) /\ a.size = w
  BY SizedKinds
<1>3. (IF i.op \in SkipsST0 /\ Len(i.argv) = 2 THEN i.argv[2] ELSE i.argv[1]) = a
  <2>1. /\ Len(<<a>>) = 1 /\ <<a>>[1] = a
        /\ Len(<<STArg(0), a>>) = 2 /\ <<STArg(0), a>>[2] = a
    OBVIOUS
  <2>2. QED
    BY <2>1
<1>4. EncodeFpuMove(i.op, i.argv) = <<b>> \o ModRM(a, n)
  BY SMTT(30), <1>2, <1>3 DEF EncodeFpuMove, CodeIs
<1>5. QED
  BY <1>1, <1>4 DEF Headed

(* A form of the table whose code is its place there.                      *)
LEMMA VerdictMemoryMove ==
    ASSUME NEW i, NEW at, i.op \in FpuMoves, NEW a, NEW w, Sized(a, w), IsMem(a),
           NEW b \in {\hD9, \hDB, \hDD, \hDF}, NEW n \in 0 .. 7,
           CodeIs(i.op, w, b, n), FormIs(b, n, i.op, w),
           \/ b \in {\hD9, \hDD} /\ i.argv = <<a>>
           \/ b \in {\hDB, \hDF} /\ i.op \in SkipsST0 /\ i.argv = <<STArg(0), a>>,
           i.op = "FISTP" => w # 8
    PROVE  Verdict(i, at)
<1>1. EncodeCase(i, at) = Headed(b, ModRM(a, n))
  BY MemoryMoveIs
<1>2. b \in FPUEscapes
  BY DEF FPUEscapes
<1>3. EncodeCase(i, at) # << >>
  BY <1>1, <1>2, EscapeFilled
<1>4. Again(a, a.segment, w) = Anew(a, a.segment) /\ \A t : Again(a, t, w) = Anew(a, t)
  BY AgainIsAnew
<1>5. ~MisreadsStore(i)
  <2>1. a.size = w /\ ~IsMem(STArg(0))
    BY SizedKinds, StackKinds
  <2>2. CASE i.argv = <<a>>
    BY <2>1, <2>2 DEF MisreadsStore
  <2>3. CASE i.op \in SkipsST0 /\ i.argv = <<STArg(0), a>>
    <3>1. i.op # "FSTP"
      BY <2>3 DEF SkipsST0
    <3>2. \A k \in DOMAIN i.argv : IsMem(i.argv[k]) => i.argv[k].size = w
      BY <2>1, <2>3
    <3>3. QED
      BY <3>1, <3>2 DEF MisreadsStore
  <2>4. QED
    BY <2>2, <2>3
<1>6. ~Odd(i, at)
  BY <1>5, MoveOrdinary
<1>7. ASSUME NEW f, ReadsAs(f, EncodeCase(i, at), i.op)
      PROVE  /\ b \in {\hD9, \hDD} => Gives(f, at, i.op, <<Anew(a, f.segment)>>)
             /\ b \in {\hDB, \hDF} => Gives(f, at, i.op, <<STArg(0), Anew(a, f.segment)>>)
  <2>1. Parsed(f, Headed(b, ModRM(a, n))) /\ f.op # "UD_NOP"
    BY <1>1, <1>7, ReadsAsIs
  <2>2. /\ b \in {\hD9, \hDD} => Gives(f, at, i.op, <<Again(a, f.segment, w)>>)
        /\ b \in {\hDB, \hDF} => Gives(f, at, i.op, <<STArg(0), Again(a, f.segment, w)>>)
    BY <2>1, MemoryMoveBack
  <2>3. QED
    BY <1>4, <2>2
<1>8. CASE b \in {\hD9, \hDD} /\ i.argv = <<a>>
  <2>1. \A f : ReadsAs(f, EncodeCase(i, at), i.op) => Gives(f, at, i.op, <<Anew(a, f.segment)>>)
    BY <1>7, <1>8
  <2>2. Proper(a) /\ i.argv = <<a>>
    BY <1>8, ProperKinds
  <2>3. QED
    BY <1>3, <1>6, <2>1, <2>2, OtherStrings, Keep1
<1>9. CASE b \in {\hDB, \hDF} /\ i.argv = <<STArg(0), a>>
  <2>1. \A f : ReadsAs(f, EncodeCase(i, at), i.op) => Gives(f, at, i.op, <<STArg(0), Anew(a, f.segment)>>)
    BY <1>7, <1>9
  <2>2. Fixed(STArg(0)) /\ i.argv = <<STArg(0), a>>
    BY <1>9, FixedKinds
  <2>3. i.op \notin Unsegmented
    BY SegmentedOps DEF FpuOps
  <2>4. QED
    BY <1>3, <1>6, <2>1, <2>2, <2>3, KeepRight
<1>10. QED
  BY <1>8, <1>9

(* FSTP m80 is taken for FSTP st(0).                                       *)
LEMMA VerdictStoreExtended ==
    ASSUME NEW i, NEW at, i.op = "FSTP", NEW a, i.argv = <<STArg(0), a>>
    PROVE  Verdict(i, at)
<1>1. i.op \in FpuMoves /\ i.op \notin SkipsST0 /\ i.argv[1] = STArg(0) /\ Len(i.argv) = 2
  BY FpuTablesAre DEF SkipsST0
<1>2. IsST(STArg(0)) /\ ~IsReg(STArg(0))
  BY StackKinds
<1>3. EncodeFpuMove(i.op, i.argv) = <<\hDD>> \o ModRM(STArg(0), 3)
  BY <1>1, <1>2, StackCodes DEF EncodeFpuMove
<1>4. EncodeCase(i, at) = Headed(\hDD, ModRM(STArg(0), 3))
  BY SMTT(30), <1>1, <1>3, FpuDispatch DEF Headed
<1>5. ASSUME NEW f, ReadsAs(f, EncodeCase(i, at), i.op) PROVE Lost(i, f, at)
  <2>1. Parsed(f, Headed(\hDD, ModRM(STArg(0), 3))) /\ f.op # "UD_NOP"
    BY <1>4, <1>5, ReadsAsIs
  <2>2. \A n, r \in 0 .. 7 : Parsed(f, Headed(\hDD, ModRM(STArg(r), n))) => Gives(f, at, FpuStack[n + 1], <<STArg(r)>>)
    BY <2>1, StackArithBack
  <2>3. 3 \in 0 .. 7 /\ 0 \in 0 .. 7 /\ FpuStack[3 + 1] = "FSTP"
    BY DEF FpuStack
  <2>4. Gives(f, at, "FSTP", <<STArg(0)>>)
    BY <2>1, <2>2, <2>3
  <2>5. QED
    BY <1>1, <2>4 DEF Lost
<1>6. Odd(i, at)
  BY <1>1 DEF Odd, MisreadsStore
<1>7. QED
  BY <1>1, <1>5, <1>6 DEF Verdict

(* FISTP m64 is taken for FISTP m16.                                       *)
LEMMA VerdictStoreLong ==
    ASSUME NEW i, NEW at, i.op = "FISTP", NEW a, Sized(a, 8), IsMem(a), i.argv = <<STArg(0), a>>
    PROVE  Verdict(i, at)
<1>1. i.op \in FpuMoves /\ i.op \in SkipsST0
  BY FpuTablesAre DEF SkipsST0
<1>2. CodeIs(i.op, 8, \hDF, 3)
  BY MemoryCodes DEF CodeIs
<1>3. EncodeCase(i, at) = Headed(\hDF, ModRM(a, 3))
  BY <1>1, <1>2, MemoryMoveIs
<1>4. ASSUME NEW f, ReadsAs(f, EncodeCase(i, at), i.op) PROVE Lost(i, f, at)
  <2>1. Parsed(f, Headed(\hDF, ModRM(a, 3))) /\ f.op # "UD_NOP"
    BY <1>3, <1>4, ReadsAsIs
  <2>2. FormIs(\hDF, 3, "FISTP", 2)
    BY MemoryNames DEF FormIs
  <2>3. 3 \in 0 .. 7 /\ \hDF \in {\hD9, \hDB, \hDD, \hDF} /\ \hDF \in {\hDB, \hDF}
    OBVIOUS
  <2>4. Gives(f, at, "FISTP", <<STArg(0), Again(a, f.segment, 2)>>)
    BY <2>1, <2>2, <2>3, MemoryMoveBack
  <2>5. QED
    BY <2>4 DEF Lost
<1>5. a.size = 8
  BY SizedKinds
<1>6. MisreadsStore(i)
  <2>1. 2 \in DOMAIN i.argv /\ i.argv[2] = a
    OBVIOUS
  <2>2. QED
    BY <1>5, <2>1 DEF MisreadsStore
<1>7. QED
  BY <1>4, <1>6 DEF Verdict, Odd

(* What has no case.                                                       *)
LEMMA VerdictNoCase ==
    ASSUME NEW i, NEW at, i.op \in NoCase
    PROVE  Verdict(i, at)
<1>1. EncodeCase(i, at) = << >>
  BY NoCaseIs
<1>2. HasNoForm(i)
  BY DEF HasNoForm
<1>3. QED
  BY <1>1, <1>2 DEF Verdict, Odd
=============================================================================
