---------------------------- MODULE FormatProofs ----------------------------
(***************************************************************************)
(* Lemmas about the definitions the models share, none of which speaks of  *)
(* a state: the formats of Layout8086 and the flat decode of Flat8086, for *)
(* the proofs about the core and about the sweep; and, for those about     *)
(* recode8086.c, what minx86enc_encodeall writes for an instruction that   *)
(* minx86dec_decode8086 made.                                              *)
(*                                                                         *)
(* One row of the opcode map tells what bytes that hold a whole            *)
(* instruction are (FieldsOfWhole).  Row by row, the encoder's case for it *)
(* writes bytes that stand on their own, as many as were read or fewer     *)
(* (AllRows).  A prefix is written only where one of its kind was read     *)
(* (AllGoverned, FewPrefixes), so that the whole is no longer either       *)
(* (Written).                                                              *)
(***************************************************************************)
EXTENDS Encode8086, SequenceTheorems, WellFoundedInduction, TLAPS

Widths == Seq({1, 2})

-----------------------------------------------------------------------------
(* Sequences of one and of two.                                            *)

LEMMA SingleIs ==
    ASSUME NEW S, NEW a \in S, NEW t \in Seq(S), Len(t) = 1, t[1] = a
    PROVE  t = <<a>>
<1>1. /\ <<a>> \in Seq(S) /\ Len(<<a>>) = Len(t)
      /\ \A k \in 1 .. Len(t) : <<a>>[k] = t[k]
  OBVIOUS
<1> DEFINE u == <<a>>
<1>2. u \in Seq(S) /\ Len(u) = Len(t) /\ \A k \in 1 .. Len(u) : u[k] = t[k]
  BY <1>1
<1> HIDE DEF u
<1>3. u = t
  BY <1>2, SeqEqual
<1>4. QED
  BY <1>3 DEF u

LEMMA PairIs ==
    ASSUME NEW S, NEW a \in S, NEW b \in S, NEW t \in Seq(S), Len(t) = 2, t[1] = a, t[2] = b
    PROVE  t = <<a, b>>
<1>1. /\ <<a, b>> \in Seq(S) /\ Len(<<a, b>>) = Len(t)
      /\ \A k \in 1 .. Len(t) : <<a, b>>[k] = t[k]
  OBVIOUS
<1> DEFINE u == <<a, b>>
<1>2. u \in Seq(S) /\ Len(u) = Len(t) /\ \A k \in 1 .. Len(u) : u[k] = t[k]
  BY <1>1
<1> HIDE DEF u
<1>3. u = t
  BY <1>2, SeqEqual
<1>4. QED
  BY <1>3 DEF u

LEMMA Joined ==
    ASSUME NEW S, NEW u \in Seq(S), NEW v \in Seq(S)
    PROVE  /\ u \o v \in Seq(S) /\ Len(u \o v) = Len(u) + Len(v)
           /\ Len(u) \in Nat /\ Len(v) \in Nat
           /\ \A k \in 1 .. Len(u) : (u \o v)[k] = u[k]
           /\ \A k \in 1 .. Len(v) : (u \o v)[k + Len(u)] = v[k]
<1> DEFINE w == u \o v
           l == Len(u)
           m == Len(v)
<1>1. w \in Seq(S) /\ Len(w) = l + m
  BY ConcatProperties
<1>2. \A k \in 1 .. l + m : w[k] = IF k <= l THEN u[k] ELSE v[k - l]
  BY ConcatProperties
<1>3. l \in Nat /\ m \in Nat
  BY LenProperties
<1> HIDE DEF w, l, m
<1>4. \A k \in 1 .. l : w[k] = u[k]
  BY <1>2, <1>3
<1>5. \A k \in 1 .. m : w[k + l] = v[k]
  BY <1>2, <1>3
<1>6. QED
  BY <1>1, <1>3, <1>4, <1>5 DEF w, l, m

LEMMA Appended == ASSUME NEW a, NEW v PROVE Append(<<a>>, v) = <<a, v>>
<1> DEFINE one == <<a>>
           two == Append(one, v)
<1>1. one \in Seq({a, v}) /\ Len(one) = 1 /\ one[1] = a
  OBVIOUS
<1> HIDE DEF one
<1>2. two \in Seq({a, v}) /\ Len(two) = 2 /\ two[1] = a /\ two[2] = v
  <2>1. a \in {a, v} /\ v \in {a, v}
    OBVIOUS
  <2>2. /\ Append(one, v) \in Seq({a, v}) /\ Len(Append(one, v)) = Len(one) + 1
        /\ \A k \in 1 .. Len(one) : Append(one, v)[k] = one[k]
        /\ Append(one, v)[Len(one) + 1] = v
    BY <1>1, <2>1, AppendProperties
  <2>3. QED
    BY <1>1, <2>2
<1> HIDE DEF two
<1>3. two = <<a, v>>
  BY <1>2, PairIs
<1>4. QED
  BY <1>3 DEF one, two

LEMMA Tails ==
    ASSUME NEW w \in Widths
    PROVE  /\ Len(w) = 1 => Tail(w) = << >>
           /\ Len(w) = 2 => Tail(w) = <<w[2]>>
<1> DEFINE t == Tail(w)
<1>1. Len(w) \in 1 .. 2 =>
        /\ t \in Seq({1, 2}) /\ Len(t) = Len(w) - 1
        /\ Len(w) = 2 => t[1] = w[2] /\ w[2] \in {1, 2}
  BY HeadTailProperties, EmptySeq, ElementOfSeq DEF Widths
<1> HIDE DEF t
<1>2. Len(w) = 1 => t = << >>
  BY <1>1, EmptySeq
<1>3. Len(w) = 2 => t = <<w[2]>>
  BY <1>1, SingleIs
<1>4. QED
  BY <1>2, <1>3 DEF t

-----------------------------------------------------------------------------
(* What the tables of Layout8086 return.                                   *)

LEMMA WidthSequences ==
    << >> \in Widths /\ <<1>> \in Widths /\ <<2>> \in Widths /\ <<2, 2>> \in Widths
  BY DEF Widths

(* The operands behind a ModR/M byte are a displacement and an immediate.  *)
LEMMA OperandsAfterModRM ==
    ASSUME NEW b \in Byte \cup {NoByte}, NEW m \in Byte
    PROVE  Displacement(m) \o ImmAfterRM(b, m) \in Widths
<1>1. Displacement(m) \in {<< >>, <<1>>, <<2>>}
  BY Zenon DEF Displacement
<1>2. ImmAfterRM(b, m) \in {<< >>, <<1>>, <<2>>}
  BY ZenonT(40) DEF ImmAfterRM
<1>3. Displacement(m) \in Widths /\ ImmAfterRM(b, m) \in Widths
  BY <1>1, <1>2, WidthSequences
<1>4. QED
  BY <1>3, ConcatProperties DEF Widths

LEMMA OperandsWithoutModRM ==
    ASSUME NEW b \in Byte
    PROVE  Immediates(b) \in Widths
<1>1. ImmRows0to7(b) \in {<< >>, <<1>>, <<2>>}
  BY Zenon DEF ImmRows0to7
<1>2. ImmRows8toB(b) \in {<< >>, <<1>>, <<2>>, <<2, 2>>}
  BY ZenonT(40) DEF ImmRows8toB
<1>3. ImmRowsCtoF(b) \in {<< >>, <<1>>, <<2>>, <<2, 2>>}
  BY SMT DEF ImmRowsCtoF
<1>4. Immediates(b) \in {<< >>, <<1>>, <<2>>, <<2, 2>>}
  BY <1>1, <1>2, <1>3, SMT DEF Immediates
<1>5. QED
  BY <1>4, WidthSequences

Decoded == {"OK", "UD", "UD_NOP"}

LEMMA GroupOutcomes ==
    ASSUME NEW b \in Byte \cup {NoByte}, NEW m \in Byte
    PROVE  GroupOutcome(b, m) \in Decoded
  BY DEF GroupOutcome, IncDecGroup, Decoded

LEMMA FPUOutcomes ==
    ASSUME NEW b, NEW x
    PROVE  FPUOutcome(b, x) \in Decoded
  BY DEF FPUOutcome, Decoded

LEMMA PrefixFields ==
    /\ \A b \in SegOverrides : SegmentOf(b) \in 0 .. 3
    /\ \A b \in Byte : RepOf(b) \in 0 .. 2
  BY DEF SegOverrides, SegmentOf, RepOf, Byte

LEMMA BytesAreNumbers == \A v \in Byte : v \in Nat
  BY DEF Byte

(* The kinds of prefixes are distinct, and no opcode is one.               *)
LEMMA Kinds ==
    ASSUME NEW b
    PROVE  /\ b \in SegOverrides => b \notin RepPrefixes \cup LockPrefixes \cup {WaitOpcode}
           /\ b \in RepPrefixes => b \notin SegOverrides \cup LockPrefixes \cup {WaitOpcode}
           /\ b \in LockPrefixes => b \notin SegOverrides \cup RepPrefixes \cup {WaitOpcode}
           /\ b = WaitOpcode => b \notin SegOverrides \cup RepPrefixes \cup LockPrefixes
           /\ b \in PeekOpcodes => b \notin PrefixBytes \cup ModRMOpcodes \cup FPUEscapes \cup Absent
           /\ b \in ModRMOpcodes => b \notin PrefixBytes \cup PeekOpcodes \cup FPUEscapes \cup Absent
           /\ b \in FPUEscapes => b \notin PrefixBytes \cup PeekOpcodes \cup ModRMOpcodes \cup Absent
           /\ b = WaitOpcode => b \notin PeekOpcodes \cup ModRMOpcodes \cup FPUEscapes \cup Absent
  BY DEF SegOverrides, RepPrefixes, LockPrefixes, WaitOpcode, PeekOpcodes, FarLoads, PopRM,
     PrefixBytes, ModRMOpcodes, AluRM, ModRMRow8, ModRMRowC, ModRMRowF, FPUEscapes, Absent

(* No instruction has more than two operands, none is wider than a word.   *)
LEMMA WidthsAre ==
    ASSUME NEW b, NEW x
    PROVE  /\ OperandWidths(b, x) \in Widths
           /\ Len(OperandWidths(b, x)) \in 0 .. 2
<1> DEFINE short == {<< >>, <<1>>, <<2>>}
<1>1. Displacement(x) \in short /\ ImmAfterRM(b, x) \in short
  BY ZenonT(40) DEF Displacement, ImmAfterRM
<1>2. Immediates(b) \in short \cup {<<2, 2>>}
  <2>1. ImmRows0to7(b) \in short
    BY Zenon DEF ImmRows0to7
  <2>2. ImmRows8toB(b) \in short \cup {<<2, 2>>}
    BY Zenon DEF ImmRows8toB
  <2>3. ImmRowsCtoF(b) \in short \cup {<<2, 2>>}
    BY Zenon DEF ImmRowsCtoF
  <2> HIDE DEF short
  <2>4. QED
    BY <2>1, <2>2, <2>3, Zenon DEF Immediates
<1>3. \A u \in short : u \in Widths /\ Len(u) \in 0 .. 1
  BY WidthSequences
<1>4. <<2, 2>> \in Widths /\ Len(<<2, 2>>) = 2 /\ << >> \in Widths /\ Len(<< >>) = 0
  BY WidthSequences
<1> HIDE DEF short
<1>5. /\ Displacement(x) \o ImmAfterRM(b, x) \in Widths
      /\ Len(Displacement(x) \o ImmAfterRM(b, x))
           = Len(Displacement(x)) + Len(ImmAfterRM(b, x))
  BY <1>1, <1>3, ConcatProperties DEF Widths
<1>6. CASE TakesModRM(b, x)
  <2>1. OperandWidths(b, x) = Displacement(x) \o ImmAfterRM(b, x)
    BY <1>6 DEF OperandWidths
  <2>2. Len(Displacement(x)) \in 0 .. 1 /\ Len(ImmAfterRM(b, x)) \in 0 .. 1
    BY <1>1, <1>3
  <2>3. QED
    BY <1>5, <2>1, <2>2
<1>7. CASE ~TakesModRM(b, x)
  <2>1. OperandWidths(b, x) \in {<< >>, Immediates(b)}
    BY <1>7 DEF OperandWidths
  <2>2. Immediates(b) \in Widths /\ Len(Immediates(b)) \in 0 .. 2
    <3>1. CASE Immediates(b) \in short
      BY <1>3, <3>1
    <3>2. CASE Immediates(b) = <<2, 2>>
      BY <1>4, <3>2
    <3>3. QED
      BY <1>2, <3>1, <3>2
  <2>3. QED
    BY <1>4, <2>1, <2>2
<1>8. QED
  BY <1>6, <1>7

Few   == {w \in Seq({1, 2}) : Len(w) <= 2}

(* The bytes that operands of widths w take.                               *)
Size(w) == (IF Len(w) > 0 THEN w[1] ELSE 0) + (IF Len(w) > 1 THEN w[2] ELSE 0)

LEMMA FewSizes ==
    ASSUME NEW w \in Few
    PROVE  /\ Len(w) \in 0 .. 2 /\ Size(w) \in 0 .. 4 /\ DOMAIN w = 1 .. Len(w)
           /\ w = << >> <=> Len(w) = 0
<1>1. w \in Seq({1, 2}) /\ Len(w) \in 0 .. 2 /\ DOMAIN w = 1 .. Len(w)
  <2>1. w \in Seq({1, 2}) /\ Len(w) <= 2
    BY DEF Few
  <2>2. Len(w) \in Nat /\ DOMAIN w = 1 .. Len(w)
    BY <2>1, LenProperties
  <2>3. QED
    BY <2>1, <2>2
<1>2. \A i \in 1 .. Len(w) : w[i] \in {1, 2}
  BY <1>1, ElementOfSeq
<1>3. Size(w) \in 0 .. 4
  BY <1>1, <1>2 DEF Size
<1>4. QED
  BY <1>1, <1>3, EmptySeq

LEMMA FewOperands ==
    ASSUME NEW b, NEW x
    PROVE  OperandWidths(b, x) \in Few
<1> DEFINE w == OperandWidths(b, x)
           l == Len(w)
<1>1. w \in Seq({1, 2}) /\ l \in 0 .. 2
  BY WidthsAre DEF Widths
<1> HIDE DEF l
<1>2. l <= 2
  BY <1>1
<1> HIDE DEF w
<1>3. w \in Few
  BY <1>1, <1>2 DEF Few, l
<1>4. QED
  BY <1>3 DEF w

LEMMA DecodedOutcome ==
    ASSUME NEW b, NEW x
    PROVE  OutcomeOf(b, x) \in {"OK", "UD", "UD_NOP"}
<1> DEFINE D == {"OK", "UD", "UD_NOP"}
<1>1. IncDecGroup(b, x) \in D
  BY Zenon DEF IncDecGroup
<1>2. GroupOutcome(b, x) \in D
  BY <1>1, SMT DEF GroupOutcome
<1>3. FPUOutcome(b, x) \in D
  BY Zenon DEF FPUOutcome
<1>4. QED
  BY <1>2, <1>3, Zenon DEF OutcomeOf

-----------------------------------------------------------------------------
(* The prefixes.                                                           *)

(* b is the last of the first n bytes of s that is of that kind.           *)
Latest(s, n, kind, b) ==
    \/ b = NoByte /\ \A j \in 1 .. n : s[j] \notin kind
    \/ \E k \in 1 .. n : /\ s[k] \in kind /\ b = s[k]
                         /\ \A j \in k + 1 .. n : s[j] \notin kind

LEMMA NextByte ==
    ASSUME NEW s \in Seq(Byte), NEW n \in Nat, n < Len(s)
    PROVE  s[n + 1] \in Byte /\ s[n + 1] # NoByte
<1>1. n + 1 \in 1 .. Len(s)
  BY LenProperties
<1>2. s[n + 1] \in Byte
  BY <1>1, ElementOfSeq
<1>3. NoByte \notin Byte
  BY DEF Byte, NoByte
<1>4. QED
  BY <1>2, <1>3

(* PrefixLength is what a walk over the prefixes finds.                    *)
LEMMA PrefixLengthIs ==
    ASSUME NEW s \in Seq(Byte), NEW n \in Nat, n < Len(s),
           \A k \in 1 .. n : PrefixAt(s, k), ~PrefixAt(s, n + 1)
    PROVE  PrefixLength(s) = n
<1> DEFINE P(m) == /\ m < Len(s) => ~PrefixAt(s, m + 1)
                   /\ \A k \in 1 .. m : PrefixAt(s, k)
<1>1. Len(s) \in Nat /\ n \in 0 .. Len(s) /\ P(n)
  BY LenProperties
<1>2. \A m \in 0 .. Len(s) : P(m) => m = n
  <2> SUFFICES ASSUME NEW m \in 0 .. Len(s), P(m) PROVE m = n
    OBVIOUS
  <2>1. ~(m < n)
    <3>1. m < n => m + 1 \in 1 .. n /\ m < Len(s)
      BY <1>1
    <3>2. QED
      BY <3>1
  <2>2. ~(n < m)
    <3>1. n < m => n + 1 \in 1 .. m
      BY <1>1
    <3>2. QED
      BY <3>1
  <2>3. QED
    BY <2>1, <2>2, <1>1
<1>3. PrefixLength(s) = CHOOSE m \in 0 .. Len(s) : P(m)
  BY DEF PrefixLength
<1> HIDE DEF P
<1>4. QED
  BY <1>1, <1>2, <1>3

LEMMA LatestIs ==
    ASSUME NEW s \in Seq(Byte), PrefixLength(s) \in Nat, NEW kind, NEW b,
           Latest(s, PrefixLength(s), kind, b)
    PROVE  LastPrefix(s, kind) = b
<1> DEFINE at == {i \in 1 .. PrefixLength(s) : s[i] \in kind}
<1>1. LastPrefix(s, kind)
        = IF at = {} THEN NoByte ELSE s[CHOOSE i \in at : \A j \in at : j <= i]
  BY DEF LastPrefix
<1>2. CASE b = NoByte /\ \A j \in 1 .. PrefixLength(s) : s[j] \notin kind
  BY <1>1, <1>2
<1>3. CASE \E k \in 1 .. PrefixLength(s) :
              /\ s[k] \in kind /\ b = s[k]
              /\ \A j \in k + 1 .. PrefixLength(s) : s[j] \notin kind
  <2>1. PICK k \in 1 .. PrefixLength(s) :
            /\ s[k] \in kind /\ b = s[k]
            /\ \A j \in k + 1 .. PrefixLength(s) : s[j] \notin kind
    BY <1>3
  <2>2. k \in at /\ \A j \in at : j <= k
    BY <2>1
  <2>3. \A i \in at : (\A j \in at : j <= i) => i = k
    BY <2>2
  <2> HIDE DEF at
  <2>4. (CHOOSE i \in at : \A j \in at : j <= i) = k
    BY <2>2, <2>3
  <2>5. QED
    BY <1>1, <2>1, <2>2, <2>4
<1>4. QED
  BY <1>2, <1>3 DEF Latest

LEMMA LatestOn ==
    ASSUME NEW s, NEW n \in Nat, NEW kind, NEW b
    PROVE  /\ s[n + 1] \in kind => Latest(s, n + 1, kind, s[n + 1])
           /\ s[n + 1] \notin kind /\ Latest(s, n, kind, b) => Latest(s, n + 1, kind, b)
<1>1. \A j \in 1 .. n + 1 : j \in 1 .. n \/ j = n + 1
  OBVIOUS
<1>2. \A k \in 1 .. n : \A j \in k + 1 .. n + 1 : j \in k + 1 .. n \/ j = n + 1
  OBVIOUS
<1>3. \A k \in 1 .. n : k \in 1 .. n + 1
  OBVIOUS
<1>4. n + 1 \in 1 .. n + 1 /\ \A j \in (n + 1) + 1 .. n + 1 : FALSE
  OBVIOUS
<1>5. s[n + 1] \in kind => Latest(s, n + 1, kind, s[n + 1])
  BY <1>4 DEF Latest
<1>6. ASSUME s[n + 1] \notin kind, Latest(s, n, kind, b)
      PROVE  Latest(s, n + 1, kind, b)
  <2>1. CASE b = NoByte /\ \A j \in 1 .. n : s[j] \notin kind
    BY <1>1, <1>6, <2>1 DEF Latest
  <2>2. CASE \E k \in 1 .. n : /\ s[k] \in kind /\ b = s[k]
                              /\ \A j \in k + 1 .. n : s[j] \notin kind
    BY <1>2, <1>3, <1>6, <2>2 DEF Latest
  <2>3. QED
    BY <1>6, <2>1, <2>2 DEF Latest
<1>7. QED
  BY <1>5, <1>6

LEMMA LeastOf ==
    ASSUME NEW T, T \subseteq Nat, T # {}
    PROVE  \E n \in T : \A m \in T : n <= m
<1>1. PICK n \in T : \A m \in T : ~(<<m, n>> \in OpToRel(<, Nat))
  BY NatLessThanWellFounded, WFMin
<1>2. \A m \in T : ~(m < n)
  BY <1>1 DEF OpToRel
<1>3. \A m \in T : n <= m
  BY <1>2
<1>4. QED
  BY <1>3

(* A byte that is no prefix ends the run of prefixes, at the latest.       *)
LEMMA PrefixesEnd ==
    ASSUME NEW s \in Seq(Byte), NEW k \in 1 .. Len(s), ~PrefixAt(s, k)
    PROVE  /\ PrefixLength(s) \in 0 .. k - 1
           /\ ~PrefixAt(s, PrefixLength(s) + 1)
<1> DEFINE T == {n \in Nat : n + 1 \in 1 .. k /\ ~PrefixAt(s, n + 1)}
           P(n) == /\ n < Len(s) => ~PrefixAt(s, n + 1)
                   /\ \A i \in 1 .. n : PrefixAt(s, i)
<1>1. Len(s) \in Nat /\ k \in Nat /\ k >= 1 /\ k <= Len(s)
  BY LenProperties
<1>2. T \subseteq Nat /\ k - 1 \in T
  <2>1. k - 1 \in Nat /\ (k - 1) + 1 = k /\ k \in 1 .. k
    BY <1>1
  <2>2. QED
    BY <2>1
<1>3. PICK n \in T : \A m \in T : n <= m
  <2> HIDE DEF T
  <2>1. QED
    BY <1>2, LeastOf
<1>4. n \in 0 .. k - 1 /\ ~PrefixAt(s, n + 1) /\ n < Len(s)
  BY <1>1, <1>3
<1>5. ASSUME NEW i \in 1 .. n PROVE PrefixAt(s, i)
  <2>1. i - 1 \in Nat /\ (i - 1) + 1 = i /\ i \in 1 .. k /\ ~(n <= i - 1)
    BY <1>1, <1>4
  <2>2. QED
    BY <1>3, <2>1
<1>6. n \in 0 .. Len(s) /\ P(n)
  BY <1>1, <1>4, <1>5
<1>7. \A m \in 0 .. Len(s) : P(m) => m = n
  <2> SUFFICES ASSUME NEW m \in 0 .. Len(s), P(m) PROVE m = n
    OBVIOUS
  <2>1. m < n => m + 1 \in 1 .. n /\ m < Len(s)
    BY <1>1, <1>4
  <2>2. n < m => n + 1 \in 1 .. m
    BY <1>1, <1>4
  <2>3. QED
    BY <1>1, <1>4, <1>5, <2>1, <2>2
<1>8. PrefixLength(s) = CHOOSE m \in 0 .. Len(s) : P(m)
  BY DEF PrefixLength
<1> HIDE DEF P
<1>9. PrefixLength(s) = n
  BY <1>6, <1>7, <1>8
<1>10. QED
  BY <1>4, <1>9

-----------------------------------------------------------------------------
(* The flat decode.                                                        *)

(* What FlatDecode takes from s.                                           *)
Opcode(s)   == s[PrefixLength(s) + 1]

Second(s)   == IF PrefixLength(s) + 2 <= Len(s) THEN s[PrefixLength(s) + 2] ELSE NoByte

WidthsOf(s) == OperandWidths(Opcode(s), Second(s))

Decoding(s, args, len) ==
    [op      |-> OutcomeOf(Opcode(s), Second(s)),
     lead    |-> Opcode(s),
     fpu     |-> IF Opcode(s) \in FPUEscapes THEN Second(s) ELSE NoByte,
     rm      |-> IF TakesModRM(Opcode(s), Second(s)) THEN Second(s) ELSE NoByte,
     args    |-> args,
     segment |-> SegmentPut(s),
     rep     |-> RepPut(s),
     lock    |-> Seen(s, LockPrefixes),
     fwait   |-> Seen(s, {WaitOpcode}),
     len     |-> len]

FirstOperand(s) == ValueAt(s, OperandsAt(s), WidthsOf(s)[1])

(* Lengths of what FlatDecode returns, with none, one and two operands.    *)
Length(s, at) == IF OutcomeOf(Opcode(s), Second(s)) = "UD_NOP" THEN 2 ELSE at

ArgsOf(s, offset) == [k \in DOMAIN WidthsOf(s) |-> ValueAt(s, offset[k], WidthsOf(s)[k])]

LEMMA FlatForm ==
    ASSUME NEW s
    PROVE  LET w == WidthsOf(s)
               o == <<OperandsAt(s),
                      OperandsAt(s) + (IF Len(w) > 0 THEN w[1] ELSE 0),
                      OperandsAt(s) + (IF Len(w) > 0 THEN w[1] ELSE 0)
                                    + (IF Len(w) > 1 THEN w[2] ELSE 0)>>
           IN  FlatDecode(s) = Decoding(s, ArgsOf(s, o), Length(s, o[Len(w) + 1]))
  BY Zenon DEF FlatDecode, Decoding, Opcode, Second, WidthsOf, ArgsOf, Length

LEMMA FlatOfNone ==
    ASSUME NEW s, WidthsOf(s) = << >>
    PROVE  FlatDecode(s) = Decoding(s, << >>, Length(s, OperandsAt(s)))
<1> DEFINE w == WidthsOf(s)
           o == <<OperandsAt(s),
                  OperandsAt(s) + (IF Len(w) > 0 THEN w[1] ELSE 0),
                  OperandsAt(s) + (IF Len(w) > 0 THEN w[1] ELSE 0)
                                + (IF Len(w) > 1 THEN w[2] ELSE 0)>>
<1>1. FlatDecode(s) = Decoding(s, ArgsOf(s, o), Length(s, o[Len(w) + 1]))
  BY FlatForm
<1>2. Len(w) = 0 /\ o[1] = OperandsAt(s)
  OBVIOUS
<1> HIDE DEF o
<1>3. ArgsOf(s, o) = << >>
  BY DEF ArgsOf
<1>4. QED
  BY <1>1, <1>2, <1>3

LEMMA FlatOfOne ==
    ASSUME NEW s, WidthsOf(s) \in Widths, Len(WidthsOf(s)) = 1
    PROVE  FlatDecode(s)
             = Decoding(s, <<FirstOperand(s)>>, Length(s, OperandsAt(s) + WidthsOf(s)[1]))
<1> DEFINE w == WidthsOf(s)
           o == <<OperandsAt(s),
                  OperandsAt(s) + (IF Len(w) > 0 THEN w[1] ELSE 0),
                  OperandsAt(s) + (IF Len(w) > 0 THEN w[1] ELSE 0)
                                + (IF Len(w) > 1 THEN w[2] ELSE 0)>>
<1>1. FlatDecode(s) = Decoding(s, ArgsOf(s, o), Length(s, o[Len(w) + 1]))
  BY FlatForm
<1>2. o[1] = OperandsAt(s) /\ o[2] = OperandsAt(s) + w[1] /\ Len(w) + 1 = 2
  OBVIOUS
<1> HIDE DEF o
<1>3. DOMAIN w = 1 .. 1
  BY LenProperties DEF Widths
<1>4. ArgsOf(s, o) = [k \in 1 .. 1 |-> ValueAt(s, o[k], w[k])]
  BY <1>3 DEF ArgsOf
<1>5. [k \in 1 .. 1 |-> ValueAt(s, o[k], w[k])] = <<FirstOperand(s)>>
  BY <1>2 DEF FirstOperand
<1>6. QED
  BY <1>1, <1>2, <1>4, <1>5

LEMMA FlatOfTwo ==
    ASSUME NEW s, WidthsOf(s) \in Widths, Len(WidthsOf(s)) = 2
    PROVE  FlatDecode(s)
             = Decoding(s,
                   <<FirstOperand(s),
                     ValueAt(s, OperandsAt(s) + WidthsOf(s)[1], WidthsOf(s)[2])>>,
                   Length(s, OperandsAt(s) + WidthsOf(s)[1] + WidthsOf(s)[2]))
<1> DEFINE w == WidthsOf(s)
           o == <<OperandsAt(s),
                  OperandsAt(s) + (IF Len(w) > 0 THEN w[1] ELSE 0),
                  OperandsAt(s) + (IF Len(w) > 0 THEN w[1] ELSE 0)
                                + (IF Len(w) > 1 THEN w[2] ELSE 0)>>
<1>1. FlatDecode(s) = Decoding(s, ArgsOf(s, o), Length(s, o[Len(w) + 1]))
  BY FlatForm
<1>2. /\ o[1] = OperandsAt(s) /\ o[2] = OperandsAt(s) + w[1]
      /\ o[3] = OperandsAt(s) + w[1] + w[2] /\ Len(w) + 1 = 3
  OBVIOUS
<1> HIDE DEF o
<1>3. DOMAIN w = 1 .. 2
  BY LenProperties DEF Widths
<1>4. ArgsOf(s, o) = [k \in 1 .. 2 |-> ValueAt(s, o[k], w[k])]
  BY <1>3 DEF ArgsOf
<1>5. [k \in 1 .. 2 |-> ValueAt(s, o[k], w[k])]
        = <<FirstOperand(s), ValueAt(s, o[2], w[2])>>
  BY <1>2 DEF FirstOperand
<1>6. QED
  BY <1>1, <1>2, <1>4, <1>5

LEMMA PeekingKinds ==
    ASSUME NEW b
    PROVE  /\ b \in PeekOpcodes => b \notin FPUEscapes \cup Absent \cup ModRMOpcodes
           /\ b = WaitOpcode => b \notin FPUEscapes \cup PeekOpcodes \cup ModRMOpcodes
  BY DEF PeekOpcodes, FarLoads, PopRM, FPUEscapes, Absent, ModRMOpcodes, AluRM, ModRMRow8,
     ModRMRowC, ModRMRowF, WaitOpcode

LEMMA DecodeOf ==
    ASSUME NEW s, PrefixLength(s) \in Nat, Len(s) \in Nat, PrefixLength(s) + 2 <= Len(s)
    PROVE  /\ FlatDecode(s).op = OutcomeOf(Opcode(s), Second(s))
           /\ FlatDecode(s).op \in {"OK", "UD", "UD_NOP"}
           /\ FlatDecode(s).len = IF FlatDecode(s).op = "UD_NOP" THEN 2
                  ELSE OperandsAt(s) + Size(OperandWidths(Opcode(s), Second(s)))
           /\ Reach(s) =
                  IF /\ Opcode(s) \in PeekOpcodes \cup {WaitOpcode}
                     /\ OperandWidths(Opcode(s), Second(s)) = << >>
                  THEN PrefixLength(s) + 2
                  ELSE OperandsAt(s) + Size(OperandWidths(Opcode(s), Second(s)))
           /\ OperandsAt(s) =
                  IF Opcode(s) \in FPUEscapes \/ TakesModRM(Opcode(s), Second(s))
                  THEN PrefixLength(s) + 2 ELSE PrefixLength(s) + 1
<1> DEFINE w  == OperandWidths(Opcode(s), Second(s))
           at == OperandsAt(s)
           offset == <<at,
                       at + (IF Len(w) > 0 THEN w[1] ELSE 0),
                       at + (IF Len(w) > 0 THEN w[1] ELSE 0)
                          + (IF Len(w) > 1 THEN w[2] ELSE 0)>>
<1>1. FlatDecode(s).op = OutcomeOf(Opcode(s), Second(s))
  BY DEF FlatDecode, Opcode, Second
<1>2. FlatDecode(s).op \in {"OK", "UD", "UD_NOP"}
  BY <1>1, DecodedOutcome
<1>3. FlatDecode(s).len = IF OutcomeOf(Opcode(s), Second(s)) = "UD_NOP" THEN 2
                          ELSE offset[Len(w) + 1]
  BY DEF FlatDecode, Opcode, Second
<1>4. at = IF Opcode(s) \in FPUEscapes \/ TakesModRM(Opcode(s), Second(s))
           THEN PrefixLength(s) + 2 ELSE PrefixLength(s) + 1
  BY DEF OperandsAt, Opcode, Second
<1>5. Reach(s) = IF Opcode(s) \in PeekOpcodes \cup {WaitOpcode} /\ w = << >>
                 THEN PrefixLength(s) + 2 ELSE at + Size(w)
  BY DEF Reach, Size, Opcode, Second
<1>6. offset[Len(w) + 1] = at + Size(w)
  <2>1. w \in Few /\ at \in Nat
    BY <1>4, FewOperands
  <2> HIDE DEF w, at
  <2>2. Len(w) \in 0 .. 2
    BY <2>1, FewSizes
  <2>3. w[1] \in {1, 2} \/ Len(w) = 0
    BY <2>1, <2>2, ElementOfSeq DEF Few
  <2>4. w[2] \in {1, 2} \/ Len(w) # 2
    BY <2>1, <2>2, ElementOfSeq DEF Few
  <2>5. CASE Len(w) = 0
    BY <2>1, <2>5 DEF Size
  <2>6. CASE Len(w) = 1
    BY <2>1, <2>3, <2>6 DEF Size
  <2>7. CASE Len(w) = 2
    BY <2>1, <2>3, <2>4, <2>7 DEF Size
  <2>8. QED
    BY <2>2, <2>5, <2>6, <2>7
<1>7. QED
  BY <1>1, <1>2, <1>3, <1>4, <1>5, <1>6

(* An instruction reaches at most six bytes behind its prefixes and, if it *)
(* has an opcode, no further than it is long but for the byte that a 0x9B  *)
(* looks ahead at.                                                         *)
LEMMA DecodeBounds ==
    ASSUME NEW s, PrefixLength(s) \in Nat, Len(s) \in Nat, PrefixLength(s) + 2 <= Len(s)
    PROVE  /\ Reach(s) \in PrefixLength(s) + 1 .. PrefixLength(s) + 6
           /\ FlatDecode(s).len \in Nat
           /\ FlatDecode(s).op # "UD_NOP" =>
                 \/ Reach(s) = FlatDecode(s).len
                 \/ /\ Opcode(s) = WaitOpcode /\ Reach(s) = FlatDecode(s).len + 1
                    /\ FlatDecode(s).len = PrefixLength(s) + 1
<1> DEFINE n == PrefixLength(s)
           b == Opcode(s)
           x == Second(s)
           w == OperandWidths(b, x)
           d == FlatDecode(s)
<1>1. /\ d.op = OutcomeOf(b, x)
      /\ d.len = IF d.op = "UD_NOP" THEN 2 ELSE OperandsAt(s) + Size(w)
      /\ Reach(s) = IF b \in PeekOpcodes \cup {WaitOpcode} /\ w = << >>
                    THEN n + 2 ELSE OperandsAt(s) + Size(w)
      /\ OperandsAt(s) = IF b \in FPUEscapes \/ TakesModRM(b, x) THEN n + 2 ELSE n + 1
  BY DecodeOf
<1>2. w \in Few /\ Size(w) \in 0 .. 4 /\ (w = << >> => Size(w) = 0)
  BY FewOperands, FewSizes DEF Size
<1>3. b \in PeekOpcodes /\ ~TakesModRM(b, x) => d.op = "UD_NOP"
  <2>1. b \in PeekOpcodes => b \notin FPUEscapes \cup Absent \cup ModRMOpcodes
    BY PeekingKinds
  <2>2. b \in PeekOpcodes /\ ~TakesModRM(b, x) => IsExtension(x)
    BY DEF TakesModRM
  <2>3. QED
    BY <1>1, <2>1, <2>2, Zenon DEF OutcomeOf
<1>4. b = WaitOpcode => b \notin FPUEscapes /\ ~TakesModRM(b, x)
  BY PeekingKinds DEF TakesModRM
<1>5. n \in Nat
  OBVIOUS
<1> HIDE DEF n, b, x, w, d
<1>6. OperandsAt(s) \in {n + 1, n + 2}
  BY <1>1
<1>7. Reach(s) \in n + 1 .. n + 6 /\ d.len \in Nat
  BY <1>1, <1>2, <1>5, <1>6
<1>8. d.op # "UD_NOP" =>
          \/ Reach(s) = d.len
          \/ b = WaitOpcode /\ Reach(s) = d.len + 1 /\ d.len = n + 1
  <2> SUFFICES ASSUME d.op # "UD_NOP", Reach(s) # d.len
      PROVE  b = WaitOpcode /\ Reach(s) = d.len + 1 /\ d.len = n + 1
    OBVIOUS
  <2>1. /\ b \in PeekOpcodes \cup {WaitOpcode} /\ w = << >>
        /\ Reach(s) = n + 2 /\ d.len = OperandsAt(s) + 0
    BY <1>1, <1>2
  <2>2. OperandsAt(s) = n + 1
    BY <1>5, <1>6, <2>1
  <2>3. b = WaitOpcode
    BY <1>1, <1>3, <1>5, <2>1, <2>2
  <2>4. QED
    BY <1>5, <2>1, <2>2, <2>3
<1>9. QED
  BY <1>7, <1>8 DEF n, b, d

-----------------------------------------------------------------------------
(* The operations of each table, and the case of the switch that takes     *)
(* them: the tables share no operation.                                    *)

LEMMA FpuOpsAre ==
    FpuOps = {"FADD", "FMUL", "FCOM", "FCOMP", "FSUB", "FSUBR", "FDIV", "FDIVR"}
             \cup {"FIADD", "FIMUL", "FICOM", "FICOMP", "FISUB", "FISUBR", "FIDIV", "FIDIVR"}
             \cup {"FADDP", "FMULP", "FSUBP", "FSUBRP", "FDIVP", "FDIVRP"} \cup DOMAIN FpuNoOperand
             \cup {"FCLEX", "FDISI", "FENI", "FINIT"} \cup {"FUCOMPP"}
             \cup ({"FLD", "FXCH", "FFREE", "FST", "FSTP", "FUCOM", "FUCOMP"}
                   \cup {"FILD", "FIST", "FISTP", "FISTTP", "FBLD", "FBSTP", "FRSTOR", "FSAVE",
                         "FSTSW", "FLDENV", "FLDCW", "FSTENV", "FSTCW"})
<1>1. {FpuArith[k] : k \in DOMAIN FpuArith} =
         {"FADD", "FMUL", "FCOM", "FCOMP", "FSUB", "FSUBR", "FDIV", "FDIVR"}
  BY DEF FpuArith
<1>2. {FpuInt[k] : k \in DOMAIN FpuInt} =
         {"FIADD", "FIMUL", "FICOM", "FICOMP", "FISUB", "FISUBR", "FIDIV", "FIDIVR"}
  BY DEF FpuInt
<1>3. DOMAIN FpuPopCode = {"FADDP", "FMULP", "FSUBP", "FSUBRP", "FDIVP", "FDIVRP"}
  BY DEF FpuPopCode
<1>4. DOMAIN FpuControl = {"FCLEX", "FDISI", "FENI", "FINIT"}
  BY DEF FpuControl
<1>5. DOMAIN FpuStackCode = {"FLD", "FXCH", "FFREE", "FST", "FSTP", "FUCOM", "FUCOMP"}
  BY DEF FpuStackCode
<1>6. QED
  BY <1>1, <1>2, <1>3, <1>4, <1>5, Zenon DEF FpuOps, FpuMoves

AluOps == {"ADD", "OR", "ADC", "SBB", "AND", "SUB", "XOR", "CMP"}

LEMMA AluIs == \A op : In(Alu, op) <=> op \in AluOps
  BY DEF In, Alu, AluOps

LEMMA ShiftIs == ShiftOps = {"ROL", "ROR", "RCL", "RCR", "SHL", "SHR", "SAR"}
  BY DEF ShiftOps, Shifts

LEMMA TablesAre ==
    /\ DOMAIN Group3Code = {"NOT", "NEG", "MUL", "IMUL", "DIV", "IDIV"}
    /\ DOMAIN LoadCode = {"LEA", "LES", "LDS"}
    /\ DOMAIN StringCode = {"MOVS", "CMPS", "STOS", "LODS", "SCAS"}
  BY DEF Group3Code, LoadCode, StringCode

LEMMA TransfersAre ==
    /\ \A op : In(Jcc, op) <=> op \in {"JO", "JNO", "JB", "JNB", "JZ", "JNZ", "JBE", "JA",
            "JS", "JNS", "JP", "JNP", "JL", "JGE", "JLE", "JG"}
    /\ \A op : In(Loops, op) <=> op \in {"LOOPNE", "LOOPE", "LOOP", "JCXZ"}
  BY DEF In, Jcc, Loops

IntegerOps == AluOps \cup {"ROL", "ROR", "RCL", "RCR", "SHL", "SHR", "SAR",
   "NOT", "NEG", "MUL", "IMUL", "DIV", "IDIV", "LEA", "LES", "LDS",
   "MOVS", "CMPS", "STOS", "LODS", "SCAS", "INC", "DEC", "TEST", "XCHG", "MOV", "PUSH", "POP",
   "IN", "OUT", "INT", "AAM", "AAD"}

LEMMA IntegerCase ==
    ASSUME NEW i, NEW at, i.op \in IntegerOps
    PROVE  EncodeCase(i, at) = EncodeInteger(i)
<1>2. i.op \notin NoCase /\ i.op \notin DOMAIN OneByteCode
  BY DEF NoCase, OneByteCode, IntegerOps, AluOps
<1>3. i.op \notin FpuOps
  BY FpuOpsAre DEF FpuNoOperand, IntegerOps, AluOps
<1>4. ~TransfersTo(i.op)
  BY TransfersAre DEF TransfersTo, Transfers, FarOps, IntegerOps, AluOps
<1>5. QED
  BY <1>2, <1>3, <1>4 DEF EncodeCase

(* The case of each operation.                                             *)
LEMMA AluDispatch ==
    ASSUME NEW i, NEW at, i.op \in AluOps
    PROVE  /\ EncodeCase(i, at) = EncodeAlu(Index(Alu, i.op), i.argv[1], i.argv[2])
           /\ Index(Alu, i.op) \in 0 .. 7
<1>1. EncodeCase(i, at) = EncodeInteger(i)
  BY IntegerCase DEF IntegerOps
<1>2. EncodeInteger(i) = EncodeAlu(Index(Alu, i.op), i.argv[1], i.argv[2])
  BY AluIs, ShiftIs, TablesAre DEF EncodeInteger, AluOps
<1>7. Index(Alu, i.op) \in 0 .. 7
  BY DEF Index, Alu, AluOps
<1>8. QED
  BY <1>1, <1>2, <1>7

-----------------------------------------------------------------------------
(* What stands on its own: an instruction without prefixes, of which the   *)
(* decoder consumes every byte.                                            *)

Plain == SegOverrides \cup LockPrefixes \cup RepPrefixes

(* The bytes of an instruction with opcode b, followed by x.               *)
InsSize(b, x) ==
    (IF b \in FPUEscapes \/ TakesModRM(b, x) THEN 2 ELSE 1) + Size(OperandWidths(b, x))

Follow(e) == IF Len(e) > 1 THEN e[2] ELSE 0

Stands(e) ==
    /\ e \in Seq(Byte) /\ e # << >>
    /\ e[1] \notin Plain /\ (e[1] = WaitOpcode => Len(e) = 1)
    /\ OutcomeOf(e[1], Follow(e)) # "UD_NOP"
    /\ Len(e) = InsSize(e[1], Follow(e))

(* A ModR/M byte m with its displacement.                                  *)
RMBytesOf(t, m) ==
    /\ t \in Seq(Byte) /\ t # << >> /\ t[1] = m
    /\ Len(t) = 1 + Size(Displacement(m))

LEMMA LeadOf ==
    ASSUME NEW b \in Byte, NEW t \in Seq(Byte)
    PROVE  LET e == <<b>> \o t
           IN  /\ e \in Seq(Byte) /\ e # << >> /\ Len(e) = 1 + Len(t) /\ e[1] = b
               /\ \A k \in 1 .. Len(t) : e[k + 1] = t[k]
               /\ t # << >> => Follow(e) = t[1]
<1> DEFINE u == <<b>>
           e == u \o t
<1>1. u \in Seq(Byte) /\ Len(u) = 1 /\ u[1] = b
  OBVIOUS
<1> HIDE DEF u
<1>2. /\ e \in Seq(Byte) /\ Len(e) = 1 + Len(t) /\ Len(t) \in Nat
      /\ \A k \in 1 .. Len(e) : e[k] = IF k <= 1 THEN u[k] ELSE t[k - 1]
  BY SMTT(30), <1>1, ConcatProperties, LenProperties
<1> HIDE DEF e
<1>3. e # << >> /\ e[1] = b
  BY <1>1, <1>2
<1>4. \A k \in 1 .. Len(t) : e[k + 1] = t[k]
  BY <1>2
<1>5. t # << >> => Follow(e) = t[1]
  <2>1. t # << >> => Len(t) # 0
    BY EmptySeq
  <2>2. QED
    BY <1>2, <1>4, <2>1 DEF Follow
<1>6. /\ e \in Seq(Byte) /\ e # << >> /\ Len(e) = 1 + Len(t) /\ e[1] = b
      /\ \A k \in 1 .. Len(t) : e[k + 1] = t[k]
      /\ t # << >> => Follow(e) = t[1]
  BY <1>2, <1>3, <1>4, <1>5
<1>7. QED
  BY <1>6, Zenon DEF e, u

LEMMA Shorts ==
    ASSUME NEW b, NEW m
    PROVE  /\ Displacement(m) \in {<< >>, <<1>>, <<2>>}
           /\ ImmAfterRM(b, m) \in {<< >>, <<1>>, <<2>>}
  BY ZenonT(40) DEF Displacement, ImmAfterRM

LEMMA SizesAdd ==
    ASSUME NEW v \in {<< >>, << 1 >>, << 2 >>}, NEW w \in {<< >>, << 1 >>, << 2 >>}
    PROVE  /\ Size(v \o w) = Size(v) + Size(w)
           /\ Size(v) \in 0 .. 2 /\ Size(w) \in 0 .. 2
<1>1. /\ Size(<< >>) = 0 /\ Size(<<1>>) = 1 /\ Size(<<2>>) = 2
  BY DEF Size
<1>2. /\ Size(<< >> \o << >>) = 0 /\ Size(<< >> \o <<1>>) = 1 /\ Size(<< >> \o <<2>>) = 2
      /\ Size(<<1>> \o << >>) = 1 /\ Size(<<1>> \o <<1>>) = 2 /\ Size(<<1>> \o <<2>>) = 3
      /\ Size(<<2>> \o << >>) = 2 /\ Size(<<2>> \o <<1>>) = 3 /\ Size(<<2>> \o <<2>>) = 4
  BY DEF Size
<1>3. ASSUME NEW x \in {<< >>, << 1 >>, << 2 >>}
      PROVE  /\ Size(<< >> \o x) = Size(x) /\ Size(<<1>> \o x) = 1 + Size(x)
             /\ Size(<<2>> \o x) = 2 + Size(x) /\ Size(x) \in 0 .. 2
  <2>1. CASE x = << >>
    BY <1>1, <1>2, <2>1
  <2>2. CASE x = <<1>>
    BY <1>1, <1>2, <2>2
  <2>3. CASE x = <<2>>
    BY <1>1, <1>2, <2>3
  <2>4. QED
    BY <2>1, <2>2, <2>3
<1>4. CASE v = << >>
  BY <1>1, <1>3, <1>4
<1>5. CASE v = <<1>>
  BY <1>1, <1>3, <1>5
<1>6. CASE v = <<2>>
  BY <1>1, <1>3, <1>6
<1>7. QED
  BY <1>4, <1>5, <1>6

(* An opcode without ModR/M byte, with its immediate.                      *)
LEMMA ImmediateStands ==
    ASSUME NEW b \in Byte, b \notin Plain \cup Absent \cup FPUEscapes \cup PeekOpcodes \cup ModRMOpcodes,
           NEW t \in Seq(Byte), Len(t) = Size(Immediates(b)), b = WaitOpcode => t = << >>
    PROVE  LET e == <<b>> \o t IN Stands(e) /\ Len(e) = 1 + Len(t) /\ e[1] = b
<1> DEFINE e == <<b>> \o t
           x == Follow(e)
<1>1. e \in Seq(Byte) /\ e # << >> /\ Len(e) = 1 + Len(t) /\ e[1] = b
  BY LeadOf
<1> HIDE DEF e, x
<1>2. ~TakesModRM(b, x)
  BY DEF TakesModRM
<1>3. OperandWidths(b, x) = Immediates(b)
  BY <1>2 DEF OperandWidths
<1>4. OutcomeOf(b, x) = "OK"
  BY DEF OutcomeOf
<1>5. InsSize(b, x) = 1 + Size(Immediates(b))
  BY <1>2, <1>3 DEF InsSize
<1>6. b = WaitOpcode => Len(e) = 1
  <2>1. b = WaitOpcode => Len(t) = 0
    BY EmptySeq
  <2>2. QED
    BY <1>1, <2>1
<1>7. Stands(e)
  BY <1>1, <1>4, <1>5, <1>6 DEF Stands, x
<1>8. QED
  BY <1>1, <1>7 DEF e

LEMMA OpcodeStands ==
    ASSUME NEW b \in Byte, b \notin Plain \cup Absent \cup FPUEscapes \cup PeekOpcodes \cup ModRMOpcodes,
           Immediates(b) = << >>
    PROVE  Stands(<<b>>) /\ Len(<<b>>) = 1 /\ <<b>>[1] = b
<1>1. << >> \in Seq(Byte) /\ Len(<< >>) = Size(Immediates(b))
  BY DEF Size
<1>2. <<b>> \o << >> = <<b>>
  OBVIOUS
<1>3. QED
  BY <1>1, <1>2, ImmediateStands

(* An opcode with a ModR/M byte, the displacement and the immediate.       *)
LEMMA ModRMStands ==
    ASSUME NEW b \in Byte, b \notin Plain, NEW m \in Byte, NEW t, RMBytesOf(t, m),
           TakesModRM(b, m), OutcomeOf(b, m) # "UD_NOP",
           NEW u \in Seq(Byte), Len(u) = Size(ImmAfterRM(b, m))
    PROVE  LET e == <<b>> \o t \o u
           IN  Stands(e) /\ Len(e) = 1 + Len(t) + Len(u) /\ e[1] = b
<1> DEFINE h == <<b>> \o t
           e == h \o u
<1>1. t \in Seq(Byte) /\ t # << >> /\ t[1] = m /\ Len(t) = 1 + Size(Displacement(m))
  BY DEF RMBytesOf
<1>2. /\ h \in Seq(Byte) /\ Len(h) = 1 + Len(t) /\ h[1] = b /\ Follow(h) = t[1]
  BY <1>1, LeadOf
<1> HIDE DEF h
<1>3. Len(t) \in Nat /\ Len(u) \in Nat /\ Len(t) # 0 /\ Len(h) \in Nat
  BY <1>1, <1>2, LenProperties, EmptySeq
<1>4. /\ e \in Seq(Byte) /\ Len(e) = Len(h) + Len(u)
      /\ \A k \in 1 .. Len(h) : e[k] = h[k]
  <2>1. h \in Seq(Byte) /\ u \in Seq(Byte)
    BY <1>2
  <2>2. QED
    BY <2>1, Joined, Zenon
<1> HIDE DEF e
<1>5. /\ Len(e) = 1 + Len(t) + Len(u) /\ Len(e) > 1 /\ e[1] = b /\ e[2] = h[2] /\ Len(h) > 1
  <2>1. Len(h) > 1 /\ Len(e) = 1 + Len(t) + Len(u) /\ Len(e) > 1
    BY <1>2, <1>3, <1>4
  <2>2. 1 \in 1 .. Len(h) /\ 2 \in 1 .. Len(h)
    BY <1>3, <2>1
  <2>3. e[1] = h[1] /\ e[2] = h[2]
    BY <1>4, <2>2
  <2>4. QED
    BY <1>2, <2>1, <2>3
<1>6. Follow(e) = m /\ e # << >>
  BY <1>1, <1>2, <1>5, EmptySeq DEF Follow
<1>7. InsSize(b, m) = 2 + Size(Displacement(m)) + Size(ImmAfterRM(b, m))
  <2>1. OperandWidths(b, m) = Displacement(m) \o ImmAfterRM(b, m)
    BY DEF OperandWidths
  <2> DEFINE v == Displacement(m)
             w == ImmAfterRM(b, m)
  <2>2. v \in {<< >>, <<1>>, <<2>>} /\ w \in {<< >>, <<1>>, <<2>>}
    BY Shorts
  <2> HIDE DEF v, w
  <2>3. /\ Size(v \o w) = Size(v) + Size(w)
        /\ Size(v) \in 0 .. 2 /\ Size(w) \in 0 .. 2
    BY <2>2, SizesAdd
  <2>4. Size(OperandWidths(b, m)) = Size(v) + Size(w)
    BY <2>1, <2>3 DEF v, w
  <2>5. InsSize(b, m) = 2 + Size(v) + Size(w)
    BY <2>3, <2>4 DEF InsSize
  <2>6. QED
    BY <2>5 DEF v, w
<1>8. Len(e) = InsSize(b, m)
  <2>1. Size(Displacement(m)) \in 0 .. 2 /\ Size(ImmAfterRM(b, m)) \in 0 .. 2
    BY Shorts, SizesAdd
  <2>2. QED
    BY <1>1, <1>5, <1>7, <2>1
<1>9. b # WaitOpcode
  <2>1. b \in ModRMOpcodes \cup PeekOpcodes \cup FPUEscapes
    BY DEF TakesModRM
  <2>2. QED
    BY <2>1, Kinds
<1>10. Stands(e)
  BY <1>4, <1>5, <1>6, <1>8, <1>9 DEF Stands
<1>11. QED
  BY <1>5, <1>10 DEF e, h

LEMMA ModRMAloneStands ==
    ASSUME NEW b \in Byte, b \notin Plain, NEW m \in Byte, NEW t, RMBytesOf(t, m),
           TakesModRM(b, m), OutcomeOf(b, m) # "UD_NOP", ImmAfterRM(b, m) = << >>
    PROVE  LET e == <<b>> \o t
           IN  Stands(e) /\ Len(e) = 1 + Len(t) /\ e[1] = b
<1> DEFINE h == <<b>> \o t
<1>1. ASSUME NEW u \in Seq(Byte), Len(u) = 0
      PROVE  LET e == <<b>> \o t \o u
             IN  Stands(e) /\ Len(e) = 1 + Len(t) + Len(u) /\ e[1] = b
  <2>1. Len(u) = Size(ImmAfterRM(b, m))
    BY <1>1 DEF Size
  <2>2. QED
    BY <2>1, ModRMStands
<1>2. h \in Seq(Byte) /\ t \in Seq(Byte) /\ Len(t) \in Nat
  BY LeadOf, LenProperties DEF RMBytesOf
<1>3. << >> \in Seq(Byte) /\ Len(<< >>) = 0
  OBVIOUS
<1>4. LET e == <<b>> \o t \o << >>
      IN  Stands(e) /\ Len(e) = 1 + Len(t) + Len(<< >>) /\ e[1] = b
  BY <1>1, <1>3
<1>5. h \o << >> = h
  BY <1>2, ConcatEmptySeq
<1> HIDE DEF h
<1>6. Stands(h \o << >>) /\ Len(h \o << >>) = 1 + Len(t) + Len(<< >>) /\ (h \o << >>)[1] = b
  BY <1>4 DEF h
<1>7. QED
  BY <1>2, <1>3, <1>5, <1>6 DEF h

(* An escape with a stack register, or one without an operand.             *)
LEMMA EscapeStands ==
    ASSUME NEW b \in FPUEscapes, NEW x \in Byte, Mod(x) = 3, FPURegister(b, x)
    PROVE  LET e == <<b, x>> IN Stands(e) /\ Len(e) = 2 /\ e[1] = b
<1> DEFINE e == <<b, x>>
<1>1. b \in Byte /\ b # WaitOpcode /\ b \notin Plain \cup Absent \cup PeekOpcodes \cup ModRMOpcodes
  BY Kinds DEF FPUEscapes, Byte, Plain, PrefixBytes, WaitOpcode
<1>2. e \in Seq(Byte) /\ Len(e) = 2 /\ e[1] = b /\ e[2] = x /\ e # << >>
  BY <1>1
<1>3. Follow(e) = x
  BY <1>2 DEF Follow
<1>4. ~TakesModRM(b, x)
  BY <1>1 DEF TakesModRM, FPUMemory
<1>5. OperandWidths(b, x) = << >>
  BY <1>4 DEF OperandWidths
<1>6. OutcomeOf(b, x) # "UD_NOP"
  BY <1>1 DEF OutcomeOf, FPUOutcome
<1>7. InsSize(b, x) = 2
  BY <1>5 DEF InsSize, Size
<1> HIDE DEF e
<1>8. Stands(e)
  BY <1>1, <1>2, <1>3, <1>6, <1>7 DEF Stands
<1>9. QED
  BY <1>2, <1>8 DEF e

-----------------------------------------------------------------------------
(* The ModR/M byte the encoder writes for an operand the decoder made.     *)

LEMMA ByteFields ==
    ASSUME NEW mod \in 0 .. 3, NEW reg \in 0 .. 7, NEW rm \in 0 .. 7,
           NEW m, m = 64 * mod + 8 * reg + rm
    PROVE  m \in Byte /\ Mod(m) = mod /\ Reg(m) = reg /\ Rm(m) = rm
<1>1. (64 * mod + 8 * reg + rm) \div 64 = mod
  OBVIOUS
<1>2. (64 * mod + 8 * reg + rm) \div 8 = 8 * mod + reg
  OBVIOUS
<1>3. (8 * mod + reg) % 8 = reg
  OBVIOUS
<1>4. (64 * mod + 8 * reg + rm) % 8 = rm
  OBVIOUS
<1>5. 64 * mod + 8 * reg + rm \in Byte
  BY DEF Byte
<1>6. QED
  BY <1>1, <1>2, <1>3, <1>4, <1>5 DEF Mod, Reg, Rm

LEMMA FieldsAre ==
    ASSUME NEW m \in Byte
    PROVE  Mod(m) \in 0 .. 3 /\ Reg(m) \in 0 .. 7 /\ Rm(m) \in 0 .. 7
  BY DEF Byte, Mod, Reg, Rm

(* The registers of a ModR/M byte give its rm field again.                 *)
LEMMA RmIsKept ==
    ASSUME NEW rm \in 0 .. 7
    PROVE  /\ Rm16(Regs16(rm)) = rm
           /\ Len(Regs16(rm)) \in {1, 2} /\ Regs16(rm) # << >>
           /\ (Len(Regs16(rm)) = 1 /\ Regs16(rm)[1] = BP) <=> rm = 6
<1>1. /\ Regs16(0) = <<BX, SI>> /\ Regs16(1) = <<BX, DI>>
      /\ Regs16(2) = <<BP, SI>> /\ Regs16(3) = <<BP, DI>>
      /\ Regs16(4) = <<SI>> /\ Regs16(5) = <<DI>> /\ Regs16(6) = <<BP>> /\ Regs16(7) = <<BX>>
  BY DEF Regs16, BX, BP, SI, DI
<1>2. /\ Rm16(<<SI>>) = 4 /\ Rm16(<<DI>>) = 5 /\ Rm16(<<BP>>) = 6 /\ Rm16(<<BX>>) = 7
  BY DEF Rm16, SI, DI, BP, BX
<1>3. /\ Rm16(<<BX, SI>>) = 0 /\ Rm16(<<BX, DI>>) = 1
      /\ Rm16(<<BP, SI>>) = 2 /\ Rm16(<<BP, DI>>) = 3
  BY DEF Rm16, SI, DI, BP, BX
<1>4. rm \in {0, 1, 2, 3, 4, 5, 6, 7}
  OBVIOUS
<1>5. BX # BP /\ SI # BP /\ DI # BP
  BY DEF BX, BP, SI, DI
<1>6. rm < 4 => Len(Regs16(rm)) = 2 /\ Rm16(Regs16(rm)) = rm
  BY <1>1, <1>3, <1>4
<1>7. ~(rm < 4) => /\ Len(Regs16(rm)) = 1 /\ Rm16(Regs16(rm)) = rm
                   /\ Regs16(rm)[1] = BP <=> rm = 6
  BY <1>1, <1>2, <1>4, <1>5
<1>8. QED
  BY <1>6, <1>7

Word16 == {v \in Int : 0 <= v /\ v < 65536}

(* What decode_rm_x86 has to go by: the ModR/M byte m, its displacement,   *)
(* the segment override.                                                   *)
Addressed(d, m) ==
    /\ d.rm = m /\ m \in Byte
    /\ d.segment \in -1 .. 3
    /\ Displacement(m) = <<1>> => d.args[1] \in Byte
    /\ Displacement(m) = <<2>> => d.args[1] \in Word16

LEMMA InWord16 == ASSUME NEW v \in Int, 0 <= v, v < 65536 PROVE v \in Word16
  BY DEF Word16

LEMMA SignExtended ==
    ASSUME NEW v \in Byte
    PROVE  /\ Signed(v, 8) \in Int
           /\ -128 <= Signed(v, 8) /\ Signed(v, 8) < 128
           /\ Signed(v, 8) % 65536 \in Word16
           /\ FitsByte(2, Signed(v, 8) % 65536)
<1>1. v \in Int /\ 0 <= v /\ v < 256
  BY DEF Byte
<1>2. Signed(v, 8) = IF v >= 128 THEN v - 256 ELSE v
  <2>1. Signed(v, 8) = IF v % 256 >= 128 THEN (v % 256) - 256 ELSE v % 256
    BY DEF Signed
  <2>2. v % 256 = v
    BY <1>1
  <2>3. QED
    BY <2>1, <2>2
<1>3. Signed(v, 8) % 65536 = IF v >= 128 THEN v + 65280 ELSE v
  <2>1. CASE v >= 128
    <3>1. (v - 256) % 65536 = v + 65280
      BY <1>1, <2>1
    <3>2. QED
      BY <1>2, <2>1, <3>1
  <2>2. CASE v < 128
    <3>1. v % 65536 = v
      BY <1>1
    <3>2. QED
      BY <1>1, <1>2, <2>2, <3>1
  <2>3. QED
    BY <1>1, <2>1, <2>2
<1> DEFINE w == Signed(v, 8) % 65536
<1> HIDE DEF w
<1>4. w \in Int /\ 0 <= w /\ w < 65536 /\ (w < 128 \/ w >= 65408)
  BY <1>1, <1>3 DEF w
<1>5. Signed(w, 16) = IF w >= 32768 THEN w - 65536 ELSE w
  <2>1. Signed(w, 16) = IF w % 65536 >= 32768 THEN (w % 65536) - 65536 ELSE w % 65536
    BY DEF Signed
  <2>2. w % 65536 = w
    BY <1>4
  <2>3. QED
    BY <2>1, <2>2
<1>6. Signed(w, 16) \in -128 .. 127
  BY <1>4, <1>5
<1>7. FitsByte(2, w)
  BY <1>6 DEF FitsByte
<1>8. w \in Word16
  BY <1>4, InWord16
<1>9. QED
  BY <1>1, <1>2, <1>7, <1>8 DEF w

LEMMA WordIsWord ==
    ASSUME NEW v \in Word16
    PROVE  v \in Int /\ 0 <= v /\ v < 65536 /\ v % 65536 = v /\ v % 65536 \in Word16
<1>1. v \in Int /\ 0 <= v /\ v < 65536
  BY DEF Word16
<1>2. v % 65536 = v
  BY <1>1
<1>3. QED
  BY <1>1, <1>2

LEMMA DisplacementIs ==
    ASSUME NEW m
    PROVE  Displacement(m) = IF Mod(m) = 3 THEN << >>
                             ELSE IF Mod(m) = 2 \/ (Mod(m) = 0 /\ Rm(m) = 6) THEN <<2>>
                             ELSE IF Mod(m) = 1 THEN <<1>> ELSE << >>
  BY DEF Displacement

LEMMA RegisterForm ==
    ASSUME NEW d, NEW size, Mod(d.rm) = 3
    PROVE  RM(d, size) = RegArg(Rm(d.rm), size)
  BY DEF RM

(* The memory operand of decode_rm_x86: a displacement of one byte is sign *)
(* extended, so that one byte is enough to write it.                       *)
LEMMA MemoryForm ==
    ASSUME NEW d, NEW m, Addressed(d, m), NEW size, Mod(m) # 3
    PROVE  LET a == RM(d, size)
           IN  /\ a.kind = "mem" /\ a.size = size
               /\ a.regs = IF Mod(m) = 0 /\ Rm(m) = 6 THEN << >> ELSE Regs16(Rm(m))
               /\ a.segment = DefaultSegment(a.regs, d.segment)
               /\ a.base \in Word16
               /\ Displacement(m) = << >> => a.base = 0
               /\ Displacement(m) = <<1>> => FitsByte(2, a.base)
<1> DEFINE a == RM(d, size)
           w == Displacement(m)
           disp == IF w = << >> THEN 0 ELSE IF w[1] = 1 THEN Signed(d.args[1], 8) ELSE d.args[1]
           c == [mod |-> Mod(m), rm |-> Rm(m), width |-> IF w = << >> THEN 0 ELSE w[1],
                 disp |-> disp, segment |-> d.segment]
           regs == IF Mod(m) = 0 /\ Rm(m) = 6 THEN << >> ELSE Regs16(Rm(m))
           base == IF c.width = 0 THEN 0 ELSE disp
<1>1. d.rm = m /\ m \in Byte
  BY DEF Addressed
<1>2. a = MemArg(Decode16(c).regs, Decode16(c).base, Decode16(c).segment, size)
  BY <1>1, Zenon DEF RM
<1>3. Decode16(c) = [regs |-> regs, scalar |-> 0, base |-> base,
                     segment |-> DefaultSegment(regs, d.segment)]
  BY DEF Decode16
<1>4. /\ w = << >> => base = 0
      /\ w = <<1>> => base = Signed(d.args[1], 8)
      /\ w = <<2>> => base = d.args[1]
  <2>1. w = <<1>> => w # << >> /\ w[1] = 1
    OBVIOUS
  <2>2. w = <<2>> => w # << >> /\ w[1] = 2
    OBVIOUS
  <2> HIDE DEF w
  <2>3. c.width = IF w = << >> THEN 0 ELSE w[1]
    OBVIOUS
  <2>4. QED
    BY <2>1, <2>2, <2>3
<1> HIDE DEF a, c, regs, base, w
<1>5. /\ a.kind = "mem" /\ a.size = size /\ a.regs = regs /\ a.base = base % 65536
      /\ a.segment = DefaultSegment(regs, d.segment)
  BY <1>2, <1>3 DEF MemArg
<1>6. w = << >> \/ w = <<1>> \/ w = <<2>>
  BY DisplacementIs DEF w
<1>7. CASE w = << >>
  <2>1. w # <<1>>
    BY <1>7
  <2>2. a.base = 0 /\ 0 \in Word16
    BY <1>4, <1>5, <1>7 DEF Word16
  <2>3. QED
    BY <1>5, <2>1, <2>2 DEF a, w, regs
<1>8. CASE w = <<1>>
  <2>1. d.args[1] \in Byte
    BY <1>8 DEF Addressed, w
  <2>2. a.base \in Word16 /\ FitsByte(2, a.base)
    BY <1>4, <1>5, <1>8, <2>1, SignExtended
  <2>3. w # << >>
    BY <1>8
  <2>4. QED
    BY <1>5, <2>2, <2>3 DEF a, w, regs
<1>9. CASE w = <<2>>
  <2>1. d.args[1] \in Word16
    BY <1>9 DEF Addressed, w
  <2>2. d.args[1] % 65536 \in Word16
    BY <2>1, WordIsWord
  <2>3. w # << >> /\ w # <<1>>
    BY <1>9
  <2>4. QED
    BY <1>4, <1>5, <1>9, <2>2, <2>3 DEF a, w, regs
<1>10. QED
  BY <1>6, <1>7, <1>8, <1>9

(* t is an operand written with reg in its ModR/M byte for one that was    *)
(* decoded of the byte m.                                                  *)
Rewritten(t, reg, m) ==
    \E n \in Byte :
        /\ RMBytesOf(t, n) /\ Reg(n) = reg
        /\ (Mod(n) = 3) <=> (Mod(m) = 3)
        /\ Mod(m) = 0 => Mod(n) = 0
        /\ Len(t) <= 1 + Size(Displacement(m))

LEMMA WordBytes ==
    ASSUME NEW v \in Int
    PROVE  Word(v) \in Seq(Byte) /\ Len(Word(v)) = 2
<1>1. v % 256 \in Byte /\ (v \div 256) % 256 \in Byte
  BY DEF Byte
<1> DEFINE x == v % 256
           y == (v \div 256) % 256
<1> HIDE DEF x, y
<1>2. <<x, y>> \in Seq(Byte) /\ Len(<<x, y>>) = 2
  BY <1>1 DEF x, y
<1>3. QED
  BY <1>2 DEF Word, x, y

LEMMA ByteOfIs == ASSUME NEW v \in Int PROVE ByteOf(v) \in Byte
  BY DEF ByteOf, Byte

LEMMA DispBytesAre ==
    ASSUME NEW c, c.disp \in Int, c.width \in 0 .. 2
    PROVE  DispBytes(c) \in Seq(Byte) /\ Len(DispBytes(c)) = c.width
<1>1. CASE c.width = 0
  BY <1>1 DEF DispBytes
<1>2. CASE c.width = 1
  BY <1>2, ByteOfIs DEF DispBytes
<1>3. CASE c.width = 2
  BY <1>3, WordBytes DEF DispBytes
<1>4. QED
  BY <1>1, <1>2, <1>3

(* The mod field: no higher than the one decoded, and 0 with rm 6 only for *)
(* a direct address.                                                       *)
LEMMA ModIsKept ==
    ASSUME NEW d, NEW m, Addressed(d, m), NEW size, Mod(m) # 3
    PROVE  LET a   == RM(d, size)
               mod == ModFor(2, a)
           IN  /\ mod \in 0 .. 2 /\ mod <= Mod(m)
               /\ Rm16(a.regs) = Rm(m)
               /\ Len(a.regs) = 0 <=> (Mod(m) = 0 /\ Rm(m) = 6)
               /\ mod = 0 /\ Rm(m) = 6 => Mod(m) = 0
<1> DEFINE a == RM(d, size)
           mod == ModOfBase(2, a.base)
<1>1. m \in Byte /\ Mod(m) \in 0 .. 2 /\ Rm(m) \in 0 .. 7
  BY FieldsAre DEF Addressed
<1>2. /\ a.regs = IF Mod(m) = 0 /\ Rm(m) = 6 THEN << >> ELSE Regs16(Rm(m))
      /\ Displacement(m) = << >> => a.base = 0
      /\ Displacement(m) = <<1>> => FitsByte(2, a.base)
  BY MemoryForm
<1> HIDE DEF a
<1>3. /\ mod \in 0 .. 2
      /\ a.base = 0 => mod = 0
      /\ FitsByte(2, a.base) => mod # 2
  BY DEF ModOfBase
<1>4. ModFor(2, a) =
        IF Len(a.regs) = 0 THEN 0
        ELSE IF Len(a.regs) = 1 /\ mod = 0 /\ a.regs[1] = BP THEN 1 ELSE mod
  BY DEF ModFor
<1> HIDE DEF mod
<1>5. CASE Mod(m) = 0 /\ Rm(m) = 6
  <2>1. Len(a.regs) = 0 /\ Rm16(a.regs) = 6
    BY <1>2, <1>5 DEF Rm16
  <2>2. QED
    BY <1>4, <1>5, <2>1 DEF a
<1>6. CASE ~(Mod(m) = 0 /\ Rm(m) = 6)
  <2>1. a.regs = Regs16(Rm(m))
    BY <1>2, <1>6
  <2>2. /\ Rm16(a.regs) = Rm(m) /\ Len(a.regs) \in {1, 2}
        /\ (Len(a.regs) = 1 /\ a.regs[1] = BP) <=> Rm(m) = 6
    BY <1>1, <2>1, RmIsKept
  <2>3. ModFor(2, a) = IF mod = 0 /\ Rm(m) = 6 THEN 1 ELSE mod
    BY <1>4, <2>2
  <2>4. Mod(m) = 0 => mod = 0
    BY <1>2, <1>3, <1>6, DisplacementIs
  <2>5. Mod(m) = 1 => mod # 2
    BY <1>2, <1>3, DisplacementIs
  <2>6. ModFor(2, a) \in 0 .. 2
    BY <1>3, <2>3
  <2>7. Mod(m) = 0 /\ Rm(m) # 6 => ModFor(2, a) = 0
    BY <2>3, <2>4
  <2>8. Mod(m) = 1 => ModFor(2, a) # 2
    BY <2>3, <2>5
  <2>9. mod = 0 /\ Rm(m) = 6 => ModFor(2, a) = 1
    BY <2>3
  <2> DEFINE g == ModFor(2, a)
  <2>10. g <= Mod(m) /\ (g = 0 /\ Rm(m) = 6 => Mod(m) = 0)
    <3> HIDE DEF g
    <3>1. g \in 0 .. 2 /\ (Mod(m) = 0 /\ Rm(m) # 6 => g = 0) /\ (Mod(m) = 1 => g # 2)
      BY <2>6, <2>7, <2>8 DEF g
    <3>2. Mod(m) = 0 => Rm(m) # 6
      BY <1>6
    <3>3. g <= Mod(m)
      BY <1>1, <3>1, <3>2
    <3>4. mod = 0 /\ Rm(m) = 6 => g # 0
      BY <2>9 DEF g
    <3>5. g = 0 /\ Rm(m) = 6 => mod = 0 \/ Mod(m) = 0
      BY <2>3 DEF g
    <3>6. QED
      BY <3>3, <3>4, <3>5
  <2>11. Len(a.regs) # 0
    BY <2>2
  <2>12. QED
    BY <1>6, <2>2, <2>6, <2>10, <2>11 DEF a
<1>7. QED
  BY <1>5, <1>6

LEMMA MemoryRewritten ==
    ASSUME NEW d, NEW m, Addressed(d, m), NEW size, Mod(m) # 3, NEW reg \in 0 .. 7
    PROVE  Rewritten(MemReg(RM(d, size), reg), reg, m)
<1> DEFINE a == RM(d, size)
           mod == ModFor(2, a)
           c == Encode(2, a, FALSE)
           n == 64 * mod + 8 * reg + Rm(m)
           t == MemReg(a, reg)
<1>1. m \in Byte /\ Mod(m) \in 0 .. 2 /\ Rm(m) \in 0 .. 7
  BY FieldsAre DEF Addressed
<1>2. /\ mod \in 0 .. 2 /\ mod <= Mod(m)
      /\ Rm16(a.regs) = Rm(m)
      /\ Len(a.regs) = 0 <=> (Mod(m) = 0 /\ Rm(m) = 6)
      /\ mod = 0 /\ Rm(m) = 6 => Mod(m) = 0
  BY ModIsKept
<1>3. a.base \in Int
  <2>1. a.base \in Word16
    BY MemoryForm
  <2>2. QED
    BY <2>1, WordIsWord
<1> HIDE DEF a, mod
<1>4. /\ c.mod = mod /\ c.rm = Rm(m) /\ c.sib = NoSIB
      /\ c.width = IF mod = 1 THEN 1 ELSE IF mod = 2 \/ Len(a.regs) = 0 THEN 2 ELSE 0
      /\ c.disp = CASE c.width = 0 -> 0 [] c.width = 1 -> Signed(a.base, 8)
                    [] c.width = 2 -> a.base % 65536 [] c.width = 4 -> a.base
  BY <1>2 DEF Encode, mod
<1>5. n \in Byte /\ Mod(n) = mod /\ Reg(n) = reg /\ Rm(n) = Rm(m)
  <2>1. mod \in 0 .. 3 /\ n = 64 * mod + 8 * reg + Rm(m)
    BY <1>2
  <2> HIDE DEF n
  <2>2. QED
    BY <1>1, <2>1, ByteFields
<1> HIDE DEF c
<1>6. c.width \in 0 .. 2 /\ c.disp \in Int
  <2>1. Signed(a.base, 8) \in Int /\ a.base % 65536 \in Int
    BY <1>3 DEF Signed
  <2>2. QED
    BY <1>2, <1>4, <2>1
<1>7. t = <<n>> \o DispBytes(c)
  <2>1. t = RMBytes(c, reg)
    BY DEF MemReg, c
  <2>2. SIBBytes(c.sib) = << >>
    BY <1>4 DEF SIBBytes
  <2>3. t = <<64 * c.mod + 8 * reg + c.rm>> \o << >> \o DispBytes(c)
    BY <2>1, <2>2 DEF RMBytes
  <2>4. <<n>> \o << >> = <<n>>
    OBVIOUS
  <2>5. QED
    BY <1>4, <2>3, <2>4
<1>8. DispBytes(c) \in Seq(Byte) /\ Len(DispBytes(c)) = c.width
  BY <1>6, DispBytesAre
<1> HIDE DEF n, t
<1>9. t \in Seq(Byte) /\ t # << >> /\ Len(t) = 1 + c.width /\ t[1] = n
  BY <1>5, <1>7, <1>8, LeadOf
<1>10. Size(Displacement(n)) = c.width
  <2>1. Size(<< >>) = 0 /\ Size(<<1>>) = 1 /\ Size(<<2>>) = 2
    BY DEF Size
  <2>2. QED
    BY <1>1, <1>2, <1>4, <1>5, <2>1, DisplacementIs
<1>11. c.width <= Size(Displacement(m))
  <2>1. Size(<< >>) = 0 /\ Size(<<1>>) = 1 /\ Size(<<2>>) = 2
    BY DEF Size
  <2>2. QED
    BY <1>1, <1>2, <1>4, <2>1, DisplacementIs
<1>12. RMBytesOf(t, n)
  BY <1>9, <1>10 DEF RMBytesOf
<1>13. Len(t) <= 1 + Size(Displacement(m))
  <2>1. Displacement(m) \in {<< >>, <<1>>, <<2>>}
    BY Shorts
  <2>2. Size(Displacement(m)) \in 0 .. 2
    BY <2>1, SizesAdd
  <2>3. QED
    BY <1>6, <1>9, <1>11, <2>2
<1>14. Rewritten(t, reg, m)
  BY <1>1, <1>2, <1>5, <1>12, <1>13 DEF Rewritten
<1>15. QED
  BY <1>14 DEF t, a

LEMMA RegisterRewritten ==
    ASSUME NEW rm \in 0 .. 7, NEW reg \in 0 .. 7, NEW m, Mod(m) = 3, NEW a, a.reg = rm
    PROVE  Rewritten(RmReg(a, reg), reg, m) /\ Len(RmReg(a, reg)) = 1
<1> DEFINE n == 192 + 8 * reg + rm
<1>1. n = 64 * 3 + 8 * reg + rm
  OBVIOUS
<1>2. n \in Byte /\ Mod(n) = 3 /\ Reg(n) = reg
  BY <1>1, ByteFields
<1>3. RmReg(a, reg) = <<n>>
  BY DEF RmReg
<1> HIDE DEF n
<1>4. Displacement(n) = << >> /\ Displacement(m) = << >> /\ Size(<< >>) = 0
  BY <1>2, DisplacementIs DEF Size
<1>5. RMBytesOf(<<n>>, n) /\ Len(<<n>>) = 1
  BY <1>2, <1>4 DEF RMBytesOf
<1>6. QED
  BY <1>2, <1>3, <1>4, <1>5 DEF Rewritten

(* The operand of a ModR/M byte, whatever it is, as the encoder writes it. *)
LEMMA OperandRewritten ==
    ASSUME NEW d, NEW m, Addressed(d, m), NEW size, NEW reg \in 0 .. 7
    PROVE  /\ Rewritten(ModRM(RM(d, size), reg), reg, m)
           /\ Mod(m) # 3 => Rewritten(MemReg(RM(d, size), reg), reg, m)
<1> DEFINE a == RM(d, size)
<1>1. CASE Mod(m) = 3
  <2>1. a = RegArg(Rm(m), size)
    BY <1>1, RegisterForm DEF Addressed
  <2>2. a.kind = "reg" /\ a.reg = Rm(m)
    BY <2>1 DEF RegArg
  <2> HIDE DEF a
  <2>3. ModRM(a, reg) = RmReg(a, reg)
    BY <2>2 DEF ModRM, IsMem
  <2>4. Rm(m) \in 0 .. 7
    BY FieldsAre DEF Addressed
  <2>5. QED
    BY <1>1, <2>2, <2>3, <2>4, RegisterRewritten DEF a
<1>2. CASE Mod(m) # 3
  <2>1. a.kind = "mem"
    BY <1>2, MemoryForm
  <2> HIDE DEF a
  <2>2. ModRM(a, reg) = MemReg(a, reg)
    BY <2>1 DEF ModRM, IsMem
  <2>3. QED
    BY <1>2, <2>2, MemoryRewritten DEF a
<1>3. QED
  BY <1>1, <1>2

(* Opcode b takes a ModR/M byte with reg in it, where the decoded operand  *)
(* was that of the byte m.                                                 *)
Takes(b, reg, m) ==
    /\ b \in Byte /\ b \notin Plain
    /\ \A n \in Byte : Reg(n) = reg /\ ((Mod(n) = 3) <=> (Mod(m) = 3)) /\ (Mod(m) = 0 => Mod(n) = 0)
                        => TakesModRM(b, n) /\ OutcomeOf(b, n) # "UD_NOP"

(* e can stand for an instruction of that many bytes.                      *)
Short(e, size) == e = << >> \/ (Stands(e) /\ Len(e) <= size)

LEMMA OperandStands ==
    ASSUME NEW b, NEW reg, NEW m, Takes(b, reg, m), NEW t, Rewritten(t, reg, m),
           NEW u \in Seq(Byte), \A n : Reg(n) = reg => Size(ImmAfterRM(b, n)) = Len(u)
    PROVE  LET e == <<b>> \o t \o u
           IN  Short(e, 2 + Size(Displacement(m)) + Len(u)) /\ e[1] = b /\ e \in Seq(Byte)
<1>1. PICK n \in Byte :
        /\ RMBytesOf(t, n) /\ Reg(n) = reg
        /\ (Mod(n) = 3) <=> (Mod(m) = 3)
        /\ Mod(m) = 0 => Mod(n) = 0
        /\ Len(t) <= 1 + Size(Displacement(m))
  BY DEF Rewritten
<1>2. b \in Byte /\ b \notin Plain /\ TakesModRM(b, n) /\ OutcomeOf(b, n) # "UD_NOP"
  BY <1>1 DEF Takes
<1>3. Len(u) = Size(ImmAfterRM(b, n))
  BY <1>1
<1> DEFINE e == <<b>> \o t \o u
<1>4. Stands(e) /\ Len(e) = 1 + Len(t) + Len(u) /\ e[1] = b
  BY <1>1, <1>2, <1>3, ModRMStands
<1> HIDE DEF e
<1>5. Displacement(m) \in {<< >>, <<1>>, <<2>>} /\ t \in Seq(Byte)
  BY <1>1, Shorts DEF RMBytesOf
<1>6. Size(Displacement(m)) \in 0 .. 2 /\ Len(t) \in Nat /\ Len(u) \in Nat
  BY <1>5, SizesAdd, LenProperties
<1>7. Len(e) <= 2 + Size(Displacement(m)) + Len(u)
  BY <1>1, <1>4, <1>6
<1>8. QED
  BY <1>4, <1>7 DEF Short, Stands, e

LEMMA OperandAloneStands ==
    ASSUME NEW b, NEW reg, NEW m, Takes(b, reg, m), NEW t, Rewritten(t, reg, m),
           \A n : Reg(n) = reg => ImmAfterRM(b, n) = << >>
    PROVE  LET e == <<b>> \o t
           IN  Short(e, 2 + Size(Displacement(m))) /\ e[1] = b /\ e \in Seq(Byte)
<1>1. PICK n \in Byte :
        /\ RMBytesOf(t, n) /\ Reg(n) = reg
        /\ (Mod(n) = 3) <=> (Mod(m) = 3)
        /\ Mod(m) = 0 => Mod(n) = 0
        /\ Len(t) <= 1 + Size(Displacement(m))
  BY DEF Rewritten
<1>2. b \in Byte /\ b \notin Plain /\ TakesModRM(b, n) /\ OutcomeOf(b, n) # "UD_NOP"
  BY <1>1 DEF Takes
<1>3. ImmAfterRM(b, n) = << >>
  BY <1>1
<1> DEFINE e == <<b>> \o t
<1>4. Stands(e) /\ Len(e) = 1 + Len(t) /\ e[1] = b
  BY <1>1, <1>2, <1>3, ModRMAloneStands
<1> HIDE DEF e
<1>5. Displacement(m) \in {<< >>, <<1>>, <<2>>} /\ t \in Seq(Byte)
  BY <1>1, Shorts DEF RMBytesOf
<1>6. Size(Displacement(m)) \in 0 .. 2 /\ Len(t) \in Nat
  BY <1>5, SizesAdd, LenProperties
<1>7. Len(e) <= 2 + Size(Displacement(m))
  BY <1>1, <1>4, <1>6
<1>8. QED
  BY <1>4, <1>7 DEF Short, Stands, e

-----------------------------------------------------------------------------
(* Operands, by what the encoder asks of them.                             *)

IsOperand(a, m, size) ==
    /\ m \in Byte
    /\ a.kind = IF Mod(m) = 3 THEN "reg" ELSE "mem"
    /\ a.size = size
    /\ a.kind = "reg" => a.reg = Rm(m)
    /\ a.kind = "mem" => a.base \in Int
    /\ a.kind = "mem" /\ a.regs = << >> => Displacement(m) = <<2>>
    /\ \A reg \in 0 .. 7 : Rewritten(ModRM(a, reg), reg, m)

IsRegister(a, size) == a.kind = "reg" /\ a.reg \in 0 .. 7 /\ a.size = size

LEMMA OperandIs ==
    ASSUME NEW d, NEW m, Addressed(d, m), NEW size
    PROVE  IsOperand(RM(d, size), m, size)
<1> DEFINE a == RM(d, size)
<1>1. m \in Byte /\ \A reg \in 0 .. 7 : Rewritten(ModRM(a, reg), reg, m)
  BY OperandRewritten DEF Addressed
<1>2. CASE Mod(m) = 3
  <2>1. a = RegArg(Rm(m), size)
    BY <1>2, RegisterForm DEF Addressed
  <2>2. a.kind = "reg" /\ a.reg = Rm(m) /\ a.size = size
    BY <2>1 DEF RegArg
  <2> HIDE DEF a
  <2>3. QED
    BY <1>1, <1>2, <2>2 DEF IsOperand, a
<1>3. CASE Mod(m) # 3
  <2>1. /\ a.kind = "mem" /\ a.size = size /\ a.base \in Word16
        /\ a.regs = IF Mod(m) = 0 /\ Rm(m) = 6 THEN << >> ELSE Regs16(Rm(m))
    BY <1>3, MemoryForm
  <2>2. a.base \in Int
    BY <2>1, WordIsWord
  <2>3. Rm(m) \in 0 .. 7 => Regs16(Rm(m)) # << >>
    BY RmIsKept
  <2>4. Rm(m) \in 0 .. 7
    BY <1>1, FieldsAre
  <2> HIDE DEF a
  <2>5. a.regs = << >> => Displacement(m) = <<2>>
    BY <1>3, <2>1, <2>3, <2>4, DisplacementIs
  <2>6. QED
    BY <1>1, <1>3, <2>1, <2>2, <2>5 DEF IsOperand, a
<1>4. QED
  BY <1>2, <1>3

(* A register as the operand of a ModR/M byte.                             *)
LEMMA RegisterIs ==
    ASSUME NEW a, NEW size, IsRegister(a, size), NEW reg \in 0 .. 7
    PROVE  Rewritten(ModRM(a, reg), reg, 192) /\ Size(Displacement(192)) = 0 /\ Mod(192) = 3
<1>1. Mod(192) = 3
  BY DEF Mod
<1>2. Displacement(192) = << >>
  BY <1>1, DisplacementIs
<1>3. ModRM(a, reg) = RmReg(a, reg)
  BY DEF ModRM, IsMem, IsRegister
<1>4. Rewritten(RmReg(a, reg), reg, 192)
  BY <1>1, RegisterRewritten DEF IsRegister
<1>5. QED
  BY <1>1, <1>2, <1>3, <1>4 DEF Size

LEMMA NumberBytes ==
    ASSUME NEW v \in Int, NEW word \in {0, 1}
    PROVE  Imm(v, word) \in Seq(Byte) /\ Len(Imm(v, word)) = 1 + word
<1>1. CASE word = 1
  BY <1>1, WordBytes DEF Imm
<1>2. CASE word = 0
  BY <1>2, ByteOfIs DEF Imm
<1>3. QED
  BY <1>1, <1>2

(* The opcodes that are followed by a ModR/M byte, by what they make of it. *)
LEMMA TakesGroup ==
    ASSUME NEW b \in ModRMOpcodes, NEW reg, NEW m,
           \A n \in Byte : Reg(n) = reg /\ ((Mod(n) = 3) <=> (Mod(m) = 3))
                             => GroupOutcome(b, n) # "UD_NOP"
    PROVE  Takes(b, reg, m)
<1>1. b \notin PrefixBytes \cup PeekOpcodes \cup FPUEscapes \cup Absent
  BY Kinds
<1>2. b \in Byte
  BY DEF ModRMOpcodes, AluRM, ModRMRow8, ModRMRowC, ModRMRowF, Byte
<1>3. b \notin Plain
  BY <1>1 DEF PrefixBytes, Plain
<1>4. \A n : TakesModRM(b, n) /\ OutcomeOf(b, n) = GroupOutcome(b, n)
  BY <1>1 DEF TakesModRM, OutcomeOf
<1>5. QED
  BY <1>2, <1>3, <1>4 DEF Takes

(* The opcodes whose reg field is a register, or is any of a group.        *)
Freely == ModRMOpcodes \ (ShiftOpcodes \cup {\hC6, \hC7, \hFE, \hFF})

LEMMA AluIsFree == ASSUME NEW b \in AluRM PROVE b \in Freely
<1>1. b \in 0 .. \h3F
  BY DEF AluRM
<1>2. b \notin ShiftOpcodes \cup {\hC6, \hC7, \hFE, \hFF}
  BY <1>1 DEF ShiftOpcodes
<1>3. b \in ModRMOpcodes
  BY DEF ModRMOpcodes
<1>4. QED
  BY <1>2, <1>3 DEF Freely

LEMMA FreelyTakes ==
    ASSUME NEW b \in Freely, NEW reg, NEW m
    PROVE  Takes(b, reg, m)
<1>1. \A n : GroupOutcome(b, n) \in {"OK", "UD"}
  BY Kinds DEF GroupOutcome, Freely, PeekOpcodes
<1>2. QED
  BY <1>1, TakesGroup DEF Freely

LEMMA ShiftsTake ==
    ASSUME NEW b \in ShiftOpcodes, NEW reg, reg # 6, NEW m
    PROVE  Takes(b, reg, m)
<1>1. b \in ModRMOpcodes
  BY DEF ShiftOpcodes, ModRMOpcodes, ModRMRowC
<1>2. \A n : Reg(n) = reg => GroupOutcome(b, n) = "OK"
  BY DEF GroupOutcome, ShiftOpcodes, PopRM
<1>3. QED
  BY <1>1, <1>2, TakesGroup

LEMMA MoveTakes ==
    ASSUME NEW b \in {\hC6, \hC7}, NEW m
    PROVE  Takes(b, 0, m)
<1>1. b \in ModRMOpcodes /\ b \notin ShiftOpcodes
  BY DEF ShiftOpcodes, ModRMOpcodes, ModRMRowC
<1>2. \A n : Reg(n) = 0 => GroupOutcome(b, n) = "OK"
  BY <1>1 DEF GroupOutcome
<1>3. QED
  BY <1>1, <1>2, TakesGroup

LEMMA Group5Takes ==
    ASSUME NEW b \in {\hFE, \hFF}, NEW reg \in 0 .. 7, NEW m,
           reg \in {0, 1, 6, 7} \/ (b = \hFF /\ (reg \in {2, 4} \/ Mod(m) # 3))
    PROVE  Takes(b, reg, m)
<1>1. b \in ModRMOpcodes /\ b \notin ShiftOpcodes \cup {PopRM, \hC6, \hC7, \hF6, \hF7}
  BY DEF ShiftOpcodes, ModRMOpcodes, ModRMRowF, PopRM
<1>2. \A n : GroupOutcome(b, n) = IncDecGroup(b, n)
  BY <1>1 DEF GroupOutcome
<1>3. ASSUME NEW n \in Byte, Reg(n) = reg, (Mod(n) = 3) <=> (Mod(m) = 3)
      PROVE  IncDecGroup(b, n) # "UD_NOP"
  <2>1. CASE reg \in {0, 1, 6, 7}
    BY <1>3, <2>1 DEF IncDecGroup
  <2>2. CASE b = \hFF /\ reg \in {2, 4}
    BY <1>3, <2>2 DEF IncDecGroup
  <2>3. CASE b = \hFF /\ Mod(m) # 3
    BY <1>3, <2>3 DEF IncDecGroup
  <2>4. QED
    BY <2>1, <2>2, <2>3
<1>4. QED
  BY <1>1, <1>2, <1>3, TakesGroup

LEMMA PeekersTake ==
    ASSUME NEW b \in PeekOpcodes, NEW reg, NEW m, Mod(m) # 3, b = PopRM => reg = 0
    PROVE  Takes(b, reg, m)
<1>1. b \notin PrefixBytes \cup ModRMOpcodes \cup FPUEscapes \cup Absent
  BY Kinds
<1>2. b \in Byte /\ b \notin Plain
  BY <1>1 DEF PeekOpcodes, FarLoads, PopRM, Byte, PrefixBytes, Plain
<1>3. ASSUME NEW n \in Byte, Reg(n) = reg, (Mod(n) = 3) <=> (Mod(m) = 3)
      PROVE  TakesModRM(b, n) /\ OutcomeOf(b, n) # "UD_NOP"
  <2>1. ~IsExtension(n)
    BY <1>3 DEF IsExtension, Mod
  <2>2. GroupOutcome(b, n) = "OK"
    BY <1>3 DEF GroupOutcome, PeekOpcodes, FarLoads, PopRM, ShiftOpcodes
  <2>3. QED
    BY <1>1, <2>1, <2>2 DEF TakesModRM, OutcomeOf
<1>4. QED
  BY <1>2, <1>3 DEF Takes

(* The immediates behind a ModR/M byte.                                    *)
LEMMA ImmediateWidths ==
    ASSUME NEW b, NEW n
    PROVE  /\ b \notin \h80 .. \h83 \cup {\hC0, \hC1, \hC6, \hC7, \hF6, \hF7}
                => ImmAfterRM(b, n) = << >>
           /\ b \in {\h80, \h82, \h83, \hC0, \hC1} => ImmAfterRM(b, n) = <<1>>
           /\ b = \h81 => ImmAfterRM(b, n) = <<2>>
           /\ b \in {\hC6, \hF6} /\ Reg(n) = 0 => ImmAfterRM(b, n) = <<1>>
           /\ b \in {\hC7, \hF7} /\ Reg(n) = 0 => ImmAfterRM(b, n) = <<2>>
           /\ b \in {\hC6, \hC7, \hF6, \hF7} /\ Reg(n) # 0 => ImmAfterRM(b, n) = << >>
<1>1. b \notin \h80 .. \h83 \cup {\hC0, \hC1, \hC6, \hC7, \hF6, \hF7}
         => ImmAfterRM(b, n) = << >>
  BY DEF ImmAfterRM
<1>2. b \in {\h80, \h82, \h83, \hC0, \hC1} => ImmAfterRM(b, n) = <<1>>
  BY DEF ImmAfterRM
<1>3. b = \h81 => ImmAfterRM(b, n) = <<2>>
  BY DEF ImmAfterRM
<1>4. b \in {\hC6, \hF6} /\ Reg(n) = 0 => ImmAfterRM(b, n) = <<1>>
  BY DEF ImmAfterRM
<1>5. b \in {\hC7, \hF7} /\ Reg(n) = 0 => ImmAfterRM(b, n) = <<2>>
  BY DEF ImmAfterRM
<1>6. b \in {\hC6, \hC7, \hF6, \hF7} /\ Reg(n) # 0 => ImmAfterRM(b, n) = << >>
  BY DEF ImmAfterRM
<1>7. QED
  BY <1>1, <1>2, <1>3, <1>4, <1>5, <1>6

LEMMA WidthSizes == Size(<< >>) = 0 /\ Size(<<1>>) = 1 /\ Size(<<2>>) = 2 /\ Size(<<2, 2>>) = 4
  BY DEF Size

(* The length of an instruction with a ModR/M byte.                        *)
LEMMA ModRMSize ==
    ASSUME NEW b, NEW m, TakesModRM(b, m)
    PROVE  /\ InsSize(b, m) = 2 + Size(Displacement(m)) + Size(ImmAfterRM(b, m))
           /\ Size(Displacement(m)) \in 0 .. 2 /\ Size(ImmAfterRM(b, m)) \in 0 .. 2
<1>1. OperandWidths(b, m) = Displacement(m) \o ImmAfterRM(b, m)
  BY DEF OperandWidths
<1>2. /\ Displacement(m) \in {<< >>, <<1>>, <<2>>} /\ ImmAfterRM(b, m) \in {<< >>, <<1>>, <<2>>}
  BY Shorts
<1>3. /\ Size(OperandWidths(b, m)) = Size(Displacement(m)) + Size(ImmAfterRM(b, m))
      /\ Size(Displacement(m)) \in 0 .. 2 /\ Size(ImmAfterRM(b, m)) \in 0 .. 2
  BY <1>1, <1>2, SizesAdd
<1>4. QED
  BY <1>3 DEF InsSize

LEMMA PlainSize ==
    ASSUME NEW b, b \notin FPUEscapes \cup PeekOpcodes \cup ModRMOpcodes, NEW x
    PROVE  InsSize(b, x) = 1 + Size(Immediates(b)) /\ Size(Immediates(b)) \in 0 .. 4
<1>1. OperandWidths(b, x) = Immediates(b) /\ ~TakesModRM(b, x)
  BY DEF OperandWidths, TakesModRM
<1>2. Size(OperandWidths(b, x)) \in 0 .. 4
  BY FewOperands, FewSizes
<1>3. QED
  BY <1>1, <1>2 DEF InsSize

-----------------------------------------------------------------------------
(* The cases of the encoder.                                               *)

LEMMA RegisterAsOperand ==
    ASSUME NEW a, NEW size, IsRegister(a, size)
    PROVE  /\ IsOperand(a, 192 + a.reg, size)
           /\ Size(Displacement(192 + a.reg)) = 0 /\ Mod(192 + a.reg) = 3
<1> DEFINE m == 192 + a.reg
<1>1. a.kind = "reg" /\ a.reg \in 0 .. 7 /\ a.size = size
  BY DEF IsRegister
<1>2. m \in Byte /\ Mod(m) = 3 /\ Rm(m) = a.reg
  <2>1. m = 64 * 3 + 8 * 0 + a.reg
    OBVIOUS
  <2> HIDE DEF m
  <2>2. QED
    BY <1>1, <2>1, ByteFields
<1> HIDE DEF m
<1>3. ASSUME NEW reg \in 0 .. 7 PROVE Rewritten(ModRM(a, reg), reg, m)
  <2>1. ModRM(a, reg) = RmReg(a, reg)
    BY <1>1 DEF ModRM, IsMem
  <2>2. QED
    BY <1>1, <1>2, <2>1, RegisterRewritten
<1>4. Displacement(m) = << >>
  BY <1>2, DisplacementIs
<1>5. IsOperand(a, m, size)
  BY <1>1, <1>2, <1>3 DEF IsOperand
<1>6. QED
  BY <1>2, <1>4, <1>5, WidthSizes DEF m

LEMMA WordBitIs ==
    ASSUME NEW a, NEW w \in {1, 2}, a.size = w
    PROVE  WordBit(a) = w - 1 /\ WordBit(a) \in {0, 1}
  BY DEF WordBit

LEMMA AluOpcodes ==
    ASSUME NEW n \in 0 .. 7
    PROVE  /\ \A k \in 0 .. 3 : 8 * n + k \in Freely /\ \A x : ImmAfterRM(8 * n + k, x) = << >>
           /\ \A k \in 0 .. 1 :
                /\ 8 * n + 4 + k \in Byte
                /\ 8 * n + 4 + k \notin Plain \cup Absent \cup FPUEscapes \cup PeekOpcodes
                                        \cup ModRMOpcodes \cup {WaitOpcode}
                /\ Size(Immediates(8 * n + 4 + k)) = 1 + k
<1>1. ASSUME NEW k \in 0 .. 3
      PROVE  8 * n + k \in Freely /\ \A x : ImmAfterRM(8 * n + k, x) = << >>
  <2> DEFINE b == 8 * n + k
  <2>1. b \in 0 .. \h3F /\ b % 8 = k
    OBVIOUS
  <2> HIDE DEF b
  <2>2. b \in AluRM
    BY <2>1 DEF AluRM
  <2>3. b \in Freely
    BY <2>2, AluIsFree
  <2>4. \A x : ImmAfterRM(b, x) = << >>
    <3>1. b \notin \h80 .. \h83 \cup {\hC0, \hC1, \hC6, \hC7, \hF6, \hF7}
      BY <2>1
    <3>2. QED
      BY <3>1, ImmediateWidths
  <2>5. QED
    BY <2>3, <2>4 DEF b
<1>2. ASSUME NEW k \in 0 .. 1
      PROVE  /\ 8 * n + 4 + k \in Byte
             /\ 8 * n + 4 + k \notin Plain \cup Absent \cup FPUEscapes \cup PeekOpcodes
                                     \cup ModRMOpcodes \cup {WaitOpcode}
             /\ Size(Immediates(8 * n + 4 + k)) = 1 + k
  <2> DEFINE b == 8 * n + 4 + k
  <2>1. b \in 0 .. \h3F /\ b % 8 = 4 + k
    OBVIOUS
  <2> HIDE DEF b
  <2>2. b \in Byte
    BY <2>1 DEF Byte
  <2>3. b \notin Absent \cup FPUEscapes \cup PeekOpcodes \cup ModRMOpcodes \cup {WaitOpcode}
    BY <2>1 DEF Absent, FPUEscapes, PeekOpcodes, FarLoads, PopRM, ModRMOpcodes, AluRM,
                ModRMRow8, ModRMRowC, ModRMRowF, WaitOpcode
  <2>4. b \notin Plain
    BY <2>1 DEF Plain, SegOverrides, LockPrefixes, RepPrefixes
  <2>5. Immediates(b) = IF k = 0 THEN <<1>> ELSE <<2>>
    <3>1. Immediates(b) = ImmRows0to7(b)
      BY <2>1 DEF Immediates
    <3>2. b < \h40 /\ b \notin \h70 .. \h7F
      BY <2>1
    <3>3. CASE k = 0
      <4>1. b % 8 = 4
        BY <2>1, <3>3
      <4>2. QED
        BY <3>1, <3>2, <3>3, <4>1 DEF ImmRows0to7
    <3>4. CASE k = 1
      <4>1. b % 8 = 5
        BY <2>1, <3>4
      <4>2. QED
        BY <3>1, <3>2, <3>4, <4>1 DEF ImmRows0to7
    <3>5. QED
      BY <3>3, <3>4
  <2>6. QED
    BY <2>2, <2>3, <2>4, <2>5, WidthSizes DEF b
<1>3. QED
  BY <1>1, <1>2

(* ADD to CMP with a register.                                             *)
LEMMA AluRegister ==
    ASSUME NEW n \in 0 .. 7, NEW m, NEW w \in {1, 2}, NEW a, IsOperand(a, m, w),
           NEW b, IsRegister(b, w)
    PROVE  /\ Short(EncodeAlu(n, a, b), 2 + Size(Displacement(m)))
           /\ Short(EncodeAlu(n, b, a), 2 + Size(Displacement(m)))
<1>1. /\ a.kind \in {"reg", "mem"} /\ b.kind = "reg" /\ a.size = w /\ b.size = w
      /\ b.reg \in 0 .. 7 /\ \A reg \in 0 .. 7 : Rewritten(ModRM(a, reg), reg, m)
  BY DEF IsOperand, IsRegister
<1>2. WordBit(a) \in {0, 1} /\ WordBit(b) = WordBit(a)
  BY <1>1, WordBitIs
<1> DEFINE k == WordBit(a)
<1>3. /\ 8 * n + k \in Freely /\ 8 * n + k + 2 \in Freely
      /\ \A x : ImmAfterRM(8 * n + k, x) = << >> /\ ImmAfterRM(8 * n + k + 2, x) = << >>
  <2>1. k \in 0 .. 3 /\ k + 2 \in 0 .. 3
    BY <1>2
  <2>2. 8 * n + k + 2 = 8 * n + (k + 2)
    BY <2>1
  <2> HIDE DEF k
  <2>3. 8 * n + k \in Freely /\ \A x : ImmAfterRM(8 * n + k, x) = << >>
    BY <2>1, AluOpcodes
  <2>4. 8 * n + (k + 2) \in Freely /\ \A x : ImmAfterRM(8 * n + (k + 2), x) = << >>
    BY <2>1, AluOpcodes
  <2>5. QED
    BY <2>2, <2>3, <2>4
<1> HIDE DEF k
<1>4. Short(EncodeAlu(n, a, b), 2 + Size(Displacement(m)))
  <2>1. EncodeAlu(n, a, b) = <<8 * n + k>> \o ModRM(a, b.reg)
    BY <1>1 DEF EncodeAlu, IsMem, IsReg, IsImm, k
  <2>2. Takes(8 * n + k, b.reg, m)
    BY <1>3, FreelyTakes
  <2>3. QED
    BY <1>1, <1>3, <2>1, <2>2, OperandAloneStands
<1>5. CASE a.kind = "mem"
  <2>1. EncodeAlu(n, b, a) = <<8 * n + k + 2>> \o ModRM(a, b.reg)
    BY <1>1, <1>2, <1>5 DEF EncodeAlu, IsMem, IsReg, IsImm, k
  <2>2. Takes(8 * n + k + 2, b.reg, m)
    BY <1>3, FreelyTakes
  <2>3. QED
    BY <1>1, <1>3, <1>4, <2>1, <2>2, OperandAloneStands
<1>6. CASE a.kind = "reg"
  <2>1. EncodeAlu(n, b, a) = <<8 * n + k>> \o ModRM(b, a.reg)
    BY <1>1, <1>2, <1>6 DEF EncodeAlu, IsMem, IsReg, IsImm, k
  <2>2. a.reg \in 0 .. 7 /\ Mod(m) = 3
    BY <1>6, FieldsAre DEF IsOperand
  <2>3. Rewritten(ModRM(b, a.reg), a.reg, 192) /\ Size(Displacement(192)) = 0
    BY <2>2, RegisterIs
  <2>4. Takes(8 * n + k, a.reg, 192)
    BY <1>3, FreelyTakes
  <2>5. Short(<<8 * n + k>> \o ModRM(b, a.reg), 2 + Size(Displacement(192)))
    BY <1>3, <2>3, <2>4, OperandAloneStands
  <2>6. Displacement(m) = << >>
    BY <2>2, DisplacementIs
  <2>7. QED
    BY <1>4, <2>1, <2>3, <2>5, <2>6, WidthSizes
<1>7. QED
  BY <1>1, <1>5, <1>6

(* Opcodes without a ModR/M byte, by the immediate that follows them.      *)
Singles ==
    {\h06, \h07, \h0E, \h0F, \h16, \h17, \h1E, \h1F, \h27, \h2F, \h37, \h3F}
        \cup \h40 .. \h5F \cup \h90 .. \h99 \cup \h9B .. \h9F \cup \hA4 .. \hA7
        \cup \hAA .. \hAF \cup {\hC3, \hCB, \hCC, \hCE, \hCF, \hD6, \hD7}
        \cup \hEC .. \hEF \cup {\hF4, \hF5} \cup \hF8 .. \hFD
WithByte == \h70 .. \h7F \cup {\hA8, \hCD, \hD4, \hD5, \hEB} \cup \hB0 .. \hB7 \cup \hE0 .. \hE7
WithWord == \hA0 .. \hA3 \cup {\hA9, \hC2, \hCA, \hE8, \hE9} \cup \hB8 .. \hBF
WithFar  == {\h9A, \hEA}
Bare     == Singles \cup WithByte \cup WithWord \cup WithFar

LEMMA BareOpcodes ==
    ASSUME NEW b \in Bare
    PROVE  b \in Byte /\ b \notin Plain \cup Absent \cup FPUEscapes \cup PeekOpcodes \cup ModRMOpcodes
<1>1. b \in Byte
  BY DEF Bare, Singles, WithByte, WithWord, WithFar, Byte
<1>2. b \notin Plain
  BY DEF Bare, Singles, WithByte, WithWord, WithFar, Plain, SegOverrides, LockPrefixes, RepPrefixes
<1>3. b \notin Absent \cup FPUEscapes \cup PeekOpcodes
  BY DEF Bare, Singles, WithByte, WithWord, WithFar, Absent, FPUEscapes, PeekOpcodes, FarLoads, PopRM
<1>4. b \notin AluRM
  BY DEF Bare, Singles, WithByte, WithWord, WithFar, AluRM
<1>5. b \notin ModRMRow8 \cup ModRMRowC \cup ModRMRowF
  BY DEF Bare, Singles, WithByte, WithWord, WithFar, ModRMRow8, ModRMRowC, ModRMRowF
<1>6. QED
  BY <1>1, <1>2, <1>3, <1>4, <1>5 DEF ModRMOpcodes

LEMMA RowsOfImmediates ==
    ASSUME NEW b \in Byte
    PROVE  Immediates(b) = IF b < \h80 THEN ImmRows0to7(b)
                           ELSE IF b < \hC0 THEN ImmRows8toB(b) ELSE ImmRowsCtoF(b)
  BY DEF Immediates, Byte

LEMMA BareWidths ==
    ASSUME NEW b
    PROVE  /\ b \in Singles => Immediates(b) = << >>
           /\ b \in WithByte => Immediates(b) = <<1>> /\ b # WaitOpcode
           /\ b \in WithWord => Immediates(b) = <<2>> /\ b # WaitOpcode
           /\ b \in WithFar => Immediates(b) = <<2, 2>> /\ b # WaitOpcode
<1>1. b \in Singles => Immediates(b) = << >>
  <2> SUFFICES ASSUME b \in Singles PROVE Immediates(b) = << >>
    OBVIOUS
  <2>0. b \in Byte
    BY DEF Singles, Byte
  <2>1. b < \h80 => ImmRows0to7(b) = << >>
    BY DEF Singles, ImmRows0to7
  <2>2. b >= \h80 /\ b < \hC0 => ImmRows8toB(b) = << >>
    BY DEF Singles, ImmRows8toB
  <2>3. b >= \hC0 => ImmRowsCtoF(b) = << >>
    BY DEF Singles, ImmRowsCtoF
  <2>4. Immediates(b) = IF b < \h80 THEN ImmRows0to7(b)
                        ELSE IF b < \hC0 THEN ImmRows8toB(b) ELSE ImmRowsCtoF(b)
    BY <2>0, RowsOfImmediates
  <2>5. b \in Int
    BY <2>0 DEF Byte
  <2>6. QED
    BY <2>1, <2>2, <2>3, <2>4, <2>5
<1>2. b \in WithByte => Immediates(b) = <<1>>
  <2> SUFFICES ASSUME b \in WithByte PROVE Immediates(b) = <<1>>
    OBVIOUS
  <2>0. b \in Byte
    BY DEF WithByte, Byte
  <2>1. CASE b \in \h70 .. \h7F
    BY <2>0, <2>1, RowsOfImmediates DEF ImmRows0to7
  <2>2. CASE b \in \hB0 .. \hB7 \cup {\hA8}
    <3>1. Immediates(b) = ImmRows8toB(b)
      BY <2>0, <2>2, RowsOfImmediates
    <3>2. QED
      BY <2>2, <3>1 DEF ImmRows8toB
  <2>3. CASE b \in {\hCD, \hD4, \hD5, \hEB} \cup \hE0 .. \hE7
    <3>1. Immediates(b) = ImmRowsCtoF(b)
      BY <2>0, <2>3, RowsOfImmediates
    <3>2. QED
      BY <2>3, <3>1 DEF ImmRowsCtoF
  <2>4. QED
    BY <2>1, <2>2, <2>3 DEF WithByte
<1>3. b \in WithWord => Immediates(b) = <<2>>
  <2> SUFFICES ASSUME b \in WithWord PROVE Immediates(b) = <<2>>
    OBVIOUS
  <2>0. b \in Byte
    BY DEF WithWord, Byte
  <2>2. CASE b \in \hA0 .. \hA3 \cup {\hA9} \cup \hB8 .. \hBF
    <3>1. Immediates(b) = ImmRows8toB(b)
      BY <2>0, <2>2, RowsOfImmediates
    <3>2. b \in \hA0 .. \hA3 \cup {\hA9} => ImmRows8toB(b) = <<2>>
      BY SMTT(30) DEF ImmRows8toB
    <3>3. b \in \hB8 .. \hBF => ImmRows8toB(b) = <<2>>
      BY DEF ImmRows8toB
    <3>4. QED
      BY <2>2, <3>1, <3>2, <3>3
  <2>3. CASE b \in {\hC2, \hCA, \hE8, \hE9}
    <3>1. Immediates(b) = ImmRowsCtoF(b)
      BY <2>0, <2>3, RowsOfImmediates
    <3>2. QED
      BY <2>3, <3>1 DEF ImmRowsCtoF
  <2>4. QED
    BY <2>2, <2>3 DEF WithWord
<1>4. b \in WithFar => Immediates(b) = <<2, 2>>
  <2>1. Immediates(\h9A) = ImmRows8toB(\h9A) /\ Immediates(\hEA) = ImmRowsCtoF(\hEA)
    BY RowsOfImmediates DEF Byte
  <2>2. ImmRows8toB(\h9A) = <<2, 2>>
    BY DEF ImmRows8toB
  <2>3. ImmRowsCtoF(\hEA) = <<2, 2>>
    BY DEF ImmRowsCtoF
  <2>4. QED
    BY <2>1, <2>2, <2>3 DEF WithFar
<1>5. b \in WithByte \cup WithWord \cup WithFar => b # WaitOpcode
  BY DEF WithByte, WithWord, WithFar, WaitOpcode
<1>6. QED
  BY <1>1, <1>2, <1>3, <1>4, <1>5

LEMMA SingleStands == ASSUME NEW b \in Singles PROVE Short(<<b>>, 1)
<1>1. b \notin Plain \cup Absent \cup FPUEscapes \cup PeekOpcodes \cup ModRMOpcodes /\ b \in Byte
  BY BareOpcodes DEF Bare
<1>2. Immediates(b) = << >>
  BY BareWidths
<1>3. Stands(<<b>>) /\ Len(<<b>>) = 1
  BY <1>1, <1>2, OpcodeStands
<1>4. QED
  BY <1>3 DEF Short

LEMMA BareStands ==
    ASSUME NEW b, NEW t \in Seq(Byte), NEW size,
           \/ b \in WithByte /\ Len(t) = 1 /\ size = 2
           \/ b \in WithWord /\ Len(t) = 2 /\ size = 3
           \/ b \in WithFar /\ Len(t) = 4 /\ size = 5
    PROVE  Short(<<b>> \o t, size)
<1>1. b \in Bare
  BY DEF Bare
<1>2. Len(t) = Size(Immediates(b)) /\ b # WaitOpcode /\ size = 1 + Len(t)
  <2>1. CASE b \in WithByte /\ Len(t) = 1 /\ size = 2
    BY <2>1, BareWidths, WidthSizes
  <2>2. CASE b \in WithWord /\ Len(t) = 2 /\ size = 3
    BY <2>2, BareWidths, WidthSizes
  <2>3. CASE b \in WithFar /\ Len(t) = 4 /\ size = 5
    BY <2>3, BareWidths, WidthSizes
  <2>4. QED
    BY <2>1, <2>2, <2>3
<1>3. b \in Byte /\ b \notin Plain \cup Absent \cup FPUEscapes \cup PeekOpcodes \cup ModRMOpcodes
  BY <1>1, BareOpcodes
<1> DEFINE e == <<b>> \o t
<1>4. Stands(e) /\ Len(e) = 1 + Len(t)
  BY <1>2, <1>3, ImmediateStands
<1> HIDE DEF e
<1>5. Len(e) <= size /\ Len(t) \in Nat
  BY <1>2, <1>4, LenProperties
<1>6. QED
  BY <1>4, <1>5 DEF Short, e

LEMMA LonelyByte == ASSUME NEW v \in Int PROVE <<ByteOf(v)>> \in Seq(Byte) /\ Len(<<ByteOf(v)>>) = 1
  BY ByteOfIs

(* ADD to CMP with an immediate, written as a byte or as it is.            *)
LEMMA AluNumber ==
    ASSUME NEW n \in 0 .. 7, NEW m, NEW w \in {1, 2}, NEW a, IsOperand(a, m, w),
           NEW b, b.kind = "imm", b.value \in Int
    PROVE  Short(EncodeAlu(n, a, b),
                 IF Shorthand(a, b.value) THEN 3 + Size(Displacement(m))
                 ELSE IF Accumulator(a) THEN 1 + w ELSE 2 + Size(Displacement(m)) + w)
           /\ (Shorthand(a, b.value) => w = 2)
<1> DEFINE short == Shorthand(a, b.value)
           k == WordBit(a)
           e == EncodeAlu(n, a, b)
           s == Size(Displacement(m))
<1>1. /\ a.kind \in {"reg", "mem"} /\ a.size = w /\ \A reg \in 0 .. 7 : Rewritten(ModRM(a, reg), reg, m)
  BY DEF IsOperand
<1>2. k \in {0, 1} /\ k = w - 1
  BY <1>1, WordBitIs
<1>3. short => w = 2 /\ k = 1
  BY <1>1, <1>2 DEF Shorthand
<1>4. s \in 0 .. 2
  BY Shorts, SizesAdd
<1> HIDE DEF short, k, e, s
<1>5. CASE Accumulator(a) /\ ~short
  <2>1. e = <<8 * n + 4 + k>> \o Imm(b.value, k)
    BY <1>5 DEF EncodeAlu, IsMem, IsReg, IsImm, short, k, e
  <2>2. Imm(b.value, k) \in Seq(Byte) /\ Len(Imm(b.value, k)) = 1 + k
    BY <1>2, NumberBytes
  <2>3. k \in 0 .. 1
    BY <1>2
  <2>4. Stands(e) /\ Len(e) = 1 + Len(Imm(b.value, k))
    <3> DEFINE o == 8 * n + 4 + k
               v == Imm(b.value, k)
    <3>1. /\ o \in Byte /\ Size(Immediates(o)) = 1 + k
          /\ o \notin Plain \cup Absent \cup FPUEscapes \cup PeekOpcodes \cup ModRMOpcodes \cup {WaitOpcode}
      BY <2>3, AluOpcodes
    <3>2. v \in Seq(Byte) /\ Len(v) = 1 + k
      BY <2>2
    <3> HIDE DEF o, v
    <3>3. Stands(<<o>> \o v) /\ Len(<<o>> \o v) = 1 + Len(v)
      BY <3>1, <3>2, ImmediateStands
    <3>4. QED
      BY <2>1, <3>3 DEF o, v
  <2>5. Len(e) <= 1 + w
    BY <1>2, <2>2, <2>4
  <2>6. QED
    BY <1>3, <1>5, <2>4, <2>5 DEF Short, short, e
<1>6. CASE ~(Accumulator(a) /\ ~short)
  <2> DEFINE c == \h80 + k + (IF short THEN 2 ELSE 0)
             word == IF short THEN 0 ELSE k
  <2>1. e = <<c>> \o ModRM(a, n) \o Imm(b.value, word)
    BY <1>6 DEF EncodeAlu, IsMem, IsReg, IsImm, short, k, e
  <2>2. word \in {0, 1}
    BY <1>2
  <2>3. 
        \/ (c = \h80 \/ c = \h83) /\ word = 0
        \/ c = \h81 /\ word = 1
    BY <1>2, <1>3
  <2> HIDE DEF c, word
  <2>4. Imm(b.value, word) \in Seq(Byte) /\ Len(Imm(b.value, word)) = 1 + word
    BY <2>2, NumberBytes
  <2>5. c \in Freely
    BY <2>3 DEF Freely, ModRMOpcodes, ModRMRow8, ShiftOpcodes
  <2>6. \A x : Size(ImmAfterRM(c, x)) = 1 + word
    BY <2>3, ImmediateWidths, WidthSizes
  <2>7. Takes(c, n, m)
    BY <2>5, FreelyTakes
  <2>12. \A x : Reg(x) = n => Size(ImmAfterRM(c, x)) = Len(Imm(b.value, word))
    BY <2>4, <2>6
  <2>13. Rewritten(ModRM(a, n), n, m)
    BY <1>1
  <2>8. Short(e, 2 + s + Len(Imm(b.value, word)))
    BY <2>1, <2>4, <2>7, <2>12, <2>13, OperandStands DEF s
  <2>9. short => 2 + s + (1 + word) = 3 + s
    BY <1>4, <2>2 DEF word
  <2>10. ~short => 2 + s + (1 + word) = 2 + s + w
    BY <1>2, <1>4, <2>2 DEF word
  <2>11. QED
    BY <1>3, <1>6, <2>4, <2>8, <2>9, <2>10 DEF short, e, s
<1>7. QED
  BY <1>5, <1>6

LEMMA DisplacementSize == ASSUME NEW m PROVE Size(Displacement(m)) \in 0 .. 2
<1>1. Displacement(m) \in {<< >>, <<1>>, <<2>>}
  BY Shorts
<1>2. QED
  BY <1>1, SizesAdd

(* An opcode that takes any reg field, and no immediate.                   *)
LEMMA FreeForm ==
    ASSUME NEW a, NEW m, NEW w, IsOperand(a, m, w), NEW reg \in 0 .. 7,
           NEW b \in Freely, b \notin \h80 .. \h83 \cup {\hF6, \hF7}
    PROVE  Short(<<b>> \o ModRM(a, reg), 2 + Size(Displacement(m)))
<1>1. Rewritten(ModRM(a, reg), reg, m)
  BY DEF IsOperand
<1>2. Takes(b, reg, m)
  BY FreelyTakes
<1>3. b \notin {\hC0, \hC1, \hC6, \hC7}
  BY DEF Freely, ShiftOpcodes
<1>4. \A n : ImmAfterRM(b, n) = << >>
  BY <1>3, ImmediateWidths
<1>5. QED
  BY <1>1, <1>2, <1>4, OperandAloneStands

LEMMA MoreRoom ==
    ASSUME NEW e, NEW small \in Int, NEW large \in Int, small <= large, Short(e, small)
    PROVE  Short(e, large)
<1>1. CASE e = << >>
  BY <1>1 DEF Short
<1>2. CASE Stands(e) /\ Len(e) <= small
  <2>1. Len(e) \in Nat
    BY <1>2, LenProperties DEF Stands
  <2>2. QED
    BY <1>2, <2>1 DEF Short
<1>3. QED
  BY <1>1, <1>2 DEF Short

LEMMA FreeOpcodes ==
    /\ \h84 .. \h8E \subseteq Freely /\ {\hF6, \hF7} \subseteq Freely
    /\ \A k \in {0, 1} : /\ \h84 + k \in Freely /\ \h86 + k \in Freely
                         /\ \h88 + k \in Freely /\ \h8A + k \in Freely
                         /\ \hF6 + k \in Freely
    /\ (\h84 .. \h8E) \cap (\h80 .. \h83 \cup {\hF6, \hF7}) = {}
<1>1. \h84 .. \h8E \subseteq Freely
  BY DEF Freely, ModRMOpcodes, ModRMRow8, ShiftOpcodes
<1>2. {\hF6, \hF7} \subseteq Freely
  BY DEF Freely, ModRMOpcodes, ModRMRowF, ShiftOpcodes
<1>3. QED
  BY <1>1, <1>2

LEMMA NumberOf ==
    ASSUME NEW v \in Int, NEW w \in {1, 2}
    PROVE  Imm(v, w - 1) \in Seq(Byte) /\ Len(Imm(v, w - 1)) = w
<1> DEFINE word == w - 1
<1>1. word \in {0, 1} /\ 1 + word = w
  OBVIOUS
<1> HIDE DEF word
<1>2. Imm(v, word) \in Seq(Byte) /\ Len(Imm(v, word)) = 1 + word
  BY <1>1, NumberBytes
<1>3. QED
  BY <1>1, <1>2 DEF word

(* An opcode, a ModR/M byte and an immediate.                              *)
LEMMA NumberForm ==
    ASSUME NEW a, NEW m, NEW w \in {1, 2}, IsOperand(a, m, w), NEW reg \in 0 .. 7,
           NEW b, Takes(b, reg, m), NEW v \in Int,
           \A n : Reg(n) = reg => ImmAfterRM(b, n) = <<w>>
    PROVE  Short(<<b>> \o ModRM(a, reg) \o Imm(v, w - 1), 2 + Size(Displacement(m)) + w)
<1>1. Rewritten(ModRM(a, reg), reg, m)
  BY DEF IsOperand
<1>2. w - 1 \in {0, 1} /\ Size(<<w>>) = w
  BY WidthSizes
<1> DEFINE u == Imm(v, w - 1)
<1>3. u \in Seq(Byte) /\ Len(u) = w
  BY NumberOf
<1> HIDE DEF u
<1>4. \A n : Reg(n) = reg => Size(ImmAfterRM(b, n)) = Len(u)
  BY <1>2, <1>3
<1>5. Short(<<b>> \o ModRM(a, reg) \o u, 2 + Size(Displacement(m)) + Len(u))
  BY <1>1, <1>3, <1>4, OperandStands
<1>6. QED
  BY <1>3, <1>5 DEF u

LEMMA TestRegister ==
    ASSUME NEW m, NEW w \in {1, 2}, NEW a, IsOperand(a, m, w), NEW b, IsRegister(b, w)
    PROVE  Short(EncodeTest(a, b), 2 + Size(Displacement(m)))
<1>1. a.size = w /\ b.reg \in 0 .. 7 /\ b.kind = "reg"
  BY DEF IsOperand, IsRegister
<1>2. WordBit(a) \in {0, 1}
  BY <1>1, WordBitIs
<1>3. EncodeTest(a, b) = <<\h84 + WordBit(a)>> \o ModRM(a, b.reg)
  BY <1>1 DEF EncodeTest, IsReg, IsImm
<1>4. \h84 + WordBit(a) \in Freely /\ \h84 + WordBit(a) \notin \h80 .. \h83 \cup {\hF6, \hF7}
  BY <1>2, FreeOpcodes
<1>5. QED
  BY <1>1, <1>3, <1>4, FreeForm

LEMMA TestNumber ==
    ASSUME NEW m, NEW w \in {1, 2}, NEW a, IsOperand(a, m, w),
           NEW b, b.kind = "imm", b.value \in Int
    PROVE  Short(EncodeTest(a, b),
                 IF Accumulator(a) THEN 1 + w ELSE 2 + Size(Displacement(m)) + w)
<1>1. a.size = w
  BY DEF IsOperand
<1>2. WordBit(a) = w - 1 /\ w - 1 \in {0, 1}
  BY <1>1, WordBitIs
<1>3. CASE Accumulator(a)
  <2>1. EncodeTest(a, b) = <<\hA8 + (w - 1)>> \o Imm(b.value, w - 1)
    BY <1>2, <1>3 DEF EncodeTest, IsReg, IsImm
  <2>2. Imm(b.value, w - 1) \in Seq(Byte) /\ Len(Imm(b.value, w - 1)) = w
    BY NumberOf
  <2>3. \/ \hA8 + (w - 1) \in WithByte /\ w = 1
        \/ \hA8 + (w - 1) \in WithWord /\ w = 2
    BY DEF WithByte, WithWord
  <2>4. CASE w = 1
    BY <1>3, <2>1, <2>2, <2>3, <2>4, BareStands
  <2>5. CASE w = 2
    BY <1>3, <2>1, <2>2, <2>3, <2>5, BareStands
  <2>6. QED
    BY <2>4, <2>5
<1>4. CASE ~Accumulator(a)
  <2> DEFINE c == \hF6 + (w - 1)
  <2>1. EncodeTest(a, b) = <<c>> \o ModRM(a, 0) \o Imm(b.value, w - 1)
    BY <1>2, <1>4 DEF EncodeTest, IsReg, IsImm
  <2>2. c \in Freely /\ c \in {\hF6, \hF7} /\ (c = \hF6 <=> w = 1)
    BY <1>2, FreeOpcodes
  <2> HIDE DEF c
  <2>3. \A n : Reg(n) = 0 => ImmAfterRM(c, n) = <<w>>
    BY <2>2, ImmediateWidths
  <2>4. Takes(c, 0, m)
    BY <2>2, FreelyTakes
  <2>5. QED
    BY <1>4, <2>1, <2>3, <2>4, NumberForm
<1>5. QED
  BY <1>3, <1>4

LEMMA XchgStands ==
    ASSUME NEW m, NEW w \in {1, 2}, NEW a, IsOperand(a, m, w), NEW b, IsRegister(b, w)
    PROVE  Short(EncodeXchg(a, b), 2 + Size(Displacement(m)))
           /\ (IsReg(a) /\ a.reg = AX /\ w = 2 => Short(EncodeXchg(a, b), 1))
<1>1. /\ a.size = w /\ b.reg \in 0 .. 7 /\ b.kind = "reg" /\ a.kind \in {"reg", "mem"}
      /\ m \in Byte /\ (a.kind = "reg" => a.reg = Rm(m))
  BY DEF IsOperand, IsRegister
<1>2. WordBit(a) = w - 1 /\ WordBit(a) \in {0, 1}
  BY <1>1, WordBitIs
<1>3. a.kind = "reg" => a.reg \in 0 .. 7
  BY <1>1, FieldsAre
<1>4. \A r \in 0 .. 7 : \h90 + r \in Singles
  BY DEF Singles
<1>5. CASE IsReg(a) /\ w = 2 /\ a.reg = AX
  <2>1. EncodeXchg(a, b) = <<\h90 + b.reg>>
    BY <1>2, <1>5 DEF EncodeXchg
  <2>2. Short(EncodeXchg(a, b), 1)
    BY <1>1, <1>4, <2>1, SingleStands
  <2>3. QED
    BY <2>2, MoreRoom, DisplacementSize
<1>6. CASE IsReg(a) /\ w = 2 /\ a.reg # AX /\ b.reg = AX
  <2>1. EncodeXchg(a, b) = <<\h90 + a.reg>>
    BY <1>2, <1>6 DEF EncodeXchg
  <2>2. Short(EncodeXchg(a, b), 1)
    BY <1>3, <1>4, <1>6, <2>1, SingleStands DEF IsReg
  <2>3. QED
    BY <1>6, <2>2, MoreRoom, DisplacementSize
<1>7. CASE ~(IsReg(a) /\ w = 2 /\ (a.reg = AX \/ b.reg = AX))
  <2>1. EncodeXchg(a, b) = XchgForm(a, b)
    BY <1>2, <1>7 DEF EncodeXchg
  <2>2. XchgForm(a, b) = <<\h86 + WordBit(a)>> \o ModRM(a, b.reg)
    BY <1>1 DEF XchgForm, MemRegFar, ModRM, IsReg, IsMem
  <2>3. \h86 + WordBit(a) \in Freely /\ \h86 + WordBit(a) \notin \h80 .. \h83 \cup {\hF6, \hF7}
    BY <1>2, FreeOpcodes
  <2>4. Short(EncodeXchg(a, b), 2 + Size(Displacement(m)))
    BY <1>1, <2>1, <2>2, <2>3, FreeForm
  <2>5. QED
    BY <1>7, <2>4
<1>8. QED
  BY <1>5, <1>6, <1>7

(* MOV between a register and an operand of a ModR/M byte.                 *)
LEMMA MovRegister ==
    ASSUME NEW m, NEW w \in {1, 2}, NEW a, IsOperand(a, m, w), NEW b, IsRegister(b, w)
    PROVE  /\ Short(EncodeMov(a, b), 2 + Size(Displacement(m)))
           /\ Short(EncodeMov(b, a), 2 + Size(Displacement(m)))
<1> DEFINE k == WordBit(a)
<1>1. /\ a.size = w /\ b.size = w /\ b.reg \in 0 .. 7 /\ b.kind = "reg" /\ a.kind \in {"reg", "mem"}
      /\ m \in Byte /\ (a.kind = "reg" => a.reg = Rm(m) /\ Mod(m) = 3)
      /\ (a.kind = "mem" => a.base \in Int)
      /\ (a.kind = "mem" /\ a.regs = << >> => Displacement(m) = <<2>>)
  BY FieldsAre DEF IsOperand, IsRegister
<1>2. k \in {0, 1} /\ WordBit(b) = k
  BY <1>1, WordBitIs
<1> HIDE DEF k
<1>3. /\ \h88 + k \in Freely /\ \h88 + k \notin \h80 .. \h83 \cup {\hF6, \hF7}
      /\ \h8A + k \in Freely /\ \h8A + k \notin \h80 .. \h83 \cup {\hF6, \hF7}
  BY <1>2, FreeOpcodes
<1>4. CASE a.kind = "reg"
  <2>1. EncodeMov(a, b) = <<\h88 + k>> \o ModRM(a, b.reg)
    BY <1>1, <1>4 DEF EncodeMov, IsReg, IsImm, IsMem, k
  <2>2. EncodeMov(b, a) = <<\h88 + k>> \o ModRM(b, a.reg)
    BY <1>1, <1>2, <1>4 DEF EncodeMov, IsReg, IsImm, IsMem
  <2>3. Short(EncodeMov(a, b), 2 + Size(Displacement(m)))
    BY <1>1, <1>3, <2>1, FreeForm
  <2>4. a.reg \in 0 .. 7 /\ Displacement(m) = << >>
    BY <1>1, <1>4, FieldsAre, DisplacementIs
  <2>5. Short(EncodeMov(b, a), 2 + Size(Displacement(192 + b.reg)))
    BY <1>3, <2>2, <2>4, FreeForm, RegisterAsOperand
  <2>6. Size(Displacement(192 + b.reg)) = Size(Displacement(m))
    BY <2>4, WidthSizes, RegisterAsOperand
  <2>7. QED
    BY <2>3, <2>5, <2>6
<1>5. CASE a.kind = "mem" /\ ~(a.regs = << >> /\ b.reg = AX)
  <2>1. EncodeMov(a, b) = <<\h88 + k>> \o ModRM(a, b.reg)
    BY <1>1, <1>5 DEF EncodeMov, IsReg, IsImm, IsMem, Direct, Accumulator, k
  <2>2. EncodeMov(b, a) = <<\h8A + k>> \o ModRM(a, b.reg)
    BY <1>1, <1>2, <1>5 DEF EncodeMov, IsReg, IsImm, IsMem, Direct, Accumulator
  <2>3. QED
    BY <1>1, <1>3, <2>1, <2>2, FreeForm
<1>6. CASE a.kind = "mem" /\ a.regs = << >> /\ b.reg = AX
  <2>1. EncodeMov(a, b) = <<\hA2 + k>> \o Word(a.base)
    BY <1>1, <1>6 DEF EncodeMov, IsReg, IsImm, IsMem, Direct, Accumulator, k
  <2>2. EncodeMov(b, a) = <<\hA0 + k>> \o Word(a.base)
    BY <1>1, <1>2, <1>6 DEF EncodeMov, IsReg, IsImm, IsMem, Direct, Accumulator
  <2>3. Word(a.base) \in Seq(Byte) /\ Len(Word(a.base)) = 2
    BY <1>1, <1>6, WordBytes
  <2>4. \hA2 + k \in WithWord /\ \hA0 + k \in WithWord
    BY <1>2 DEF WithWord
  <2>5. Short(EncodeMov(a, b), 3) /\ Short(EncodeMov(b, a), 3)
    BY <2>1, <2>2, <2>3, <2>4, BareStands
  <2>6. Size(Displacement(m)) = 2
    BY <1>1, <1>6, WidthSizes
  <2>7. QED
    BY <2>5, <2>6, MoreRoom
<1>7. QED
  BY <1>1, <1>4, <1>5, <1>6

(* MOV between the accumulator and a direct address.                       *)
LEMMA MovDirect ==
    ASSUME NEW w \in {1, 2}, NEW a, a.kind = "mem", a.regs = << >>, a.base \in Int, a.size = w,
           NEW b, b.kind = "reg", b.reg = AX, b.size = w
    PROVE  Short(EncodeMov(a, b), 3) /\ Short(EncodeMov(b, a), 3)
<1> DEFINE k == WordBit(a)
<1>1. k \in {0, 1} /\ WordBit(b) = k
  BY WordBitIs
<1> HIDE DEF k
<1>2. EncodeMov(a, b) = <<\hA2 + k>> \o Word(a.base)
  BY DEF EncodeMov, IsReg, IsImm, IsMem, Direct, Accumulator, k
<1>3. EncodeMov(b, a) = <<\hA0 + k>> \o Word(a.base)
  BY <1>1 DEF EncodeMov, IsReg, IsImm, IsMem, Direct, Accumulator
<1>4. Word(a.base) \in Seq(Byte) /\ Len(Word(a.base)) = 2
  BY WordBytes
<1>5. \hA2 + k \in WithWord /\ \hA0 + k \in WithWord
  BY <1>1 DEF WithWord
<1>6. QED
  BY <1>2, <1>3, <1>4, <1>5, BareStands

LEMMA MovNumber ==
    ASSUME NEW m, NEW w \in {1, 2}, NEW a, IsOperand(a, m, w),
           NEW b, b.kind = "imm", b.value \in Int
    PROVE  Short(EncodeMov(a, b), IF a.kind = "reg" THEN 1 + w ELSE 2 + Size(Displacement(m)) + w)
<1>1. a.size = w /\ a.kind \in {"reg", "mem"} /\ m \in Byte /\ (a.kind = "reg" => a.reg = Rm(m))
  BY DEF IsOperand
<1>2. WordBit(a) = w - 1 /\ w - 1 \in {0, 1}
  BY <1>1, WordBitIs
<1>3. CASE a.kind = "reg"
  <2> DEFINE c == \hB0 + 8 * (w - 1) + a.reg
  <2>1. EncodeMov(a, b) = <<c>> \o Imm(b.value, w - 1)
    BY <1>2, <1>3 DEF EncodeMov, IsReg, IsImm, IsMem
  <2>2. Imm(b.value, w - 1) \in Seq(Byte) /\ Len(Imm(b.value, w - 1)) = w
    BY NumberOf
  <2>3. a.reg \in 0 .. 7
    BY <1>1, <1>3, FieldsAre
  <2>4. (w = 1 => c \in WithByte) /\ (w = 2 => c \in WithWord)
    BY <2>3 DEF WithByte, WithWord
  <2> HIDE DEF c
  <2>5. CASE w = 1
    BY <1>3, <2>1, <2>2, <2>4, <2>5, BareStands
  <2>6. CASE w = 2
    BY <1>3, <2>1, <2>2, <2>4, <2>6, BareStands
  <2>7. QED
    BY <2>5, <2>6
<1>4. CASE a.kind = "mem"
  <2> DEFINE c == \hC6 + (w - 1)
  <2>1. EncodeMov(a, b) = <<c>> \o ModRM(a, 0) \o Imm(b.value, w - 1)
    BY <1>2, <1>4 DEF EncodeMov, IsReg, IsImm, IsMem
  <2>2. c \in {\hC6, \hC7} /\ (c = \hC6 <=> w = 1)
    BY <1>2
  <2> HIDE DEF c
  <2>3. \A n : Reg(n) = 0 => ImmAfterRM(c, n) = <<w>>
    BY <2>2, ImmediateWidths
  <2>4. Takes(c, 0, m)
    BY <2>2, MoveTakes
  <2>5. QED
    BY <1>4, <2>1, <2>3, <2>4, NumberForm
<1>5. QED
  BY <1>1, <1>3, <1>4

LEMMA MovSegment ==
    ASSUME NEW m, NEW a, IsOperand(a, m, 2), NEW reg \in 0 .. 7
    PROVE  /\ Short(EncodeMov(a, SRegArg(reg)), 2 + Size(Displacement(m)))
           /\ Short(EncodeMov(SRegArg(reg), a), 2 + Size(Displacement(m)))
<1> DEFINE b == SRegArg(reg)
<1>1. b.kind = "sreg" /\ b.reg = reg /\ a.kind \in {"reg", "mem"}
  BY DEF SRegArg, IsOperand
<1> HIDE DEF b
<1>2. EncodeMov(a, b) = <<\h8C>> \o ModRM(a, reg)
  BY <1>1 DEF EncodeMov, IsReg, IsImm, IsMem
<1>3. EncodeMov(b, a) = <<\h8E>> \o ModRM(a, reg)
  BY <1>1 DEF EncodeMov, IsReg, IsImm, IsMem
<1>4. {\h8C, \h8E} \subseteq Freely /\ {\h8C, \h8E} \cap (\h80 .. \h83 \cup {\hF6, \hF7}) = {}
  <2>1. \h8C \in \h84 .. \h8E /\ \h8E \in \h84 .. \h8E
    OBVIOUS
  <2>2. QED
    BY <2>1, FreeOpcodes
<1>5. Short(EncodeMov(a, b), 2 + Size(Displacement(m)))
  BY <1>2, <1>4, FreeForm
<1>6. Short(EncodeMov(b, a), 2 + Size(Displacement(m)))
  <2>1. \h8E \in Freely /\ \h8E \notin \h80 .. \h83 \cup {\hF6, \hF7}
    BY <1>4
  <2>2. Short(<<\h8E>> \o ModRM(a, reg), 2 + Size(Displacement(m)))
    BY <2>1, FreeForm
  <2>3. QED
    BY <1>3, <2>2
<1>7. QED
  BY <1>5, <1>6 DEF b

(* A form of a group, which takes no immediate.                            *)
LEMMA TakenForm ==
    ASSUME NEW a, NEW m, NEW w, IsOperand(a, m, w), NEW reg \in 0 .. 7, NEW b, Takes(b, reg, m),
           \A n : Reg(n) = reg => ImmAfterRM(b, n) = << >>
    PROVE  Short(<<b>> \o ModRM(a, reg), 2 + Size(Displacement(m)))
<1>1. Rewritten(ModRM(a, reg), reg, m)
  BY DEF IsOperand
<1>2. QED
  BY <1>1, OperandAloneStands

LEMMA Group5Form ==
    ASSUME NEW a, NEW m, NEW w, IsOperand(a, m, w), NEW reg \in 0 .. 7, NEW b \in {\hFE, \hFF},
           reg \in {0, 1, 6, 7} \/ (b = \hFF /\ (reg \in {2, 4} \/ Mod(m) # 3))
    PROVE  Short(<<b>> \o ModRM(a, reg), 2 + Size(Displacement(m)))
<1>1. Takes(b, reg, m)
  BY Group5Takes
<1>2. \A n : ImmAfterRM(b, n) = << >>
  BY ImmediateWidths
<1>3. QED
  BY <1>1, <1>2, TakenForm

(* PUSH, POP, INC and DEC.                                                 *)
LEMMA StackStands ==
    ASSUME NEW m, NEW w, NEW a, IsOperand(a, m, w)
    PROVE  /\ Short(EncodePush(a), IF a.kind = "reg" THEN 1 ELSE 2 + Size(Displacement(m)))
           /\ Short(EncodePop(a), IF a.kind = "reg" THEN 1 ELSE 2 + Size(Displacement(m)))
<1>1. /\ a.kind \in {"reg", "mem"} /\ m \in Byte
      /\ a.kind = "reg" => a.reg \in 0 .. 7
      /\ a.kind = "mem" => Mod(m) # 3
  BY FieldsAre DEF IsOperand
<1>2. \A r \in 0 .. 7 : \h50 + r \in Singles /\ \h58 + r \in Singles
  BY DEF Singles
<1>3. CASE a.kind = "reg"
  <2>1. EncodePush(a) = <<\h50 + a.reg>> /\ EncodePop(a) = <<\h58 + a.reg>>
    BY <1>3 DEF EncodePush, EncodePop, IsReg, IsMem
  <2>2. QED
    BY <1>1, <1>2, <1>3, <2>1, SingleStands
<1>4. CASE a.kind = "mem"
  <2>1. EncodePush(a) = <<\hFF>> \o ModRM(a, 6) /\ EncodePop(a) = <<\h8F>> \o ModRM(a, 0)
    BY <1>4 DEF EncodePush, EncodePop, IsReg, IsMem
  <2>2. Short(EncodePush(a), 2 + Size(Displacement(m)))
    BY <2>1, Group5Form
  <2>3. Takes(\h8F, 0, m)
    BY <1>1, <1>4, PeekersTake DEF PeekOpcodes, PopRM
  <2>4. \A n : ImmAfterRM(\h8F, n) = << >>
    BY ImmediateWidths
  <2>5. Short(EncodePop(a), 2 + Size(Displacement(m)))
    BY <2>1, <2>3, <2>4, TakenForm
  <2>6. QED
    BY <1>4, <2>2, <2>5
<1>5. QED
  BY <1>1, <1>3, <1>4

LEMMA SegmentStack ==
    ASSUME NEW r \in 0 .. 3
    PROVE  Short(EncodePush(SRegArg(r)), 1) /\ Short(EncodePop(SRegArg(r)), 1)
<1>1. EncodePush(SRegArg(r)) = <<8 * r + 6>> /\ EncodePop(SRegArg(r)) = <<8 * r + 7>>
  BY DEF EncodePush, EncodePop, IsReg, IsMem, SRegArg
<1>2. 8 * r + 6 \in Singles /\ 8 * r + 7 \in Singles
  BY DEF Singles
<1>3. QED
  BY <1>1, <1>2, SingleStands

LEMMA IncDecStands ==
    ASSUME NEW m, NEW w \in {1, 2}, NEW a, IsOperand(a, m, w), NEW n \in {0, 1}
    PROVE  Short(EncodeIncDec(n, a), IF a.kind = "reg" /\ w = 2 THEN 1
                                     ELSE 2 + Size(Displacement(m)))
<1>1. /\ a.kind \in {"reg", "mem"} /\ m \in Byte /\ a.size = w
      /\ a.kind = "reg" => a.reg \in 0 .. 7
  BY FieldsAre DEF IsOperand
<1>2. WordBit(a) = w - 1 /\ w - 1 \in {0, 1}
  BY <1>1, WordBitIs
<1>3. CASE a.kind = "reg" /\ w = 2
  <2>1. EncodeIncDec(n, a) = <<\h40 + 8 * n + a.reg>>
    BY <1>2, <1>3 DEF EncodeIncDec, IsReg
  <2>2. \h40 + 8 * n + a.reg \in Singles
    BY <1>1, <1>3 DEF Singles
  <2>3. QED
    BY <1>3, <2>1, <2>2, SingleStands
<1>4. CASE ~(a.kind = "reg" /\ w = 2)
  <2> DEFINE c == \hFE + WordBit(a)
  <2>1. EncodeIncDec(n, a) = <<c>> \o ModRM(a, n)
    BY <1>2, <1>4 DEF EncodeIncDec, IsReg
  <2>2. c \in {\hFE, \hFF} /\ n \in 0 .. 7 /\ n \in {0, 1, 6, 7}
    BY <1>2
  <2> HIDE DEF c
  <2>3. Short(<<c>> \o ModRM(a, n), 2 + Size(Displacement(m)))
    BY <2>2, Group5Form
  <2>4. QED
    BY <1>4, <2>1, <2>3
<1>5. QED
  BY <1>3, <1>4

LEMMA LoadStands ==
    ASSUME NEW m, NEW w, NEW a, IsOperand(a, m, w), NEW b, b.reg \in 0 .. 7,
           NEW c \in {\h8D, \hC4, \hC5}
    PROVE  Short(EncodeLoad(c, b, a), 2 + Size(Displacement(m)))
<1>1. CASE a.kind = "mem"
  <2>1. Mod(m) # 3
    BY <1>1 DEF IsOperand
  <2>2. EncodeLoad(c, b, a) = <<c>> \o ModRM(a, b.reg)
    BY <1>1 DEF EncodeLoad, IsMem
  <2>3. CASE c = \h8D
    <3>1. c \in Freely /\ c \notin \h80 .. \h83 \cup {\hF6, \hF7}
      BY <2>3, FreeOpcodes
    <3>2. QED
      BY <2>2, <3>1, FreeForm
  <2>4. CASE c \in {\hC4, \hC5}
    <3>1. Takes(c, b.reg, m)
      BY <2>1, <2>4, PeekersTake DEF PeekOpcodes, FarLoads, PopRM
    <3>2. \A n : ImmAfterRM(c, n) = << >>
      BY <2>4, ImmediateWidths
    <3>3. QED
      BY <2>2, <3>1, <3>2, TakenForm
  <2>5. QED
    BY <2>3, <2>4
<1>2. CASE a.kind # "mem"
  BY <1>2 DEF EncodeLoad, IsMem, Short
<1>3. QED
  BY <1>1, <1>2

LEMMA ShiftForm ==
    ASSUME NEW a, NEW m, NEW w, IsOperand(a, m, w), NEW reg \in 0 .. 7, reg # 6,
           NEW b \in {\hD0, \hD1, \hD2, \hD3}
    PROVE  Short(<<b>> \o ModRM(a, reg), 2 + Size(Displacement(m)))
<1>1. b \in ShiftOpcodes
  BY DEF ShiftOpcodes
<1>2. Takes(b, reg, m)
  BY <1>1, ShiftsTake
<1>3. \A n : ImmAfterRM(b, n) = << >>
  BY ImmediateWidths
<1>4. QED
  BY <1>2, <1>3, TakenForm

LEMMA BytesForm ==
    ASSUME NEW a, NEW m, NEW w, IsOperand(a, m, w), NEW reg \in 0 .. 7, NEW b, Takes(b, reg, m),
           NEW u \in Seq(Byte), \A n : Reg(n) = reg => Size(ImmAfterRM(b, n)) = Len(u)
    PROVE  Short(<<b>> \o ModRM(a, reg) \o u, 2 + Size(Displacement(m)) + Len(u))
<1>1. Rewritten(ModRM(a, reg), reg, m)
  BY DEF IsOperand
<1>2. QED
  BY <1>1, OperandStands

(* The shifts by 1 and by CL, and by any other number, which has a byte    *)
(* more.                                                                   *)
LEMMA ShiftStands ==
    ASSUME NEW m, NEW w \in {1, 2}, NEW a, IsOperand(a, m, w), NEW n \in 0 .. 7, n # 6, NEW b
    PROVE  /\ b.kind = "reg" => Short(EncodeShift(n, a, b), 2 + Size(Displacement(m)))
           /\ b.kind = "imm" /\ b.value = 1
                => Short(EncodeShift(n, a, b), 2 + Size(Displacement(m)))
           /\ b.kind = "imm" /\ b.value \in Int
                => Short(EncodeShift(n, a, b), 2 + Size(Displacement(m)) + 1)
<1>1. a.size = w
  BY DEF IsOperand
<1>2. WordBit(a) \in {0, 1}
  BY <1>1, WordBitIs
<1>3. /\ \hD0 + WordBit(a) \in {\hD0, \hD1, \hD2, \hD3}
      /\ \hD2 + WordBit(a) \in {\hD0, \hD1, \hD2, \hD3}
  BY <1>2
<1>4. ASSUME b.kind = "reg" PROVE Short(EncodeShift(n, a, b), 2 + Size(Displacement(m)))
  <2>1. EncodeShift(n, a, b) = <<\hD2 + WordBit(a)>> \o ModRM(a, n)
    BY <1>4 DEF EncodeShift, IsReg, IsImm
  <2> DEFINE o == \hD2 + WordBit(a)
  <2>2. o \in {\hD0, \hD1, \hD2, \hD3}
    BY <1>3
  <2> HIDE DEF o
  <2>3. Short(<<o>> \o ModRM(a, n), 2 + Size(Displacement(m)))
    BY <2>2, ShiftForm
  <2>4. QED
    BY <2>1, <2>3 DEF o
<1>5. ASSUME b.kind = "imm", b.value = 1 PROVE Short(EncodeShift(n, a, b), 2 + Size(Displacement(m)))
  <2>1. EncodeShift(n, a, b) = <<\hD0 + WordBit(a)>> \o ModRM(a, n)
    BY <1>5 DEF EncodeShift, IsReg, IsImm
  <2>2. QED
    BY <1>3, <2>1, ShiftForm
<1>6. ASSUME b.kind = "imm", b.value \in Int, b.value # 1
      PROVE  Short(EncodeShift(n, a, b), 2 + Size(Displacement(m)) + 1)
  <2> DEFINE c == \hC0 + WordBit(a)
             u == <<ByteOf(b.value)>>
  <2>1. EncodeShift(n, a, b) = <<c>> \o ModRM(a, n) \o u
    BY <1>6 DEF EncodeShift, IsReg, IsImm
  <2>2. u \in Seq(Byte) /\ Len(u) = 1
    BY <1>6, LonelyByte
  <2>3. c \in {\hC0, \hC1} /\ c \in ShiftOpcodes
    BY <1>2 DEF ShiftOpcodes
  <2> HIDE DEF c, u
  <2>4. Takes(c, n, m)
    BY <2>3, ShiftsTake
  <2>5. \A x : ImmAfterRM(c, x) = <<1>>
    BY <2>3, ImmediateWidths
  <2>6. \A x : Reg(x) = n => Size(ImmAfterRM(c, x)) = Len(u)
    BY <2>2, <2>5, WidthSizes
  <2>8. Short(<<c>> \o ModRM(a, n) \o u, 2 + Size(Displacement(m)) + Len(u))
    BY <2>2, <2>4, <2>6, BytesForm
  <2>9. QED
    BY <2>1, <2>2, <2>8
<1>7. ASSUME b.kind = "imm", b.value \in Int
      PROVE  Short(EncodeShift(n, a, b), 2 + Size(Displacement(m)) + 1)
  <2>1. CASE b.value = 1
    BY <1>5, <1>7, <2>1, MoreRoom, DisplacementSize
  <2>2. CASE b.value # 1
    BY <1>6, <1>7, <2>2
  <2>3. QED
    BY <2>1, <2>2
<1>8. QED
  BY <1>4, <1>5, <1>7

(* IN and OUT.                                                             *)
LEMMA PortsStand ==
    ASSUME NEW w \in {1, 2}, NEW a, a.kind = "reg", a.size = w, NEW b
    PROVE  /\ b.kind = "reg" => Short(EncodeIn(a, b), 1) /\ Short(EncodeOut(b, a), 1)
           /\ b.kind = "imm" /\ b.value \in Int
                => Short(EncodeIn(a, b), 2) /\ Short(EncodeOut(b, a), 2)
<1>1. WordBit(a) \in {0, 1}
  BY WordBitIs
<1>2. ASSUME b.kind = "reg" PROVE Short(EncodeIn(a, b), 1) /\ Short(EncodeOut(b, a), 1)
  <2>1. EncodeIn(a, b) = <<\hEC + WordBit(a)>> /\ EncodeOut(b, a) = <<\hEE + WordBit(a)>>
    BY <1>2 DEF EncodeIn, EncodeOut, IsReg
  <2>2. \hEC + WordBit(a) \in Singles /\ \hEE + WordBit(a) \in Singles
    BY <1>1 DEF Singles
  <2>3. QED
    BY <2>1, <2>2, SingleStands
<1>3. ASSUME b.kind = "imm", b.value \in Int
      PROVE  Short(EncodeIn(a, b), 2) /\ Short(EncodeOut(b, a), 2)
  <2> DEFINE u == <<ByteOf(b.value)>>
  <2>1. /\ EncodeIn(a, b) = <<\hE4 + WordBit(a)>> \o u
        /\ EncodeOut(b, a) = <<\hE6 + WordBit(a)>> \o u
    BY <1>3 DEF EncodeIn, EncodeOut, IsReg
  <2>2. \hE4 + WordBit(a) \in WithByte /\ \hE6 + WordBit(a) \in WithByte
    BY <1>1 DEF WithByte
  <2>3. u \in Seq(Byte) /\ Len(u) = 1
    BY <1>3, LonelyByte
  <2> HIDE DEF u
  <2>4. QED
    BY <2>1, <2>2, <2>3, BareStands
<1>4. QED
  BY <1>2, <1>3

LEMMA ByteFormStands ==
    ASSUME NEW b \in WithByte, NEW v \in Int
    PROVE  Short(<<b, ByteOf(v)>>, 2) /\ <<b, ByteOf(v)>> \in Seq(Byte)
<1> DEFINE u == <<ByteOf(v)>>
<1>1. <<b, ByteOf(v)>> = <<b>> \o u
  OBVIOUS
<1>2. u \in Seq(Byte) /\ Len(u) = 1
  BY LonelyByte
<1> HIDE DEF u
<1>3. b \in Byte
  BY BareOpcodes DEF Bare
<1>4. <<b>> \o u \in Seq(Byte)
  BY <1>2, <1>3, LeadOf
<1>5. QED
  BY <1>1, <1>2, <1>4, BareStands

LEMMA InterruptStands ==
    ASSUME NEW a, a.value \in Int
    PROVE  /\ Short(EncodeInt(a), 2)
           /\ a.value = 3 => Short(EncodeInt(a), 1)
<1>1. CASE a.value = 3
  <2>1. EncodeInt(a) = <<\hCC>>
    BY <1>1 DEF EncodeInt
  <2>2. \hCC \in Singles
    BY DEF Singles
  <2>3. QED
    BY <2>1, <2>2, SingleStands, MoreRoom
<1>2. CASE a.value # 3
  <2>1. EncodeInt(a) = <<\hCD, ByteOf(a.value)>>
    BY <1>2 DEF EncodeInt
  <2>2. \hCD \in WithByte
    BY DEF WithByte
  <2>3. QED
    BY <1>2, <2>1, <2>2, ByteFormStands
<1>3. QED
  BY <1>1, <1>2

LEMMA Group3Stands ==
    ASSUME NEW m, NEW w \in {1, 2}, NEW a, IsOperand(a, m, w), NEW reg \in 2 .. 7
    PROVE  Short(<<\hF6 + WordBit(a)>> \o ModRM(a, reg), 2 + Size(Displacement(m)))
<1>1. a.size = w
  BY DEF IsOperand
<1>2. WordBit(a) \in {0, 1}
  BY <1>1, WordBitIs
<1> DEFINE c == \hF6 + WordBit(a)
<1>3. c \in {\hF6, \hF7} /\ c \in Freely
  BY <1>2, FreeOpcodes
<1> HIDE DEF c
<1>4. \A n : Reg(n) = reg => ImmAfterRM(c, n) = << >>
  BY <1>3, ImmediateWidths
<1>5. Takes(c, reg, m) /\ reg \in 0 .. 7
  BY <1>3, FreelyTakes
<1>6. Short(<<c>> \o ModRM(a, reg), 2 + Size(Displacement(m)))
  BY <1>4, <1>5, TakenForm
<1>7. QED
  BY <1>6 DEF c

-----------------------------------------------------------------------------
(* Transfers of control.                                                   *)

LEMMA DwordBytes == ASSUME NEW v \in Int PROVE Dword(v) \in Seq(Byte)
<1>1. v \div 65536 \in Int
  OBVIOUS
<1>2. Word(v) \in Seq(Byte) /\ Word(v \div 65536) \in Seq(Byte)
  BY <1>1, WordBytes
<1>3. QED
  BY <1>2, Joined DEF Dword

LEMMA NearStands ==
    ASSUME NEW b \in {\hE8, \hE9}, NEW delta \in Int
    PROVE  /\ EncodeNear(b, delta) \in Seq(Byte)
           /\ Near(delta) => Short(EncodeNear(b, delta), 3)
<1>1. ASSUME Near(delta) PROVE EncodeNear(b, delta) \in Seq(Byte) /\ Short(EncodeNear(b, delta), 3)
  <2>1. EncodeNear(b, delta) = <<b>> \o Word(delta - 3)
    BY <1>1 DEF EncodeNear
  <2>2. Word(delta - 3) \in Seq(Byte) /\ Len(Word(delta - 3)) = 2
    BY WordBytes
  <2>3. b \in WithWord /\ b \in Byte
    BY DEF WithWord, Byte
  <2>4. QED
    BY <2>1, <2>2, <2>3, BareStands, LeadOf
<1>2. ASSUME ~Near(delta) PROVE EncodeNear(b, delta) \in Seq(Byte)
  <2>1. EncodeNear(b, delta) = <<\h66, b>> \o Dword(delta - 6)
    BY <1>2 DEF EncodeNear
  <2>2. <<\h66, b>> \in Seq(Byte)
    BY DEF Byte
  <2>3. Dword(delta - 6) \in Seq(Byte)
    BY DwordBytes
  <2>4. QED
    BY <2>1, <2>2, <2>3, Joined
<1>3. QED
  BY <1>1, <1>2

LEMMA JccStands ==
    ASSUME NEW n \in 0 .. 15, NEW delta \in Int
    PROVE  /\ EncodeJcc(n, delta) \in Seq(Byte)
           /\ InByte(delta - 2) => Short(EncodeJcc(n, delta), 2)
<1>1. ASSUME InByte(delta - 2) PROVE EncodeJcc(n, delta) \in Seq(Byte) /\ Short(EncodeJcc(n, delta), 2)
  <2>1. EncodeJcc(n, delta) = <<\h70 + n, ByteOf(delta - 2)>>
    BY <1>1 DEF EncodeJcc
  <2>2. \h70 + n \in WithByte
    BY DEF WithByte
  <2>3. QED
    BY <2>1, <2>2, ByteFormStands
<1>2. ASSUME ~InByte(delta - 2), Near(delta) PROVE EncodeJcc(n, delta) \in Seq(Byte)
  <2>1. EncodeJcc(n, delta) = <<\h0F, \h80 + n>> \o Word(delta - 4)
    BY <1>2 DEF EncodeJcc
  <2>2. <<\h0F, \h80 + n>> \in Seq(Byte)
    BY DEF Byte
  <2>3. Word(delta - 4) \in Seq(Byte)
    BY WordBytes
  <2>4. QED
    BY <2>1, <2>2, <2>3, Joined
<1>3. ASSUME ~InByte(delta - 2), ~Near(delta) PROVE EncodeJcc(n, delta) \in Seq(Byte)
  <2>1. EncodeJcc(n, delta) = <<\h66, \h0F, \h80 + n>> \o Dword(delta - 7)
    BY <1>3 DEF EncodeJcc
  <2>2. <<\h66, \h0F, \h80 + n>> \in Seq(Byte)
    BY DEF Byte
  <2>3. Dword(delta - 7) \in Seq(Byte)
    BY DwordBytes
  <2>4. QED
    BY <2>1, <2>2, <2>3, Joined
<1>4. QED
  BY <1>1, <1>2, <1>3

LEMMA LoopStands ==
    ASSUME NEW b \in \hE0 .. \hE3, NEW delta \in Int
    PROVE  EncodeLoop(b, delta) \in Seq(Byte) /\ Short(EncodeLoop(b, delta), 2)
<1>1. CASE InByte(delta - 2)
  <2>1. EncodeLoop(b, delta) = <<b, ByteOf(delta - 2)>> /\ b \in WithByte /\ delta - 2 \in Int
    BY <1>1 DEF EncodeLoop, WithByte
  <2>2. QED
    BY <2>1, ByteFormStands
<1>2. CASE ~InByte(delta - 2)
  BY <1>2 DEF EncodeLoop, Short
<1>3. QED
  BY <1>1, <1>2

LEMMA TwoWords ==
    ASSUME NEW x \in Seq(Byte), NEW y \in Seq(Byte), Len(x) = 2, Len(y) = 2, NEW b \in WithFar
    PROVE  Short(<<b>> \o x \o y, 5)
<1>1. b \in Byte
  BY DEF WithFar, Byte
<1>2. <<b>> \in Seq(Byte)
  BY <1>1
<1>3. <<b>> \o x \o y = <<b>> \o (x \o y)
  BY <1>2, ConcatAssociative
<1>4. \E t \in Seq(Byte) : Len(t) = 4 /\ <<b>> \o x \o y = <<b>> \o t
  <2>1. x \o y \in Seq(Byte) /\ Len(x \o y) = Len(x) + Len(y)
    BY Joined
  <2>2. x \o y \in Seq(Byte) /\ Len(x \o y) = 4
    BY <2>1
  <2>3. QED
    BY <1>3, <2>2, Zenon
<1>5. QED
  BY <1>4, BareStands

LEMMA FarStands ==
    ASSUME NEW b \in {\h9A, \hEA}, NEW n, NEW v \in Int, NEW g \in Int
    PROVE  Short(EncodeFar(b, n, FarArg(v, g)), 5)
<1>1. EncodeFar(b, n, FarArg(v, g)) = <<b>> \o Word(v) \o Word(g)
  BY DEF EncodeFar, FarArg, IsMem
<1>2. /\ Word(v) \in Seq(Byte) /\ Len(Word(v)) = 2
      /\ Word(g) \in Seq(Byte) /\ Len(Word(g)) = 2
  BY WordBytes
<1>3. b \in WithFar
  BY DEF WithFar
<1>4. QED
  BY <1>1, <1>2, <1>3, TwoWords

LEMMA ShiftDispatch ==
    ASSUME NEW i, NEW at, i.op \in {"ROL", "ROR", "RCL", "RCR", "SHL", "SHR", "SAR"}
    PROVE  /\ EncodeCase(i, at) = EncodeShift(Index(Shifts, i.op), i.argv[1], i.argv[2])
           /\ Index(Shifts, i.op) \in 0 .. 7 /\ Index(Shifts, i.op) # 6
<1>1. EncodeCase(i, at) = EncodeInteger(i)
  BY IntegerCase DEF IntegerOps
<1>2. EncodeInteger(i) = EncodeShift(Index(Shifts, i.op), i.argv[1], i.argv[2])
  BY AluIs, ShiftIs, TablesAre DEF EncodeInteger, AluOps
<1>3. Index(Shifts, i.op) \in 0 .. 7 /\ Index(Shifts, i.op) # 6
  BY DEF Index, Shifts
<1>4. QED
  BY <1>1, <1>2, <1>3

LEMMA GroupDispatch ==
    ASSUME NEW i, NEW at, i.op \in {"NOT", "NEG", "MUL", "IMUL", "DIV", "IDIV"}
    PROVE  /\ EncodeCase(i, at) = <<\hF6 + WordBit(i.argv[1])>>
                                      \o ModRM(i.argv[1], Group3Code[i.op])
           /\ Group3Code[i.op] \in 2 .. 7
<1>1. EncodeCase(i, at) = EncodeInteger(i)
  BY IntegerCase DEF IntegerOps
<1>2. EncodeInteger(i) = <<\hF6 + WordBit(i.argv[1])>> \o ModRM(i.argv[1], Group3Code[i.op])
  <2>1. /\ ~In(Alu, i.op) /\ i.op \notin ShiftOps /\ i.op \in DOMAIN Group3Code
        /\ i.op \notin DOMAIN LoadCode \cup DOMAIN StringCode
    BY AluIs, ShiftIs, TablesAre DEF AluOps
  <2>2. i.op \notin {"INC", "DEC", "TEST", "XCHG", "MOV", "PUSH", "POP", "IN", "OUT", "INT", "AAM", "AAD"}
    OBVIOUS
  <2>3. QED
    BY <2>1, <2>2, Zenon DEF EncodeInteger
<1>3. Group3Code[i.op] \in 2 .. 7
  BY DEF Group3Code
<1>4. QED
  BY <1>1, <1>2, <1>3

LEMMA LoadDispatch ==
    ASSUME NEW i, NEW at, i.op \in {"LEA", "LES", "LDS"}
    PROVE  /\ EncodeCase(i, at) = EncodeLoad(LoadCode[i.op], i.argv[1], i.argv[2])
           /\ LoadCode[i.op] \in {\h8D, \hC4, \hC5}
<1>1. EncodeCase(i, at) = EncodeInteger(i)
  BY IntegerCase DEF IntegerOps
<1>2. EncodeInteger(i) = EncodeLoad(LoadCode[i.op], i.argv[1], i.argv[2])
  BY AluIs, ShiftIs, TablesAre DEF EncodeInteger, AluOps
<1>3. LoadCode[i.op] \in {\h8D, \hC4, \hC5}
  BY DEF LoadCode
<1>4. QED
  BY <1>1, <1>2, <1>3

LEMMA StringDispatch ==
    ASSUME NEW i, NEW at, i.op \in {"MOVS", "CMPS", "STOS", "LODS", "SCAS"}
    PROVE  /\ EncodeCase(i, at) = <<StringCode[i.op] + WordBit(i.argv[1])>>
           /\ StringCode[i.op] \in {\hA4, \hA6, \hAA, \hAC, \hAE}
<1>1. EncodeCase(i, at) = EncodeInteger(i)
  BY IntegerCase DEF IntegerOps
<1>2. EncodeInteger(i) = <<StringCode[i.op] + WordBit(i.argv[1])>>
  BY AluIs, ShiftIs, TablesAre DEF EncodeInteger, AluOps
<1>3. StringCode[i.op] \in {\hA4, \hA6, \hAA, \hAC, \hAE}
  BY DEF StringCode
<1>4. QED
  BY <1>1, <1>2, <1>3

LEMMA CaseDispatch ==
    ASSUME NEW i, NEW at
    PROVE  LET a == i.argv[1]
               b == i.argv[2]
           IN  /\ i.op = "INC" => EncodeCase(i, at) = EncodeIncDec(0, a)
               /\ i.op = "DEC" => EncodeCase(i, at) = EncodeIncDec(1, a)
               /\ i.op = "TEST" => EncodeCase(i, at) = EncodeTest(a, b)
               /\ i.op = "XCHG" => EncodeCase(i, at) = EncodeXchg(a, b)
               /\ i.op = "MOV" => EncodeCase(i, at) = EncodeMov(a, b)
               /\ i.op = "PUSH" => EncodeCase(i, at) = EncodePush(a)
               /\ i.op = "POP" => EncodeCase(i, at) = EncodePop(a)
               /\ i.op = "IN" => EncodeCase(i, at) = EncodeIn(a, b)
               /\ i.op = "OUT" => EncodeCase(i, at) = EncodeOut(a, b)
               /\ i.op = "INT" => EncodeCase(i, at) = EncodeInt(a)
               /\ i.op = "AAM" => EncodeCase(i, at) = <<\hD4, ByteOf(a.value)>>
               /\ i.op = "AAD" => EncodeCase(i, at) = <<\hD5, ByteOf(a.value)>>
<1> DEFINE a == i.argv[1]
           b == i.argv[2]
<1>0. i.op \in {"INC", "DEC", "TEST", "XCHG", "MOV", "PUSH", "POP", "IN", "OUT", "INT", "AAM", "AAD"}
        => EncodeCase(i, at) = EncodeInteger(i)
  BY IntegerCase DEF IntegerOps
<1>1. /\ i.op = "INC" => EncodeInteger(i) = EncodeIncDec(0, a)
      /\ i.op = "DEC" => EncodeInteger(i) = EncodeIncDec(1, a)
      /\ i.op = "TEST" => EncodeInteger(i) = EncodeTest(a, b)
  BY AluIs, ShiftIs, TablesAre DEF EncodeInteger, AluOps
<1>2. /\ i.op = "XCHG" => EncodeInteger(i) = EncodeXchg(a, b)
      /\ i.op = "MOV" => EncodeInteger(i) = EncodeMov(a, b)
      /\ i.op = "PUSH" => EncodeInteger(i) = EncodePush(a)
  BY AluIs, ShiftIs, TablesAre DEF EncodeInteger, AluOps
<1>3. /\ i.op = "POP" => EncodeInteger(i) = EncodePop(a)
      /\ i.op = "IN" => EncodeInteger(i) = EncodeIn(a, b)
      /\ i.op = "OUT" => EncodeInteger(i) = EncodeOut(a, b)
  BY AluIs, ShiftIs, TablesAre DEF EncodeInteger, AluOps
<1>4. i.op = "INT" => EncodeInteger(i) = EncodeInt(a)
  BY AluIs, ShiftIs, TablesAre DEF EncodeInteger, AluOps
<1>5. i.op = "AAM" => EncodeInteger(i) = <<\hD4, ByteOf(a.value)>>
  BY AluIs, ShiftIs, TablesAre DEF EncodeInteger, AluOps
<1>6. i.op = "AAD" => EncodeInteger(i) = <<\hD5, ByteOf(a.value)>>
  BY AluIs, ShiftIs, TablesAre DEF EncodeInteger, AluOps
<1> HIDE DEF a, b
<1>7. QED
  BY <1>0, <1>1, <1>2, <1>3, <1>4, <1>5, <1>6 DEF a, b

-----------------------------------------------------------------------------
(* The transfers, and the instructions of one byte.                        *)

LEMMA TransferCase ==
    ASSUME NEW i, NEW at, TransfersTo(i.op)
    PROVE  EncodeCase(i, at) = EncodeTransfer(i, at)
<1>1. i.op \notin NoCase /\ i.op \notin DOMAIN OneByteCode /\ i.op \notin FpuOps
  BY TransfersAre, FpuOpsAre DEF TransfersTo, Transfers, FarOps, NoCase, OneByteCode, FpuNoOperand
<1>2. QED
  BY <1>1 DEF EncodeCase

LEMMA TransferDispatch ==
    ASSUME NEW i, NEW at
    PROVE  LET a == i.argv[1]
           IN  /\ In(Jcc, i.op) => /\ EncodeCase(i, at) = EncodeJcc(Index(Jcc, i.op), a.value - at)
                                   /\ Index(Jcc, i.op) \in 0 .. 15
               /\ In(Loops, i.op) => /\ EncodeCase(i, at) = EncodeLoop(\hE0 + Index(Loops, i.op), a.value - at)
                                     /\ Index(Loops, i.op) \in 0 .. 3
               /\ i.op = "JMP" => EncodeCase(i, at) = EncodeJmp(a, at)
               /\ i.op = "CALL" => EncodeCase(i, at) = EncodeCall(a, at)
               /\ i.op = "JMP_FAR" => EncodeCase(i, at) = EncodeFar(\hEA, 5, a)
               /\ i.op = "CALL_FAR" => EncodeCase(i, at) = EncodeFar(\h9A, 3, a)
               /\ i.op = "RET" => EncodeCase(i, at) = EncodeReturn(\hC2, i.argv)
               /\ i.op = "RETF" => EncodeCase(i, at) = EncodeReturn(\hCA, i.argv)
<1> DEFINE a == i.argv[1]
<1>1. In(Jcc, i.op) => /\ EncodeCase(i, at) = EncodeJcc(Index(Jcc, i.op), a.value - at)
                       /\ Index(Jcc, i.op) \in 0 .. 15
  <2> SUFFICES ASSUME In(Jcc, i.op)
      PROVE  /\ EncodeCase(i, at) = EncodeJcc(Index(Jcc, i.op), a.value - at)
             /\ Index(Jcc, i.op) \in 0 .. 15
    OBVIOUS
  <2>1. EncodeCase(i, at) = EncodeTransfer(i, at)
    BY TransferCase DEF TransfersTo
  <2>2. EncodeTransfer(i, at) = EncodeJcc(Index(Jcc, i.op), a.value - at)
    BY TransfersAre DEF EncodeTransfer
  <2>3. Index(Jcc, i.op) \in 0 .. 15
    BY DEF Index, In, Jcc
  <2>4. QED
    BY <2>1, <2>2, <2>3
<1>2. In(Loops, i.op) => /\ EncodeCase(i, at) = EncodeLoop(\hE0 + Index(Loops, i.op), a.value - at)
                         /\ Index(Loops, i.op) \in 0 .. 3
  <2> SUFFICES ASSUME In(Loops, i.op)
      PROVE  /\ EncodeCase(i, at) = EncodeLoop(\hE0 + Index(Loops, i.op), a.value - at)
             /\ Index(Loops, i.op) \in 0 .. 3
    OBVIOUS
  <2>1. EncodeCase(i, at) = EncodeTransfer(i, at)
    BY TransferCase DEF TransfersTo
  <2>2. EncodeTransfer(i, at) = EncodeLoop(\hE0 + Index(Loops, i.op), a.value - at)
    BY TransfersAre DEF EncodeTransfer
  <2>3. Index(Loops, i.op) \in 0 .. 3
    BY DEF Index, In, Loops
  <2>4. QED
    BY <2>1, <2>2, <2>3
<1>3. i.op \in Transfers => EncodeCase(i, at) = EncodeTransfer(i, at)
  BY TransferCase DEF TransfersTo
<1>4. /\ i.op = "JMP" => EncodeTransfer(i, at) = EncodeJmp(a, at)
      /\ i.op = "CALL" => EncodeTransfer(i, at) = EncodeCall(a, at)
      /\ i.op = "JMP_FAR" => EncodeTransfer(i, at) = EncodeFar(\hEA, 5, a)
  BY TransfersAre DEF EncodeTransfer
<1>5. /\ i.op = "CALL_FAR" => EncodeTransfer(i, at) = EncodeFar(\h9A, 3, a)
      /\ i.op = "RET" => EncodeTransfer(i, at) = EncodeReturn(\hC2, i.argv)
      /\ i.op = "RETF" => EncodeTransfer(i, at) = EncodeReturn(\hCA, i.argv)
  BY TransfersAre DEF EncodeTransfer
<1> HIDE DEF a
<1>6. QED
  BY <1>1, <1>2, <1>3, <1>4, <1>5 DEF a, Transfers, FarOps

(* The instructions without operands are as long as they were.             *)
LEMMA OneByteStands ==
    ASSUME NEW op \in DOMAIN OneByteCode
    PROVE  OneByteCode[op] \in Singles
  BY DEF OneByteCode, Singles

-----------------------------------------------------------------------------
(* The rows of the opcode map: what is encoded of what is decoded.         *)

(* The fields of a decode whose opcode is followed by the byte x.          *)
Fields(d, x) ==
    /\ d.lead \in Byte /\ d.lead \notin Plain /\ x \in Byte
    /\ d.op = OutcomeOf(d.lead, x)
    /\ TakesModRM(d.lead, x) => Addressed(d, x)
    /\ ~TakesModRM(d.lead, x) => d.rm = NoByte
    /\ d.lead \in FPUEscapes => d.fpu = x
    /\ Len(d.args) = Len(OperandWidths(d.lead, x))
    /\ \A k \in 1 .. Len(OperandWidths(d.lead, x)) : d.args[k] \in Int
    /\ d.len \in Nat

(* Instruction i is what the switch makes of the fields d.                 *)
Made(i, d, at) == i.op = Case(d, at)[1] /\ i.argv = Case(d, at)[2]

LEMMA CaseRows ==
    ASSUME NEW d, NEW at, d.lead \in Byte, d.op # "UD_NOP",
           d.op = "OK" => d.lead \notin DOMAIN PlainOneByte \cup FPUEscapes
    PROVE  Case(d, at) = IF d.lead < \h40 THEN Rows0to3(d)
                         ELSE IF d.lead < \h80 THEN Rows4to7(d, at)
                         ELSE IF d.lead < \h90 THEN Row8(d)
                         ELSE IF d.lead < \hC0 THEN Rows9toB(d)
                         ELSE IF d.lead < \hE0 THEN RowsCtoD(d)
                         ELSE IF d.lead < \hF0 THEN RowE(d, at) ELSE RowF(d)
<1> DEFINE b == d.lead
           rest == CASE b < \h40           -> Rows0to3(d)
                        [] b \in \h40 .. \h7F -> Rows4to7(d, at)
                        [] b \in \h80 .. \h8F -> Row8(d)
                        [] b \in \h90 .. \hBF -> Rows9toB(d)
                        [] b \in \hC0 .. \hDF -> RowsCtoD(d)
                        [] b \in \hE0 .. \hEF -> RowE(d, at)
                        [] b \in \hF0 .. \hFF -> RowF(d)
<1>1. Case(d, at) = rest
  BY DEF Case
<1>2. b \in Int /\ 0 <= b /\ b <= 255
  BY DEF Byte
<1> HIDE DEF b
<1>3. rest = IF b < \h40 THEN Rows0to3(d)
                         ELSE IF b < \h80 THEN Rows4to7(d, at)
                         ELSE IF b < \h90 THEN Row8(d)
                         ELSE IF b < \hC0 THEN Rows9toB(d)
                         ELSE IF b < \hE0 THEN RowsCtoD(d)
                         ELSE IF b < \hF0 THEN RowE(d, at) ELSE RowF(d)
  BY <1>2
<1> HIDE DEF rest
<1>4. QED
  BY <1>1, <1>3 DEF b

LEMMA PlainBytes ==
    /\ DOMAIN PlainOneByte \cap (ModRMOpcodes \cup PeekOpcodes \cup FPUEscapes) = {}
    /\ DOMAIN PlainOneByte \subseteq Singles
<1>1. DOMAIN PlainOneByte = {\h27, \h2F, \h37, \h3F, \h90, \hC3, \hCB} \cup \h98 .. \h99 \cup \h9B .. \h9F
           \cup \hCE .. \hCF \cup \hD6 .. \hD7 \cup \hF4 .. \hF5 \cup \hF8 .. \hFD
  BY DEF PlainOneByte
<1>2. DOMAIN PlainOneByte \subseteq Singles
  BY <1>1 DEF Singles
<1>3. \A b \in Singles : b \notin FPUEscapes \cup PeekOpcodes \cup ModRMOpcodes
  BY BareOpcodes DEF Bare
<1>4. QED
  BY <1>2, <1>3

(* The fields of an opcode with a ModR/M byte.                             *)
LEMMA ModRMFields ==
    ASSUME NEW d, NEW x, Fields(d, x), TakesModRM(d.lead, x)
    PROVE  /\ \A w : IsOperand(RM(d, w), x, w) /\ IsRegister(RMReg(d, w), w)
           /\ InsSize(d.lead, x) = 2 + Size(Displacement(x)) + Size(ImmAfterRM(d.lead, x))
           /\ d.rm = x /\ Reg(x) \in 0 .. 7 /\ Size(Displacement(x)) \in 0 .. 2
           /\ ImmAfterRM(d.lead, x) # << >> => RMImm(d) \in Int
           /\ d.lead \notin DOMAIN PlainOneByte /\ d.lead \in Byte
<1>1. Addressed(d, x) /\ d.rm = x /\ x \in Byte
  BY DEF Fields, Addressed
<1>2. ASSUME NEW w PROVE IsOperand(RM(d, w), x, w) /\ IsRegister(RMReg(d, w), w)
  <2>1. IsOperand(RM(d, w), x, w)
    BY <1>1, OperandIs
  <2>2. RMReg(d, w) = RegArg(Reg(x), w)
    BY <1>1 DEF RMReg
  <2>3. Reg(x) \in 0 .. 7
    BY <1>1, FieldsAre
  <2>4. IsRegister(RegArg(Reg(x), w), w)
    BY <2>3 DEF IsRegister, RegArg
  <2>5. QED
    BY <2>1, <2>2, <2>4
<1>3. InsSize(d.lead, x) = 2 + Size(Displacement(x)) + Size(ImmAfterRM(d.lead, x))
  BY ModRMSize
<1>4. d.lead \notin DOMAIN PlainOneByte
  BY PlainBytes DEF TakesModRM
<1>5. Size(Displacement(x)) \in 0 .. 2
  BY DisplacementSize
<1>6. ASSUME ImmAfterRM(d.lead, x) # << >> PROVE RMImm(d) \in Int
  <2>1. OperandWidths(d.lead, x) = Displacement(x) \o ImmAfterRM(d.lead, x)
    BY DEF OperandWidths
  <2>2. Displacement(x) \in {<< >>, <<1>>, <<2>>} /\ ImmAfterRM(d.lead, x) \in {<<1>>, <<2>>}
    BY <1>6, Shorts
  <2>3. Len(OperandWidths(d.lead, x)) \in 1 .. 2
    <3>1. /\ Len(<< >> \o <<1>>) = 1 /\ Len(<< >> \o <<2>>) = 1
          /\ Len(<<1>> \o <<1>>) = 2 /\ Len(<<1>> \o <<2>>) = 2
          /\ Len(<<2>> \o <<1>>) = 2 /\ Len(<<2>> \o <<2>>) = 2
      OBVIOUS
    <3>2. QED
      BY <2>1, <2>2, <3>1
  <2>4. Len(d.args) = Len(OperandWidths(d.lead, x))
        /\ \A k \in 1 .. Len(OperandWidths(d.lead, x)) : d.args[k] \in Int
    BY DEF Fields
  <2> DEFINE l == Len(OperandWidths(d.lead, x))
  <2>5. Len(d.args) = l /\ l \in 1 .. 2
    BY <2>3, <2>4
  <2> HIDE DEF l
  <2>7. Len(d.args) \in 1 .. l
    BY <2>5
  <2>6. QED
    BY <2>4, <2>7 DEF RMImm, l
<1>7. QED
  BY <1>1, <1>2, <1>3, <1>4, <1>5, <1>6, FieldsAre DEF Fields

LEMMA GroupFields ==
    ASSUME NEW d, NEW x, Fields(d, x), d.lead \in ModRMOpcodes
    PROVE  TakesModRM(d.lead, x) /\ d.op = GroupOutcome(d.lead, x) /\ d.lead \notin FPUEscapes
  BY Kinds DEF TakesModRM, OutcomeOf, Fields

LEMMA FreelyOK ==
    ASSUME NEW d, NEW x, Fields(d, x), d.lead \in Freely, d.lead \notin {\hF6, \hF7}
    PROVE  /\ d.op = "OK" /\ d.lead \in ModRMOpcodes /\ TakesModRM(d.lead, x)
           /\ d.lead \notin FPUEscapes
<1>1. d.lead \in ModRMOpcodes
  BY DEF Freely
<1>2. GroupOutcome(d.lead, x) = "OK"
  BY <1>1, Kinds DEF GroupOutcome, Freely, PeekOpcodes
<1>3. QED
  BY <1>1, <1>2, GroupFields

(* ADD to CMP with a ModR/M byte.                                          *)
LEMMA RowAlu ==
    ASSUME NEW d, NEW x, Fields(d, x), d.lead < \h40, d.lead % 8 < 4,
           NEW i, NEW at, Made(i, d, at)
    PROVE  Short(EncodeCase(i, at), InsSize(d.lead, x)) /\ i.op \in AluOps
<1> DEFINE b == d.lead
           n == (b \div 8) + 1
           w == WidthOf(b)
           rm == RM(d, w)
           reg == RMReg(d, w)
<1>1. b \in 0 .. \h3F /\ b \in AluRM
  <2>1. b \in 0 .. 255 /\ b < \h40 /\ b % 8 < 4
    BY DEF Fields, Byte
  <2> HIDE DEF b
  <2>2. QED
    BY <2>1 DEF AluRM
<1>2. b \in Freely /\ b \notin {\hF6, \hF7}
  <2>1. b \in Freely
    BY <1>1, AluIsFree
  <2> HIDE DEF b
  <2>2. QED
    BY <1>1, <2>1
<1>3. d.op = "OK" /\ TakesModRM(b, x) /\ b \notin FPUEscapes /\ b \in Byte
  <2>1. d.op = "OK" /\ TakesModRM(b, x) /\ b \notin FPUEscapes
    BY <1>2, FreelyOK
  <2>2. b \in Byte
    BY DEF Fields
  <2>3. QED
    BY <2>1, <2>2
<1>4. /\ IsOperand(rm, x, w) /\ IsRegister(reg, w)
      /\ InsSize(b, x) = 2 + Size(Displacement(x)) + Size(ImmAfterRM(b, x))
      /\ b \notin DOMAIN PlainOneByte /\ Size(Displacement(x)) \in 0 .. 2
  BY <1>3, ModRMFields
<1>5. Case(d, at) = Rows0to3(d)
  BY <1>3, <1>4, CaseRows
<1>6. n \in 1 .. 8 /\ w \in {1, 2}
  BY <1>1 DEF WidthOf
<1>7. Rows0to3(d) = <<Alu[n], Ordered(b, rm, reg)>>
  <2>1. b % 8 \notin {4, 5, 6, 7} /\ b % 8 < 4
    BY <1>1
  <2>2. QED
    BY <2>1 DEF Rows0to3
<1>8. Alu[n] \in AluOps
  BY <1>6 DEF Alu, AluOps
<1>9. ImmAfterRM(b, x) = << >>
  BY <1>1, ImmediateWidths
<1> HIDE DEF b, n, w, rm, reg
<1>10. i.op = Alu[n] /\ i.argv = Ordered(b, rm, reg)
  BY <1>5, <1>7 DEF Made
<1>11. /\ EncodeCase(i, at) = EncodeAlu(Index(Alu, i.op), i.argv[1], i.argv[2])
       /\ Index(Alu, i.op) \in 0 .. 7
  BY <1>8, <1>10, AluDispatch
<1>12. \/ i.argv[1] = rm /\ i.argv[2] = reg
       \/ i.argv[1] = reg /\ i.argv[2] = rm
  BY <1>10 DEF Ordered
<1>13. Short(EncodeCase(i, at), 2 + Size(Displacement(x)))
  BY <1>4, <1>6, <1>11, <1>12, AluRegister
<1>14. InsSize(b, x) = 2 + Size(Displacement(x))
  BY <1>4, <1>9, WidthSizes
<1>15. QED
  BY <1>8, <1>10, <1>13, <1>14 DEF b

(* What is encoded of i stands in no more bytes than size; no 0x9B belongs *)
(* before it.                                                              *)
Fits(i, at, size) == Short(EncodeCase(i, at), size) /\ i.op \notin Waiting

(* The fields of an opcode without a ModR/M byte.                          *)
LEMMA BareFields ==
    ASSUME NEW d, NEW x, Fields(d, x),
           d.lead \notin Absent \cup FPUEscapes \cup PeekOpcodes \cup ModRMOpcodes
    PROVE  /\ d.op = "OK" /\ d.lead \in Byte
           /\ InsSize(d.lead, x) = 1 + Size(Immediates(d.lead))
           /\ Immediates(d.lead) # << >> => d.args[1] \in Int
           /\ Immediates(d.lead) = <<2, 2>> => d.args[2] \in Int
<1> DEFINE w == Immediates(d.lead)
<1>1. d.op = OutcomeOf(d.lead, x) /\ d.lead \in Byte
  BY DEF Fields
<1>2. OutcomeOf(d.lead, x) = "OK"
  BY DEF OutcomeOf
<1>3. InsSize(d.lead, x) = 1 + Size(w)
  BY PlainSize
<1>4. OperandWidths(d.lead, x) = w
  BY DEF OperandWidths, TakesModRM
<1>5. \A k \in 1 .. Len(w) : d.args[k] \in Int
  BY <1>4 DEF Fields
<1> HIDE DEF w
<1>6. Len(w) \in 0 .. 2 /\ (w = << >> <=> Len(w) = 0)
  BY <1>4, FewOperands, FewSizes
<1>7. w # << >> => d.args[1] \in Int
  BY <1>5, <1>6
<1>8. w = <<2, 2>> => d.args[2] \in Int
  <2>1. Len(<<2, 2>>) = 2
    OBVIOUS
  <2>2. QED
    BY <1>5, <2>1
<1>9. QED
  BY <1>1, <1>2, <1>3, <1>7, <1>8 DEF w

LEMMA BareFieldsAre ==
    ASSUME NEW d, NEW x, Fields(d, x), d.lead \in Bare
    PROVE  /\ d.op = "OK" /\ d.lead \in Byte /\ d.lead \notin FPUEscapes
           /\ d.lead \in Singles => InsSize(d.lead, x) = 1
           /\ d.lead \in WithByte => InsSize(d.lead, x) = 2 /\ d.args[1] \in Int
           /\ d.lead \in WithWord => InsSize(d.lead, x) = 3 /\ d.args[1] \in Int
           /\ d.lead \in WithFar => InsSize(d.lead, x) = 5 /\ d.args[1] \in Int /\ d.args[2] \in Int
<1>1. d.lead \notin Absent \cup FPUEscapes \cup PeekOpcodes \cup ModRMOpcodes
  BY BareOpcodes
<1>2. /\ d.op = "OK" /\ d.lead \in Byte
      /\ InsSize(d.lead, x) = 1 + Size(Immediates(d.lead))
      /\ Immediates(d.lead) # << >> => d.args[1] \in Int
      /\ Immediates(d.lead) = <<2, 2>> => d.args[2] \in Int
  BY <1>1, BareFields
<1>3. <<1>> # << >> /\ <<2>> # << >> /\ <<2, 2>> # << >>
  OBVIOUS
<1>4. d.lead \in Singles => InsSize(d.lead, x) = 1
  BY <1>2, BareWidths, WidthSizes
<1>5. d.lead \in WithByte => InsSize(d.lead, x) = 2 /\ d.args[1] \in Int
  BY <1>2, <1>3, BareWidths, WidthSizes
<1>6. d.lead \in WithWord => InsSize(d.lead, x) = 3 /\ d.args[1] \in Int
  BY <1>2, <1>3, BareWidths, WidthSizes
<1>7. d.lead \in WithFar => InsSize(d.lead, x) = 5 /\ d.args[1] \in Int /\ d.args[2] \in Int
  BY <1>2, <1>3, BareWidths, WidthSizes
<1>8. QED
  BY <1>1, <1>2, <1>4, <1>5, <1>6, <1>7

LEMMA RegArgIs ==
    ASSUME NEW r \in 0 .. 7, NEW w
    PROVE  IsRegister(RegArg(r, w), w) /\ RegArg(r, w).reg = r /\ RegArg(r, w).kind = "reg"
  BY DEF IsRegister, RegArg

LEMMA ImmArgIs ==
    ASSUME NEW v, NEW w
    PROVE  ImmArg(v, w).kind = "imm" /\ ImmArg(v, w).value = v
  BY DEF ImmArg

(* ADD to CMP with the accumulator and a number.                           *)
LEMMA RowAluNumber ==
    ASSUME NEW d, NEW x, Fields(d, x), d.lead < \h40, d.lead % 8 \in {4, 5},
           NEW i, NEW at, Made(i, d, at)
    PROVE  Fits(i, at, InsSize(d.lead, x))
<1> DEFINE b == d.lead
           n == b \div 8
           k == (b % 8) - 4
           w == WidthOf(b)
           acc == RegArg(AX, w)
           num == ImmArg(d.args[1], w)
<1>1. b \in 0 .. \h3F /\ n \in 0 .. 7 /\ k \in 0 .. 1 /\ b = 8 * n + 4 + k
  <2>1. b \in 0 .. 255
    BY DEF Fields, Byte
  <2> HIDE DEF b
  <2>2. QED
    BY <2>1 DEF b
<1>2. w \in {1, 2} /\ w = 1 + k
  BY <1>1 DEF WidthOf
<1> HIDE DEF n, k, w
<1>3. /\ b \notin Absent \cup FPUEscapes \cup PeekOpcodes \cup ModRMOpcodes \cup {WaitOpcode}
      /\ Size(Immediates(b)) = w
  BY ZenonT(60), <1>1, <1>2, AluOpcodes
<1>4. Immediates(b) # << >>
  BY <1>2, <1>3, WidthSizes
<1>5. d.op = "OK" /\ InsSize(b, x) = 1 + w /\ d.args[1] \in Int
  BY <1>3, <1>4, BareFields
<1>6. b \notin DOMAIN PlainOneByte
  BY <1>1 DEF PlainOneByte
<1>7. Case(d, at) = Rows0to3(d)
  BY <1>1, <1>3, <1>5, <1>6, CaseRows DEF Fields
<1>8. Rows0to3(d) = <<Alu[n + 1], <<acc, num>> >>
  <2>1. b % 8 \in {4, 5} /\ ~(b % 8 < 4) /\ b % 8 # 6 /\ b % 8 # 7
    BY <1>1
  <2>2. QED
    BY <2>1 DEF Rows0to3, n, w
<1>9. Alu[n + 1] \in AluOps
  BY <1>1 DEF Alu, AluOps
<1>10. i.op = Alu[n + 1] /\ i.argv[1] = acc /\ i.argv[2] = num
  BY <1>7, <1>8 DEF Made
<1>11. /\ EncodeCase(i, at) = EncodeAlu(Index(Alu, i.op), acc, num)
       /\ Index(Alu, i.op) \in 0 .. 7
  BY <1>9, <1>10, AluDispatch
<1>12. IsRegister(acc, w) /\ acc.reg = AX /\ acc.kind = "reg" /\ num.kind = "imm" /\ num.value \in Int
  BY <1>5, RegArgIs, ImmArgIs DEF AX
<1> HIDE DEF acc, num, b
<1>13. IsOperand(acc, 192 + acc.reg, w) /\ Size(Displacement(192 + acc.reg)) = 0 /\ Accumulator(acc)
  BY <1>12, RegisterAsOperand DEF Accumulator, IsReg
<1>14. /\ Short(EncodeCase(i, at), IF Shorthand(acc, num.value) THEN 3 + 0
                                   ELSE IF Accumulator(acc) THEN 1 + w ELSE 2 + 0 + w)
       /\ Shorthand(acc, num.value) => w = 2
  BY <1>2, <1>11, <1>12, <1>13, AluNumber
<1>15. Short(EncodeCase(i, at), 1 + w)
  BY <1>13, <1>14
<1>16. i.op \notin Waiting
  BY <1>9, <1>10 DEF AluOps, Waiting
<1>17. QED
  BY <1>5, <1>15, <1>16 DEF Fits, b

(* PUSH and POP of a segment register.                                     *)
LEMMA RowSegment ==
    ASSUME NEW d, NEW x, Fields(d, x), d.lead \in {\h06, \h07, \h0E, \h0F, \h16, \h17, \h1E, \h1F},
           NEW i, NEW at, Made(i, d, at)
    PROVE  Fits(i, at, InsSize(d.lead, x))
<1> DEFINE b == d.lead
           n == b \div 8
<1>1. b \in Singles /\ b \in Bare /\ n \in 0 .. 3 /\ b % 8 \in {6, 7} /\ b < \h40
  BY DEF Singles, Bare
<1>2. d.op = "OK" /\ b \in Byte /\ InsSize(b, x) = 1 /\ b \notin FPUEscapes
  BY <1>1, BareFieldsAre
<1>3. b \notin DOMAIN PlainOneByte
  BY DEF PlainOneByte
<1>4. Case(d, at) = Rows0to3(d)
  BY <1>1, <1>2, <1>3, CaseRows
<1>5. /\ b % 8 = 6 => Rows0to3(d) = <<"PUSH", <<SRegArg(n)>> >>
      /\ b % 8 = 7 => Rows0to3(d) = <<"POP", <<SRegArg(n)>> >>
  <2>1. n + 1 - 1 = n
    BY <1>1
  <2> DEFINE c == SRegArg(n + 1 - 1)
  <2>2. c = SRegArg(n)
    BY <2>1
  <2> HIDE DEF c
  <2>3. /\ b % 8 = 6 => Rows0to3(d) = <<"PUSH", <<c>> >>
        /\ b % 8 = 7 => Rows0to3(d) = <<"POP", <<c>> >>
    BY DEF Rows0to3, c
  <2>4. QED
    BY <2>2, <2>3
<1> HIDE DEF b, n
<1>6. CASE b % 8 = 6
  <2>1. i.op = "PUSH" /\ i.argv[1] = SRegArg(n)
    BY <1>4, <1>5, <1>6 DEF Made
  <2>2. EncodeCase(i, at) = EncodePush(SRegArg(n))
    BY <2>1, CaseDispatch
  <2>3. QED
    BY <1>1, <1>2, <2>1, <2>2, SegmentStack DEF Fits, Waiting, b
<1>7. CASE b % 8 = 7
  <2>1. i.op = "POP" /\ i.argv[1] = SRegArg(n)
    BY <1>4, <1>5, <1>7 DEF Made
  <2>2. EncodeCase(i, at) = EncodePop(SRegArg(n))
    BY <2>1, CaseDispatch
  <2>3. QED
    BY <1>1, <1>2, <2>1, <2>2, SegmentStack DEF Fits, Waiting, b
<1>8. QED
  BY <1>1, <1>6, <1>7

(* What a row of the opcode map comes to.  A short jump that is out of     *)
(* reach without its prefixes has a byte more, which is where they were.   *)
Fine(i, at, size) ==
    /\ EncodeCase(i, at) \in Seq(Byte)
    /\ \/ Wraps(i, at) \/ Outreaches(i, at)
       \/ Short(EncodeCase(i, at), size)
       \/ i.op = "JMP" /\ IsImm(i.argv[1]) /\ Short(EncodeCase(i, at), i.len)
    /\ i.op \in Waiting /\ EncodeCase(i, at) # << >> => EncodeCase(i, at)[1] \in FPUEscapes

LEMMA FitsIsFine == ASSUME NEW i, NEW at, NEW size, Fits(i, at, size) PROVE Fine(i, at, size)
<1>1. EncodeCase(i, at) = << >> \/ Stands(EncodeCase(i, at))
  BY DEF Fits, Short
<1>2. CASE EncodeCase(i, at) = << >>
  BY <1>2 DEF Fits, Fine
<1>3. CASE Stands(EncodeCase(i, at))
  BY <1>3 DEF Fits, Fine, Stands
<1>4. QED
  BY <1>1, <1>2, <1>3

LEMMA SignedByte ==
    ASSUME NEW v \in Int
    PROVE  Signed(v, 8) \in Int /\ -128 <= Signed(v, 8) /\ Signed(v, 8) < 128
<1> DEFINE m == v % 256
<1>1. m \in 0 .. 255
  OBVIOUS
<1>2. Signed(v, 8) = IF m >= 128 THEN m - 256 ELSE m
  <2>1. 2 ^ 8 = 256 /\ 2 ^ (8 - 1) = 128
    OBVIOUS
  <2>2. QED
    BY <2>1 DEF Signed
<1> HIDE DEF m
<1>3. QED
  BY <1>1, <1>2

(* INC, DEC, PUSH and POP of a word register.                              *)
LEMMA Row4to5 ==
    ASSUME NEW d, NEW x, Fields(d, x), d.lead \in \h40 .. \h5F, NEW i, NEW at, Made(i, d, at)
    PROVE  Fits(i, at, InsSize(d.lead, x))
<1> DEFINE b == d.lead
           a == RegArg(b % 8, 2)
<1>1. b \in Singles /\ b \in Bare
  BY DEF Singles, Bare
<1>2. d.op = "OK" /\ b \in Byte /\ InsSize(b, x) = 1 /\ b \notin FPUEscapes
  BY <1>1, BareFieldsAre
<1>3. b \notin DOMAIN PlainOneByte
  BY DEF PlainOneByte
<1>4. Case(d, at) = Rows4to7(d, at)
  BY <1>2, <1>3, CaseRows
<1>5. IsRegister(a, 2) /\ a.kind = "reg"
  <2>1. b % 8 \in 0 .. 7
    OBVIOUS
  <2> HIDE DEF b
  <2>2. QED
    BY <2>1, RegArgIs
<1>6. IsOperand(a, 192 + a.reg, 2) /\ 2 \in {1, 2}
  BY <1>5, RegisterAsOperand
<1>7. /\ b \in \h40 .. \h47 => Rows4to7(d, at) = <<"INC", <<a>> >>
      /\ b \in \h48 .. \h4F => Rows4to7(d, at) = <<"DEC", <<a>> >>
      /\ b \in \h50 .. \h57 => Rows4to7(d, at) = <<"PUSH", <<a>> >>
      /\ b \in \h58 .. \h5F => Rows4to7(d, at) = <<"POP", <<a>> >>
  <2>1. b \in \h40 .. \h47 => Rows4to7(d, at) = <<"INC", <<a>> >>
    BY DEF Rows4to7
  <2>2. b \in \h48 .. \h4F => Rows4to7(d, at) = <<"DEC", <<a>> >>
    BY DEF Rows4to7
  <2>3. b \in \h50 .. \h57 => Rows4to7(d, at) = <<"PUSH", <<a>> >>
    BY DEF Rows4to7
  <2>4. b \in \h58 .. \h5F => Rows4to7(d, at) = <<"POP", <<a>> >>
    BY DEF Rows4to7
  <2>5. QED
    BY <2>1, <2>2, <2>3, <2>4
<1>8. \/ b \in \h40 .. \h47 \/ b \in \h48 .. \h4F \/ b \in \h50 .. \h57 \/ b \in \h58 .. \h5F
  OBVIOUS
<1> HIDE DEF b, a
<1>9. /\ i.argv[1] = a
      /\ \/ i.op = "INC" \/ i.op = "DEC" \/ i.op = "PUSH" \/ i.op = "POP"
  BY <1>4, <1>7, <1>8 DEF Made
<1>10. /\ Short(EncodeIncDec(0, a), 1) /\ Short(EncodeIncDec(1, a), 1)
       /\ Short(EncodePush(a), 1) /\ Short(EncodePop(a), 1)
  BY <1>5, <1>6, IncDecStands, StackStands
<1>11. Short(EncodeCase(i, at), 1)
  BY <1>9, <1>10, CaseDispatch
<1>12. QED
  BY <1>2, <1>9, <1>11 DEF Fits, Waiting, b

(* The conditional jumps.                                                  *)
LEMMA Row7 ==
    ASSUME NEW d, NEW x, Fields(d, x), d.lead \in \h70 .. \h7F, NEW i, NEW at \in Nat, Made(i, d, at)
    PROVE  Fine(i, at, InsSize(d.lead, x))
<1> DEFINE b == d.lead
           v == at + d.len + Signed(d.args[1], 8)
<1>1. b \in WithByte /\ b \in Bare
  BY DEF WithByte, Bare
<1>2. d.op = "OK" /\ b \in Byte /\ InsSize(b, x) = 2 /\ b \notin FPUEscapes /\ d.args[1] \in Int
  BY <1>1, BareFieldsAre
<1>3. b \notin DOMAIN PlainOneByte
  BY DEF PlainOneByte
<1>4. Case(d, at) = Rows4to7(d, at)
  BY <1>2, <1>3, CaseRows
<1>5. Rows4to7(d, at) = <<Jcc[(b % 16) + 1], <<ImmArg(v, 2)>> >>
  BY DEF Rows4to7, ShortTarget
<1>6. v \in Int
  <2>1. d.len \in Nat
    BY DEF Fields
  <2>2. Signed(d.args[1], 8) \in Int
    BY <1>2, SignedByte
  <2>3. QED
    BY <2>1, <2>2
<1>7. In(Jcc, Jcc[(b % 16) + 1]) /\ Jcc[(b % 16) + 1] \notin Waiting
  <2>1. (b % 16) + 1 \in 1 .. 16
    OBVIOUS
  <2> HIDE DEF b
  <2>2. QED
    BY <2>1 DEF In, Jcc, Waiting
<1> HIDE DEF b, v
<1>8. i.op = Jcc[(b % 16) + 1] /\ i.argv[1] = ImmArg(v, 2)
  BY <1>4, <1>5 DEF Made
<1>9. i.argv[1].value = v
  BY <1>8, ImmArgIs
<1>10. EncodeCase(i, at) = EncodeJcc(Index(Jcc, i.op), v - at) /\ Index(Jcc, i.op) \in 0 .. 15
  BY <1>7, <1>8, <1>9, TransferDispatch
<1>11. v - at \in Int
  BY <1>6
<1>12. /\ EncodeCase(i, at) \in Seq(Byte)
       /\ InByte(v - at - 2) => Short(EncodeCase(i, at), 2)
  BY <1>10, <1>11, JccStands
<1>13. ~InByte(v - at - 2) => Outreaches(i, at)
  BY <1>7, <1>8, <1>9 DEF Outreaches
<1>14. QED
  BY <1>2, <1>7, <1>8, <1>12, <1>13 DEF Fine, b

-----------------------------------------------------------------------------
(* Row 8.                                                                  *)

LEMMA Row8Is ==
    ASSUME NEW d, NEW x, Fields(d, x), d.lead \in \h80 .. \h8E, NEW at
    PROVE  /\ Case(d, at) = Row8(d) /\ TakesModRM(d.lead, x) /\ WidthOf(d.lead) \in {1, 2}
           /\ \A w : IsOperand(RM(d, w), x, w) /\ IsRegister(RMReg(d, w), w)
           /\ InsSize(d.lead, x) = 2 + Size(Displacement(x)) + Size(ImmAfterRM(d.lead, x))
           /\ d.rm = x /\ Reg(x) \in 0 .. 7 /\ Size(Displacement(x)) \in 0 .. 2
           /\ ImmAfterRM(d.lead, x) # << >> => RMImm(d) \in Int
<1>1. d.lead \in Freely /\ d.lead \notin {\hF6, \hF7}
  BY DEF Freely, ModRMOpcodes, ModRMRow8, ShiftOpcodes
<1>2. d.op = "OK" /\ d.lead \in ModRMOpcodes /\ TakesModRM(d.lead, x) /\ d.lead \notin FPUEscapes
  BY <1>1, FreelyOK
<1>3. d.lead \notin DOMAIN PlainOneByte
  BY <1>2, PlainBytes
<1>4. Case(d, at) = Row8(d)
  <2>1. d.lead \in Byte
    BY DEF Fields
  <2>2. d.op # "UD_NOP" /\ d.lead \notin DOMAIN PlainOneByte \cup FPUEscapes
    BY <1>2, <1>3
  <2>3. ~(d.lead < \h40) /\ ~(d.lead < \h80) /\ d.lead < \h90
    OBVIOUS
  <2>4. QED
    BY <2>1, <2>2, <2>3, CaseRows
<1>5. WidthOf(d.lead) \in {1, 2}
  BY DEF WidthOf
<1>6. QED
  BY <1>2, <1>4, <1>5, ModRMFields

LEMMA Row80 ==
    ASSUME NEW d, NEW x, Fields(d, x), d.lead \in \h80 .. \h83, NEW i, NEW at, Made(i, d, at)
    PROVE  Fits(i, at, InsSize(d.lead, x))
<1> DEFINE b == d.lead
           w == WidthOf(b)
           a == RM(d, w)
           v == IF b = \h83 THEN Signed(RMImm(d), 8) ELSE RMImm(d)
           s == Size(Displacement(x))
<1>1. /\ Case(d, at) = Row8(d) /\ w \in {1, 2} /\ IsOperand(a, x, w)
      /\ InsSize(b, x) = 2 + s + Size(ImmAfterRM(b, x))
      /\ d.rm = x /\ Reg(x) \in 0 .. 7 /\ s \in 0 .. 2
      /\ ImmAfterRM(b, x) # << >> => RMImm(d) \in Int
  BY Row8Is
<1>2. /\ b = \h81 => ImmAfterRM(b, x) = <<2>>
      /\ b # \h81 => ImmAfterRM(b, x) = <<1>>
  BY ImmediateWidths
<1>3. RMImm(d) \in Int /\ InsSize(b, x) = 2 + s + (IF b = \h81 THEN 2 ELSE 1)
  <2>1. <<1>> # << >> /\ <<2>> # << >>
    OBVIOUS
  <2>2. QED
    BY <1>1, <1>2, <2>1, WidthSizes
<1>4. (b \in {\h81, \h83} => w = 2) /\ (b \in {\h80, \h82} => w = 1)
  BY DEF WidthOf
<1>5. v \in Int /\ (b = \h83 => v < \h80)
  BY <1>3, SignedByte
<1>6. Row8(d) = <<Alu[Reg(x) + 1], <<a, ImmArg(v, w)>> >>
  <2>1. CASE b \in \h80 .. \h82
    <3>1. Row8(d) = <<Alu[Reg(d.rm) + 1], <<RM(d, w), ImmArg(RMImm(d), w)>> >>
      BY <2>1 DEF Row8
    <3>2. v = RMImm(d)
      BY <2>1
    <3>3. QED
      BY <1>1, <3>1, <3>2
  <2>2. CASE b = \h83
    BY <1>1, <1>4, <2>2 DEF Row8
  <2>3. QED
    BY <2>1, <2>2
<1>7. Alu[Reg(x) + 1] \in AluOps
  BY <1>1 DEF Alu, AluOps
<1>8. b \in \h80 .. \h83
  OBVIOUS
<1> HIDE DEF b, w, a, v, s
<1>9. i.op = Alu[Reg(x) + 1] /\ i.argv[1] = a /\ i.argv[2] = ImmArg(v, w)
  BY <1>1, <1>6 DEF Made
<1> DEFINE num == ImmArg(v, w)
<1>10. num.kind = "imm" /\ num.value = v
  BY ImmArgIs
<1>11. EncodeCase(i, at) = EncodeAlu(Index(Alu, i.op), a, num) /\ Index(Alu, i.op) \in 0 .. 7
  BY <1>7, <1>9, AluDispatch
<1> HIDE DEF num
<1>12. /\ Short(EncodeCase(i, at), IF Shorthand(a, v) THEN 3 + s
                                   ELSE IF Accumulator(a) THEN 1 + w ELSE 2 + s + w)
       /\ Shorthand(a, v) => w = 2
  BY <1>1, <1>5, <1>10, <1>11, AluNumber DEF s
<1>13. b = \h83 => Shorthand(a, v)
  BY <1>1, <1>4, <1>5 DEF Shorthand, IsOperand
<1>14. Short(EncodeCase(i, at), InsSize(b, x))
  <2>1. CASE Shorthand(a, v)
    <3>1. Short(EncodeCase(i, at), 3 + s) /\ w = 2
      BY <1>12, <2>1
    <3>2. b \in {\h81, \h83}
      BY <1>4, <1>8, <3>1
    <3>3. 3 + s <= InsSize(b, x) /\ InsSize(b, x) \in Int
      BY <1>1, <1>3, <3>2
    <3>4. QED
      BY <1>1, <3>1, <3>3, MoreRoom
  <2>2. CASE ~Shorthand(a, v)
    <3>1. b # \h83 /\ InsSize(b, x) = 2 + s + w
      BY <1>3, <1>4, <1>8, <1>13, <2>2
    <3>2. Short(EncodeCase(i, at), 1 + w) \/ Short(EncodeCase(i, at), 2 + s + w)
      BY <1>12, <2>2
    <3>3. 1 + w <= 2 + s + w /\ 1 + w \in Int /\ 2 + s + w \in Int
      BY <1>1
    <3>4. QED
      BY <3>1, <3>2, <3>3, MoreRoom
  <2>3. QED
    BY <2>1, <2>2
<1>15. i.op \notin Waiting
  BY <1>7, <1>9 DEF AluOps, Waiting
<1>16. QED
  BY <1>14, <1>15 DEF Fits, b

LEMMA Row84 ==
    ASSUME NEW d, NEW x, Fields(d, x), d.lead \in \h84 .. \h8B, NEW i, NEW at, Made(i, d, at)
    PROVE  Fits(i, at, InsSize(d.lead, x))
<1> DEFINE b == d.lead
           w == WidthOf(b)
           a == RM(d, w)
           r == RMReg(d, w)
<1>1. /\ Case(d, at) = Row8(d) /\ w \in {1, 2} /\ IsOperand(a, x, w) /\ IsRegister(r, w)
      /\ InsSize(b, x) = 2 + Size(Displacement(x)) + Size(ImmAfterRM(b, x))
      /\ Size(Displacement(x)) \in 0 .. 2
  BY Row8Is
<1>2. ImmAfterRM(b, x) = << >>
  <2>1. b \in \h84 .. \h8B
    OBVIOUS
  <2> HIDE DEF b
  <2>2. b \notin \h80 .. \h83 \cup {\hC0, \hC1, \hC6, \hC7, \hF6, \hF7}
    BY <2>1
  <2>3. QED
    BY <2>2, ImmediateWidths
<1>3. InsSize(b, x) = 2 + Size(Displacement(x))
  BY <1>1, <1>2, WidthSizes
<1>4. /\ b \in \h84 .. \h85 => Row8(d) = <<"TEST", <<a, r>> >>
      /\ b \in \h86 .. \h87 => Row8(d) = <<"XCHG", <<a, r>> >>
      /\ b \in \h88 .. \h8B => Row8(d) = <<"MOV", Ordered(b, a, r)>>
  BY DEF Row8
<1>5. b \in \h84 .. \h85 \/ b \in \h86 .. \h87 \/ b \in \h88 .. \h8B
  OBVIOUS
<1> HIDE DEF b, w, a, r
<1>6. Ordered(b, a, r) \in {<<a, r>>, <<r, a>>}
  BY DEF Ordered
<1>7. \/ i.op \in {"TEST", "XCHG", "MOV"} /\ i.argv[1] = a /\ i.argv[2] = r
      \/ i.op = "MOV" /\ i.argv[1] = r /\ i.argv[2] = a
  BY <1>1, <1>4, <1>5, <1>6 DEF Made
<1>8. CASE i.op = "TEST"
  <2>1. EncodeCase(i, at) = EncodeTest(a, r)
    BY <1>7, <1>8, CaseDispatch
  <2>2. QED
    BY <1>1, <1>3, <1>8, <2>1, TestRegister DEF Fits, Waiting, b
<1>9. CASE i.op = "XCHG"
  <2>1. EncodeCase(i, at) = EncodeXchg(a, r)
    BY <1>7, <1>9, CaseDispatch
  <2>2. QED
    BY <1>1, <1>3, <1>9, <2>1, XchgStands DEF Fits, Waiting, b
<1>10. CASE i.op = "MOV"
  <2>1. EncodeCase(i, at) = EncodeMov(a, r) \/ EncodeCase(i, at) = EncodeMov(r, a)
    BY <1>7, <1>10, CaseDispatch
  <2>2. Short(EncodeMov(a, r), InsSize(b, x)) /\ Short(EncodeMov(r, a), InsSize(b, x))
    BY <1>1, <1>3, MovRegister
  <2>3. QED
    BY <1>10, <2>1, <2>2 DEF Fits, Waiting, b
<1>11. QED
  BY <1>7, <1>8, <1>9, <1>10

(* No mnemonic, nothing written.                                           *)
LEMMA NoCaseIs ==
    ASSUME NEW i, NEW at, i.op \in NoCase
    PROVE  EncodeCase(i, at) = << >> /\ i.op \notin Waiting
<1>1. i.op \notin DOMAIN OneByteCode
  BY DEF OneByteCode, NoCase
<1>2. i.op \notin FpuOps
  BY FpuOpsAre DEF FpuNoOperand, NoCase
<1>3. ~TransfersTo(i.op)
  BY TransfersAre DEF TransfersTo, Transfers, FarOps, NoCase
<1>4. EncodeCase(i, at) = << >>
  BY <1>1, <1>2, <1>3 DEF EncodeCase
<1>5. QED
  BY <1>4 DEF NoCase, Waiting

LEMMA NoCaseFits ==
    ASSUME NEW i, NEW at, i.op \in NoCase, NEW size
    PROVE  Fits(i, at, size)
  BY NoCaseIs DEF Fits, Short

LEMMA NopFits ==
    ASSUME NEW d, d.op = "UD_NOP", NEW i, NEW at, Made(i, d, at), NEW size
    PROVE  Fits(i, at, size)
<1>1. Case(d, at) = <<"UD_NOP", << >> >>
  BY DEF Case
<1>2. i.op = "UD_NOP"
  BY <1>1 DEF Made
<1>3. QED
  BY <1>2, NoCaseFits DEF NoCase

(* MOV of a segment register, and LEA.                                     *)
LEMMA Row8C ==
    ASSUME NEW d, NEW x, Fields(d, x), d.lead \in \h8C .. \h8E, NEW i, NEW at, Made(i, d, at)
    PROVE  Fits(i, at, InsSize(d.lead, x))
<1> DEFINE b == d.lead
           a == RM(d, 2)
           r == RMReg(d, 2)
           g == SRegArg(Reg(x))
<1>1. /\ Case(d, at) = Row8(d) /\ IsOperand(a, x, 2) /\ IsRegister(r, 2)
      /\ InsSize(b, x) = 2 + Size(Displacement(x)) + Size(ImmAfterRM(b, x))
      /\ d.rm = x /\ Reg(x) \in 0 .. 7
      /\ Size(Displacement(x)) \in 0 .. 2
  BY Row8Is
<1>2. ImmAfterRM(b, x) = << >>
  <2>1. b \in \h8C .. \h8E
    OBVIOUS
  <2> HIDE DEF b
  <2>2. b \notin \h80 .. \h83 \cup {\hC0, \hC1, \hC6, \hC7, \hF6, \hF7}
    BY <2>1
  <2>3. QED
    BY <2>2, ImmediateWidths
<1>3. InsSize(b, x) = 2 + Size(Displacement(x))
  BY <1>1, <1>2, WidthSizes
<1>4. /\ b \in {\h8C, \h8E} => Row8(d) = <<"MOV", Ordered(b, a, g)>>
      /\ b = \h8D => Row8(d) = <<"LEA", <<r, a>> >>
  BY <1>1 DEF Row8
<1>5. b \in {\h8C, \h8E} \/ b = \h8D
  OBVIOUS
<1> HIDE DEF b, a, r, g
<1>6. Ordered(b, a, g) \in {<<a, g>>, <<g, a>>}
  BY DEF Ordered
<1>7. CASE b = \h8D
  <2>1. i.op = "LEA" /\ i.argv[1] = r /\ i.argv[2] = a
    BY <1>1, <1>4, <1>7 DEF Made
  <2>2. EncodeCase(i, at) = EncodeLoad(LoadCode[i.op], r, a) /\ LoadCode[i.op] \in {\h8D, \hC4, \hC5}
    BY <2>1, LoadDispatch
  <2>3. r.reg \in 0 .. 7
    BY <1>1 DEF IsRegister
  <2>4. Short(EncodeCase(i, at), 2 + Size(Displacement(x)))
    BY <1>1, <2>2, <2>3, LoadStands
  <2>5. QED
    BY <1>3, <2>1, <2>4 DEF Fits, Waiting, b
<1>8. CASE b \in {\h8C, \h8E}
  <2>1. \/ i.op = "MOV" /\ i.argv[1] = a /\ i.argv[2] = g
        \/ i.op = "MOV" /\ i.argv[1] = g /\ i.argv[2] = a
    BY <1>1, <1>4, <1>6, <1>8 DEF Made
  <2>2. EncodeCase(i, at) = EncodeMov(a, g) \/ EncodeCase(i, at) = EncodeMov(g, a)
    BY <2>1, CaseDispatch
  <2>3. Short(EncodeMov(a, g), InsSize(b, x)) /\ Short(EncodeMov(g, a), InsSize(b, x))
    BY <1>1, <1>3, MovSegment DEF g
  <2>4. QED
    BY <2>1, <2>2, <2>3 DEF Fits, Waiting, b
<1>9. QED
  BY <1>5, <1>7, <1>8

(* What looks at the next byte: POP, LES and LDS.                          *)
LEMMA PeekFields ==
    ASSUME NEW d, NEW x, Fields(d, x), d.lead \in PeekOpcodes, d.op # "UD_NOP"
    PROVE  /\ TakesModRM(d.lead, x) /\ d.op = "OK"
           /\ InsSize(d.lead, x) = 2 + Size(Displacement(x))
           /\ d.lead \notin FPUEscapes /\ d.lead \notin DOMAIN PlainOneByte /\ d.lead \in Byte
           /\ \A w : IsOperand(RM(d, w), x, w) /\ IsRegister(RMReg(d, w), w)
           /\ Size(Displacement(x)) \in 0 .. 2 /\ Mod(x) # 3
<1>1. d.lead \notin FPUEscapes /\ d.lead \notin Absent /\ d.lead \notin ModRMOpcodes
  BY Kinds
<1>2. d.op = OutcomeOf(d.lead, x)
  BY DEF Fields
<1>3. ~IsExtension(x)
  BY <1>1, <1>2 DEF OutcomeOf
<1>4. TakesModRM(d.lead, x) /\ d.op = GroupOutcome(d.lead, x)
  BY <1>1, <1>2, <1>3 DEF TakesModRM, OutcomeOf
<1>5. GroupOutcome(d.lead, x) \in {"OK", "UD_NOP"}
  BY DEF GroupOutcome, PeekOpcodes, FarLoads, PopRM, ShiftOpcodes
<1>6. ImmAfterRM(d.lead, x) = << >>
  <2>1. d.lead \notin \h80 .. \h83 \cup {\hC0, \hC1, \hC6, \hC7, \hF6, \hF7}
    BY DEF PeekOpcodes, FarLoads, PopRM
  <2>2. QED
    BY <2>1, ImmediateWidths
<1>7. /\ \A w : IsOperand(RM(d, w), x, w) /\ IsRegister(RMReg(d, w), w)
      /\ InsSize(d.lead, x) = 2 + Size(Displacement(x)) + Size(ImmAfterRM(d.lead, x))
      /\ Size(Displacement(x)) \in 0 .. 2
      /\ d.lead \notin DOMAIN PlainOneByte /\ d.lead \in Byte
  BY <1>4, ModRMFields
<1>8. Mod(x) # 3
  BY <1>3 DEF IsExtension, Mod
<1>9. InsSize(d.lead, x) = 2 + Size(Displacement(x))
  BY <1>6, <1>7, WidthSizes
<1>10. QED
  BY <1>1, <1>4, <1>5, <1>7, <1>8, <1>9

LEMMA RowPeek ==
    ASSUME NEW d, NEW x, Fields(d, x), d.lead \in PeekOpcodes, NEW i, NEW at, Made(i, d, at)
    PROVE  Fits(i, at, InsSize(d.lead, x))
<1>1. CASE d.op = "UD_NOP"
  BY <1>1, NopFits
<1>2. CASE d.op # "UD_NOP"
  <2> DEFINE b == d.lead
             s == Size(Displacement(x))
             a == RM(d, 2)
             f == RM(d, 4)
             r == RMReg(d, 2)
  <2>1. /\ d.op = "OK" /\ InsSize(b, x) = 2 + s /\ s \in 0 .. 2
        /\ b \notin FPUEscapes /\ b \notin DOMAIN PlainOneByte /\ b \in Byte
        /\ IsOperand(a, x, 2) /\ IsOperand(f, x, 4) /\ IsRegister(r, 2) /\ Mod(x) # 3
    BY <1>2, PeekFields
  <2>2. b \in {\h8F, \hC4, \hC5}
    BY DEF PeekOpcodes, FarLoads, PopRM
  <2>3. b = \h8F => Case(d, at) = <<"POP", <<a>> >>
    <3>1. b = \h8F => Case(d, at) = Row8(d)
      BY <2>1, CaseRows
    <3>2. b = \h8F => Row8(d) = <<"POP", <<a>> >>
      BY DEF Row8
    <3>3. QED
      BY <3>1, <3>2
  <2>4. b # \h8F => Case(d, at) = <<IF b = \hC4 THEN "LES" ELSE "LDS", <<r, f>> >>
    <3>1. b # \h8F => Case(d, at) = RowsCtoD(d)
      BY <2>1, <2>2, CaseRows
    <3>2. b # \h8F => RowsCtoD(d) = <<IF b = \hC4 THEN "LES" ELSE "LDS", <<r, f>> >>
      BY <2>2 DEF RowsCtoD
    <3>3. QED
      BY <3>1, <3>2
  <2> HIDE DEF b, a, f, r, s
  <2>5. CASE b = \h8F
    <3>1. i.op = "POP" /\ i.argv[1] = a
      BY <2>3, <2>5 DEF Made
    <3>2. EncodeCase(i, at) = EncodePop(a)
      BY <3>1, CaseDispatch
    <3>3. a.kind = "mem"
      BY <2>1 DEF IsOperand
    <3>4. Short(EncodeCase(i, at), 2 + s)
      BY <2>1, <3>2, <3>3, StackStands DEF s
    <3>5. QED
      BY <2>1, <3>1, <3>4 DEF Fits, Waiting, b
  <2>6. CASE b # \h8F
    <3>1. i.op \in {"LES", "LDS"} /\ i.argv[1] = r /\ i.argv[2] = f
      BY <2>4, <2>6 DEF Made
    <3>2. EncodeCase(i, at) = EncodeLoad(LoadCode[i.op], r, f) /\ LoadCode[i.op] \in {\h8D, \hC4, \hC5}
      <4>1. i.op \in {"LEA", "LES", "LDS"}
        BY <3>1
      <4>2. /\ EncodeCase(i, at) = EncodeLoad(LoadCode[i.op], i.argv[1], i.argv[2])
            /\ LoadCode[i.op] \in {\h8D, \hC4, \hC5}
        BY <4>1, LoadDispatch
      <4>3. QED
        BY <3>1, <4>2
    <3>3. r.reg \in 0 .. 7
      BY <2>1 DEF IsRegister
    <3>4. Short(EncodeCase(i, at), 2 + s)
      BY <2>1, <3>2, <3>3, LoadStands DEF s
    <3>5. QED
      BY <2>1, <3>1, <3>4 DEF Fits, Waiting, b
  <2>7. QED
    BY <2>5, <2>6
<1>3. QED
  BY <1>1, <1>2

LEMMA Rows9toBIs ==
    ASSUME NEW d, d.lead \in Int
    PROVE  LET b == d.lead
               w == WidthOf(b)
           IN  /\ b \in \h91 .. \h97 => Rows9toB(d) = <<"XCHG", <<RegArg(AX, 2), RegArg(b % 8, 2)>> >>
               /\ b = \h9A => Rows9toB(d) = <<"CALL_FAR", <<FarArg(d.args[1], d.args[2])>> >>
               /\ b \in \hA0 .. \hA3 => Rows9toB(d) = <<"MOV", Ordered(b, RegArg(AX, w), MemArg(<< >>, d.args[1], Segmented(d, DS), w))>>
               /\ b \in \hA4 .. \hA5 => Rows9toB(d) = <<"MOVS", <<StringDest(w), StringSource(d, w)>> >>
               /\ b \in \hA6 .. \hA7 => Rows9toB(d) = <<"CMPS", <<StringDest(w), StringSource(d, w)>> >>
               /\ b \in \hA8 .. \hA9 => Rows9toB(d) = <<"TEST", <<RegArg(AX, w), ImmArg(d.args[1], w)>> >>
               /\ b \in \hAA .. \hAB => Rows9toB(d) = <<"STOS", <<StringDest(w)>> >>
               /\ b \in \hAC .. \hAD => Rows9toB(d) = <<"LODS", <<StringSource(d, w)>> >>
               /\ b \in \hAE .. \hAF => Rows9toB(d) = <<"SCAS", <<StringDest(w)>> >>
               /\ b \in \hB0 .. \hB7 => Rows9toB(d) = <<"MOV", <<RegArg(b % 8, 1), ImmArg(d.args[1], 1)>> >>
               /\ b \in \hB8 .. \hBF => Rows9toB(d) = <<"MOV", <<RegArg(b % 8, 2), ImmArg(d.args[1], 2)>> >>
<1> DEFINE b == d.lead
           w == WidthOf(b)
           r1 == <<"XCHG", <<RegArg(AX, 2), RegArg(b % 8, 2)>> >>
           r2 == <<"CALL_FAR", <<FarArg(d.args[1], d.args[2])>> >>
           r3 == <<"MOV", Ordered(b, RegArg(AX, w), MemArg(<< >>, d.args[1], Segmented(d, DS), w))>>
           r4 == <<"MOVS", <<StringDest(w), StringSource(d, w)>> >>
           r5 == <<"CMPS", <<StringDest(w), StringSource(d, w)>> >>
           r6 == <<"TEST", <<RegArg(AX, w), ImmArg(d.args[1], w)>> >>
           r7 == <<"STOS", <<StringDest(w)>> >>
           r8 == <<"LODS", <<StringSource(d, w)>> >>
           r9 == <<"SCAS", <<StringDest(w)>> >>
           r10 == <<"MOV", <<RegArg(b % 8, 1), ImmArg(d.args[1], 1)>> >>
           r11 == <<"MOV", <<RegArg(b % 8, 2), ImmArg(d.args[1], 2)>> >>
           row == CASE b \in \h91 .. \h97 -> r1
                    [] b = \h9A -> r2
                    [] b \in \hA0 .. \hA3 -> r3
                    [] b \in \hA4 .. \hA5 -> r4
                    [] b \in \hA6 .. \hA7 -> r5
                    [] b \in \hA8 .. \hA9 -> r6
                    [] b \in \hAA .. \hAB -> r7
                    [] b \in \hAC .. \hAD -> r8
                    [] b \in \hAE .. \hAF -> r9
                    [] b \in \hB0 .. \hB7 -> r10
                    [] b \in \hB8 .. \hBF -> r11
<1>1. Rows9toB(d) = row
  BY DEF Rows9toB
<1>2. b \in Int
  OBVIOUS
<1> HIDE DEF b, w, r1, r2, r3, r4, r5, r6, r7, r8, r9, r10, r11
<1>3. /\ b \in \h91 .. \h97 => row = r1
      /\ b = \h9A => row = r2
      /\ b \in \hA0 .. \hA3 => row = r3
      /\ b \in \hA4 .. \hA5 => row = r4
      /\ b \in \hA6 .. \hA7 => row = r5
      /\ b \in \hA8 .. \hA9 => row = r6
      /\ b \in \hAA .. \hAB => row = r7
      /\ b \in \hAC .. \hAD => row = r8
      /\ b \in \hAE .. \hAF => row = r9
      /\ b \in \hB0 .. \hB7 => row = r10
      /\ b \in \hB8 .. \hBF => row = r11
  BY <1>2
<1> HIDE DEF row
<1>4. QED
  BY <1>1, <1>3 DEF b, w, r1, r2, r3, r4, r5, r6, r7, r8, r9, r10, r11

LEMMA RowsCtoDIs ==
    ASSUME NEW d, d.lead \in Int
    PROVE  LET b == d.lead
               w == WidthOf(b)
           IN  /\ b \in \hC0 .. \hC1 => RowsCtoD(d) = <<Shifts[Reg(d.rm) + 1], <<RM(d, w), ImmArg(RMImm(d), 1)>> >>
               /\ b \in \hD0 .. \hD1 => RowsCtoD(d) = <<Shifts[Reg(d.rm) + 1], <<RM(d, w), ImmArg(1, 1)>> >>
               /\ b \in \hD2 .. \hD3 => RowsCtoD(d) = <<Shifts[Reg(d.rm) + 1], <<RM(d, w), RegArg(CX, 1)>> >>
               /\ b = \hC2 => RowsCtoD(d) = <<"RET", <<ImmArg(d.args[1], 2)>> >>
               /\ b = \hCA => RowsCtoD(d) = <<"RETF", <<ImmArg(d.args[1], 0)>> >>
               /\ b = \hC4 => RowsCtoD(d) = <<"LES", <<RMReg(d, 2), RM(d, 4)>> >>
               /\ b = \hC5 => RowsCtoD(d) = <<"LDS", <<RMReg(d, 2), RM(d, 4)>> >>
               /\ b \in \hC6 .. \hC7 => RowsCtoD(d) = <<"MOV", <<RM(d, w), ImmArg(RMImm(d), w)>> >>
               /\ b = \hCC => RowsCtoD(d) = <<"INT", <<ImmArg(3, 0)>> >>
               /\ b = \hCD => RowsCtoD(d) = <<"INT", <<ImmArg(d.args[1], 0)>> >>
               /\ b = \hD4 => RowsCtoD(d) = <<"AAM", <<ImmArg(d.args[1], 1)>> >>
               /\ b = \hD5 => RowsCtoD(d) = <<"AAD", <<ImmArg(d.args[1], 1)>> >>
<1> DEFINE b == d.lead
           w == WidthOf(b)
           r1 == <<Shifts[Reg(d.rm) + 1], <<RM(d, w), ImmArg(RMImm(d), 1)>> >>
           r2 == <<Shifts[Reg(d.rm) + 1], <<RM(d, w), ImmArg(1, 1)>> >>
           r3 == <<Shifts[Reg(d.rm) + 1], <<RM(d, w), RegArg(CX, 1)>> >>
           r4 == <<"RET", <<ImmArg(d.args[1], 2)>> >>
           r5 == <<"RETF", <<ImmArg(d.args[1], 0)>> >>
           r6 == <<"LES", <<RMReg(d, 2), RM(d, 4)>> >>
           r7 == <<"LDS", <<RMReg(d, 2), RM(d, 4)>> >>
           r8 == <<"MOV", <<RM(d, w), ImmArg(RMImm(d), w)>> >>
           r9 == <<"INT", <<ImmArg(3, 0)>> >>
           r10 == <<"INT", <<ImmArg(d.args[1], 0)>> >>
           r11 == <<"AAM", <<ImmArg(d.args[1], 1)>> >>
           r12 == <<"AAD", <<ImmArg(d.args[1], 1)>> >>
           row == CASE b \in \hC0 .. \hC1 -> r1
                    [] b \in \hD0 .. \hD1 -> r2
                    [] b \in \hD2 .. \hD3 -> r3
                    [] b = \hC2 -> r4
                    [] b = \hCA -> r5
                    [] b = \hC4 -> r6
                    [] b = \hC5 -> r7
                    [] b \in \hC6 .. \hC7 -> r8
                    [] b = \hCC -> r9
                    [] b = \hCD -> r10
                    [] b = \hD4 -> r11
                    [] b = \hD5 -> r12
<1>1. RowsCtoD(d) = row
  BY DEF RowsCtoD
<1>2. b \in Int
  OBVIOUS
<1> HIDE DEF b, w, r1, r2, r3, r4, r5, r6, r7, r8, r9, r10, r11, r12
<1>3. /\ b \in \hC0 .. \hC1 => row = r1
      /\ b \in \hD0 .. \hD1 => row = r2
      /\ b \in \hD2 .. \hD3 => row = r3
      /\ b = \hC2 => row = r4
      /\ b = \hCA => row = r5
      /\ b = \hC4 => row = r6
      /\ b = \hC5 => row = r7
      /\ b \in \hC6 .. \hC7 => row = r8
      /\ b = \hCC => row = r9
      /\ b = \hCD => row = r10
      /\ b = \hD4 => row = r11
      /\ b = \hD5 => row = r12
  BY <1>2
<1> HIDE DEF row
<1>4. QED
  BY <1>1, <1>3 DEF b, w, r1, r2, r3, r4, r5, r6, r7, r8, r9, r10, r11, r12

LEMMA RowEIs ==
    ASSUME NEW d, d.lead \in Int, NEW at
    PROVE  LET b == d.lead
               w == WidthOf(b)
           IN  /\ b \in \hE0 .. \hE3 => RowE(d, at) = <<Loops[b - \hE0 + 1], <<ShortTarget(d, at)>> >>
               /\ b \in \hE4 .. \hE5 => RowE(d, at) = <<"IN", <<RegArg(AX, w), ImmArg(d.args[1], 0)>> >>
               /\ b \in \hE6 .. \hE7 => RowE(d, at) = <<"OUT", <<ImmArg(d.args[1], 0), RegArg(AX, w)>> >>
               /\ b = \hE8 => RowE(d, at) = <<"CALL", <<NearTarget(d, at)>> >>
               /\ b = \hE9 => RowE(d, at) = <<"JMP", <<NearTarget(d, at)>> >>
               /\ b = \hEA => RowE(d, at) = <<"JMP_FAR", <<FarArg(d.args[1], d.args[2])>> >>
               /\ b = \hEB => RowE(d, at) = <<"JMP", <<ShortTarget(d, at)>> >>
               /\ b \in \hEC .. \hED => RowE(d, at) = <<"IN", <<RegArg(AX, w), RegArg(DX, 2)>> >>
               /\ b \in \hEE .. \hEF => RowE(d, at) = <<"OUT", <<RegArg(DX, 2), RegArg(AX, w)>> >>
<1> DEFINE b == d.lead
           w == WidthOf(b)
           r1 == <<Loops[b - \hE0 + 1], <<ShortTarget(d, at)>> >>
           r2 == <<"IN", <<RegArg(AX, w), ImmArg(d.args[1], 0)>> >>
           r3 == <<"OUT", <<ImmArg(d.args[1], 0), RegArg(AX, w)>> >>
           r4 == <<"CALL", <<NearTarget(d, at)>> >>
           r5 == <<"JMP", <<NearTarget(d, at)>> >>
           r6 == <<"JMP_FAR", <<FarArg(d.args[1], d.args[2])>> >>
           r7 == <<"JMP", <<ShortTarget(d, at)>> >>
           r8 == <<"IN", <<RegArg(AX, w), RegArg(DX, 2)>> >>
           r9 == <<"OUT", <<RegArg(DX, 2), RegArg(AX, w)>> >>
           row == CASE b \in \hE0 .. \hE3 -> r1
                    [] b \in \hE4 .. \hE5 -> r2
                    [] b \in \hE6 .. \hE7 -> r3
                    [] b = \hE8 -> r4
                    [] b = \hE9 -> r5
                    [] b = \hEA -> r6
                    [] b = \hEB -> r7
                    [] b \in \hEC .. \hED -> r8
                    [] b \in \hEE .. \hEF -> r9
<1>1. RowE(d, at) = row
  BY DEF RowE
<1>2. b \in Int
  OBVIOUS
<1> HIDE DEF b, w, r1, r2, r3, r4, r5, r6, r7, r8, r9
<1>3. /\ b \in \hE0 .. \hE3 => row = r1
      /\ b \in \hE4 .. \hE5 => row = r2
      /\ b \in \hE6 .. \hE7 => row = r3
      /\ b = \hE8 => row = r4
      /\ b = \hE9 => row = r5
      /\ b = \hEA => row = r6
      /\ b = \hEB => row = r7
      /\ b \in \hEC .. \hED => row = r8
      /\ b \in \hEE .. \hEF => row = r9
  BY <1>2
<1> HIDE DEF row
<1>4. QED
  BY <1>1, <1>3 DEF b, w, r1, r2, r3, r4, r5, r6, r7, r8, r9

-----------------------------------------------------------------------------
(* Rows 9 to B.                                                            *)

LEMMA BareCase ==
    ASSUME NEW d, NEW x, Fields(d, x), d.lead \in Bare, d.lead \notin DOMAIN PlainOneByte, NEW at
    PROVE  /\ d.lead \in \h90 .. \hBF => Case(d, at) = Rows9toB(d)
           /\ d.lead \in \hC0 .. \hDF => Case(d, at) = RowsCtoD(d)
           /\ d.lead \in \hE0 .. \hEF => Case(d, at) = RowE(d, at)
           /\ WidthOf(d.lead) \in {1, 2}
<1>1. d.op = "OK" /\ d.lead \in Byte /\ d.lead \notin FPUEscapes
  BY BareFieldsAre
<1>2. d.lead \in 0 .. 255 /\ d.op # "UD_NOP" /\ (d.op = "OK" => d.lead \notin DOMAIN PlainOneByte \cup FPUEscapes)
  BY <1>1 DEF Byte
<1>3. d.lead \in \h90 .. \hBF => Case(d, at) = Rows9toB(d)
  BY <1>1, <1>2, CaseRows
<1>4. d.lead \in \hC0 .. \hDF => Case(d, at) = RowsCtoD(d)
  BY <1>1, <1>2, CaseRows
<1>5. d.lead \in \hE0 .. \hEF => Case(d, at) = RowE(d, at)
  BY <1>1, <1>2, CaseRows
<1>6. QED
  BY <1>2, <1>3, <1>4, <1>5 DEF WidthOf

LEMMA AccumulatorIs ==
    ASSUME NEW w
    PROVE  LET acc == RegArg(AX, w)
           IN  /\ IsRegister(acc, w) /\ acc.kind = "reg" /\ acc.reg = AX /\ acc.size = w
               /\ IsOperand(acc, 192, w) /\ Accumulator(acc)
               /\ Size(Displacement(192)) = 0
<1> DEFINE acc == RegArg(AX, w)
<1>1. IsRegister(acc, w) /\ acc.kind = "reg" /\ acc.reg = AX /\ acc.size = w /\ acc.reg = 0
  BY RegArgIs DEF AX, IsRegister
<1> HIDE DEF acc
<1>2. IsOperand(acc, 192 + acc.reg, w) /\ Size(Displacement(192 + acc.reg)) = 0
  BY <1>1, RegisterAsOperand
<1>3. 192 + acc.reg = 192
  BY <1>1
<1>4. Accumulator(acc)
  BY <1>1 DEF Accumulator, IsReg
<1>5. QED
  BY <1>1, <1>2, <1>3, <1>4 DEF acc

LEMMA RowXchg ==
    ASSUME NEW d, NEW x, Fields(d, x), d.lead \in \h91 .. \h97, NEW i, NEW at, Made(i, d, at)
    PROVE  Fits(i, at, InsSize(d.lead, x))
<1> DEFINE b == d.lead
           acc == RegArg(AX, 2)
           r == RegArg(b % 8, 2)
<1>1. b \in Singles /\ b \in Bare
  BY DEF Singles, Bare
<1>2. InsSize(b, x) = 1
  BY <1>1, BareFieldsAre
<1>3. b \notin DOMAIN PlainOneByte
  BY DEF PlainOneByte
<1>4. Case(d, at) = Rows9toB(d)
  BY <1>1, <1>3, BareCase
<1>5. Rows9toB(d) = <<"XCHG", <<acc, r>> >>
  BY Rows9toBIs
<1>6. b % 8 \in 0 .. 7
  OBVIOUS
<1> HIDE DEF b
<1>7. IsRegister(r, 2)
  BY <1>6, RegArgIs
<1>8. IsOperand(acc, 192, 2) /\ IsReg(acc) /\ acc.reg = AX
  BY AccumulatorIs DEF IsReg
<1> HIDE DEF acc, r
<1>9. i.op = "XCHG" /\ i.argv[1] = acc /\ i.argv[2] = r
  BY <1>4, <1>5 DEF Made
<1>10. EncodeCase(i, at) = EncodeXchg(acc, r)
  BY <1>9, CaseDispatch
<1>11. Short(EncodeCase(i, at), 1)
  BY <1>7, <1>8, <1>10, XchgStands
<1>12. QED
  BY <1>2, <1>9, <1>11 DEF Fits, Waiting, b

LEMMA RowCallFar ==
    ASSUME NEW d, NEW x, Fields(d, x), d.lead \in {\h9A, \hEA}, NEW i, NEW at, Made(i, d, at)
    PROVE  Fits(i, at, InsSize(d.lead, x))
<1> DEFINE b == d.lead
           f == FarArg(d.args[1], d.args[2])
<1>1. b \in WithFar /\ b \in Bare
  BY DEF WithFar, Bare
<1>2. InsSize(b, x) = 5 /\ d.args[1] \in Int /\ d.args[2] \in Int
  BY <1>1, BareFieldsAre
<1>3. b \notin DOMAIN PlainOneByte
  BY DEF PlainOneByte
<1>4. /\ b = \h9A => Case(d, at) = Rows9toB(d)
      /\ b = \hEA => Case(d, at) = RowE(d, at)
  BY <1>1, <1>3, BareCase
<1>5. /\ b = \h9A => Rows9toB(d) = <<"CALL_FAR", <<f>> >>
      /\ b = \hEA => RowE(d, at) = <<"JMP_FAR", <<f>> >>
  BY Rows9toBIs, RowEIs
<1>6. Short(EncodeFar(\h9A, 3, f), 5) /\ Short(EncodeFar(\hEA, 5, f), 5)
  BY <1>2, FarStands
<1> HIDE DEF f
<1>7. i.op \in {"CALL_FAR", "JMP_FAR"} /\ i.argv[1] = f
  BY <1>4, <1>5 DEF Made
<1>8. EncodeCase(i, at) = EncodeFar(\h9A, 3, f) \/ EncodeCase(i, at) = EncodeFar(\hEA, 5, f)
  BY <1>7, TransferDispatch
<1>9. QED
  BY <1>2, <1>6, <1>7, <1>8 DEF Fits, Waiting

LEMMA RowMovDirect ==
    ASSUME NEW d, NEW x, Fields(d, x), d.lead \in \hA0 .. \hA3, NEW i, NEW at, Made(i, d, at)
    PROVE  Fits(i, at, InsSize(d.lead, x))
<1> DEFINE b == d.lead
           w == WidthOf(b)
           acc == RegArg(AX, w)
           g == Segmented(d, DS)
           m == MemArg(<< >>, d.args[1], g, w)
<1>1. b \in WithWord /\ b \in Bare
  BY DEF WithWord, Bare
<1>2. InsSize(b, x) = 3 /\ d.args[1] \in Int
  BY <1>1, BareFieldsAre
<1>3. b \notin DOMAIN PlainOneByte
  BY DEF PlainOneByte
<1>4. Case(d, at) = Rows9toB(d) /\ w \in {1, 2}
  BY <1>1, <1>3, BareCase
<1>5. Rows9toB(d) = <<"MOV", Ordered(b, acc, m)>>
  BY Rows9toBIs
<1>6. acc.kind = "reg" /\ acc.reg = AX /\ acc.size = w
  BY AccumulatorIs
<1>7. m.kind = "mem" /\ m.regs = << >> /\ m.size = w /\ m.base \in Int
  <2> HIDE DEF g, w
  <2>1. m.kind = "mem" /\ m.regs = << >> /\ m.size = w /\ m.base = d.args[1] % 65536
    BY DEF MemArg
  <2>2. d.args[1] % 65536 \in Int
    BY <1>2
  <2>3. QED
    BY <2>1, <2>2
<1> HIDE DEF b, w, acc, m, g
<1>8. Ordered(b, acc, m) \in {<<acc, m>>, <<m, acc>>}
  BY DEF Ordered
<1>9. \/ i.op = "MOV" /\ i.argv[1] = acc /\ i.argv[2] = m
      \/ i.op = "MOV" /\ i.argv[1] = m /\ i.argv[2] = acc
  BY <1>4, <1>5, <1>8 DEF Made
<1>10. EncodeCase(i, at) = EncodeMov(acc, m) \/ EncodeCase(i, at) = EncodeMov(m, acc)
  BY <1>9, CaseDispatch
<1>11. Short(EncodeMov(m, acc), 3) /\ Short(EncodeMov(acc, m), 3)
  BY <1>4, <1>6, <1>7, MovDirect
<1>12. QED
  BY <1>2, <1>9, <1>10, <1>11 DEF Fits, Waiting, b

LEMMA RowString ==
    ASSUME NEW d, NEW x, Fields(d, x), d.lead \in \hA4 .. \hA7 \cup \hAA .. \hAF,
           NEW i, NEW at, Made(i, d, at)
    PROVE  Fits(i, at, InsSize(d.lead, x))
<1> DEFINE b == d.lead
           w == WidthOf(b)
           from == StringSource(d, w)
           to == StringDest(w)
<1>1. b \in Singles /\ b \in Bare
  BY DEF Singles, Bare
<1>2. InsSize(b, x) = 1
  BY <1>1, BareFieldsAre
<1>3. b \notin DOMAIN PlainOneByte
  BY DEF PlainOneByte
<1>4. Case(d, at) = Rows9toB(d) /\ w \in {1, 2}
  BY <1>1, <1>3, BareCase
<1>5. /\ b \in \hA4 .. \hA5 => Rows9toB(d) = <<"MOVS", <<to, from>> >>
      /\ b \in \hA6 .. \hA7 => Rows9toB(d) = <<"CMPS", <<to, from>> >>
      /\ b \in \hAA .. \hAB => Rows9toB(d) = <<"STOS", <<to>> >>
      /\ b \in \hAC .. \hAD => Rows9toB(d) = <<"LODS", <<from>> >>
      /\ b \in \hAE .. \hAF => Rows9toB(d) = <<"SCAS", <<to>> >>
  BY Rows9toBIs
<1>6. \/ b \in \hA4 .. \hA5 \/ b \in \hA6 .. \hA7 \/ b \in \hAA .. \hAB
      \/ b \in \hAC .. \hAD \/ b \in \hAE .. \hAF
  OBVIOUS
<1>7. from.size = w /\ to.size = w
  <2> HIDE DEF w
  <2>1. QED
    BY DEF StringSource, StringDest, MemArg
<1> HIDE DEF b, w, from, to
<1>8. i.op \in {"MOVS", "CMPS", "STOS", "LODS", "SCAS"} /\ i.argv[1] \in {from, to}
  BY <1>4, <1>5, <1>6 DEF Made
<1>9. /\ EncodeCase(i, at) = <<StringCode[i.op] + WordBit(i.argv[1])>>
      /\ StringCode[i.op] \in {\hA4, \hA6, \hAA, \hAC, \hAE}
  BY <1>8, StringDispatch
<1>10. i.argv[1].size = w
  BY <1>7, <1>8
<1>11. Short(EncodeCase(i, at), 1)
  <2> DEFINE c == StringCode[i.op]
             a == i.argv[1]
  <2>1. EncodeCase(i, at) = <<c + WordBit(a)>> /\ c \in {\hA4, \hA6, \hAA, \hAC, \hAE} /\ a.size = w
    BY <1>9, <1>10
  <2> HIDE DEF c, a
  <2>2. Short(<<c + WordBit(a)>>, 1)
    <3>1. w \in {1, 2} /\ a.size = w /\ c \in {\hA4, \hA6, \hAA, \hAC, \hAE}
      BY <1>4, <2>1
    <3>2. WordBit(a) \in {0, 1}
      BY <3>1, WordBitIs
    <3>3. c + WordBit(a) \in Singles
      BY <3>1, <3>2 DEF Singles
    <3>4. QED
      BY <3>3, SingleStands
  <2>3. QED
    BY <2>1, <2>2
<1>12. QED
  BY <1>2, <1>8, <1>11 DEF Fits, Waiting, b

LEMMA RowAccNumber ==
    ASSUME NEW d, NEW x, Fields(d, x), d.lead \in \hA8 .. \hA9, NEW i, NEW at, Made(i, d, at)
    PROVE  Fits(i, at, InsSize(d.lead, x))
<1> DEFINE b == d.lead
           w == WidthOf(b)
           acc == RegArg(AX, w)
           num == ImmArg(d.args[1], w)
<1>1. (b \in WithByte \/ b \in WithWord) /\ b \in Bare /\ (w = 1 => b \in WithByte) /\ (w = 2 => b \in WithWord)
  BY DEF WithByte, WithWord, Bare, WidthOf
<1>2. b \notin DOMAIN PlainOneByte
  BY DEF PlainOneByte
<1>3. Case(d, at) = Rows9toB(d) /\ w \in {1, 2}
  BY <1>1, <1>2, BareCase
<1>4. Rows9toB(d) = <<"TEST", <<acc, num>> >>
  BY Rows9toBIs
<1> HIDE DEF b, w
<1>5. InsSize(b, x) = 1 + w /\ d.args[1] \in Int
  BY <1>1, <1>3, BareFieldsAre DEF b
<1>6. IsOperand(acc, 192, w) /\ Accumulator(acc)
  BY AccumulatorIs
<1>7. num.kind = "imm" /\ num.value \in Int
  BY <1>5, ImmArgIs
<1> HIDE DEF acc, num
<1>8. i.op = "TEST" /\ i.argv[1] = acc /\ i.argv[2] = num
  BY <1>3, <1>4 DEF Made
<1>9. EncodeCase(i, at) = EncodeTest(acc, num)
  BY <1>8, CaseDispatch
<1>10. Short(EncodeCase(i, at), 1 + w)
  BY <1>3, <1>6, <1>7, <1>9, TestNumber
<1>11. QED
  BY <1>5, <1>8, <1>10 DEF Fits, Waiting, b

LEMMA RowMovNumber ==
    ASSUME NEW d, NEW x, Fields(d, x), d.lead \in \hB0 .. \hBF, NEW i, NEW at, Made(i, d, at)
    PROVE  Fits(i, at, InsSize(d.lead, x))
<1> DEFINE b == d.lead
           w == IF b < \hB8 THEN 1 ELSE 2
           r == RegArg(b % 8, w)
           num == ImmArg(d.args[1], w)
<1>1. b \in Bare /\ (w = 1 => b \in WithByte) /\ (w = 2 => b \in WithWord)
  BY DEF WithByte, WithWord, Bare
<1>2. b \notin DOMAIN PlainOneByte
  BY DEF PlainOneByte
<1>3. Case(d, at) = Rows9toB(d) /\ w \in {1, 2}
  BY <1>1, <1>2, BareCase
<1>4. Rows9toB(d) = <<"MOV", <<r, num>> >>
  <2>1. CASE b \in \hB0 .. \hB7
    BY <2>1, Rows9toBIs
  <2>2. CASE b \in \hB8 .. \hBF
    BY <2>2, Rows9toBIs
  <2>3. QED
    BY <2>1, <2>2
<1>5. b % 8 \in 0 .. 7
  OBVIOUS
<1> HIDE DEF b, w
<1>6. InsSize(b, x) = 1 + w /\ d.args[1] \in Int
  BY <1>1, <1>3, BareFieldsAre DEF b
<1>7. IsRegister(r, w) /\ r.kind = "reg"
  BY <1>5, RegArgIs
<1>8. IsOperand(r, 192 + r.reg, w)
  BY <1>7, RegisterAsOperand
<1>9. num.kind = "imm" /\ num.value \in Int
  BY <1>6, ImmArgIs
<1> HIDE DEF r, num
<1>10. i.op = "MOV" /\ i.argv[1] = r /\ i.argv[2] = num
  BY <1>3, <1>4 DEF Made
<1>11. EncodeCase(i, at) = EncodeMov(r, num)
  BY <1>10, CaseDispatch
<1>12. Short(EncodeCase(i, at), 1 + w)
  BY <1>3, <1>7, <1>8, <1>9, <1>11, MovNumber
<1>13. QED
  BY <1>6, <1>10, <1>12 DEF Fits, Waiting, b

-----------------------------------------------------------------------------
(* Rows C and D.                                                           *)

(* The fields of a group: the reg field has chosen an instruction.         *)
LEMMA GroupCase ==
    ASSUME NEW d, NEW x, Fields(d, x), d.lead \in ModRMOpcodes, d.op # "UD_NOP", NEW at
    PROVE  /\ d.lead \in \hC0 .. \hDF => Case(d, at) = RowsCtoD(d)
           /\ d.lead \in \hF0 .. \hFF => Case(d, at) = RowF(d)
           /\ WidthOf(d.lead) \in {1, 2} /\ d.op = GroupOutcome(d.lead, x)
           /\ \A w : IsOperand(RM(d, w), x, w)
           /\ InsSize(d.lead, x) = 2 + Size(Displacement(x)) + Size(ImmAfterRM(d.lead, x))
           /\ d.rm = x /\ Reg(x) \in 0 .. 7 /\ Size(Displacement(x)) \in 0 .. 2
           /\ ImmAfterRM(d.lead, x) # << >> => RMImm(d) \in Int
<1>1. TakesModRM(d.lead, x) /\ d.op = GroupOutcome(d.lead, x) /\ d.lead \notin FPUEscapes
  BY GroupFields
<1>2. /\ \A w : IsOperand(RM(d, w), x, w)
      /\ InsSize(d.lead, x) = 2 + Size(Displacement(x)) + Size(ImmAfterRM(d.lead, x))
      /\ d.rm = x /\ Reg(x) \in 0 .. 7 /\ Size(Displacement(x)) \in 0 .. 2
      /\ ImmAfterRM(d.lead, x) # << >> => RMImm(d) \in Int
      /\ d.lead \notin DOMAIN PlainOneByte /\ d.lead \in Byte
  BY <1>1, ModRMFields
<1>3. d.lead \in 0 .. 255 /\ (d.op = "OK" => d.lead \notin DOMAIN PlainOneByte \cup FPUEscapes)
  BY <1>1, <1>2 DEF Byte
<1> DEFINE row == IF d.lead < \h40 THEN Rows0to3(d)
                  ELSE IF d.lead < \h80 THEN Rows4to7(d, at)
                  ELSE IF d.lead < \h90 THEN Row8(d)
                  ELSE IF d.lead < \hC0 THEN Rows9toB(d)
                  ELSE IF d.lead < \hE0 THEN RowsCtoD(d)
                  ELSE IF d.lead < \hF0 THEN RowE(d, at) ELSE RowF(d)
<1>8. Case(d, at) = row
  BY <1>2, <1>3, CaseRows
<1>9. /\ d.lead \in \hC0 .. \hDF => row = RowsCtoD(d)
      /\ d.lead \in \hF0 .. \hFF => row = RowF(d)
  BY <1>3
<1> HIDE DEF row
<1>4. d.lead \in \hC0 .. \hDF => Case(d, at) = RowsCtoD(d)
  BY <1>8, <1>9
<1>5. d.lead \in \hF0 .. \hFF => Case(d, at) = RowF(d)
  BY <1>8, <1>9
<1>6. WidthOf(d.lead) \in {1, 2}
  BY <1>3 DEF WidthOf
<1>7. QED
  BY <1>1, <1>2, <1>4, <1>5, <1>6

(* The shifts by a number, by one and by CL.                               *)
LEMMA RowShift ==
    ASSUME NEW d, NEW x, Fields(d, x), d.lead \in ShiftOpcodes, d.op # "UD_NOP",
           NEW i, NEW at, Made(i, d, at)
    PROVE  Fits(i, at, InsSize(d.lead, x))
<1> DEFINE b == d.lead
           w == WidthOf(b)
           a == RM(d, w)
           s == Size(Displacement(x))
           by == IF b \in {\hC0, \hC1} THEN ImmArg(RMImm(d), 1)
                 ELSE IF b \in {\hD0, \hD1} THEN ImmArg(1, 1) ELSE RegArg(CX, 1)
<1>1. b \in {\hC0, \hC1, \hD0, \hD1, \hD2, \hD3} /\ b \in ModRMOpcodes /\ b \in Int
  BY DEF ShiftOpcodes, ModRMOpcodes, ModRMRowC
<1>2. /\ Case(d, at) = RowsCtoD(d) /\ w \in {1, 2} /\ IsOperand(a, x, w)
      /\ InsSize(b, x) = 2 + s + Size(ImmAfterRM(b, x))
      /\ d.rm = x /\ Reg(x) \in 0 .. 7 /\ s \in 0 .. 2
      /\ ImmAfterRM(b, x) # << >> => RMImm(d) \in Int
      /\ d.op = GroupOutcome(b, x)
  BY <1>1, GroupCase
<1>3. Reg(x) # 6
  <2>1. GroupOutcome(b, x) = IF Reg(x) = 6 THEN "UD_NOP" ELSE "OK"
    <3> HIDE DEF b
    <3>1. b \notin {PopRM, \hC6, \hC7, \hF6, \hF7, \hFE, \hFF}
      BY <1>1 DEF PopRM
    <3>2. QED
      BY <3>1 DEF GroupOutcome, b
  <2>2. QED
    BY <1>2, <2>1
<1>4. /\ b \in {\hC0, \hC1} => InsSize(b, x) = 2 + s + 1 /\ RMImm(d) \in Int
      /\ b \notin {\hC0, \hC1} => InsSize(b, x) = 2 + s
  <2>1. <<1>> # << >>
    OBVIOUS
  <2> HIDE DEF b
  <2>2. b \in {\hC0, \hC1} => ImmAfterRM(b, x) = <<1>>
    BY ImmediateWidths
  <2>3. b \notin {\hC0, \hC1} => ImmAfterRM(b, x) = << >>
    BY <1>1, ImmediateWidths
  <2>4. QED
    BY <1>2, <2>1, <2>2, <2>3, WidthSizes
<1>5. RowsCtoD(d) = <<Shifts[Reg(x) + 1], <<a, by>> >>
  <2>1. CASE b \in \hC0 .. \hC1
    BY <1>1, <1>2, <2>1, RowsCtoDIs
  <2>2. CASE b \in \hD0 .. \hD1
    BY <1>1, <1>2, <2>2, RowsCtoDIs
  <2>3. CASE b \in \hD2 .. \hD3
    BY <1>1, <1>2, <2>3, RowsCtoDIs
  <2>4. QED
    BY <1>1, <2>1, <2>2, <2>3
<1>6. Shifts[Reg(x) + 1] \in {"ROL", "ROR", "RCL", "RCR", "SHL", "SHR", "SAR"}
  BY <1>2, <1>3 DEF Shifts
<1>7. /\ b \in {\hC0, \hC1} => by.kind = "imm" /\ by.value \in Int
      /\ b \in {\hD0, \hD1} => by.kind = "imm" /\ by.value = 1
      /\ b \in {\hD2, \hD3} => by.kind = "reg"
  <2>1. RegArg(CX, 1).kind = "reg"
    BY DEF RegArg
  <2>2. QED
    BY <1>4, <2>1, ImmArgIs
<1> HIDE DEF b, w, a, by, s
<1>8. i.op = Shifts[Reg(x) + 1] /\ i.argv[1] = a /\ i.argv[2] = by
  BY <1>2, <1>5 DEF Made
<1> DEFINE n == Index(Shifts, i.op)
<1>9. EncodeCase(i, at) = EncodeShift(n, a, by) /\ n \in 0 .. 7 /\ n # 6
  BY <1>6, <1>8, ShiftDispatch
<1> HIDE DEF n
<1>10. /\ by.kind = "reg" => Short(EncodeCase(i, at), 2 + s)
       /\ by.kind = "imm" /\ by.value = 1 => Short(EncodeCase(i, at), 2 + s)
       /\ by.kind = "imm" /\ by.value \in Int => Short(EncodeCase(i, at), 2 + s + 1)
  BY <1>2, <1>9, ShiftStands DEF s
<1>11. Short(EncodeCase(i, at), InsSize(b, x))
  BY <1>1, <1>4, <1>7, <1>10
<1>12. i.op \notin Waiting
  BY <1>6, <1>8 DEF Waiting
<1>13. QED
  BY <1>11, <1>12 DEF Fits, b

(* MOV of a number to memory or a register.                                *)
LEMMA RowMovImm ==
    ASSUME NEW d, NEW x, Fields(d, x), d.lead \in {\hC6, \hC7}, d.op # "UD_NOP",
           NEW i, NEW at, Made(i, d, at)
    PROVE  Fits(i, at, InsSize(d.lead, x))
<1> DEFINE b == d.lead
           w == WidthOf(b)
           a == RM(d, w)
           s == Size(Displacement(x))
           num == ImmArg(RMImm(d), w)
<1>1. b \in ModRMOpcodes /\ b \in Int
  BY DEF ModRMOpcodes, ModRMRowC
<1>2. /\ Case(d, at) = RowsCtoD(d) /\ w \in {1, 2} /\ IsOperand(a, x, w)
      /\ InsSize(b, x) = 2 + s + Size(ImmAfterRM(b, x))
      /\ d.rm = x /\ Reg(x) \in 0 .. 7 /\ s \in 0 .. 2
      /\ ImmAfterRM(b, x) # << >> => RMImm(d) \in Int
      /\ d.op = GroupOutcome(b, x)
  BY <1>1, GroupCase
<1>3. Reg(x) = 0
  BY <1>2 DEF GroupOutcome, ShiftOpcodes
<1>4. InsSize(b, x) = 2 + s + w /\ RMImm(d) \in Int
  <2>1. <<1>> # << >> /\ <<2>> # << >>
    OBVIOUS
  <2>2. b = \hC6 => w = 1 /\ ImmAfterRM(b, x) = <<1>>
    BY <1>3, ImmediateWidths DEF WidthOf
  <2>3. b = \hC7 => w = 2 /\ ImmAfterRM(b, x) = <<2>>
    BY <1>3, ImmediateWidths DEF WidthOf
  <2>4. QED
    BY <1>2, <2>1, <2>2, <2>3, WidthSizes
<1>5. RowsCtoD(d) = <<"MOV", <<a, num>> >>
  BY <1>1, RowsCtoDIs
<1>6. num.kind = "imm" /\ num.value \in Int
  BY <1>4, ImmArgIs
<1> HIDE DEF b, w, a, num, s
<1>7. i.op = "MOV" /\ i.argv[1] = a /\ i.argv[2] = num
  BY <1>2, <1>5 DEF Made
<1>8. EncodeCase(i, at) = EncodeMov(a, num)
  BY <1>7, CaseDispatch
<1>9. Short(EncodeCase(i, at), IF a.kind = "reg" THEN 1 + w ELSE 2 + s + w)
  BY <1>2, <1>6, <1>8, MovNumber DEF s
<1>10. 1 + w \in Int /\ 2 + s + w \in Int /\ 1 + w <= 2 + s + w
  BY <1>2
<1>11. Short(EncodeCase(i, at), 2 + s + w)
  BY <1>9, <1>10, MoreRoom
<1>12. QED
  BY <1>4, <1>7, <1>11 DEF Fits, Waiting, b

(* RET and RETF with a number.                                             *)
LEMMA RowReturn ==
    ASSUME NEW d, NEW x, Fields(d, x), d.lead \in {\hC2, \hCA}, NEW i, NEW at, Made(i, d, at)
    PROVE  Fits(i, at, InsSize(d.lead, x))
<1> DEFINE b == d.lead
           v == d.args[1]
           num == ImmArg(v, IF b = \hC2 THEN 2 ELSE 0)
<1>1. b \in WithWord /\ b \in Bare /\ b \in Int
  BY DEF WithWord, Bare
<1>2. InsSize(b, x) = 3 /\ v \in Int
  BY <1>1, BareFieldsAre
<1>3. b \notin DOMAIN PlainOneByte
  BY DEF PlainOneByte
<1>4. Case(d, at) = RowsCtoD(d)
  BY <1>1, <1>3, BareCase
<1>5. RowsCtoD(d) = <<IF b = \hC2 THEN "RET" ELSE "RETF", <<num>> >>
  BY <1>1, RowsCtoDIs
<1>6. num.value = v
  BY ImmArgIs
<1>7. b \in {\hC2, \hCA}
  OBVIOUS
<1> HIDE DEF b, num, v
<1>8. i.op = (IF b = \hC2 THEN "RET" ELSE "RETF") /\ i.argv = <<num>> /\ i.argv[1] = num
  BY <1>4, <1>5 DEF Made
<1>9. EncodeCase(i, at) = EncodeReturn(b, i.argv)
  BY <1>7, <1>8, TransferDispatch
<1>10. EncodeReturn(b, i.argv) = <<b>> \o Word(v)
  <2>1. i.argv # << >>
    BY <1>8
  <2>2. QED
    BY <1>6, <1>8, <2>1 DEF EncodeReturn
<1>11. Short(<<b>> \o Word(v), 3)
  BY <1>1, <1>2, WordBytes, BareStands
<1>12. i.op \notin Waiting
  BY <1>8 DEF Waiting
<1>13. QED
  BY <1>2, <1>9, <1>10, <1>11, <1>12 DEF Fits, b

(* INT, AAM and AAD.                                                       *)
LEMMA RowInterrupt ==
    ASSUME NEW d, NEW x, Fields(d, x), d.lead \in {\hCC, \hCD, \hD4, \hD5},
           NEW i, NEW at, Made(i, d, at)
    PROVE  Fits(i, at, InsSize(d.lead, x))
<1> DEFINE b == d.lead
           v == IF b = \hCC THEN 3 ELSE d.args[1]
           num == i.argv[1]
<1>1. b \in Bare /\ b \in Int /\ (b = \hCC => b \in Singles) /\ (b # \hCC => b \in WithByte)
  BY DEF Singles, WithByte, Bare
<1>2. InsSize(b, x) = (IF b = \hCC THEN 1 ELSE 2) /\ v \in Int
  BY <1>1, BareFieldsAre
<1>3. b \notin DOMAIN PlainOneByte
  BY DEF PlainOneByte
<1>4. Case(d, at) = RowsCtoD(d)
  BY <1>1, <1>3, BareCase
<1>5. /\ b = \hCC => RowsCtoD(d) = <<"INT", <<ImmArg(3, 0)>> >>
      /\ b = \hCD => RowsCtoD(d) = <<"INT", <<ImmArg(d.args[1], 0)>> >>
      /\ b = \hD4 => RowsCtoD(d) = <<"AAM", <<ImmArg(d.args[1], 1)>> >>
      /\ b = \hD5 => RowsCtoD(d) = <<"AAD", <<ImmArg(d.args[1], 1)>> >>
  BY <1>1, RowsCtoDIs
<1>6. /\ i.op = (IF b \in {\hCC, \hCD} THEN "INT" ELSE IF b = \hD4 THEN "AAM" ELSE "AAD")
      /\ \E w : i.argv = <<ImmArg(v, w)>>
  BY <1>4, <1>5 DEF Made
<1>7. num.value = v
  <2>1. PICK w : i.argv = <<ImmArg(v, w)>>
    BY <1>6
  <2>2. num = ImmArg(v, w)
    BY <2>1
  <2>3. QED
    BY <2>2, ImmArgIs
<1>8. b \in {\hCC, \hCD, \hD4, \hD5} /\ (b = \hCC => v = 3)
  OBVIOUS
<1> HIDE DEF b, v
<1>9. CASE b \in {\hCC, \hCD}
  <2>1. EncodeCase(i, at) = EncodeInt(num)
    BY <1>6, <1>9, CaseDispatch
  <2>2. Short(EncodeInt(num), 2) /\ (num.value = 3 => Short(EncodeInt(num), 1))
    BY <1>2, <1>7, InterruptStands
  <2>3. Short(EncodeCase(i, at), InsSize(b, x))
    BY <1>2, <1>7, <1>8, <1>9, <2>1, <2>2
  <2>4. QED
    BY <1>6, <1>9, <2>3 DEF Fits, Waiting, b
<1>10. CASE b \in {\hD4, \hD5}
  <2>1. EncodeCase(i, at) = <<b, ByteOf(v)>>
    BY <1>6, <1>7, <1>10, CaseDispatch
  <2>2. Short(<<b, ByteOf(v)>>, 2)
    BY <1>1, <1>2, <1>10, ByteFormStands
  <2>3. Short(EncodeCase(i, at), InsSize(b, x))
    BY <1>2, <1>10, <2>1, <2>2
  <2>4. QED
    BY <1>6, <1>10, <2>3 DEF Fits, Waiting, b
<1>11. QED
  BY <1>8, <1>9, <1>10

-----------------------------------------------------------------------------
(* Row E.                                                                  *)

LEMMA RowLoop ==
    ASSUME NEW d, NEW x, Fields(d, x), d.lead \in \hE0 .. \hE3, NEW i, NEW at \in Nat, Made(i, d, at)
    PROVE  Fits(i, at, InsSize(d.lead, x))
<1> DEFINE b == d.lead
           v == at + d.len + Signed(d.args[1], 8)
           num == ImmArg(v, 2)
           op == Loops[b - \hE0 + 1]
<1>1. b \in WithByte /\ b \in Bare /\ b \in Int
  BY DEF WithByte, Bare
<1>2. InsSize(b, x) = 2 /\ d.args[1] \in Int
  BY <1>1, BareFieldsAre
<1>3. b \notin DOMAIN PlainOneByte
  BY DEF PlainOneByte
<1>4. Case(d, at) = RowE(d, at)
  BY <1>1, <1>3, BareCase
<1>5. RowE(d, at) = <<op, <<num>> >>
  BY <1>1, RowEIs DEF ShortTarget
<1>6. v \in Int
  <2>1. d.len \in Nat
    BY DEF Fields
  <2>2. Signed(d.args[1], 8) \in Int
    BY <1>2, SignedByte
  <2>3. QED
    BY <2>1, <2>2
<1>7. op \in {"LOOPNE", "LOOPE", "LOOP", "JCXZ"}
  <2>1. b - \hE0 + 1 \in 1 .. 4
    OBVIOUS
  <2> HIDE DEF b
  <2>2. QED
    BY <2>1 DEF Loops
<1>8. num.value = v
  BY ImmArgIs
<1> HIDE DEF b, v, num, op
<1>9. i.op = op /\ i.argv[1] = num
  BY <1>4, <1>5 DEF Made
<1>10. In(Loops, i.op)
  BY <1>7, <1>9, TransfersAre
<1> DEFINE n == \hE0 + Index(Loops, i.op)
<1>11. EncodeCase(i, at) = EncodeLoop(n, v - at) /\ n \in \hE0 .. \hE3
  BY <1>8, <1>9, <1>10, TransferDispatch
<1> HIDE DEF n
<1>12. v - at \in Int
  BY <1>6
<1>13. Short(EncodeCase(i, at), 2)
  BY <1>11, <1>12, LoopStands
<1>14. i.op \notin Waiting
  BY <1>7, <1>9 DEF Waiting
<1>15. QED
  BY <1>2, <1>13, <1>14 DEF Fits, b

LEMMA RowPort ==
    ASSUME NEW d, NEW x, Fields(d, x), d.lead \in \hE4 .. \hE7 \cup \hEC .. \hEF,
           NEW i, NEW at, Made(i, d, at)
    PROVE  Fits(i, at, InsSize(d.lead, x))
<1> DEFINE b == d.lead
           w == WidthOf(b)
           acc == RegArg(AX, w)
           near == b < \hE8
           port == IF near THEN ImmArg(d.args[1], 0) ELSE RegArg(DX, 2)
<1>1. b \in Bare /\ b \in Int /\ (near => b \in WithByte) /\ (~near => b \in Singles)
  BY DEF Singles, WithByte, Bare
<1>2. InsSize(b, x) = (IF near THEN 2 ELSE 1) /\ (near => d.args[1] \in Int)
  BY <1>1, BareFieldsAre
<1>3. b \notin DOMAIN PlainOneByte
  BY DEF PlainOneByte
<1>4. Case(d, at) = RowE(d, at) /\ w \in {1, 2}
  BY <1>1, <1>3, BareCase
<1>5. RowE(d, at) = <<"IN", <<acc, port>> >> \/ RowE(d, at) = <<"OUT", <<port, acc>> >>
  <2>1. CASE b \in \hE4 .. \hE5
    BY <1>1, <2>1, RowEIs
  <2>2. CASE b \in \hE6 .. \hE7
    BY <1>1, <2>2, RowEIs
  <2>3. CASE b \in \hEC .. \hED
    BY <1>1, <2>3, RowEIs
  <2>4. CASE b \in \hEE .. \hEF
    BY <1>1, <2>4, RowEIs
  <2>5. QED
    BY <2>1, <2>2, <2>3, <2>4
<1>6. acc.kind = "reg" /\ acc.size = w
  BY AccumulatorIs
<1>7. /\ near => port.kind = "imm" /\ port.value \in Int
      /\ ~near => port.kind = "reg"
  BY <1>2, ImmArgIs DEF RegArg
<1> HIDE DEF b, w, acc, port, near
<1>8. /\ i.op = "IN" \/ i.op = "OUT"
      /\ i.op = "IN" => i.argv[1] = acc /\ i.argv[2] = port
      /\ i.op = "OUT" => i.argv[1] = port /\ i.argv[2] = acc
  BY <1>4, <1>5 DEF Made
<1>9. EncodeCase(i, at) = EncodeIn(acc, port) \/ EncodeCase(i, at) = EncodeOut(port, acc)
  BY <1>8, CaseDispatch
<1>10. /\ port.kind = "reg" => Short(EncodeIn(acc, port), 1) /\ Short(EncodeOut(port, acc), 1)
       /\ port.kind = "imm" /\ port.value \in Int
            => Short(EncodeIn(acc, port), 2) /\ Short(EncodeOut(port, acc), 2)
  BY <1>4, <1>6, PortsStand
<1>11. Short(EncodeCase(i, at), InsSize(b, x))
  BY <1>2, <1>7, <1>9, <1>10
<1>12. QED
  BY <1>8, <1>11 DEF Fits, Waiting, b

LEMMA NearBoth ==
    ASSUME NEW v \in Int
    PROVE  /\ EncodeNear(\hE8, v) \in Seq(Byte)
           /\ EncodeNear(\hE9, v) \in Seq(Byte)
           /\ Near(v) => Short(EncodeNear(\hE8, v), 3)
           /\ Near(v) => Short(EncodeNear(\hE9, v), 3)
<1>1. EncodeNear(\hE8, v) \in Seq(Byte)
  BY NearStands
<1>2. EncodeNear(\hE9, v) \in Seq(Byte)
  BY NearStands
<1>3. Near(v) => Short(EncodeNear(\hE8, v), 3)
  BY NearStands
<1>4. Near(v) => Short(EncodeNear(\hE9, v), 3)
  BY NearStands
<1>5. QED
  BY <1>1, <1>2, <1>3, <1>4

(* The jumps and calls to a number.                                        *)
LEMMA JumpStands ==
    ASSUME NEW a, a.kind = "imm", a.value \in Int, NEW at \in Nat
    PROVE  /\ EncodeJmp(a, at) \in Seq(Byte) /\ EncodeCall(a, at) \in Seq(Byte)
           /\ Near(a.value - at) => Short(EncodeJmp(a, at), 3) /\ Short(EncodeCall(a, at), 3)
           /\ InByte(a.value - at - 2) => Short(EncodeJmp(a, at), 2)
<1> DEFINE v == a.value - at
<1>1. v \in Int /\ v - 2 \in Int
  OBVIOUS
<1>2. /\ EncodeNear(\hE8, v) \in Seq(Byte)
      /\ EncodeNear(\hE9, v) \in Seq(Byte)
      /\ Near(v) => Short(EncodeNear(\hE8, v), 3)
      /\ Near(v) => Short(EncodeNear(\hE9, v), 3)
  BY <1>1, NearBoth
<1>3. Short(<<\hEB, ByteOf(v - 2)>>, 2) /\ <<\hEB, ByteOf(v - 2)>> \in Seq(Byte)
  BY <1>1, ByteFormStands DEF WithByte
<1>4. EncodeCall(a, at) = EncodeNear(\hE8, v)
  BY DEF EncodeCall, IsImm
<1>5. EncodeJmp(a, at) = IF InByte(v - 2) THEN <<\hEB, ByteOf(v - 2)>> ELSE EncodeNear(\hE9, v)
  BY DEF EncodeJmp, IsImm
<1> HIDE DEF v
<1>6. Short(<<\hEB, ByteOf(v - 2)>>, 3)
  BY <1>3, MoreRoom
<1>7. QED
  BY <1>2, <1>3, <1>4, <1>5, <1>6 DEF v

LEMMA RowNear ==
    ASSUME NEW d, NEW x, Fields(d, x), d.lead \in \hE8 .. \hE9, NEW i, NEW at \in Nat, Made(i, d, at)
    PROVE  Fine(i, at, InsSize(d.lead, x))
<1> DEFINE b == d.lead
           v == (at + d.len + d.args[1]) % 65536
           num == ImmArg(v, 2)
           op == IF b = \hE8 THEN "CALL" ELSE "JMP"
<1>1. b \in WithWord /\ b \in Bare /\ b \in Int
  BY DEF WithWord, Bare
<1>2. InsSize(b, x) = 3 /\ d.args[1] \in Int
  BY <1>1, BareFieldsAre
<1>3. b \notin DOMAIN PlainOneByte
  BY DEF PlainOneByte
<1>4. Case(d, at) = RowE(d, at)
  BY <1>1, <1>3, BareCase
<1>5. RowE(d, at) = <<op, <<num>> >>
  BY <1>1, RowEIs DEF NearTarget
<1>6. v \in Int
  BY <1>2 DEF Fields
<1>7. num.value = v /\ num.kind = "imm"
  BY ImmArgIs
<1>8. op \in {"CALL", "JMP"}
  OBVIOUS
<1> HIDE DEF b, v, num, op
<1>9. i.op = op /\ i.argv[1] = num
  BY <1>4, <1>5 DEF Made
<1>10. EncodeCase(i, at) = EncodeJmp(num, at) \/ EncodeCase(i, at) = EncodeCall(num, at)
  BY <1>8, <1>9, TransferDispatch
<1>11. /\ EncodeJmp(num, at) \in Seq(Byte) /\ EncodeCall(num, at) \in Seq(Byte)
       /\ Near(num.value - at) => Short(EncodeJmp(num, at), 3) /\ Short(EncodeCall(num, at), 3)
  BY <1>6, <1>7, JumpStands
<1>12. ~Near(num.value - at) => Wraps(i, at)
  BY <1>7, <1>8, <1>9 DEF Wraps, IsImm
<1>13. i.op \notin Waiting
  BY <1>8, <1>9 DEF Waiting
<1>14. QED
  BY <1>2, <1>10, <1>11, <1>12, <1>13 DEF Fine, b

(* Without its prefixes a short jump may be out of reach; the longer form  *)
(* has one byte more.                                                      *)
LEMMA RowShort ==
    ASSUME NEW d, NEW x, Fields(d, x), d.lead = \hEB, NEW i, NEW at \in Nat, Made(i, d, at),
           i.len = d.len, d.len >= 2
    PROVE  Fine(i, at, InsSize(d.lead, x))
<1> DEFINE b == d.lead
           g == Signed(d.args[1], 8)
           v == at + d.len + g
           num == ImmArg(v, 2)
<1>1. b \in WithByte /\ b \in Bare /\ b \in Int
  BY DEF WithByte, Bare
<1>2. InsSize(b, x) = 2 /\ d.args[1] \in Int
  BY <1>1, BareFieldsAre
<1>3. b \notin DOMAIN PlainOneByte
  BY DEF PlainOneByte
<1>4. Case(d, at) = RowE(d, at)
  BY <1>1, <1>3, BareCase
<1>5. RowE(d, at) = <<"JMP", <<num>> >>
  BY <1>1, RowEIs DEF ShortTarget
<1>6. g \in Int /\ -128 <= g /\ g < 128 /\ d.len \in Nat
  <2>1. d.len \in Nat
    BY DEF Fields
  <2>2. QED
    BY <1>2, <2>1, SignedByte
<1>7. num.value = v /\ num.kind = "imm"
  BY ImmArgIs
<1> HIDE DEF b, g, num
<1>8. v \in Int /\ (~InByte(v - at - 2) => i.len >= 3)
  BY <1>6 DEF InByte
<1> HIDE DEF v
<1>9. i.op = "JMP" /\ i.argv[1] = num
  BY <1>4, <1>5 DEF Made
<1>10. EncodeCase(i, at) = EncodeJmp(num, at)
  BY <1>9, TransferDispatch
<1>11. /\ EncodeJmp(num, at) \in Seq(Byte)
       /\ Near(num.value - at) => Short(EncodeJmp(num, at), 3)
       /\ InByte(num.value - at - 2) => Short(EncodeJmp(num, at), 2)
  BY <1>7, <1>8, JumpStands
<1>12. ~Near(num.value - at) => Wraps(i, at)
  BY <1>7, <1>9 DEF Wraps, IsImm
<1>13. Near(num.value - at) /\ ~InByte(num.value - at - 2) => Short(EncodeCase(i, at), i.len)
  BY <1>6, <1>7, <1>8, <1>10, <1>11, MoreRoom
<1>14. i.op \notin Waiting
  BY <1>9 DEF Waiting
<1>15. QED
  BY <1>2, <1>7, <1>9, <1>10, <1>11, <1>12, <1>13, <1>14 DEF Fine, IsImm, b

-----------------------------------------------------------------------------
(* Row F.                                                                  *)

LEMMA Row3 ==
    ASSUME NEW d, NEW x, Fields(d, x), d.lead \in {\hF6, \hF7}, d.op # "UD_NOP",
           NEW i, NEW at, Made(i, d, at)
    PROVE  Fits(i, at, InsSize(d.lead, x))
<1> DEFINE b == d.lead
           w == WidthOf(b)
           a == RM(d, w)
           s == Size(Displacement(x))
           num == ImmArg(RMImm(d), w)
<1>1. b \in ModRMOpcodes /\ b \in \hF6 .. \hF7
  BY DEF ModRMOpcodes, ModRMRowF
<1>2. /\ Case(d, at) = RowF(d) /\ w \in {1, 2} /\ IsOperand(a, x, w)
      /\ InsSize(b, x) = 2 + s + Size(ImmAfterRM(b, x))
      /\ d.rm = x /\ Reg(x) \in 0 .. 7 /\ s \in 0 .. 2
      /\ ImmAfterRM(b, x) # << >> => RMImm(d) \in Int
  BY <1>1, GroupCase
<1>3. /\ Reg(x) = 0 => InsSize(b, x) = 2 + s + w /\ RMImm(d) \in Int
      /\ Reg(x) # 0 => InsSize(b, x) = 2 + s
  <2>1. <<1>> # << >> /\ <<2>> # << >>
    OBVIOUS
  <2>2. b = \hF6 => w = 1 /\ (Reg(x) = 0 => ImmAfterRM(b, x) = <<1>>)
    BY ImmediateWidths DEF WidthOf
  <2>3. b = \hF7 => w = 2 /\ (Reg(x) = 0 => ImmAfterRM(b, x) = <<2>>)
    BY ImmediateWidths DEF WidthOf
  <2>4. Reg(x) # 0 => ImmAfterRM(b, x) = << >>
    BY ImmediateWidths
  <2>5. QED
    BY <1>2, <2>1, <2>2, <2>3, <2>4, WidthSizes
<1> DEFINE argv == <<a>> \o (IF Reg(x) = 0 THEN <<num>> ELSE << >>)
<1>4. RowF(d) = <<Group3[Reg(x) + 1], argv>>
  BY <1>1, <1>2 DEF RowF
<1>5. num.kind = "imm" /\ (Reg(x) = 0 => num.value \in Int)
  BY <1>3, ImmArgIs
<1> HIDE DEF b, w, a, num, s
<1>6. argv[1] = a /\ (Reg(x) = 0 => argv[2] = num)
  OBVIOUS
<1> HIDE DEF argv
<1>7. i.op = Group3[Reg(x) + 1] /\ i.argv[1] = a /\ (Reg(x) = 0 => i.argv[2] = num)
  BY <1>2, <1>4, <1>6 DEF Made
<1>8. CASE Reg(x) = 0
  <2>1. i.op = "TEST"
    BY <1>7, <1>8 DEF Group3
  <2>2. EncodeCase(i, at) = EncodeTest(a, num)
    BY <1>7, <1>8, <2>1, CaseDispatch
  <2>3. Short(EncodeCase(i, at), IF Accumulator(a) THEN 1 + w ELSE 2 + s + w)
    BY <1>2, <1>5, <1>8, <2>2, TestNumber DEF s
  <2>4. 1 + w \in Int /\ 2 + s + w \in Int /\ 1 + w <= 2 + s + w
    BY <1>2
  <2>5. Short(EncodeCase(i, at), 2 + s + w)
    BY <2>3, <2>4, MoreRoom
  <2>6. QED
    BY <1>3, <1>8, <2>1, <2>5 DEF Fits, Waiting, b
<1>9. CASE Reg(x) = 1
  <2>1. i.op = "UD"
    BY <1>7, <1>9 DEF Group3
  <2>2. QED
    BY <2>1, NoCaseFits DEF NoCase
<1>10. CASE Reg(x) \in 2 .. 7
  <2>1. i.op \in {"NOT", "NEG", "MUL", "IMUL", "DIV", "IDIV"}
    BY <1>7, <1>10 DEF Group3
  <2> DEFINE c == Group3Code[i.op]
  <2>2. EncodeCase(i, at) = <<\hF6 + WordBit(a)>> \o ModRM(a, c) /\ c \in 2 .. 7
    <3>1. /\ EncodeCase(i, at) = <<\hF6 + WordBit(i.argv[1])>> \o ModRM(i.argv[1], Group3Code[i.op])
          /\ Group3Code[i.op] \in 2 .. 7
      BY <2>1, GroupDispatch
    <3>2. QED
      BY <1>7, <3>1
  <2> HIDE DEF c
  <2>3. Short(EncodeCase(i, at), 2 + s)
    BY <1>2, <2>2, Group3Stands DEF s
  <2>4. InsSize(b, x) = 2 + s
    BY <1>3, <1>10
  <2>5. QED
    BY <2>1, <2>3, <2>4 DEF Fits, Waiting, b
<1>11. QED
  BY <1>2, <1>8, <1>9, <1>10

(* 0xFE and 0xFF.                                                          *)
LEMMA IndirectStands ==
    ASSUME NEW a, NEW m, NEW w, IsOperand(a, m, w), NEW at
    PROVE  /\ Short(EncodeCall(a, at), 2 + Size(Displacement(m)))
           /\ Short(EncodeJmp(a, at), 2 + Size(Displacement(m)))
           /\ Mod(m) # 3 => /\ Short(EncodeFar(\h9A, 3, a), 2 + Size(Displacement(m)))
                            /\ Short(EncodeFar(\hEA, 5, a), 2 + Size(Displacement(m)))
<1>1. ~IsImm(a) /\ (Mod(m) # 3 => IsMem(a))
  BY DEF IsOperand, IsImm, IsMem
<1>2. \hFF \in {\hFE, \hFF}
  OBVIOUS
<1>3. /\ Short(<<\hFF>> \o ModRM(a, 2), 2 + Size(Displacement(m)))
      /\ Short(<<\hFF>> \o ModRM(a, 4), 2 + Size(Displacement(m)))
  BY <1>2, Group5Form
<1>4. ASSUME Mod(m) # 3
      PROVE  /\ Short(<<\hFF>> \o ModRM(a, 3), 2 + Size(Displacement(m)))
             /\ Short(<<\hFF>> \o ModRM(a, 5), 2 + Size(Displacement(m)))
  BY <1>2, <1>4, Group5Form
<1>5. EncodeCall(a, at) = <<\hFF>> \o ModRM(a, 2) /\ EncodeJmp(a, at) = <<\hFF>> \o ModRM(a, 4)
  BY <1>1 DEF EncodeCall, EncodeJmp, EncodeIndirectJump
<1>6. ASSUME Mod(m) # 3
      PROVE  /\ EncodeFar(\h9A, 3, a) = <<\hFF>> \o ModRM(a, 3)
             /\ EncodeFar(\hEA, 5, a) = <<\hFF>> \o ModRM(a, 5)
  BY <1>1, <1>6 DEF EncodeFar, MemRegFar, ModRM
<1>7. ASSUME Mod(m) # 3
      PROVE  /\ Short(EncodeFar(\h9A, 3, a), 2 + Size(Displacement(m)))
             /\ Short(EncodeFar(\hEA, 5, a), 2 + Size(Displacement(m)))
  BY <1>4, <1>6, <1>7
<1>8. QED
  BY <1>3, <1>5, <1>7

LEMMA Row5 ==
    ASSUME NEW d, NEW x, Fields(d, x), d.lead \in {\hFE, \hFF}, d.op # "UD_NOP",
           NEW i, NEW at, Made(i, d, at)
    PROVE  Fits(i, at, InsSize(d.lead, x))
<1> DEFINE b == d.lead
           w == WidthOf(b)
           far == Reg(x) \in {3, 5}
           u == IF far THEN w + 2 ELSE w
           a == RM(d, u)
           s == Size(Displacement(x))
           op == Group5[Reg(x) + 1]
<1>1. b \in ModRMOpcodes /\ b \in \hFE .. \hFF
  BY DEF ModRMOpcodes, ModRMRowF
<1>2. /\ Case(d, at) = RowF(d) /\ w \in {1, 2} /\ IsOperand(a, x, u)
      /\ InsSize(b, x) = 2 + s + Size(ImmAfterRM(b, x))
      /\ d.rm = x /\ Reg(x) \in 0 .. 7 /\ s \in 0 .. 2
      /\ d.op = GroupOutcome(b, x)
  BY <1>1, GroupCase
<1>3. InsSize(b, x) = 2 + s
  <2>1. ImmAfterRM(b, x) = << >>
    <3> HIDE DEF b
    <3>1. b \notin \h80 .. \h83 \cup {\hC0, \hC1, \hC6, \hC7, \hF6, \hF7}
      BY <1>1
    <3>2. QED
      BY <3>1, ImmediateWidths
  <2>2. QED
    BY <1>2, <2>1, WidthSizes
<1>4. far => Mod(x) # 3
  <2>1. GroupOutcome(b, x) = IncDecGroup(b, x)
    <3> HIDE DEF b
    <3>1. b \notin ShiftOpcodes /\ b \notin {PopRM, \hC6, \hC7} /\ b \notin {\hF6, \hF7} /\ b \in {\hFE, \hFF}
      BY <1>1 DEF ShiftOpcodes, PopRM
    <3>2. QED
      BY <3>1 DEF GroupOutcome
  <2>2. QED
    BY <1>2, <2>1 DEF IncDecGroup
<1>5. RowF(d) = <<op, <<a>> >>
  BY <1>1, <1>2 DEF RowF
<1>6. w \in {1, 2} /\ (~far => u = w)
  BY <1>2
<1> HIDE DEF b, w, u, a, s
<1>7. i.op = op /\ i.argv[1] = a
  BY <1>2, <1>5 DEF Made
<1>8. /\ Reg(x) = 0 => op = "INC"
      /\ Reg(x) = 1 => op = "DEC"
      /\ Reg(x) = 2 => op = "CALL"
      /\ Reg(x) = 3 => op = "CALL_FAR"
      /\ Reg(x) = 4 => op = "JMP"
      /\ Reg(x) = 5 => op = "JMP_FAR"
      /\ Reg(x) = 6 => op = "PUSH"
      /\ Reg(x) = 7 => op = "POP"
  BY DEF Group5
<1> HIDE DEF op
<1>9. 1 \in Int /\ 2 + s \in Int /\ 1 <= 2 + s
  BY <1>2
<1>10. CASE Reg(x) \in {0, 1}
  <2>1. EncodeCase(i, at) = EncodeIncDec(0, a) \/ EncodeCase(i, at) = EncodeIncDec(1, a)
    BY <1>7, <1>8, <1>10, CaseDispatch
  <2>2. ~far
    BY <1>10
  <2>3. IsOperand(a, x, w)
    BY <1>2, <1>6, <2>2
  <2>4. Short(EncodeCase(i, at), IF a.kind = "reg" /\ w = 2 THEN 1 ELSE 2 + s)
    BY <1>6, <2>1, <2>3, IncDecStands DEF s
  <2>5. Short(EncodeCase(i, at), 2 + s)
    BY <1>9, <2>4, MoreRoom
  <2>6. QED
    BY <1>3, <1>7, <1>8, <1>10, <2>5 DEF Fits, Waiting, b
<1>11. CASE Reg(x) \in {6, 7}
  <2>1. EncodeCase(i, at) = EncodePush(a) \/ EncodeCase(i, at) = EncodePop(a)
    BY <1>7, <1>8, <1>11, CaseDispatch
  <2>2. Short(EncodeCase(i, at), IF a.kind = "reg" THEN 1 ELSE 2 + s)
    BY <1>2, <2>1, StackStands DEF s
  <2>3. Short(EncodeCase(i, at), 2 + s)
    BY <1>9, <2>2, MoreRoom
  <2>4. QED
    BY <1>3, <1>7, <1>8, <1>11, <2>3 DEF Fits, Waiting, b
<1>12. CASE Reg(x) \in {2, 4}
  <2>1. EncodeCase(i, at) = EncodeCall(a, at) \/ EncodeCase(i, at) = EncodeJmp(a, at)
    BY <1>7, <1>8, <1>12, TransferDispatch
  <2>2. Short(EncodeCase(i, at), 2 + s)
    BY <1>2, <2>1, IndirectStands DEF s
  <2>3. QED
    BY <1>3, <1>7, <1>8, <1>12, <2>2 DEF Fits, Waiting, b
<1>13. CASE Reg(x) \in {3, 5}
  <2>1. EncodeCase(i, at) = EncodeFar(\h9A, 3, a) \/ EncodeCase(i, at) = EncodeFar(\hEA, 5, a)
    BY <1>7, <1>8, <1>13, TransferDispatch
  <2>2. Mod(x) # 3
    BY <1>4, <1>13
  <2>3. Short(EncodeCase(i, at), 2 + s)
    BY <1>2, <2>1, <2>2, IndirectStands DEF s
  <2>4. QED
    BY <1>3, <1>7, <1>8, <1>13, <2>3 DEF Fits, Waiting, b
<1>14. QED
  BY <1>2, <1>10, <1>11, <1>12, <1>13

-----------------------------------------------------------------------------
(* Instructions without operands.                                          *)

LEMMA PlainNames ==
    ASSUME NEW b \in DOMAIN PlainOneByte
    PROVE  \/ PlainOneByte[b] \in DOMAIN OneByteCode
           \/ PlainOneByte[b] = "RET" \/ PlainOneByte[b] = "RETF"
<1> DEFINE name == PlainOneByte[b]
<1>1. b \in {\h27, \h2F, \h37, \h3F, \h90, \hC3, \hCB} \cup \h98 .. \h99 \cup \h9B .. \h9F
           \cup \hCE .. \hCF \cup \hD6 .. \hD7 \cup \hF4 .. \hF5 \cup \hF8 .. \hFD
  BY DEF PlainOneByte
<1>2. CASE b < \h40
  <2>1. name = <<"DAA", "DAS", "AAA", "AAS">>[((b \div 8) % 4) + 1]
    BY <1>1, <1>2 DEF PlainOneByte
  <2>2. ((b \div 8) % 4) + 1 \in 1 .. 4
    BY <1>1
  <2> HIDE DEF name
  <2>3. name \in {"DAA", "DAS", "AAA", "AAS"}
    BY <2>1, <2>2
  <2>4. QED
    BY <2>3 DEF OneByteCode, name
<1>3. CASE b = \h90
  BY <1>1, <1>3 DEF PlainOneByte, OneByteCode
<1>4. CASE b \in \h98 .. \h99
  <2>1. name \in {"CBW", "CWD"}
    BY <1>1, <1>4 DEF PlainOneByte
  <2>2. QED
    BY <2>1 DEF OneByteCode
<1>5. CASE b \in \h9B .. \h9F
  <2>1. name \in {"FWAIT", "PUSHF", "POPF", "SAHF", "LAHF"}
    BY <1>1, <1>5 DEF PlainOneByte
  <2>2. QED
    BY <2>1 DEF OneByteCode
<1>6. CASE b = \hC3
  BY <1>1, <1>6 DEF PlainOneByte
<1>7. CASE b = \hCB
  BY <1>1, <1>7 DEF PlainOneByte
<1>8. CASE b \in \hCE .. \hCF
  <2>1. name \in {"INTO", "IRET"}
    BY <1>1, <1>8 DEF PlainOneByte
  <2>2. QED
    BY <2>1 DEF OneByteCode
<1>9. CASE b \in \hD6 .. \hD7
  <2>1. name \in {"SALC", "XLAT"}
    BY <1>1, <1>9 DEF PlainOneByte
  <2>2. QED
    BY <2>1 DEF OneByteCode
<1>10. CASE b \in \hF4 .. \hF5
  <2>1. name \in {"HLT", "CMC"}
    BY <1>1, <1>10 DEF PlainOneByte
  <2>2. QED
    BY <2>1 DEF OneByteCode
<1>11. CASE b \in \hF8 .. \hFD
  <2>1. name \in {"CLC", "STC", "CLI", "STI", "CLD", "STD"}
    BY <1>1, <1>11 DEF PlainOneByte
  <2>2. QED
    BY <2>1 DEF OneByteCode
<1>12. QED
  BY <1>1, <1>2, <1>3, <1>4, <1>5, <1>6, <1>7, <1>8, <1>9, <1>10, <1>11

LEMMA RowPlain ==
    ASSUME NEW d, NEW x, Fields(d, x), d.lead \in DOMAIN PlainOneByte, NEW i, NEW at, Made(i, d, at)
    PROVE  Fits(i, at, InsSize(d.lead, x))
<1> DEFINE b == d.lead
           op == PlainOneByte[b]
<1>1. b \in Singles /\ b \in Bare
  BY PlainBytes DEF Bare
<1>2. d.op = "OK" /\ InsSize(b, x) = 1
  BY <1>1, BareFieldsAre
<1>3. Case(d, at) = <<op, << >> >>
  <2>1. b \notin FPUEscapes
    BY PlainBytes
  <2>2. QED
    BY <1>2, <2>1 DEF Case
<1>4. op \in DOMAIN OneByteCode \/ op = "RET" \/ op = "RETF"
  BY PlainNames
<1> HIDE DEF op, b
<1>5. i.op = op /\ i.argv = << >>
  BY <1>3 DEF Made
<1>6. CASE op \in DOMAIN OneByteCode
  <2>1. op \notin NoCase /\ op \notin Waiting
    BY <1>6 DEF OneByteCode, NoCase, Waiting
  <2>2. EncodeCase(i, at) = <<OneByteCode[op]>>
    <3>1. op \notin FpuOps
      BY <1>6, FpuOpsAre DEF OneByteCode, FpuNoOperand
    <3>2. ~TransfersTo(op)
      BY <1>6, TransfersAre DEF OneByteCode, TransfersTo, Transfers, FarOps
    <3>3. QED
      BY <1>5, <1>6, <2>1, <3>1, <3>2 DEF EncodeCase
  <2>3. Short(<<OneByteCode[op]>>, 1)
    BY <1>6, OneByteStands, SingleStands
  <2>4. QED
    BY <1>2, <1>5, <2>1, <2>2, <2>3 DEF Fits, b
<1>7. CASE op = "RET"
  <2>1. EncodeCase(i, at) = EncodeReturn(\hC2, i.argv)
    BY <1>5, <1>7, TransferDispatch
  <2>2. EncodeReturn(\hC2, i.argv) = <<\hC3>>
    BY <1>5 DEF EncodeReturn
  <2>3. Short(<<\hC3>>, 1)
    BY SingleStands DEF Singles
  <2>4. QED
    BY <1>2, <1>5, <1>7, <2>1, <2>2, <2>3 DEF Fits, Waiting, b
<1>8. CASE op = "RETF"
  <2>1. EncodeCase(i, at) = EncodeReturn(\hCA, i.argv)
    BY <1>5, <1>8, TransferDispatch
  <2>2. EncodeReturn(\hCA, i.argv) = <<\hCB>>
    BY <1>5 DEF EncodeReturn
  <2>3. Short(<<\hCB>>, 1)
    BY SingleStands DEF Singles
  <2>4. QED
    BY <1>2, <1>5, <1>8, <2>1, <2>2, <2>3 DEF Fits, Waiting, b
<1>9. QED
  BY <1>4, <1>6, <1>7, <1>8

-----------------------------------------------------------------------------
(* The rows together.                                                      *)

LEMMA AbsentIsNop ==
    ASSUME NEW d, NEW x, Fields(d, x), d.lead \in Absent
    PROVE  d.op = "UD_NOP"
<1>1. d.lead \notin FPUEscapes /\ d.lead \notin PeekOpcodes /\ d.lead \notin ModRMOpcodes
  BY Kinds
<1>2. QED
  BY <1>1 DEF Fields, OutcomeOf

LEMMA LowRows ==
    ASSUME NEW d, NEW x, Fields(d, x), d.lead < \h80, NEW i, NEW at \in Nat, Made(i, d, at)
    PROVE  Fine(i, at, InsSize(d.lead, x))
<1> DEFINE b == d.lead
<1>1. CASE d.op = "UD_NOP"
  BY <1>1, NopFits, FitsIsFine
<1>2. CASE b \in DOMAIN PlainOneByte
  BY <1>2, RowPlain, FitsIsFine
<1>3. CASE b < \h40 /\ b % 8 < 4
  <2>1. Short(EncodeCase(i, at), InsSize(b, x)) /\ i.op \in AluOps
    BY <1>3, RowAlu
  <2>2. i.op \notin Waiting
    BY <2>1 DEF AluOps, Waiting
  <2>3. QED
    BY <2>1, <2>2, FitsIsFine DEF Fits
<1>4. CASE b < \h40 /\ b % 8 \in {4, 5}
  BY <1>4, RowAluNumber, FitsIsFine
<1>5. CASE b \in {\h06, \h07, \h0E, \h0F, \h16, \h17, \h1E, \h1F}
  BY <1>5, RowSegment, FitsIsFine
<1>6. CASE b \in \h40 .. \h5F
  BY <1>6, Row4to5, FitsIsFine
<1>7. CASE b \in \h70 .. \h7F
  BY <1>7, Row7
<1>8. d.op # "UD_NOP" => b \notin \h60 .. \h6F
  BY AbsentIsNop DEF Absent
<1>9. b \in 0 .. \h7F /\ b \notin Plain
  <2>1. b \in 0 .. 255 /\ b \notin Plain
    BY DEF Fields, Byte
  <2> HIDE DEF b
  <2>2. QED
    BY <2>1 DEF b
<1>10. {\h27, \h2F, \h37, \h3F} \subseteq DOMAIN PlainOneByte
  BY DEF PlainOneByte
<1> HIDE DEF b
<1>11. \/ d.op = "UD_NOP" \/ b \in DOMAIN PlainOneByte
       \/ (b < \h40 /\ b % 8 < 4) \/ (b < \h40 /\ b % 8 \in {4, 5})
       \/ b \in {\h06, \h07, \h0E, \h0F, \h16, \h17, \h1E, \h1F}
       \/ b \in \h40 .. \h5F \/ b \in \h70 .. \h7F
  <2>1. CASE b < \h40
    <3>1. b % 8 < 4 \/ b % 8 \in {4, 5} \/ b \in {\h06, \h0E, \h16, \h1E, \h26, \h2E, \h36, \h3E}
          \/ b \in {\h07, \h0F, \h17, \h1F, \h27, \h2F, \h37, \h3F}
      BY <1>9, <2>1
    <3>2. b \notin {\h26, \h2E, \h36, \h3E}
      BY <1>9 DEF Plain, SegOverrides
    <3>3. QED
      BY <1>10, <2>1, <3>1, <3>2
  <2>2. CASE b >= \h40
    BY <1>8, <1>9, <2>2
  <2>3. QED
    BY <1>9, <2>1, <2>2
<1>12. QED
  BY <1>1, <1>2, <1>3, <1>4, <1>5, <1>6, <1>7, <1>11 DEF b

(* A short jump is as long as its two bytes and its prefixes.              *)
LEMMA MiddleRows ==
    ASSUME NEW d, NEW x, Fields(d, x), d.lead \in \h80 .. \hBF, NEW i, NEW at \in Nat, Made(i, d, at)
    PROVE  Fine(i, at, InsSize(d.lead, x))
<1> DEFINE b == d.lead
<1>1. CASE b \in DOMAIN PlainOneByte
  BY <1>1, RowPlain, FitsIsFine
<1>2. CASE b \in \h80 .. \h83
  BY <1>2, Row80, FitsIsFine
<1>3. CASE b \in \h84 .. \h8B
  BY <1>3, Row84, FitsIsFine
<1>4. CASE b \in \h8C .. \h8E
  BY <1>4, Row8C, FitsIsFine
<1>5. CASE b = \h8F
  BY <1>5, RowPeek, FitsIsFine DEF PeekOpcodes, PopRM
<1>6. CASE b \in \h91 .. \h97
  BY <1>6, RowXchg, FitsIsFine
<1>7. CASE b = \h9A
  BY <1>7, RowCallFar, FitsIsFine
<1>8. CASE b \in \hA0 .. \hA3
  BY <1>8, RowMovDirect, FitsIsFine
<1>9. CASE b \in \hA4 .. \hA7 \cup \hAA .. \hAF
  BY <1>9, RowString, FitsIsFine
<1>10. CASE b \in \hA8 .. \hA9
  BY <1>10, RowAccNumber, FitsIsFine
<1>11. CASE b \in \hB0 .. \hBF
  BY <1>11, RowMovNumber, FitsIsFine
<1>12. {\h90, \h98, \h99, \h9B, \h9C, \h9D, \h9E, \h9F} \subseteq DOMAIN PlainOneByte
  BY DEF PlainOneByte
<1>13. b \in \h80 .. \hBF
  OBVIOUS
<1> HIDE DEF b
<1>14. QED
  BY <1>1, <1>2, <1>3, <1>4, <1>5, <1>6, <1>7, <1>8, <1>9, <1>10, <1>11, <1>12, <1>13 DEF b

LEMMA HighRows ==
    ASSUME NEW d, NEW x, Fields(d, x), d.lead >= \hC0, d.lead \notin FPUEscapes,
           NEW i, NEW at \in Nat, Made(i, d, at), i.len = d.len,
           d.op # "UD_NOP" => d.len >= InsSize(d.lead, x)
    PROVE  Fine(i, at, InsSize(d.lead, x))
<1> DEFINE b == d.lead
<1>1. CASE d.op = "UD_NOP"
  BY <1>1, NopFits, FitsIsFine
<1>2. CASE b \in DOMAIN PlainOneByte
  BY <1>2, RowPlain, FitsIsFine
<1>3. CASE b \in ShiftOpcodes /\ d.op # "UD_NOP"
  BY <1>3, RowShift, FitsIsFine
<1>4. CASE b \in {\hC2, \hCA}
  BY <1>4, RowReturn, FitsIsFine
<1>5. CASE b \in {\hC4, \hC5}
  BY <1>5, RowPeek, FitsIsFine DEF PeekOpcodes, FarLoads
<1>6. CASE b \in {\hC6, \hC7} /\ d.op # "UD_NOP"
  BY <1>6, RowMovImm, FitsIsFine
<1>7. CASE b \in {\hCC, \hCD, \hD4, \hD5}
  BY <1>7, RowInterrupt, FitsIsFine
<1>8. CASE b \in \hE0 .. \hE3
  BY <1>8, RowLoop, FitsIsFine
<1>9. CASE b \in \hE4 .. \hE7 \cup \hEC .. \hEF
  BY <1>9, RowPort, FitsIsFine
<1>10. CASE b \in \hE8 .. \hE9
  BY <1>10, RowNear
<1>11. CASE b = \hEA
  BY <1>11, RowCallFar, FitsIsFine
<1>12. CASE b = \hEB
  <2>1. b \in WithByte /\ b \in Bare
    BY <1>12 DEF WithByte, Bare
  <2>2. d.op = "OK" /\ InsSize(b, x) = 2
    BY <2>1, BareFieldsAre
  <2>3. d.len >= 2
    BY <2>2
  <2>4. QED
    BY <1>12, <2>3, RowShort
<1>13. CASE b \in {\hF6, \hF7} /\ d.op # "UD_NOP"
  BY <1>13, Row3, FitsIsFine
<1>14. CASE b \in {\hFE, \hFF} /\ d.op # "UD_NOP"
  BY <1>14, Row5, FitsIsFine
<1>15. {\hC3, \hCB, \hCE, \hCF, \hD6, \hD7, \hF4, \hF5} \cup \hF8 .. \hFD \subseteq DOMAIN PlainOneByte
  BY DEF PlainOneByte
<1>16. d.op # "UD_NOP" => b \notin {\hC8, \hC9, \hF1}
  BY AbsentIsNop DEF Absent
<1>17. b \in \hC0 .. \hFF /\ b \notin {\hF0, \hF2, \hF3} /\ b \notin \hD8 .. \hDF
  <2>1. b \in 0 .. 255 /\ b \notin Plain /\ b >= \hC0 /\ b \notin FPUEscapes
    BY DEF Fields, Byte
  <2> HIDE DEF b
  <2>2. QED
    BY <2>1 DEF Plain, LockPrefixes, RepPrefixes, FPUEscapes
<1>18. ShiftOpcodes = {\hC0, \hC1, \hD0, \hD1, \hD2, \hD3}
  BY DEF ShiftOpcodes
<1> HIDE DEF b
<1>19. QED
  BY <1>1, <1>2, <1>3, <1>4, <1>5, <1>6, <1>7, <1>8, <1>9, <1>10, <1>11, <1>12, <1>13, <1>14,
     <1>15, <1>16, <1>17, <1>18 DEF b

-----------------------------------------------------------------------------
(* The FPU.                                                                *)

LEMMA FpuTablesAre ==
    /\ \A op : In(FpuArith, op) <=> op \in {"FADD", "FMUL", "FCOM", "FCOMP", "FSUB", "FSUBR", "FDIV", "FDIVR"}
    /\ \A op : In(FpuInt, op) <=> op \in {"FIADD", "FIMUL", "FICOM", "FICOMP", "FISUB", "FISUBR", "FIDIV", "FIDIVR"}
    /\ DOMAIN FpuPopCode = {"FADDP", "FMULP", "FSUBP", "FSUBRP", "FDIVP", "FDIVRP"}
    /\ DOMAIN FpuControl = {"FCLEX", "FDISI", "FENI", "FINIT"}
    /\ FpuMoves = {"FLD", "FXCH", "FFREE", "FST", "FSTP", "FUCOM", "FUCOMP",
                   "FILD", "FIST", "FISTP", "FISTTP", "FBLD", "FBSTP", "FRSTOR", "FSAVE",
                   "FSTSW", "FLDENV", "FLDCW", "FSTENV", "FSTCW"}
<1>1. \A op : In(FpuArith, op) <=> op \in {"FADD", "FMUL", "FCOM", "FCOMP", "FSUB", "FSUBR", "FDIV", "FDIVR"}
  BY DEF In, FpuArith
<1>2. \A op : In(FpuInt, op) <=> op \in {"FIADD", "FIMUL", "FICOM", "FICOMP", "FISUB", "FISUBR", "FIDIV", "FIDIVR"}
  BY DEF In, FpuInt
<1>3. DOMAIN FpuPopCode = {"FADDP", "FMULP", "FSUBP", "FSUBRP", "FDIVP", "FDIVRP"}
  BY DEF FpuPopCode
<1>4. DOMAIN FpuControl = {"FCLEX", "FDISI", "FENI", "FINIT"}
  BY DEF FpuControl
<1>5. FpuMoves = {"FLD", "FXCH", "FFREE", "FST", "FSTP", "FUCOM", "FUCOMP",
                   "FILD", "FIST", "FISTP", "FISTTP", "FBLD", "FBSTP", "FRSTOR", "FSAVE",
                   "FSTSW", "FLDENV", "FLDCW", "FSTENV", "FSTCW"}
  BY DEF FpuMoves, FpuStackCode
<1>6. QED
  BY <1>1, <1>2, <1>3, <1>4, <1>5

LEMMA FpuCase ==
    ASSUME NEW i, NEW at, i.op \in FpuOps
    PROVE  EncodeCase(i, at) = EncodeFpu(i)
<1>1. i.op \notin NoCase /\ i.op \notin DOMAIN OneByteCode
  BY FpuOpsAre DEF NoCase, OneByteCode, FpuNoOperand
<1>2. QED
  BY <1>1, TransfersAre, FpuOpsAre DEF EncodeCase, TransfersTo, Transfers, FarOps, FpuNoOperand

LEMMA FpuDispatch ==
    ASSUME NEW i, NEW at
    PROVE  LET op == i.op
               a  == i.argv[1]
           IN  /\ op \in {"FADD", "FMUL", "FCOM", "FCOMP", "FSUB", "FSUBR", "FDIV", "FDIVR"}
                    => EncodeCase(i, at) = EncodeFpuArith(Index(FpuArith, op), a, i.argv[2])
               /\ op \in {"FIADD", "FIMUL", "FICOM", "FICOMP", "FISUB", "FISUBR", "FIDIV", "FIDIVR"}
                    => EncodeCase(i, at) = EncodeFpuInt(Index(FpuInt, op), a)
               /\ op \in {"FADDP", "FMULP", "FSUBP", "FSUBRP", "FDIVP", "FDIVRP"}
                    => EncodeCase(i, at) = EncodeFpuPop(FpuPopCode[op], a)
               /\ op \in DOMAIN FpuNoOperand => EncodeCase(i, at) = <<\hD9, FpuNoOperand[op]>>
               /\ op \in {"FCLEX", "FDISI", "FENI", "FINIT"}
                    => EncodeCase(i, at) = <<\hDB, FpuControl[op]>>
               /\ op = "FUCOMPP" => EncodeCase(i, at) = <<\hDA, \hE9>>
               /\ op \in FpuMoves => EncodeCase(i, at) = EncodeFpuMove(op, i.argv)
<1>1. i.op \in {"FADD", "FMUL", "FCOM", "FCOMP", "FSUB", "FSUBR", "FDIV", "FDIVR"}
         => EncodeCase(i, at) = EncodeFpuArith(Index(FpuArith, i.op), i.argv[1], i.argv[2])
  BY FpuCase, FpuOpsAre, FpuTablesAre DEF EncodeFpu, FpuNoOperand
<1>2. i.op \in {"FIADD", "FIMUL", "FICOM", "FICOMP", "FISUB", "FISUBR", "FIDIV", "FIDIVR"}
         => EncodeCase(i, at) = EncodeFpuInt(Index(FpuInt, i.op), i.argv[1])
  BY FpuCase, FpuOpsAre, FpuTablesAre DEF EncodeFpu, FpuNoOperand
<1>3. i.op \in {"FADDP", "FMULP", "FSUBP", "FSUBRP", "FDIVP", "FDIVRP"}
         => EncodeCase(i, at) = EncodeFpuPop(FpuPopCode[i.op], i.argv[1])
  BY FpuCase, FpuOpsAre, FpuTablesAre DEF EncodeFpu, FpuNoOperand
<1>4. i.op \in DOMAIN FpuNoOperand => EncodeCase(i, at) = <<\hD9, FpuNoOperand[i.op]>>
  <2> SUFFICES ASSUME i.op \in DOMAIN FpuNoOperand
               PROVE  EncodeCase(i, at) = <<\hD9, FpuNoOperand[i.op]>>
    OBVIOUS
  <2>1. EncodeCase(i, at) = EncodeFpu(i)
    BY FpuCase, FpuOpsAre
  <2>2. ~In(FpuArith, i.op) /\ ~In(FpuInt, i.op) /\ i.op \notin DOMAIN FpuPopCode
        /\ i.op \notin DOMAIN FpuControl /\ i.op # "FUCOMPP" /\ i.op \notin FpuMoves
    BY FpuTablesAre DEF FpuNoOperand
  <2>3. QED
    BY <2>1, <2>2 DEF EncodeFpu
<1>5. i.op \in {"FCLEX", "FDISI", "FENI", "FINIT"} => EncodeCase(i, at) = <<\hDB, FpuControl[i.op]>>
  BY FpuCase, FpuOpsAre, FpuTablesAre DEF EncodeFpu, FpuNoOperand
<1>6. i.op = "FUCOMPP" => EncodeCase(i, at) = <<\hDA, \hE9>>
  BY FpuCase, FpuOpsAre, FpuTablesAre DEF EncodeFpu, FpuNoOperand
<1>7. i.op \in FpuMoves => EncodeCase(i, at) = EncodeFpuMove(i.op, i.argv)
  BY FpuCase, FpuOpsAre, FpuTablesAre DEF EncodeFpu, FpuNoOperand
<1>8. QED
  BY <1>1, <1>2, <1>3, <1>4, <1>5, <1>6, <1>7

(* The second byte has a form at fpu_level 0.                              *)
LEMMA FpuCodes ==
    /\ \A op \in DOMAIN FpuNoOperand :
          FpuNoOperand[op] \in {\hD0, \hE0, \hE1, \hE4, \hE5} \cup \hE8 .. \hEE \cup \hF0 .. \hFF
    /\ \A op \in {"FCLEX", "FDISI", "FENI", "FINIT"} : FpuControl[op] \in \hE0 .. \hE3
    /\ \A op \in {"FADDP", "FMULP", "FSUBP", "FSUBRP", "FDIVP", "FDIVRP"} :
          FpuPopCode[op] \in {0, 1, 4, 5, 6, 7}
    /\ \A op \in {"FADD", "FMUL", "FCOM", "FCOMP", "FSUB", "FSUBR", "FDIV", "FDIVR"} :
          Index(FpuArith, op) \in 0 .. 7
    /\ \A op \in {"FADD", "FMUL", "FSUB", "FSUBR", "FDIV", "FDIVR"} :
          Index(FpuArith, op) \notin {2, 3}
    /\ \A op \in {"FIADD", "FIMUL", "FICOM", "FICOMP", "FISUB", "FISUBR", "FIDIV", "FIDIVR"} :
          Index(FpuInt, op) \in 0 .. 7
<1>1. \A op \in DOMAIN FpuNoOperand :
          FpuNoOperand[op] \in {\hD0, \hE0, \hE1, \hE4, \hE5} \cup \hE8 .. \hEE \cup \hF0 .. \hFF
  BY DEF FpuNoOperand
<1>2. \A op \in {"FCLEX", "FDISI", "FENI", "FINIT"} : FpuControl[op] \in \hE0 .. \hE3
  BY DEF FpuControl
<1>3. \A op \in {"FADDP", "FMULP", "FSUBP", "FSUBRP", "FDIVP", "FDIVRP"} :
          FpuPopCode[op] \in {0, 1, 4, 5, 6, 7}
  BY DEF FpuPopCode
<1>4. \A op \in {"FADD", "FMUL", "FCOM", "FCOMP", "FSUB", "FSUBR", "FDIV", "FDIVR"} :
          Index(FpuArith, op) \in 0 .. 7
  BY DEF Index, FpuArith
<1>5. \A op \in {"FADD", "FMUL", "FSUB", "FSUBR", "FDIV", "FDIVR"} :
          Index(FpuArith, op) \notin {2, 3}
  BY DEF Index, FpuArith
<1>6. \A op \in {"FIADD", "FIMUL", "FICOM", "FICOMP", "FISUB", "FISUBR", "FIDIV", "FIDIVR"} :
          Index(FpuInt, op) \in 0 .. 7
  BY DEF Index, FpuInt
<1>7. QED
  BY <1>1, <1>2, <1>3, <1>4, <1>5, <1>6

(* A short encoding that begins with an escape.                            *)
Escaped(e, size) == Short(e, size) /\ (e # << >> => e[1] \in FPUEscapes)

LEMMA EscapedIsFine ==
    ASSUME NEW i, NEW at, NEW size, Escaped(EncodeCase(i, at), size)
    PROVE  Fine(i, at, size)
<1>1. EncodeCase(i, at) = << >> \/ Stands(EncodeCase(i, at))
  BY DEF Escaped, Short
<1>2. CASE EncodeCase(i, at) = << >>
  BY <1>2 DEF Escaped, Short, Fine
<1>3. CASE Stands(EncodeCase(i, at))
  BY <1>3 DEF Escaped, Fine, Stands
<1>4. QED
  BY <1>1, <1>2, <1>3

LEMMA PairEscaped ==
    ASSUME NEW b \in FPUEscapes, NEW x \in Byte, Mod(x) = 3, FPURegister(b, x)
    PROVE  Escaped(<<b, x>>, 2)
  BY EscapeStands DEF Escaped, Short

LEMMA TwoItems == ASSUME NEW S, NEW a \in S, NEW b \in S PROVE <<a>> \o <<b>> = <<a, b>>
<1> DEFINE u == <<a>>
           v == <<b>>
<1>1. u \in Seq(S) /\ v \in Seq(S) /\ Len(u) = 1 /\ Len(v) = 1 /\ u[1] = a /\ v[1] = b
  OBVIOUS
<1> HIDE DEF u, v
<1>2. 1 \in 1 .. Len(u) /\ 1 \in 1 .. Len(v)
  BY <1>1
<1>3. /\ u \o v \in Seq(S) /\ Len(u \o v) = 2
      /\ (u \o v)[1] = a /\ (u \o v)[2] = b
  <2>1. /\ u \o v \in Seq(S) /\ Len(u \o v) = 1 + 1
        /\ (u \o v)[1] = u[1] /\ (u \o v)[1 + 1] = v[1]
    BY <1>1, <1>2, Joined
  <2>2. QED
    BY <1>1, <2>1
<1>4. u \o v = <<a, b>>
  BY <1>3, PairIs
<1>5. QED
  BY <1>4 DEF u, v

LEMMA TwoBytes == ASSUME NEW b \in Byte, NEW x \in Byte PROVE <<b>> \o <<x>> = <<b, x>>
  BY TwoItems

LEMMA StackForm ==
    ASSUME NEW a, a.kind # "mem", a.reg \in 0 .. 7, NEW n \in 0 .. 7, NEW b \in FPUEscapes,
           \A x \in Byte : Reg(x) = n /\ Rm(x) = a.reg /\ Mod(x) = 3 => FPURegister(b, x)
    PROVE  Escaped(<<b>> \o ModRM(a, n), 2)
<1> DEFINE x == 64 * 3 + 8 * n + a.reg
<1>1. x \in Byte /\ Mod(x) = 3 /\ Reg(x) = n /\ Rm(x) = a.reg
  BY ByteFields
<1>2. ModRM(a, n) = <<x>>
  <2>1. 192 + 8 * n + a.reg = x
    OBVIOUS
  <2>2. QED
    BY <2>1 DEF ModRM, IsMem, RmReg
<1> HIDE DEF x
<1>3. <<b>> \o <<x>> = <<b, x>>
  <2>1. b \in Byte
    BY DEF FPUEscapes, Byte
  <2>2. QED
    BY <1>1, <2>1, TwoBytes
<1>4. FPURegister(b, x)
  BY <1>1
<1>5. QED
  BY <1>1, <1>2, <1>3, <1>4, PairEscaped

(* Which memory forms the escapes have.                                    *)
LEMMA EscapeTakes ==
    ASSUME NEW b \in FPUEscapes, NEW reg \in 0 .. 7, NEW m, Mod(m) # 3,
           b \in {\hDB, \hDF} => Mod(m) = 0,
           b = \hDB => reg \notin {4, 6}, b = \hD9 => reg # 1, b = \hDD => reg # 5
    PROVE  Takes(b, reg, m)
<1>1. b \in Byte /\ b \notin Plain
  BY DEF FPUEscapes, Byte, Plain, SegOverrides, LockPrefixes, RepPrefixes
<1>2. ASSUME NEW n \in Byte, Reg(n) = reg, (Mod(n) = 3) <=> (Mod(m) = 3), Mod(m) = 0 => Mod(n) = 0
      PROVE  TakesModRM(b, n) /\ OutcomeOf(b, n) # "UD_NOP"
  <2>1. Mod(n) # 3
    BY <1>2
  <2>2. FPUMemory(b, n)
    BY <1>2, <2>1 DEF FPUMemory
  <2>3. FPUOutcome(b, n) = "OK"
    BY <1>2, <2>1, <2>2 DEF FPUOutcome
  <2>4. b \notin Absent
    BY Kinds
  <2>5. QED
    BY <2>2, <2>3, <2>4, Kinds DEF TakesModRM, OutcomeOf
<1>3. QED
  BY <1>1, <1>2 DEF Takes

(* An escape with the ModR/M bytes of a memory operand.                    *)
LEMMA EscapeForm ==
    ASSUME NEW a, NEW m, NEW w, IsOperand(a, m, w),
           NEW b \in FPUEscapes, NEW reg \in 0 .. 7, Mod(m) # 3,
           b \in {\hDB, \hDF} => Mod(m) = 0,
           b = \hDB => reg \notin {4, 6}, b = \hD9 => reg # 1, b = \hDD => reg # 5
    PROVE  Escaped(<<b>> \o ModRM(a, reg), 2 + Size(Displacement(m)))
<1>1. Takes(b, reg, m)
  BY EscapeTakes
<1>2. \A n : Reg(n) = reg => ImmAfterRM(b, n) = << >>
  <2>1. b \notin \h80 .. \h83 \cup {\hC0, \hC1, \hC6, \hC7, \hF6, \hF7}
    BY DEF FPUEscapes
  <2>2. QED
    BY <2>1, ImmediateWidths
<1>3. Rewritten(ModRM(a, reg), reg, m)
  BY DEF IsOperand
<1>4. LET e == <<b>> \o ModRM(a, reg)
      IN  Short(e, 2 + Size(Displacement(m))) /\ e[1] = b
  BY <1>1, <1>2, <1>3, OperandAloneStands
<1>5. QED
  BY <1>4 DEF Escaped

(* The forms of the escapes that no memory operand belongs to.             *)
LEMMA RegisterEscape ==
    ASSUME NEW d, NEW x, Fields(d, x), d.lead \in FPUEscapes, d.op # "UD_NOP", Mod(x) = 3,
           NEW i, NEW at, Made(i, d, at)
    PROVE  /\ FPURegister(d.lead, x) /\ d.fpu = x /\ InsSize(d.lead, x) = 2
           /\ i.op = FpuRegisterForm(d)[1] /\ i.argv = FpuRegisterForm(d)[2]
           /\ x \in \hC0 .. \hFF /\ x = 192 + 8 * Reg(x) + Rm(x)
           /\ Reg(x) \in 0 .. 7 /\ Rm(x) \in 0 .. 7
<1> DEFINE b == d.lead
<1>1. b \in Byte /\ x \in Byte /\ d.op = OutcomeOf(b, x) /\ d.fpu = x
      /\ (~TakesModRM(b, x) => d.rm = NoByte)
  BY DEF Fields
<1>2. b \notin Absent /\ b \notin ModRMOpcodes /\ b \notin PeekOpcodes
  BY Kinds
<1>3. OutcomeOf(b, x) = FPUOutcome(b, x)
  BY <1>2 DEF OutcomeOf
<1>4. FPURegister(b, x) /\ d.op = "OK"
  BY <1>1, <1>3 DEF FPUOutcome
<1>5. ~FPUMemory(b, x)
  BY DEF FPUMemory
<1>6. ~TakesModRM(b, x)
  BY <1>2, <1>5 DEF TakesModRM
<1>7. InsSize(b, x) = 2
  BY <1>6, WidthSizes DEF InsSize, OperandWidths
<1>8. b \notin DOMAIN PlainOneByte
  BY PlainBytes
<1>9. Case(d, at) = FpuRegisterForm(d)
  BY <1>1, <1>4, <1>6, <1>8 DEF Case, Escape
<1>10. x \in \hC0 .. \hFF /\ x = 192 + 8 * Reg(x) + Rm(x)
  BY <1>1 DEF Byte, Mod, Reg, Rm
<1>11. Reg(x) \in 0 .. 7 /\ Rm(x) \in 0 .. 7
  BY <1>1, FieldsAre
<1>12. QED
  BY <1>1, <1>4, <1>7, <1>9, <1>10, <1>11 DEF Made

LEMMA StackArgIs ==
    ASSUME NEW r
    PROVE  /\ STArg(r).kind = "st" /\ STArg(r).reg = r
           /\ IsST(STArg(r)) /\ ~IsMem(STArg(r)) /\ ~IsReg(STArg(r))
  BY DEF STArg, IsST, IsMem, IsReg

LEMMA RowD8Register ==
    ASSUME NEW d, NEW x, Fields(d, x), d.lead = \hD8, d.op # "UD_NOP", Mod(x) = 3,
           NEW i, NEW at, Made(i, d, at)
    PROVE  Escaped(EncodeCase(i, at), 2)
<1> DEFINE a == STArg(0)
           b == STArg(Rm(x))
           n == Index(FpuArith, i.op)
<1>1. d.lead \in FPUEscapes
  BY DEF FPUEscapes
<1>2. /\ d.fpu = x /\ Reg(x) \in 0 .. 7 /\ Rm(x) \in 0 .. 7
      /\ i.op = FpuRegisterForm(d)[1] /\ i.argv = FpuRegisterForm(d)[2]
  BY <1>1, RegisterEscape
<1>3. FpuRegisterForm(d) = <<FpuArith[Reg(x) + 1], <<a, b>> >>
  BY <1>2 DEF FpuRegisterForm, Rm
<1>4. i.op = FpuArith[Reg(x) + 1] /\ i.argv[1] = a /\ i.argv[2] = b
  BY <1>2, <1>3
<1>5. i.op \in {"FADD", "FMUL", "FCOM", "FCOMP", "FSUB", "FSUBR", "FDIV", "FDIVR"}
  BY <1>2, <1>4 DEF FpuArith
<1>6. EncodeCase(i, at) = EncodeFpuArith(n, a, b)
  BY <1>4, <1>5, FpuDispatch
<1>7. n \in 0 .. 7
  BY <1>5, FpuCodes
<1>8. a.reg = 0 /\ b.kind = "st" /\ b.reg \in 0 .. 7 /\ IsST(b) /\ ~IsMem(b)
  BY <1>2, StackArgIs
<1> HIDE DEF a, b, n
<1>9. CASE b.reg = 0
  <2>1. EncodeCase(i, at) = << >>
    BY <1>6, <1>8, <1>9 DEF EncodeFpuArith
  <2>2. QED
    BY <2>1 DEF Escaped, Short
<1>10. CASE b.reg # 0
  <2>1. EncodeCase(i, at) = <<\hD8>> \o ModRM(b, n)
    BY <1>6, <1>8, <1>10 DEF EncodeFpuArith
  <2>2. \hD8 \in FPUEscapes /\ \A y \in Byte : FPURegister(\hD8, y)
    BY DEF FPUEscapes, FPURegister
  <2>3. b.kind # "mem"
    BY <1>8
  <2>4. QED
    BY <1>7, <1>8, <2>1, <2>2, <2>3, StackForm
<1>11. QED
  BY <1>9, <1>10

LEMMA RowDCRegister ==
    ASSUME NEW d, NEW x, Fields(d, x), d.lead = \hDC, d.op # "UD_NOP", Mod(x) = 3,
           NEW i, NEW at, Made(i, d, at)
    PROVE  Escaped(EncodeCase(i, at), 2)
<1> DEFINE a == STArg(Rm(x))
           b == STArg(0)
           n == Index(FpuArith, i.op)
<1>1. d.lead \in FPUEscapes
  BY DEF FPUEscapes
<1>2. /\ d.fpu = x /\ Reg(x) \in 0 .. 7 /\ Rm(x) \in 0 .. 7
      /\ i.op = FpuRegisterForm(d)[1] /\ i.argv = FpuRegisterForm(d)[2]
      /\ FPURegister(d.lead, x)
  BY <1>1, RegisterEscape
<1>3. FpuRegisterForm(d) = <<FpuArithR[Reg(x) + 1], <<a, b>> >>
  BY <1>2 DEF FpuRegisterForm, Rm
<1>4. i.op = FpuArithR[Reg(x) + 1] /\ i.argv[1] = a /\ i.argv[2] = b
  BY <1>2, <1>3
<1>5. Reg(x) \notin {2, 3}
  BY <1>2 DEF FPURegister
<1>12. i.op \in {"FADD", "FMUL", "FSUB", "FSUBR", "FDIV", "FDIVR"}
  BY <1>2, <1>4, <1>5 DEF FpuArithR
<1>6. EncodeCase(i, at) = EncodeFpuArith(n, a, b)
  BY <1>4, <1>12, FpuDispatch
<1>7. n \in 0 .. 7 /\ n \notin {2, 3}
  BY <1>12, FpuCodes
<1>8. /\ b.reg = 0 /\ IsST(b) /\ ~IsMem(b)
      /\ a.kind = "st" /\ a.reg \in 0 .. 7
  BY <1>2, StackArgIs
<1> HIDE DEF a, b, n
<1>9. CASE a.reg = 0
  <2>1. EncodeCase(i, at) = << >>
    BY <1>6, <1>8, <1>9 DEF EncodeFpuArith
  <2>2. QED
    BY <2>1 DEF Escaped, Short
<1>10. CASE a.reg # 0
  <2>1. EncodeCase(i, at) = <<\hDC>> \o ModRM(a, n)
    BY <1>6, <1>8, <1>10 DEF EncodeFpuArith
  <2>2. \hDC \in FPUEscapes /\ \A y \in Byte : Reg(y) = n => FPURegister(\hDC, y)
    BY <1>7 DEF FPUEscapes, FPURegister
  <2>3. a.kind # "mem"
    BY <1>8
  <2>4. QED
    BY <1>7, <1>8, <2>1, <2>2, <2>3, StackForm
<1>11. QED
  BY <1>9, <1>10

LEMMA RowDERegister ==
    ASSUME NEW d, NEW x, Fields(d, x), d.lead = \hDE, d.op # "UD_NOP", Mod(x) = 3,
           NEW i, NEW at, Made(i, d, at)
    PROVE  Escaped(EncodeCase(i, at), 2)
<1> DEFINE a == STArg(Rm(x))
           n == FpuPopCode[i.op]
<1>1. d.lead \in FPUEscapes
  BY DEF FPUEscapes
<1>2. /\ d.fpu = x /\ Reg(x) \in 0 .. 7 /\ Rm(x) \in 0 .. 7
      /\ i.op = FpuRegisterForm(d)[1] /\ i.argv = FpuRegisterForm(d)[2]
      /\ FPURegister(d.lead, x)
  BY <1>1, RegisterEscape
<1>3. FpuRegisterForm(d) = <<FpuArithP[Reg(x) + 1],
                             IF Reg(x) = 3 THEN <<STArg(0), a>> ELSE <<a, STArg(0)>> >>
  BY <1>2 DEF FpuRegisterForm, Rm
<1>4. i.op = FpuArithP[Reg(x) + 1] /\ (Reg(x) # 3 => i.argv[1] = a)
  BY <1>2, <1>3
<1>5. Reg(x) # 2
  BY <1>2 DEF FPURegister
<1>6. CASE Reg(x) = 3
  <2>1. i.op = "FCOMPP"
    BY <1>4, <1>6 DEF FpuArithP
  <2>2. EncodeCase(i, at) = << >>
    BY <2>1, NoCaseIs DEF NoCase
  <2>3. QED
    BY <2>2 DEF Escaped, Short
<1>7. CASE Reg(x) # 3
  <2>1. i.op \in {"FADDP", "FMULP", "FSUBP", "FSUBRP", "FDIVP", "FDIVRP"}
    BY <1>2, <1>4, <1>5, <1>7 DEF FpuArithP
  <2>2. EncodeCase(i, at) = EncodeFpuPop(n, a)
    BY <1>4, <1>7, <2>1, FpuDispatch
  <2>3. n \in {0, 1, 4, 5, 6, 7}
    BY <2>1, FpuCodes
  <2>4. a.kind # "mem" /\ a.reg \in 0 .. 7
    BY <1>2, StackArgIs
  <2> HIDE DEF a, n
  <2>5. \hDE \in FPUEscapes /\ \A y \in Byte : Reg(y) = n => FPURegister(\hDE, y)
    BY <2>3 DEF FPUEscapes, FPURegister
  <2>6. n \in 0 .. 7
    BY <2>3
  <2>7. EncodeCase(i, at) = <<\hDE>> \o ModRM(a, n)
    BY <2>2 DEF EncodeFpuPop
  <2>8. QED
    BY <2>4, <2>5, <2>6, <2>7, StackForm
<1>8. QED
  BY <1>6, <1>7

(* An escape with a register of the stack.                                 *)
LEMMA StackMoveStands ==
    ASSUME NEW i, NEW at, i.op \in FpuMoves, NEW a, i.argv = <<a>>, a.kind = "st", a.reg \in 0 .. 7,
           NEW b \in FPUEscapes, NEW n \in 0 .. 7,
           FpuStackCode[i.op][1] = b, FpuStackCode[i.op][2] = n,
           \A y \in Byte : Reg(y) = n /\ Mod(y) = 3 => FPURegister(b, y)
    PROVE  Escaped(EncodeCase(i, at), 2)
<1>1. EncodeCase(i, at) = EncodeFpuMove(i.op, i.argv)
  BY FpuDispatch
<1>2. Len(i.argv) = 1 /\ i.argv[1] = a
  OBVIOUS
<1>3. ~IsReg(a) /\ IsST(a) /\ a.kind # "mem"
  BY DEF IsReg, IsST
<1>4. EncodeFpuMove(i.op, i.argv) = <<b>> \o ModRM(a, n)
  BY <1>2, <1>3 DEF EncodeFpuMove
<1>5. Escaped(<<b>> \o ModRM(a, n), 2)
  BY <1>3, StackForm
<1>6. QED
  BY <1>1, <1>4, <1>5

LEMMA StackCodes ==
    /\ FpuStackCode["FLD"] = <<\hD9, 0>> /\ FpuStackCode["FXCH"] = <<\hD9, 1>>
    /\ FpuStackCode["FFREE"] = <<\hDD, 0>> /\ FpuStackCode["FST"] = <<\hDD, 2>>
    /\ FpuStackCode["FSTP"] = <<\hDD, 3>> /\ FpuStackCode["FUCOM"] = <<\hDD, 4>>
    /\ FpuStackCode["FUCOMP"] = <<\hDD, 5>>
  BY DEF FpuStackCode

LEMMA PlainFpuNames ==
    ASSUME NEW x, x \in {\hD0, \hE0, \hE1, \hE4, \hE5} \cup \hE8 .. \hEE \cup \hF0 .. \hFF
    PROVE  PlainFpu(x) \in DOMAIN FpuNoOperand
<1>1. CASE x = \hD0
  BY <1>1 DEF PlainFpu, FpuNoOperand
<1>2. CASE x \in \hE0 .. \hE1
  BY <1>2 DEF PlainFpu, FpuNoOperand
<1>3. CASE x \in \hE4 .. \hE5
  BY <1>3 DEF PlainFpu, FpuNoOperand
<1>4. CASE x \in \hE8 .. \hEE
  BY <1>4 DEF PlainFpu, FpuNoOperand
<1>5. CASE x \in \hF0 .. \hFF
  BY <1>5 DEF PlainFpu, FpuNoOperand
<1>6. QED
  BY <1>1, <1>2, <1>3, <1>4, <1>5

LEMMA RowD9Register ==
    ASSUME NEW d, NEW x, Fields(d, x), d.lead = \hD9, d.op # "UD_NOP", Mod(x) = 3,
           NEW i, NEW at, Made(i, d, at)
    PROVE  Escaped(EncodeCase(i, at), 2)
<1> DEFINE a == STArg(Rm(x))
<1>1. d.lead \in FPUEscapes /\ \hD9 \in FPUEscapes
  BY DEF FPUEscapes
<1>2. /\ d.fpu = x /\ Reg(x) \in 0 .. 7 /\ Rm(x) \in 0 .. 7
      /\ i.op = FpuRegisterForm(d)[1] /\ i.argv = FpuRegisterForm(d)[2]
      /\ FPURegister(d.lead, x) /\ x = 192 + 8 * Reg(x) + Rm(x)
  BY <1>1, RegisterEscape
<1>3. a.kind = "st" /\ a.kind # "mem" /\ a.reg \in 0 .. 7
  BY <1>2, StackArgIs
<1>4. /\ Reg(x) = 0 => FpuRegisterForm(d) = <<"FLD", <<a>> >>
      /\ Reg(x) = 1 => FpuRegisterForm(d) = <<"FXCH", <<a>> >>
      /\ Reg(x) > 1 => FpuRegisterForm(d) = <<PlainFpu(x), << >> >>
  BY <1>2 DEF FpuRegisterForm, Rm
<1>5. ASSUME NEW y \in Byte, Mod(y) = 3, Reg(y) \in {0, 1} PROVE FPURegister(\hD9, y)
  <2>1. y \in \hC0 .. \hD0
    BY <1>5 DEF Byte, Mod, Reg
  <2>2. QED
    BY <2>1 DEF FPURegister
<1> HIDE DEF a
<1>6. CASE Reg(x) \in {0, 1}
  <2> DEFINE n == Reg(x)
  <2>1. i.op = (IF n = 0 THEN "FLD" ELSE "FXCH") /\ i.argv = <<a>>
    BY <1>2, <1>4, <1>6
  <2>2. i.op \in FpuMoves
    BY <2>1, FpuTablesAre
  <2>3. FpuStackCode[i.op][1] = \hD9 /\ FpuStackCode[i.op][2] = n
    BY <1>6, <2>1, StackCodes
  <2>4. n \in 0 .. 7 /\ \A y \in Byte : Reg(y) = n /\ Mod(y) = 3 => FPURegister(\hD9, y)
    BY <1>2, <1>5, <1>6
  <2> DEFINE b == \hD9
  <2> HIDE DEF n, b
  <2>5. /\ b \in FPUEscapes /\ FpuStackCode[i.op][1] = b
        /\ \A y \in Byte : Reg(y) = n /\ Mod(y) = 3 => FPURegister(b, y)
    BY <1>1, <2>3, <2>4 DEF b
  <2>6. QED
    BY <1>3, <2>1, <2>2, <2>3, <2>4, <2>5, StackMoveStands
<1>7. CASE Reg(x) > 1
  <2>1. x \in {\hD0, \hE0, \hE1, \hE4, \hE5} \cup \hE8 .. \hEE \cup \hF0 .. \hFF
    <3>1. x \in \hC0 .. \hD0 \cup {\hE0, \hE1, \hE4, \hE5} \cup \hE8 .. \hEE \cup \hF0 .. \hFF
      BY <1>2 DEF FPURegister
    <3>2. x \notin \hC0 .. \hCF
      BY <1>2, <1>7
    <3>3. QED
      BY <3>1, <3>2
  <2>2. i.op = PlainFpu(x)
    BY <1>2, <1>4, <1>7
  <2>3. i.op \in DOMAIN FpuNoOperand
    BY <2>1, <2>2, PlainFpuNames
  <2> DEFINE y == FpuNoOperand[i.op]
  <2>4. EncodeCase(i, at) = <<\hD9, y>>
    BY <2>3, FpuDispatch
  <2>5. y \in {\hD0, \hE0, \hE1, \hE4, \hE5} \cup \hE8 .. \hEE \cup \hF0 .. \hFF
    BY <2>3, FpuCodes
  <2> HIDE DEF y
  <2>6. y \in Byte /\ Mod(y) = 3 /\ FPURegister(\hD9, y)
    <3>1. y \in Byte /\ Mod(y) = 3
      BY <2>5 DEF Byte, Mod
    <3>2. FPURegister(\hD9, y)
      BY <2>5 DEF FPURegister
    <3>3. QED
      BY <3>1, <3>2
  <2>7. QED
    BY <1>1, <2>4, <2>6, PairEscaped
<1>8. QED
  BY <1>2, <1>6, <1>7

LEMMA RowDARegister ==
    ASSUME NEW d, NEW x, Fields(d, x), d.lead = \hDA, d.op # "UD_NOP", Mod(x) = 3,
           NEW i, NEW at, Made(i, d, at)
    PROVE  Escaped(EncodeCase(i, at), 2)
<1>1. d.lead \in FPUEscapes /\ \hDA \in FPUEscapes
  BY DEF FPUEscapes
<1>2. i.op = FpuRegisterForm(d)[1]
  BY <1>1, RegisterEscape
<1>3. i.op = "FUCOMPP"
  BY <1>2 DEF FpuRegisterForm
<1>4. EncodeCase(i, at) = <<\hDA, \hE9>>
  BY <1>3, FpuDispatch
<1>5. \hE9 \in Byte /\ Mod(\hE9) = 3 /\ FPURegister(\hDA, \hE9)
  BY DEF Byte, Mod, FPURegister
<1>6. QED
  BY <1>1, <1>4, <1>5, PairEscaped

LEMMA RowDBRegister ==
    ASSUME NEW d, NEW x, Fields(d, x), d.lead = \hDB, d.op # "UD_NOP", Mod(x) = 3,
           NEW i, NEW at, Made(i, d, at)
    PROVE  Escaped(EncodeCase(i, at), 2)
<1> DEFINE y == FpuControl[i.op]
<1>1. d.lead \in FPUEscapes /\ \hDB \in FPUEscapes
  BY DEF FPUEscapes
<1>2. i.op = FpuRegisterForm(d)[1] /\ d.fpu = x /\ FPURegister(d.lead, x)
  BY <1>1, RegisterEscape
<1>3. x \in \hE0 .. \hE3
  BY <1>2 DEF FPURegister
<1>4. FpuRegisterForm(d)[1] = PlainControl[x - \hDF]
  BY <1>2 DEF FpuRegisterForm
<1>5. i.op \in {"FCLEX", "FDISI", "FENI", "FINIT"}
  BY <1>2, <1>3, <1>4 DEF PlainControl
<1>6. EncodeCase(i, at) = <<\hDB, y>>
  BY <1>5, FpuDispatch
<1>7. y \in \hE0 .. \hE3
  BY <1>5, FpuCodes
<1> HIDE DEF y
<1>8. y \in Byte /\ Mod(y) = 3 /\ FPURegister(\hDB, y)
  <2>1. y \in Byte /\ Mod(y) = 3
    BY <1>7 DEF Byte, Mod
  <2>2. FPURegister(\hDB, y)
    BY <1>7 DEF FPURegister
  <2>3. QED
    BY <2>1, <2>2
<1>9. QED
  BY <1>1, <1>6, <1>8, PairEscaped

LEMMA RowDDRegister ==
    ASSUME NEW d, NEW x, Fields(d, x), d.lead = \hDD, d.op # "UD_NOP", Mod(x) = 3,
           NEW i, NEW at, Made(i, d, at)
    PROVE  Escaped(EncodeCase(i, at), 2)
<1> DEFINE a == STArg(Rm(x))
           n == Reg(x)
<1>1. d.lead \in FPUEscapes /\ \hDD \in FPUEscapes
  BY DEF FPUEscapes
<1>2. /\ d.fpu = x /\ n \in 0 .. 7 /\ Rm(x) \in 0 .. 7
      /\ i.op = FpuRegisterForm(d)[1] /\ i.argv = FpuRegisterForm(d)[2]
      /\ FPURegister(d.lead, x)
  BY <1>1, RegisterEscape
<1>3. n \in {0, 2, 3, 4, 5}
  <2>1. n \notin {1, 6, 7}
    BY <1>2 DEF FPURegister
  <2>2. QED
    BY <1>2, <2>1
<1>4. FpuRegisterForm(d) = <<FpuStack[n + 1], <<a>> >>
  BY <1>2 DEF FpuRegisterForm, Rm
<1>5. a.kind = "st" /\ a.kind # "mem" /\ a.reg \in 0 .. 7
  BY <1>2, StackArgIs
<1> HIDE DEF a, n
<1>6. i.op = FpuStack[n + 1] /\ i.argv = <<a>>
  BY <1>2, <1>4
<1>7. i.op = CASE n = 0 -> "FFREE" [] n = 2 -> "FST" [] n = 3 -> "FSTP"
               [] n = 4 -> "FUCOM" [] n = 5 -> "FUCOMP"
  BY <1>3, <1>6 DEF FpuStack
<1>8. i.op \in FpuMoves
  BY <1>3, <1>7, FpuTablesAre
<1>9. FpuStackCode[i.op][1] = \hDD /\ FpuStackCode[i.op][2] = n
  BY <1>3, <1>7, StackCodes
<1>10. n \in 0 .. 7 /\ \A y \in Byte : Reg(y) = n => FPURegister(\hDD, y)
  BY <1>3 DEF FPURegister
<1> DEFINE b == \hDD
<1> HIDE DEF b
<1>11. /\ b \in FPUEscapes /\ FpuStackCode[i.op][1] = b
       /\ \A y \in Byte : Reg(y) = n /\ Mod(y) = 3 => FPURegister(b, y)
  BY <1>1, <1>9, <1>10 DEF b
<1>12. QED
  BY <1>5, <1>6, <1>8, <1>9, <1>10, <1>11, StackMoveStands

LEMMA RowDFRegister ==
    ASSUME NEW d, NEW x, Fields(d, x), d.lead = \hDF, d.op # "UD_NOP", Mod(x) = 3,
           NEW i, NEW at, Made(i, d, at)
    PROVE  Escaped(EncodeCase(i, at), 2)
<1> DEFINE a == RegArg(AX, 2)
<1>1. d.lead \in FPUEscapes /\ \hDF \in FPUEscapes
  BY DEF FPUEscapes
<1>2. i.op = FpuRegisterForm(d)[1] /\ i.argv = FpuRegisterForm(d)[2]
  BY <1>1, RegisterEscape
<1>3. FpuRegisterForm(d) = <<"FSTSW", <<a>> >>
  BY DEF FpuRegisterForm
<1>4. i.op = "FSTSW" /\ i.argv = <<a>>
  BY <1>2, <1>3
<1>5. i.op \in FpuMoves
  BY <1>4, FpuTablesAre
<1>6. EncodeCase(i, at) = EncodeFpuMove("FSTSW", <<a>>)
  BY <1>4, <1>5, FpuDispatch
<1>7. a.kind # "mem" /\ a.reg \in 0 .. 7 /\ IsReg(a)
  BY DEF RegArg, AX, IsReg
<1> DEFINE n == 4
<1> HIDE DEF a
<1>8. EncodeFpuMove("FSTSW", <<a>>) = <<\hDF>> \o ModRM(a, n)
  BY <1>7 DEF EncodeFpuMove, SkipsST0
<1>9. n \in 0 .. 7 /\ \A y \in Byte : Reg(y) = n => FPURegister(\hDF, y)
  BY DEF FPURegister
<1> HIDE DEF n
<1>10. EncodeCase(i, at) = <<\hDF>> \o ModRM(a, n)
  BY <1>6, <1>8
<1>11. QED
  BY <1>1, <1>7, <1>9, <1>10, StackForm

(* Loads and stores of memory: mnemonics, sizes and codes.                 *)
LEMMA MemoryNames ==
    /\ FpuMemory(\hD9)[1] = <<"FLD", 4>>
    /\ FpuMemory(\hD9)[3] = <<"FST", 4>>
    /\ FpuMemory(\hD9)[4] = <<"FSTP", 4>>
    /\ FpuMemory(\hD9)[5] = <<"FLDENV", 14>>
    /\ FpuMemory(\hD9)[6] = <<"FLDCW", 2>>
    /\ FpuMemory(\hD9)[7] = <<"FSTENV", 14>>
    /\ FpuMemory(\hD9)[8] = <<"FSTCW", 2>>
    /\ FpuMemory(\hDB)[1] = <<"FILD", 4>>
    /\ FpuMemory(\hDB)[2] = <<"FISTTP", 4>>
    /\ FpuMemory(\hDB)[3] = <<"FIST", 4>>
    /\ FpuMemory(\hDB)[4] = <<"FISTP", 4>>
    /\ FpuMemory(\hDB)[6] = <<"FLD", 10>>
    /\ FpuMemory(\hDB)[8] = <<"FSTP", 10>>
    /\ FpuMemory(\hDD)[1] = <<"FLD", 8>>
    /\ FpuMemory(\hDD)[2] = <<"FISTTP", 8>>
    /\ FpuMemory(\hDD)[3] = <<"FST", 8>>
    /\ FpuMemory(\hDD)[4] = <<"FSTP", 8>>
    /\ FpuMemory(\hDD)[5] = <<"FRSTOR", 108>>
    /\ FpuMemory(\hDD)[7] = <<"FSAVE", 108>>
    /\ FpuMemory(\hDD)[8] = <<"FSTSW", 2>>
    /\ FpuMemory(\hDF)[1] = <<"FILD", 2>>
    /\ FpuMemory(\hDF)[2] = <<"FISTTP", 2>>
    /\ FpuMemory(\hDF)[3] = <<"FIST", 2>>
    /\ FpuMemory(\hDF)[4] = <<"FISTP", 2>>
    /\ FpuMemory(\hDF)[5] = <<"FBLD", 10>>
    /\ FpuMemory(\hDF)[6] = <<"FILD", 8>>
    /\ FpuMemory(\hDF)[7] = <<"FBSTP", 10>>
    /\ FpuMemory(\hDF)[8] = <<"FISTP", 8>>
<1>1. /\ FpuMemory(\hD9)[1] = <<"FLD", 4>>
      /\ FpuMemory(\hD9)[3] = <<"FST", 4>>
      /\ FpuMemory(\hD9)[4] = <<"FSTP", 4>>
      /\ FpuMemory(\hD9)[5] = <<"FLDENV", 14>>
      /\ FpuMemory(\hD9)[6] = <<"FLDCW", 2>>
      /\ FpuMemory(\hD9)[7] = <<"FSTENV", 14>>
      /\ FpuMemory(\hD9)[8] = <<"FSTCW", 2>>
  BY DEF FpuMemory
<1>2. /\ FpuMemory(\hDB)[1] = <<"FILD", 4>>
      /\ FpuMemory(\hDB)[2] = <<"FISTTP", 4>>
      /\ FpuMemory(\hDB)[3] = <<"FIST", 4>>
      /\ FpuMemory(\hDB)[4] = <<"FISTP", 4>>
      /\ FpuMemory(\hDB)[6] = <<"FLD", 10>>
      /\ FpuMemory(\hDB)[8] = <<"FSTP", 10>>
  BY DEF FpuMemory
<1>3. /\ FpuMemory(\hDD)[1] = <<"FLD", 8>>
      /\ FpuMemory(\hDD)[2] = <<"FISTTP", 8>>
      /\ FpuMemory(\hDD)[3] = <<"FST", 8>>
      /\ FpuMemory(\hDD)[4] = <<"FSTP", 8>>
      /\ FpuMemory(\hDD)[5] = <<"FRSTOR", 108>>
      /\ FpuMemory(\hDD)[7] = <<"FSAVE", 108>>
      /\ FpuMemory(\hDD)[8] = <<"FSTSW", 2>>
  BY DEF FpuMemory
<1>4. /\ FpuMemory(\hDF)[1] = <<"FILD", 2>>
      /\ FpuMemory(\hDF)[2] = <<"FISTTP", 2>>
      /\ FpuMemory(\hDF)[3] = <<"FIST", 2>>
      /\ FpuMemory(\hDF)[4] = <<"FISTP", 2>>
      /\ FpuMemory(\hDF)[5] = <<"FBLD", 10>>
      /\ FpuMemory(\hDF)[6] = <<"FILD", 8>>
      /\ FpuMemory(\hDF)[7] = <<"FBSTP", 10>>
      /\ FpuMemory(\hDF)[8] = <<"FISTP", 8>>
  BY DEF FpuMemory
<1>5. QED
  BY <1>1, <1>2, <1>3, <1>4

LEMMA MemoryCodes ==
    /\ FpuMemCode("FLD", 4) = <<\hD9, 0>>
    /\ FpuMemCode("FST", 4) = <<\hD9, 2>>
    /\ FpuMemCode("FSTP", 4) = <<\hD9, 3>>
    /\ FpuMemCode("FLDENV", 14) = <<\hD9, 4>>
    /\ FpuMemCode("FLDCW", 2) = <<\hD9, 5>>
    /\ FpuMemCode("FSTENV", 14) = <<\hD9, 6>>
    /\ FpuMemCode("FSTCW", 2) = <<\hD9, 7>>
    /\ FpuMemCode("FILD", 4) = <<\hDB, 0>>
    /\ FpuMemCode("FISTTP", 4) = <<\hDB, 1>>
    /\ FpuMemCode("FIST", 4) = <<\hDB, 2>>
    /\ FpuMemCode("FISTP", 4) = <<\hDB, 3>>
    /\ FpuMemCode("FLD", 10) = <<\hDB, 5>>
    /\ FpuMemCode("FLD", 8) = <<\hDD, 0>>
    /\ FpuMemCode("FISTTP", 8) = <<\hDD, 1>>
    /\ FpuMemCode("FST", 8) = <<\hDD, 2>>
    /\ FpuMemCode("FSTP", 8) = <<\hDD, 3>>
    /\ FpuMemCode("FRSTOR", 108) = <<\hDD, 4>>
    /\ FpuMemCode("FSAVE", 108) = <<\hDD, 6>>
    /\ FpuMemCode("FSTSW", 2) = <<\hDD, 7>>
    /\ FpuMemCode("FILD", 2) = <<\hDF, 0>>
    /\ FpuMemCode("FISTTP", 2) = <<\hDF, 1>>
    /\ FpuMemCode("FIST", 2) = <<\hDF, 2>>
    /\ FpuMemCode("FISTP", 2) = <<\hDF, 3>>
    /\ FpuMemCode("FBLD", 10) = <<\hDF, 4>>
    /\ FpuMemCode("FILD", 8) = <<\hDF, 5>>
    /\ FpuMemCode("FBSTP", 10) = <<\hDF, 6>>
    /\ FpuMemCode("FISTP", 8) = <<\hDF, 3>>
<1>1. FpuMemCode("FLD", 4) = <<\hD9, 0>>
  BY DEF FpuMemCode
<1>2. FpuMemCode("FST", 4) = <<\hD9, 2>>
  BY DEF FpuMemCode
<1>3. FpuMemCode("FSTP", 4) = <<\hD9, 3>>
  BY DEF FpuMemCode
<1>4. FpuMemCode("FLDENV", 14) = <<\hD9, 4>>
  BY DEF FpuMemCode
<1>5. FpuMemCode("FLDCW", 2) = <<\hD9, 5>>
  BY DEF FpuMemCode
<1>6. FpuMemCode("FSTENV", 14) = <<\hD9, 6>>
  BY DEF FpuMemCode
<1>7. FpuMemCode("FSTCW", 2) = <<\hD9, 7>>
  BY DEF FpuMemCode
<1>8. FpuMemCode("FILD", 4) = <<\hDB, 0>>
  BY DEF FpuMemCode
<1>9. FpuMemCode("FISTTP", 4) = <<\hDB, 1>>
  BY DEF FpuMemCode
<1>10. FpuMemCode("FIST", 4) = <<\hDB, 2>>
  BY DEF FpuMemCode
<1>11. FpuMemCode("FISTP", 4) = <<\hDB, 3>>
  BY DEF FpuMemCode
<1>12. FpuMemCode("FLD", 10) = <<\hDB, 5>>
  BY DEF FpuMemCode
<1>13. FpuMemCode("FLD", 8) = <<\hDD, 0>>
  BY DEF FpuMemCode
<1>14. FpuMemCode("FISTTP", 8) = <<\hDD, 1>>
  BY DEF FpuMemCode
<1>15. FpuMemCode("FST", 8) = <<\hDD, 2>>
  BY DEF FpuMemCode
<1>16. FpuMemCode("FSTP", 8) = <<\hDD, 3>>
  BY DEF FpuMemCode
<1>17. FpuMemCode("FRSTOR", 108) = <<\hDD, 4>>
  BY DEF FpuMemCode
<1>18. FpuMemCode("FSAVE", 108) = <<\hDD, 6>>
  BY DEF FpuMemCode
<1>19. FpuMemCode("FSTSW", 2) = <<\hDD, 7>>
  BY DEF FpuMemCode
<1>20. FpuMemCode("FILD", 2) = <<\hDF, 0>>
  BY DEF FpuMemCode
<1>21. FpuMemCode("FISTTP", 2) = <<\hDF, 1>>
  BY DEF FpuMemCode
<1>22. FpuMemCode("FIST", 2) = <<\hDF, 2>>
  BY DEF FpuMemCode
<1>23. FpuMemCode("FISTP", 2) = <<\hDF, 3>>
  BY DEF FpuMemCode
<1>24. FpuMemCode("FBLD", 10) = <<\hDF, 4>>
  BY DEF FpuMemCode
<1>25. FpuMemCode("FILD", 8) = <<\hDF, 5>>
  BY DEF FpuMemCode
<1>26. FpuMemCode("FBSTP", 10) = <<\hDF, 6>>
  BY DEF FpuMemCode
<1>27. FpuMemCode("FISTP", 8) = <<\hDF, 3>>
  BY DEF FpuMemCode
<1>28. QED
  BY <1>1, <1>2, <1>3, <1>4, <1>5, <1>6, <1>7, <1>8, <1>9, <1>10, <1>11, <1>12, <1>13, <1>14, <1>15, <1>16, <1>17, <1>18, <1>19, <1>20, <1>21, <1>22, <1>23, <1>24, <1>25, <1>26, <1>27

LEMMA MemoryEscape ==
    ASSUME NEW d, NEW x, Fields(d, x), d.lead \in FPUEscapes, d.op # "UD_NOP", Mod(x) # 3,
           NEW i, NEW at, Made(i, d, at)
    PROVE  /\ FPUMemory(d.lead, x) /\ d.rm = x
           /\ ~(d.lead = \hD9 /\ Reg(x) = 1) /\ ~(d.lead = \hDD /\ Reg(x) = 5)
           /\ InsSize(d.lead, x) = 2 + Size(Displacement(x)) /\ Size(Displacement(x)) \in 0 .. 2
           /\ \A w : IsOperand(RM(d, w), x, w)
           /\ i.op = FpuMemoryForm(d)[1] /\ i.argv = FpuMemoryForm(d)[2]
           /\ Reg(x) \in 0 .. 7
<1> DEFINE b == d.lead
<1>1. b \in Byte /\ x \in Byte /\ d.op = OutcomeOf(b, x)
  BY DEF Fields
<1>2. b \notin Absent /\ b \notin ModRMOpcodes /\ b \notin PeekOpcodes
  BY Kinds
<1>3. OutcomeOf(b, x) = FPUOutcome(b, x)
  BY <1>2 DEF OutcomeOf
<1>4. /\ FPUMemory(b, x) /\ d.op = "OK"
      /\ ~(b = \hD9 /\ Reg(x) = 1) /\ ~(b = \hDD /\ Reg(x) = 5)
  BY <1>1, <1>3 DEF FPUOutcome
<1>5. TakesModRM(b, x)
  BY <1>4 DEF TakesModRM
<1>6. /\ \A w : IsOperand(RM(d, w), x, w)
      /\ InsSize(b, x) = 2 + Size(Displacement(x)) + Size(ImmAfterRM(b, x))
      /\ d.rm = x /\ Reg(x) \in 0 .. 7 /\ Size(Displacement(x)) \in 0 .. 2
      /\ b \notin DOMAIN PlainOneByte
  BY <1>5, ModRMFields
<1>7. ImmAfterRM(b, x) = << >>
  <2>1. b \notin \h80 .. \h83 \cup {\hC0, \hC1, \hC6, \hC7, \hF6, \hF7}
    BY DEF FPUEscapes
  <2>2. QED
    BY <2>1, ImmediateWidths
<1>8. InsSize(b, x) = 2 + Size(Displacement(x))
  BY <1>6, <1>7, WidthSizes
<1>9. d.rm # NoByte
  BY <1>1, <1>6 DEF Byte, NoByte
<1>10. Case(d, at) = FpuMemoryForm(d)
  BY <1>4, <1>6, <1>9 DEF Case, Escape
<1>11. QED
  BY <1>4, <1>6, <1>8, <1>10 DEF Made

(* The operands of the memory forms.                                       *)
LEMMA Alone == ASSUME NEW a PROVE << >> \o <<a>> = <<a>>
  OBVIOUS

LEMMA MemoryForms ==
    ASSUME NEW d, d.lead \in FPUEscapes
    PROVE  LET n == Reg(d.rm) + 1
               f == FpuMemory(d.lead)[n]
           IN  /\ d.lead \in {\hD8, \hDC}
                    => FpuMemoryForm(d) = <<FpuArith[n], <<STArg(0), RM(d, IF d.lead = \hD8 THEN 4 ELSE 8)>> >>
               /\ d.lead \in {\hDB, \hDF} => FpuMemoryForm(d) = <<f[1], <<STArg(0), RM(d, f[2])>> >>
               /\ d.lead \in {\hD9, \hDA, \hDD, \hDE} => FpuMemoryForm(d) = <<f[1], <<RM(d, f[2])>> >>
<1> DEFINE n == Reg(d.rm) + 1
           f == FpuMemory(d.lead)[n]
           g == <<FpuArith[n], IF d.lead = \hD8 THEN 4 ELSE 8>>
<1>1. FpuMemoryForm(d) = IF d.lead \in {\hD8, \hDC}
                         THEN <<g[1], (IF d.lead \in NamesST0 THEN <<STArg(0)>> ELSE << >>) \o <<RM(d, g[2])>> >>
                         ELSE <<f[1], (IF d.lead \in NamesST0 THEN <<STArg(0)>> ELSE << >>) \o <<RM(d, f[2])>> >>
  BY DEF FpuMemoryForm
<1>2. g[1] = FpuArith[n] /\ g[2] = IF d.lead = \hD8 THEN 4 ELSE 8
  OBVIOUS
<1> HIDE DEF f, g, n
<1>3. ASSUME NEW w PROVE << >> \o <<RM(d, w)>> = <<RM(d, w)>> /\ <<STArg(0)>> \o <<RM(d, w)>> = <<STArg(0), RM(d, w)>>
  <2> DEFINE a == STArg(0)
             b == RM(d, w)
             S == {a, b}
  <2>1. a \in S /\ b \in S
    OBVIOUS
  <2> HIDE DEF a, b, S
  <2>2. << >> \o <<b>> = <<b>>
    BY Alone
  <2>3. <<a>> \o <<b>> = <<a, b>>
    BY <2>1, TwoItems
  <2>4. QED
    BY <2>2, <2>3 DEF a, b
<1>4. /\ d.lead \in {\hD8, \hDC, \hDB, \hDF} => d.lead \in NamesST0
      /\ d.lead \in {\hD9, \hDA, \hDD, \hDE} => d.lead \notin NamesST0
  BY DEF NamesST0
<1>5. d.lead \in {\hD8, \hDC} => FpuMemoryForm(d) = <<FpuArith[n], <<STArg(0), RM(d, IF d.lead = \hD8 THEN 4 ELSE 8)>> >>
  <2>1. ASSUME d.lead \in {\hD8, \hDC}
        PROVE  FpuMemoryForm(d) = <<g[1], <<STArg(0), RM(d, g[2])>> >>
    <3>1. FpuMemoryForm(d) = <<g[1], <<STArg(0)>> \o <<RM(d, g[2])>> >>
      BY <1>1, <1>4, <2>1
    <3>2. QED
      BY <1>3, <3>1
  <2>2. QED
    BY <1>2, <2>1
<1>6. d.lead \in {\hDB, \hDF} => FpuMemoryForm(d) = <<f[1], <<STArg(0), RM(d, f[2])>> >>
  <2>1. ASSUME d.lead \in {\hDB, \hDF} PROVE FpuMemoryForm(d) = <<f[1], <<STArg(0), RM(d, f[2])>> >>
    <3>1. FpuMemoryForm(d) = <<f[1], <<STArg(0)>> \o <<RM(d, f[2])>> >>
      BY <1>1, <1>4, <2>1
    <3>2. QED
      BY <1>3, <3>1
  <2>2. QED
    BY <2>1
<1>7. d.lead \in {\hD9, \hDA, \hDD, \hDE} => FpuMemoryForm(d) = <<f[1], <<RM(d, f[2])>> >>
  <2>1. d.lead \in {\hD9, \hDA, \hDD, \hDE} => d.lead \notin {\hD8, \hDC}
    OBVIOUS
  <2>2. QED
    BY <1>1, <1>3, <1>4, <2>1
<1>8. QED
  BY <1>5, <1>6, <1>7 DEF n, f

LEMMA MemoryMoveStands ==
    ASSUME NEW i, NEW at, i.op \in FpuMoves, NEW a, NEW m, NEW w, IsOperand(a, m, w), Mod(m) # 3,
           i.argv = <<a>> \/ (i.op \in SkipsST0 /\ i.argv = <<STArg(0), a>>),
           NEW b \in FPUEscapes, NEW reg \in 0 .. 7,
           FpuMemCode(i.op, w)[1] = b, FpuMemCode(i.op, w)[2] = reg,
           b \in {\hDB, \hDF} => Mod(m) = 0,
           b = \hDB => reg \notin {4, 6}, b = \hD9 => reg # 1, b = \hDD => reg # 5
    PROVE  Escaped(EncodeCase(i, at), 2 + Size(Displacement(m)))
<1>1. EncodeCase(i, at) = EncodeFpuMove(i.op, i.argv)
  BY FpuDispatch
<1>2. ~IsReg(a) /\ ~IsST(a) /\ a.size = w
  BY DEF IsOperand, IsReg, IsST
<1>3. (IF i.op \in SkipsST0 /\ Len(i.argv) = 2 THEN i.argv[2] ELSE i.argv[1]) = a
  <2>1. /\ Len(<<a>>) = 1 /\ <<a>>[1] = a
        /\ Len(<<STArg(0), a>>) = 2 /\ <<STArg(0), a>>[2] = a
    OBVIOUS
  <2>2. QED
    BY <2>1
<1>4. EncodeFpuMove(i.op, i.argv) = <<b>> \o ModRM(a, reg)
  BY <1>2, <1>3 DEF EncodeFpuMove
<1>5. Escaped(<<b>> \o ModRM(a, reg), 2 + Size(Displacement(m)))
  BY EscapeForm
<1>6. QED
  BY <1>1, <1>4, <1>5

LEMMA ArithmeticOfMemory ==
    ASSUME NEW d, NEW x, Fields(d, x), d.lead \in {\hD8, \hDC}, d.op # "UD_NOP", Mod(x) # 3,
           NEW i, NEW at, Made(i, d, at)
    PROVE  Escaped(EncodeCase(i, at), 2 + Size(Displacement(x)))
<1> DEFINE w == IF d.lead = \hD8 THEN 4 ELSE 8
           a == RM(d, w)
           n == Index(FpuArith, i.op)
<1>1. d.lead \in FPUEscapes
  BY DEF FPUEscapes
<1>2. /\ d.rm = x /\ Reg(x) \in 0 .. 7 /\ IsOperand(a, x, w)
      /\ i.op = FpuMemoryForm(d)[1] /\ i.argv = FpuMemoryForm(d)[2]
  BY <1>1, MemoryEscape
<1>3. FpuMemoryForm(d) = <<FpuArith[Reg(x) + 1], <<STArg(0), a>> >>
  BY <1>1, <1>2, MemoryForms
<1>4. i.op = FpuArith[Reg(x) + 1] /\ i.argv[2] = a
  BY <1>2, <1>3
<1>5. i.op \in {"FADD", "FMUL", "FCOM", "FCOMP", "FSUB", "FSUBR", "FDIV", "FDIVR"}
  BY <1>2, <1>4 DEF FpuArith
<1>6. EncodeCase(i, at) = EncodeFpuArith(n, i.argv[1], a)
  BY <1>4, <1>5, FpuDispatch
<1>7. n \in 0 .. 7
  BY <1>5, FpuCodes
<1>8. w \in {4, 8}
  OBVIOUS
<1> HIDE DEF w, a, n
<1>9. IsMem(a) /\ ~IsST(a) /\ a.size = w
  BY <1>2 DEF IsOperand, IsMem, IsST
<1> DEFINE b == IF a.size >= 8 THEN \hDC ELSE \hD8
<1>10. EncodeCase(i, at) = <<b>> \o ModRM(a, n)
  BY <1>6, <1>9 DEF EncodeFpuArith
<1>11. b \in {\hD8, \hDC}
  OBVIOUS
<1> HIDE DEF b
<1>12. b \in FPUEscapes /\ b \notin {\hDB, \hDF} /\ b # \hDB /\ b # \hD9 /\ b # \hDD
  BY <1>11 DEF FPUEscapes
<1>13. QED
  BY <1>2, <1>7, <1>10, <1>12, EscapeForm

LEMMA IntegerOfMemory ==
    ASSUME NEW d, NEW x, Fields(d, x), d.lead \in {\hDA, \hDE}, d.op # "UD_NOP", Mod(x) # 3,
           NEW i, NEW at, Made(i, d, at)
    PROVE  Escaped(EncodeCase(i, at), 2 + Size(Displacement(x)))
<1> DEFINE w == IF d.lead = \hDA THEN 4 ELSE 2
           a == RM(d, w)
           n == Index(FpuInt, i.op)
<1>1. d.lead \in FPUEscapes
  BY DEF FPUEscapes
<1>2. /\ d.rm = x /\ Reg(x) \in 0 .. 7 /\ IsOperand(a, x, w)
      /\ i.op = FpuMemoryForm(d)[1] /\ i.argv = FpuMemoryForm(d)[2]
  BY <1>1, MemoryEscape
<1>3. FpuMemory(d.lead)[Reg(x) + 1][1] = FpuInt[Reg(x) + 1]
      /\ FpuMemory(d.lead)[Reg(x) + 1][2] = w
  <2>1. Reg(x) + 1 \in 1 .. 8
    BY <1>2
  <2>2. /\ d.lead = \hDA => FpuMemory(d.lead) = [k \in 1 .. 8 |-> <<FpuInt[k], 4>>]
        /\ d.lead = \hDE => FpuMemory(d.lead) = [k \in 1 .. 8 |-> <<FpuInt[k], 2>>]
    BY DEF FpuMemory
  <2> DEFINE k == Reg(x) + 1
  <2> HIDE DEF k
  <2>3. k \in 1 .. 8
    BY <2>1 DEF k
  <2>4. FpuMemory(d.lead)[k] = <<FpuInt[k], w>>
    BY <2>2, <2>3
  <2>5. FpuMemory(d.lead)[k][1] = FpuInt[k] /\ FpuMemory(d.lead)[k][2] = w
    BY <2>4
  <2>6. QED
    BY <2>5 DEF k
<1>4. FpuMemoryForm(d) = <<FpuInt[Reg(x) + 1], <<a>> >>
  BY <1>1, <1>2, <1>3, MemoryForms
<1>5. i.op = FpuInt[Reg(x) + 1] /\ i.argv[1] = a
  BY <1>2, <1>4
<1>6. i.op \in {"FIADD", "FIMUL", "FICOM", "FICOMP", "FISUB", "FISUBR", "FIDIV", "FIDIVR"}
  BY <1>2, <1>5 DEF FpuInt
<1>7. EncodeCase(i, at) = EncodeFpuInt(n, a)
  BY <1>5, <1>6, FpuDispatch
<1>8. n \in 0 .. 7
  BY <1>6, FpuCodes
<1> HIDE DEF w, a, n
<1> DEFINE b == IF a.size >= 4 THEN \hDA ELSE \hDE
<1>9. EncodeCase(i, at) = <<b>> \o ModRM(a, n)
  BY <1>7 DEF EncodeFpuInt
<1>10. b \in {\hDA, \hDE}
  OBVIOUS
<1> HIDE DEF b
<1>11. b \in FPUEscapes /\ b \notin {\hDB, \hDF} /\ b # \hDB /\ b # \hD9 /\ b # \hDD
  BY <1>10 DEF FPUEscapes
<1>12. QED
  BY <1>2, <1>8, <1>9, <1>11, EscapeForm

(* The moves of memory, escape by escape: the pair of opcode and reg field *)
(* FpuMemCode gives is the one that was read, or one that stands.          *)
LEMMA MovesD9 ==
    ASSUME NEW d, NEW x, Fields(d, x), d.lead = \hD9, d.op # "UD_NOP", Mod(x) # 3,
           NEW i, NEW at, Made(i, d, at)
    PROVE  Escaped(EncodeCase(i, at), 2 + Size(Displacement(x)))
<1> DEFINE b == \hD9
           n == Reg(x)
           f == FpuMemory(\hD9)[n + 1]
           a == RM(d, f[2])
           s == Size(Displacement(x))
<1>1. d.lead \in FPUEscapes /\ b \in FPUEscapes
  BY DEF FPUEscapes
<1>2. /\ d.rm = x /\ n \in 0 .. 7 /\ IsOperand(a, x, f[2]) /\ s \in 0 .. 2
      /\ i.op = FpuMemoryForm(d)[1] /\ i.argv = FpuMemoryForm(d)[2]
      /\ FPUMemory(d.lead, x)
      /\ ~(d.lead = \hD9 /\ n = 1) /\ ~(d.lead = \hDD /\ n = 5)
  BY <1>1, MemoryEscape
<1>3. FpuMemoryForm(d) = <<f[1], <<a>> >>
  BY <1>1, <1>2, MemoryForms
<1>4. i.op = f[1] /\ i.argv = <<a>>
  BY <1>2, <1>3
<1>5. n \in {0, 2, 3, 4, 5, 6, 7}
  BY <1>2
<1>6. b \notin {\hDB, \hDF}
  OBVIOUS
<1>7. /\ n = 0 => f[1] = "FLD" /\ f[2] = 4
      /\ n = 2 => f[1] = "FST" /\ f[2] = 4
      /\ n = 3 => f[1] = "FSTP" /\ f[2] = 4
      /\ n = 4 => f[1] = "FLDENV" /\ f[2] = 14
      /\ n = 5 => f[1] = "FLDCW" /\ f[2] = 2
      /\ n = 6 => f[1] = "FSTENV" /\ f[2] = 14
      /\ n = 7 => f[1] = "FSTCW" /\ f[2] = 2
  BY MemoryNames
<1> HIDE DEF a, s
<1>8. CASE n = 0
  <2>1. i.op = "FLD" /\ IsOperand(a, x, 4)
    BY <1>2, <1>4, <1>7, <1>8
  <2>2. i.op \in FpuMoves
    BY <2>1, FpuTablesAre DEF SkipsST0
  <2>3. FpuMemCode(i.op, 4) = <<b, 0>>
    BY <2>1, MemoryCodes
  <2> DEFINE w == 4
             reg == 0
  <2> HIDE DEF w, reg
  <2>4. /\ IsOperand(a, x, w) /\ FpuMemCode(i.op, w)[1] = b /\ FpuMemCode(i.op, w)[2] = reg
        /\ reg \in 0 .. 7
        /\ (b = \hDB => reg \notin {4, 6}) /\ (b = \hD9 => reg # 1) /\ (b = \hDD => reg # 5)
    BY <2>1, <2>3 DEF w, reg
  <2> HIDE DEF b
  <2>5. QED
    BY <1>1, <1>4, <1>6, <2>2, <2>4, MemoryMoveStands
<1>9. CASE n = 2
  <2>1. i.op = "FST" /\ IsOperand(a, x, 4)
    BY <1>2, <1>4, <1>7, <1>9
  <2>2. i.op \in FpuMoves
    BY <2>1, FpuTablesAre DEF SkipsST0
  <2>3. FpuMemCode(i.op, 4) = <<b, 2>>
    BY <2>1, MemoryCodes
  <2> DEFINE w == 4
             reg == 2
  <2> HIDE DEF w, reg
  <2>4. /\ IsOperand(a, x, w) /\ FpuMemCode(i.op, w)[1] = b /\ FpuMemCode(i.op, w)[2] = reg
        /\ reg \in 0 .. 7
        /\ (b = \hDB => reg \notin {4, 6}) /\ (b = \hD9 => reg # 1) /\ (b = \hDD => reg # 5)
    BY <2>1, <2>3 DEF w, reg
  <2> HIDE DEF b
  <2>5. QED
    BY <1>1, <1>4, <1>6, <2>2, <2>4, MemoryMoveStands
<1>10. CASE n = 3
  <2>1. i.op = "FSTP" /\ IsOperand(a, x, 4)
    BY <1>2, <1>4, <1>7, <1>10
  <2>2. i.op \in FpuMoves
    BY <2>1, FpuTablesAre DEF SkipsST0
  <2>3. FpuMemCode(i.op, 4) = <<b, 3>>
    BY <2>1, MemoryCodes
  <2> DEFINE w == 4
             reg == 3
  <2> HIDE DEF w, reg
  <2>4. /\ IsOperand(a, x, w) /\ FpuMemCode(i.op, w)[1] = b /\ FpuMemCode(i.op, w)[2] = reg
        /\ reg \in 0 .. 7
        /\ (b = \hDB => reg \notin {4, 6}) /\ (b = \hD9 => reg # 1) /\ (b = \hDD => reg # 5)
    BY <2>1, <2>3 DEF w, reg
  <2> HIDE DEF b
  <2>5. QED
    BY <1>1, <1>4, <1>6, <2>2, <2>4, MemoryMoveStands
<1>11. CASE n = 4
  <2>1. i.op = "FLDENV" /\ IsOperand(a, x, 14)
    BY <1>2, <1>4, <1>7, <1>11
  <2>2. i.op \in FpuMoves
    BY <2>1, FpuTablesAre DEF SkipsST0
  <2>3. FpuMemCode(i.op, 14) = <<b, 4>>
    BY <2>1, MemoryCodes
  <2> DEFINE w == 14
             reg == 4
  <2> HIDE DEF w, reg
  <2>4. /\ IsOperand(a, x, w) /\ FpuMemCode(i.op, w)[1] = b /\ FpuMemCode(i.op, w)[2] = reg
        /\ reg \in 0 .. 7
        /\ (b = \hDB => reg \notin {4, 6}) /\ (b = \hD9 => reg # 1) /\ (b = \hDD => reg # 5)
    BY <2>1, <2>3 DEF w, reg
  <2> HIDE DEF b
  <2>5. QED
    BY <1>1, <1>4, <1>6, <2>2, <2>4, MemoryMoveStands
<1>12. CASE n = 5
  <2>1. i.op = "FLDCW" /\ IsOperand(a, x, 2)
    BY <1>2, <1>4, <1>7, <1>12
  <2>2. i.op \in FpuMoves
    BY <2>1, FpuTablesAre DEF SkipsST0
  <2>3. FpuMemCode(i.op, 2) = <<b, 5>>
    BY <2>1, MemoryCodes
  <2> DEFINE w == 2
             reg == 5
  <2> HIDE DEF w, reg
  <2>4. /\ IsOperand(a, x, w) /\ FpuMemCode(i.op, w)[1] = b /\ FpuMemCode(i.op, w)[2] = reg
        /\ reg \in 0 .. 7
        /\ (b = \hDB => reg \notin {4, 6}) /\ (b = \hD9 => reg # 1) /\ (b = \hDD => reg # 5)
    BY <2>1, <2>3 DEF w, reg
  <2> HIDE DEF b
  <2>5. QED
    BY <1>1, <1>4, <1>6, <2>2, <2>4, MemoryMoveStands
<1>13. CASE n = 6
  <2>1. i.op = "FSTENV" /\ IsOperand(a, x, 14)
    BY <1>2, <1>4, <1>7, <1>13
  <2>2. i.op \in FpuMoves
    BY <2>1, FpuTablesAre DEF SkipsST0
  <2>3. FpuMemCode(i.op, 14) = <<b, 6>>
    BY <2>1, MemoryCodes
  <2> DEFINE w == 14
             reg == 6
  <2> HIDE DEF w, reg
  <2>4. /\ IsOperand(a, x, w) /\ FpuMemCode(i.op, w)[1] = b /\ FpuMemCode(i.op, w)[2] = reg
        /\ reg \in 0 .. 7
        /\ (b = \hDB => reg \notin {4, 6}) /\ (b = \hD9 => reg # 1) /\ (b = \hDD => reg # 5)
    BY <2>1, <2>3 DEF w, reg
  <2> HIDE DEF b
  <2>5. QED
    BY <1>1, <1>4, <1>6, <2>2, <2>4, MemoryMoveStands
<1>14. CASE n = 7
  <2>1. i.op = "FSTCW" /\ IsOperand(a, x, 2)
    BY <1>2, <1>4, <1>7, <1>14
  <2>2. i.op \in FpuMoves
    BY <2>1, FpuTablesAre DEF SkipsST0
  <2>3. FpuMemCode(i.op, 2) = <<b, 7>>
    BY <2>1, MemoryCodes
  <2> DEFINE w == 2
             reg == 7
  <2> HIDE DEF w, reg
  <2>4. /\ IsOperand(a, x, w) /\ FpuMemCode(i.op, w)[1] = b /\ FpuMemCode(i.op, w)[2] = reg
        /\ reg \in 0 .. 7
        /\ (b = \hDB => reg \notin {4, 6}) /\ (b = \hD9 => reg # 1) /\ (b = \hDD => reg # 5)
    BY <2>1, <2>3 DEF w, reg
  <2> HIDE DEF b
  <2>5. QED
    BY <1>1, <1>4, <1>6, <2>2, <2>4, MemoryMoveStands
<1>15. QED
  BY <1>5, <1>8, <1>9, <1>10, <1>11, <1>12, <1>13, <1>14

LEMMA MovesDD ==
    ASSUME NEW d, NEW x, Fields(d, x), d.lead = \hDD, d.op # "UD_NOP", Mod(x) # 3,
           NEW i, NEW at, Made(i, d, at)
    PROVE  Escaped(EncodeCase(i, at), 2 + Size(Displacement(x)))
<1> DEFINE b == \hDD
           n == Reg(x)
           f == FpuMemory(\hDD)[n + 1]
           a == RM(d, f[2])
           s == Size(Displacement(x))
<1>1. d.lead \in FPUEscapes /\ b \in FPUEscapes
  BY DEF FPUEscapes
<1>2. /\ d.rm = x /\ n \in 0 .. 7 /\ IsOperand(a, x, f[2]) /\ s \in 0 .. 2
      /\ i.op = FpuMemoryForm(d)[1] /\ i.argv = FpuMemoryForm(d)[2]
      /\ FPUMemory(d.lead, x)
      /\ ~(d.lead = \hD9 /\ n = 1) /\ ~(d.lead = \hDD /\ n = 5)
  BY <1>1, MemoryEscape
<1>3. FpuMemoryForm(d) = <<f[1], <<a>> >>
  BY <1>1, <1>2, MemoryForms
<1>4. i.op = f[1] /\ i.argv = <<a>>
  BY <1>2, <1>3
<1>5. n \in {0, 1, 2, 3, 4, 6, 7}
  BY <1>2
<1>6. b \notin {\hDB, \hDF}
  OBVIOUS
<1>7. /\ n = 0 => f[1] = "FLD" /\ f[2] = 8
      /\ n = 1 => f[1] = "FISTTP" /\ f[2] = 8
      /\ n = 2 => f[1] = "FST" /\ f[2] = 8
      /\ n = 3 => f[1] = "FSTP" /\ f[2] = 8
      /\ n = 4 => f[1] = "FRSTOR" /\ f[2] = 108
      /\ n = 6 => f[1] = "FSAVE" /\ f[2] = 108
      /\ n = 7 => f[1] = "FSTSW" /\ f[2] = 2
  BY MemoryNames
<1> HIDE DEF a, s
<1>8. CASE n = 0
  <2>1. i.op = "FLD" /\ IsOperand(a, x, 8)
    BY <1>2, <1>4, <1>7, <1>8
  <2>2. i.op \in FpuMoves
    BY <2>1, FpuTablesAre DEF SkipsST0
  <2>3. FpuMemCode(i.op, 8) = <<b, 0>>
    BY <2>1, MemoryCodes
  <2> DEFINE w == 8
             reg == 0
  <2> HIDE DEF w, reg
  <2>4. /\ IsOperand(a, x, w) /\ FpuMemCode(i.op, w)[1] = b /\ FpuMemCode(i.op, w)[2] = reg
        /\ reg \in 0 .. 7
        /\ (b = \hDB => reg \notin {4, 6}) /\ (b = \hD9 => reg # 1) /\ (b = \hDD => reg # 5)
    BY <2>1, <2>3 DEF w, reg
  <2> HIDE DEF b
  <2>5. QED
    BY <1>1, <1>4, <1>6, <2>2, <2>4, MemoryMoveStands
<1>9. CASE n = 1
  <2>1. i.op = "FISTTP" /\ IsOperand(a, x, 8)
    BY <1>2, <1>4, <1>7, <1>9
  <2>2. i.op \in FpuMoves
    BY <2>1, FpuTablesAre DEF SkipsST0
  <2>3. FpuMemCode(i.op, 8) = <<b, 1>>
    BY <2>1, MemoryCodes
  <2> DEFINE w == 8
             reg == 1
  <2> HIDE DEF w, reg
  <2>4. /\ IsOperand(a, x, w) /\ FpuMemCode(i.op, w)[1] = b /\ FpuMemCode(i.op, w)[2] = reg
        /\ reg \in 0 .. 7
        /\ (b = \hDB => reg \notin {4, 6}) /\ (b = \hD9 => reg # 1) /\ (b = \hDD => reg # 5)
    BY <2>1, <2>3 DEF w, reg
  <2> HIDE DEF b
  <2>5. QED
    BY <1>1, <1>4, <1>6, <2>2, <2>4, MemoryMoveStands
<1>10. CASE n = 2
  <2>1. i.op = "FST" /\ IsOperand(a, x, 8)
    BY <1>2, <1>4, <1>7, <1>10
  <2>2. i.op \in FpuMoves
    BY <2>1, FpuTablesAre DEF SkipsST0
  <2>3. FpuMemCode(i.op, 8) = <<b, 2>>
    BY <2>1, MemoryCodes
  <2> DEFINE w == 8
             reg == 2
  <2> HIDE DEF w, reg
  <2>4. /\ IsOperand(a, x, w) /\ FpuMemCode(i.op, w)[1] = b /\ FpuMemCode(i.op, w)[2] = reg
        /\ reg \in 0 .. 7
        /\ (b = \hDB => reg \notin {4, 6}) /\ (b = \hD9 => reg # 1) /\ (b = \hDD => reg # 5)
    BY <2>1, <2>3 DEF w, reg
  <2> HIDE DEF b
  <2>5. QED
    BY <1>1, <1>4, <1>6, <2>2, <2>4, MemoryMoveStands
<1>11. CASE n = 3
  <2>1. i.op = "FSTP" /\ IsOperand(a, x, 8)
    BY <1>2, <1>4, <1>7, <1>11
  <2>2. i.op \in FpuMoves
    BY <2>1, FpuTablesAre DEF SkipsST0
  <2>3. FpuMemCode(i.op, 8) = <<b, 3>>
    BY <2>1, MemoryCodes
  <2> DEFINE w == 8
             reg == 3
  <2> HIDE DEF w, reg
  <2>4. /\ IsOperand(a, x, w) /\ FpuMemCode(i.op, w)[1] = b /\ FpuMemCode(i.op, w)[2] = reg
        /\ reg \in 0 .. 7
        /\ (b = \hDB => reg \notin {4, 6}) /\ (b = \hD9 => reg # 1) /\ (b = \hDD => reg # 5)
    BY <2>1, <2>3 DEF w, reg
  <2> HIDE DEF b
  <2>5. QED
    BY <1>1, <1>4, <1>6, <2>2, <2>4, MemoryMoveStands
<1>12. CASE n = 4
  <2>1. i.op = "FRSTOR" /\ IsOperand(a, x, 108)
    BY <1>2, <1>4, <1>7, <1>12
  <2>2. i.op \in FpuMoves
    BY <2>1, FpuTablesAre DEF SkipsST0
  <2>3. FpuMemCode(i.op, 108) = <<b, 4>>
    BY <2>1, MemoryCodes
  <2> DEFINE w == 108
             reg == 4
  <2> HIDE DEF w, reg
  <2>4. /\ IsOperand(a, x, w) /\ FpuMemCode(i.op, w)[1] = b /\ FpuMemCode(i.op, w)[2] = reg
        /\ reg \in 0 .. 7
        /\ (b = \hDB => reg \notin {4, 6}) /\ (b = \hD9 => reg # 1) /\ (b = \hDD => reg # 5)
    BY <2>1, <2>3 DEF w, reg
  <2> HIDE DEF b
  <2>5. QED
    BY <1>1, <1>4, <1>6, <2>2, <2>4, MemoryMoveStands
<1>13. CASE n = 6
  <2>1. i.op = "FSAVE" /\ IsOperand(a, x, 108)
    BY <1>2, <1>4, <1>7, <1>13
  <2>2. i.op \in FpuMoves
    BY <2>1, FpuTablesAre DEF SkipsST0
  <2>3. FpuMemCode(i.op, 108) = <<b, 6>>
    BY <2>1, MemoryCodes
  <2> DEFINE w == 108
             reg == 6
  <2> HIDE DEF w, reg
  <2>4. /\ IsOperand(a, x, w) /\ FpuMemCode(i.op, w)[1] = b /\ FpuMemCode(i.op, w)[2] = reg
        /\ reg \in 0 .. 7
        /\ (b = \hDB => reg \notin {4, 6}) /\ (b = \hD9 => reg # 1) /\ (b = \hDD => reg # 5)
    BY <2>1, <2>3 DEF w, reg
  <2> HIDE DEF b
  <2>5. QED
    BY <1>1, <1>4, <1>6, <2>2, <2>4, MemoryMoveStands
<1>14. CASE n = 7
  <2>1. i.op = "FSTSW" /\ IsOperand(a, x, 2)
    BY <1>2, <1>4, <1>7, <1>14
  <2>2. i.op \in FpuMoves
    BY <2>1, FpuTablesAre DEF SkipsST0
  <2>3. FpuMemCode(i.op, 2) = <<b, 7>>
    BY <2>1, MemoryCodes
  <2> DEFINE w == 2
             reg == 7
  <2> HIDE DEF w, reg
  <2>4. /\ IsOperand(a, x, w) /\ FpuMemCode(i.op, w)[1] = b /\ FpuMemCode(i.op, w)[2] = reg
        /\ reg \in 0 .. 7
        /\ (b = \hDB => reg \notin {4, 6}) /\ (b = \hD9 => reg # 1) /\ (b = \hDD => reg # 5)
    BY <2>1, <2>3 DEF w, reg
  <2> HIDE DEF b
  <2>5. QED
    BY <1>1, <1>4, <1>6, <2>2, <2>4, MemoryMoveStands
<1>15. QED
  BY <1>5, <1>8, <1>9, <1>10, <1>11, <1>12, <1>13, <1>14

LEMMA MovesDF ==
    ASSUME NEW d, NEW x, Fields(d, x), d.lead = \hDF, d.op # "UD_NOP", Mod(x) # 3,
           NEW i, NEW at, Made(i, d, at)
    PROVE  Escaped(EncodeCase(i, at), 2 + Size(Displacement(x)))
<1> DEFINE b == \hDF
           n == Reg(x)
           f == FpuMemory(\hDF)[n + 1]
           a == RM(d, f[2])
           s == Size(Displacement(x))
<1>1. d.lead \in FPUEscapes /\ b \in FPUEscapes
  BY DEF FPUEscapes
<1>2. /\ d.rm = x /\ n \in 0 .. 7 /\ IsOperand(a, x, f[2]) /\ s \in 0 .. 2
      /\ i.op = FpuMemoryForm(d)[1] /\ i.argv = FpuMemoryForm(d)[2]
      /\ FPUMemory(d.lead, x)
      /\ ~(d.lead = \hD9 /\ n = 1) /\ ~(d.lead = \hDD /\ n = 5)
  BY <1>1, MemoryEscape
<1>3. FpuMemoryForm(d) = <<f[1], <<STArg(0), a>> >>
  BY <1>1, <1>2, MemoryForms
<1>4. i.op = f[1] /\ i.argv = <<STArg(0), a>>
  BY <1>2, <1>3
<1>5. n \in {0, 1, 2, 3, 4, 5, 6, 7}
  BY <1>2
<1>6. Mod(x) = 0
  BY <1>2 DEF FPUMemory
<1>7. /\ n = 0 => f[1] = "FILD" /\ f[2] = 2
      /\ n = 1 => f[1] = "FISTTP" /\ f[2] = 2
      /\ n = 2 => f[1] = "FIST" /\ f[2] = 2
      /\ n = 3 => f[1] = "FISTP" /\ f[2] = 2
      /\ n = 4 => f[1] = "FBLD" /\ f[2] = 10
      /\ n = 5 => f[1] = "FILD" /\ f[2] = 8
      /\ n = 6 => f[1] = "FBSTP" /\ f[2] = 10
      /\ n = 7 => f[1] = "FISTP" /\ f[2] = 8
  BY MemoryNames
<1> HIDE DEF a, s
<1>8. CASE n = 0
  <2>1. i.op = "FILD" /\ IsOperand(a, x, 2)
    BY <1>2, <1>4, <1>7, <1>8
  <2>2. i.op \in FpuMoves /\ i.op \in SkipsST0
    BY <2>1, FpuTablesAre DEF SkipsST0
  <2>3. FpuMemCode(i.op, 2) = <<b, 0>>
    BY <2>1, MemoryCodes
  <2> DEFINE w == 2
             reg == 0
  <2> HIDE DEF w, reg
  <2>4. /\ IsOperand(a, x, w) /\ FpuMemCode(i.op, w)[1] = b /\ FpuMemCode(i.op, w)[2] = reg
        /\ reg \in 0 .. 7
        /\ (b = \hDB => reg \notin {4, 6}) /\ (b = \hD9 => reg # 1) /\ (b = \hDD => reg # 5)
    BY <2>1, <2>3 DEF w, reg
  <2> HIDE DEF b
  <2>5. QED
    BY <1>1, <1>4, <1>6, <2>2, <2>4, MemoryMoveStands
<1>9. CASE n = 1
  <2>1. i.op = "FISTTP" /\ IsOperand(a, x, 2)
    BY <1>2, <1>4, <1>7, <1>9
  <2>2. i.op \in FpuMoves /\ i.op \in SkipsST0
    BY <2>1, FpuTablesAre DEF SkipsST0
  <2>3. FpuMemCode(i.op, 2) = <<b, 1>>
    BY <2>1, MemoryCodes
  <2> DEFINE w == 2
             reg == 1
  <2> HIDE DEF w, reg
  <2>4. /\ IsOperand(a, x, w) /\ FpuMemCode(i.op, w)[1] = b /\ FpuMemCode(i.op, w)[2] = reg
        /\ reg \in 0 .. 7
        /\ (b = \hDB => reg \notin {4, 6}) /\ (b = \hD9 => reg # 1) /\ (b = \hDD => reg # 5)
    BY <2>1, <2>3 DEF w, reg
  <2> HIDE DEF b
  <2>5. QED
    BY <1>1, <1>4, <1>6, <2>2, <2>4, MemoryMoveStands
<1>10. CASE n = 2
  <2>1. i.op = "FIST" /\ IsOperand(a, x, 2)
    BY <1>2, <1>4, <1>7, <1>10
  <2>2. i.op \in FpuMoves /\ i.op \in SkipsST0
    BY <2>1, FpuTablesAre DEF SkipsST0
  <2>3. FpuMemCode(i.op, 2) = <<b, 2>>
    BY <2>1, MemoryCodes
  <2> DEFINE w == 2
             reg == 2
  <2> HIDE DEF w, reg
  <2>4. /\ IsOperand(a, x, w) /\ FpuMemCode(i.op, w)[1] = b /\ FpuMemCode(i.op, w)[2] = reg
        /\ reg \in 0 .. 7
        /\ (b = \hDB => reg \notin {4, 6}) /\ (b = \hD9 => reg # 1) /\ (b = \hDD => reg # 5)
    BY <2>1, <2>3 DEF w, reg
  <2> HIDE DEF b
  <2>5. QED
    BY <1>1, <1>4, <1>6, <2>2, <2>4, MemoryMoveStands
<1>11. CASE n = 3
  <2>1. i.op = "FISTP" /\ IsOperand(a, x, 2)
    BY <1>2, <1>4, <1>7, <1>11
  <2>2. i.op \in FpuMoves /\ i.op \in SkipsST0
    BY <2>1, FpuTablesAre DEF SkipsST0
  <2>3. FpuMemCode(i.op, 2) = <<b, 3>>
    BY <2>1, MemoryCodes
  <2> DEFINE w == 2
             reg == 3
  <2> HIDE DEF w, reg
  <2>4. /\ IsOperand(a, x, w) /\ FpuMemCode(i.op, w)[1] = b /\ FpuMemCode(i.op, w)[2] = reg
        /\ reg \in 0 .. 7
        /\ (b = \hDB => reg \notin {4, 6}) /\ (b = \hD9 => reg # 1) /\ (b = \hDD => reg # 5)
    BY <2>1, <2>3 DEF w, reg
  <2> HIDE DEF b
  <2>5. QED
    BY <1>1, <1>4, <1>6, <2>2, <2>4, MemoryMoveStands
<1>12. CASE n = 4
  <2>1. i.op = "FBLD" /\ IsOperand(a, x, 10)
    BY <1>2, <1>4, <1>7, <1>12
  <2>2. i.op \in FpuMoves /\ i.op \in SkipsST0
    BY <2>1, FpuTablesAre DEF SkipsST0
  <2>3. FpuMemCode(i.op, 10) = <<b, 4>>
    BY <2>1, MemoryCodes
  <2> DEFINE w == 10
             reg == 4
  <2> HIDE DEF w, reg
  <2>4. /\ IsOperand(a, x, w) /\ FpuMemCode(i.op, w)[1] = b /\ FpuMemCode(i.op, w)[2] = reg
        /\ reg \in 0 .. 7
        /\ (b = \hDB => reg \notin {4, 6}) /\ (b = \hD9 => reg # 1) /\ (b = \hDD => reg # 5)
    BY <2>1, <2>3 DEF w, reg
  <2> HIDE DEF b
  <2>5. QED
    BY <1>1, <1>4, <1>6, <2>2, <2>4, MemoryMoveStands
<1>13. CASE n = 5
  <2>1. i.op = "FILD" /\ IsOperand(a, x, 8)
    BY <1>2, <1>4, <1>7, <1>13
  <2>2. i.op \in FpuMoves /\ i.op \in SkipsST0
    BY <2>1, FpuTablesAre DEF SkipsST0
  <2>3. FpuMemCode(i.op, 8) = <<b, 5>>
    BY <2>1, MemoryCodes
  <2> DEFINE w == 8
             reg == 5
  <2> HIDE DEF w, reg
  <2>4. /\ IsOperand(a, x, w) /\ FpuMemCode(i.op, w)[1] = b /\ FpuMemCode(i.op, w)[2] = reg
        /\ reg \in 0 .. 7
        /\ (b = \hDB => reg \notin {4, 6}) /\ (b = \hD9 => reg # 1) /\ (b = \hDD => reg # 5)
    BY <2>1, <2>3 DEF w, reg
  <2> HIDE DEF b
  <2>5. QED
    BY <1>1, <1>4, <1>6, <2>2, <2>4, MemoryMoveStands
<1>14. CASE n = 6
  <2>1. i.op = "FBSTP" /\ IsOperand(a, x, 10)
    BY <1>2, <1>4, <1>7, <1>14
  <2>2. i.op \in FpuMoves /\ i.op \in SkipsST0
    BY <2>1, FpuTablesAre DEF SkipsST0
  <2>3. FpuMemCode(i.op, 10) = <<b, 6>>
    BY <2>1, MemoryCodes
  <2> DEFINE w == 10
             reg == 6
  <2> HIDE DEF w, reg
  <2>4. /\ IsOperand(a, x, w) /\ FpuMemCode(i.op, w)[1] = b /\ FpuMemCode(i.op, w)[2] = reg
        /\ reg \in 0 .. 7
        /\ (b = \hDB => reg \notin {4, 6}) /\ (b = \hD9 => reg # 1) /\ (b = \hDD => reg # 5)
    BY <2>1, <2>3 DEF w, reg
  <2> HIDE DEF b
  <2>5. QED
    BY <1>1, <1>4, <1>6, <2>2, <2>4, MemoryMoveStands
<1>15. CASE n = 7
  <2>1. i.op = "FISTP" /\ IsOperand(a, x, 8)
    BY <1>2, <1>4, <1>7, <1>15
  <2>2. i.op \in FpuMoves /\ i.op \in SkipsST0
    BY <2>1, FpuTablesAre DEF SkipsST0
  <2>3. FpuMemCode(i.op, 8) = <<b, 3>>
    BY <2>1, MemoryCodes
  <2> DEFINE w == 8
             reg == 3
  <2> HIDE DEF w, reg
  <2>4. /\ IsOperand(a, x, w) /\ FpuMemCode(i.op, w)[1] = b /\ FpuMemCode(i.op, w)[2] = reg
        /\ reg \in 0 .. 7
        /\ (b = \hDB => reg \notin {4, 6}) /\ (b = \hD9 => reg # 1) /\ (b = \hDD => reg # 5)
    BY <2>1, <2>3 DEF w, reg
  <2> HIDE DEF b
  <2>5. QED
    BY <1>1, <1>4, <1>6, <2>2, <2>4, MemoryMoveStands
<1>16. QED
  BY <1>5, <1>8, <1>9, <1>10, <1>11, <1>12, <1>13, <1>14, <1>15

LEMMA MovesDB ==
    ASSUME NEW d, NEW x, Fields(d, x), d.lead = \hDB, d.op # "UD_NOP", Mod(x) # 3,
           NEW i, NEW at, Made(i, d, at)
    PROVE  Escaped(EncodeCase(i, at), 2 + Size(Displacement(x)))
<1> DEFINE b == \hDB
           n == Reg(x)
           f == FpuMemory(\hDB)[n + 1]
           a == RM(d, f[2])
           s == Size(Displacement(x))
<1>1. d.lead \in FPUEscapes /\ b \in FPUEscapes
  BY DEF FPUEscapes
<1>2. /\ d.rm = x /\ n \in 0 .. 7 /\ IsOperand(a, x, f[2]) /\ s \in 0 .. 2
      /\ i.op = FpuMemoryForm(d)[1] /\ i.argv = FpuMemoryForm(d)[2]
      /\ FPUMemory(d.lead, x)
      /\ ~(d.lead = \hD9 /\ n = 1) /\ ~(d.lead = \hDD /\ n = 5)
  BY <1>1, MemoryEscape
<1>3. FpuMemoryForm(d) = <<f[1], <<STArg(0), a>> >>
  BY <1>1, <1>2, MemoryForms
<1>4. i.op = f[1] /\ i.argv = <<STArg(0), a>>
  BY <1>2, <1>3
<1>5. n \in {0, 1, 2, 3, 5, 7}
  <2>1. n \notin {4, 6}
    BY <1>2 DEF FPUMemory
  <2>2. QED
    BY <1>2, <2>1
<1>6. Mod(x) = 0
  BY <1>2 DEF FPUMemory
<1>7. /\ n = 0 => f[1] = "FILD" /\ f[2] = 4
      /\ n = 1 => f[1] = "FISTTP" /\ f[2] = 4
      /\ n = 2 => f[1] = "FIST" /\ f[2] = 4
      /\ n = 3 => f[1] = "FISTP" /\ f[2] = 4
      /\ n = 5 => f[1] = "FLD" /\ f[2] = 10
      /\ n = 7 => f[1] = "FSTP"
  BY MemoryNames
<1> HIDE DEF a, s
<1>8. CASE n = 0
  <2>1. i.op = "FILD" /\ IsOperand(a, x, 4)
    BY <1>2, <1>4, <1>7, <1>8
  <2>2. i.op \in FpuMoves /\ i.op \in SkipsST0
    BY <2>1, FpuTablesAre DEF SkipsST0
  <2>3. FpuMemCode(i.op, 4) = <<b, 0>>
    BY <2>1, MemoryCodes
  <2> DEFINE w == 4
             reg == 0
  <2> HIDE DEF w, reg
  <2>4. /\ IsOperand(a, x, w) /\ FpuMemCode(i.op, w)[1] = b /\ FpuMemCode(i.op, w)[2] = reg
        /\ reg \in 0 .. 7
        /\ (b = \hDB => reg \notin {4, 6}) /\ (b = \hD9 => reg # 1) /\ (b = \hDD => reg # 5)
    BY <2>1, <2>3 DEF w, reg
  <2> HIDE DEF b
  <2>5. QED
    BY <1>1, <1>4, <1>6, <2>2, <2>4, MemoryMoveStands
<1>9. CASE n = 1
  <2>1. i.op = "FISTTP" /\ IsOperand(a, x, 4)
    BY <1>2, <1>4, <1>7, <1>9
  <2>2. i.op \in FpuMoves /\ i.op \in SkipsST0
    BY <2>1, FpuTablesAre DEF SkipsST0
  <2>3. FpuMemCode(i.op, 4) = <<b, 1>>
    BY <2>1, MemoryCodes
  <2> DEFINE w == 4
             reg == 1
  <2> HIDE DEF w, reg
  <2>4. /\ IsOperand(a, x, w) /\ FpuMemCode(i.op, w)[1] = b /\ FpuMemCode(i.op, w)[2] = reg
        /\ reg \in 0 .. 7
        /\ (b = \hDB => reg \notin {4, 6}) /\ (b = \hD9 => reg # 1) /\ (b = \hDD => reg # 5)
    BY <2>1, <2>3 DEF w, reg
  <2> HIDE DEF b
  <2>5. QED
    BY <1>1, <1>4, <1>6, <2>2, <2>4, MemoryMoveStands
<1>10. CASE n = 2
  <2>1. i.op = "FIST" /\ IsOperand(a, x, 4)
    BY <1>2, <1>4, <1>7, <1>10
  <2>2. i.op \in FpuMoves /\ i.op \in SkipsST0
    BY <2>1, FpuTablesAre DEF SkipsST0
  <2>3. FpuMemCode(i.op, 4) = <<b, 2>>
    BY <2>1, MemoryCodes
  <2> DEFINE w == 4
             reg == 2
  <2> HIDE DEF w, reg
  <2>4. /\ IsOperand(a, x, w) /\ FpuMemCode(i.op, w)[1] = b /\ FpuMemCode(i.op, w)[2] = reg
        /\ reg \in 0 .. 7
        /\ (b = \hDB => reg \notin {4, 6}) /\ (b = \hD9 => reg # 1) /\ (b = \hDD => reg # 5)
    BY <2>1, <2>3 DEF w, reg
  <2> HIDE DEF b
  <2>5. QED
    BY <1>1, <1>4, <1>6, <2>2, <2>4, MemoryMoveStands
<1>11. CASE n = 3
  <2>1. i.op = "FISTP" /\ IsOperand(a, x, 4)
    BY <1>2, <1>4, <1>7, <1>11
  <2>2. i.op \in FpuMoves /\ i.op \in SkipsST0
    BY <2>1, FpuTablesAre DEF SkipsST0
  <2>3. FpuMemCode(i.op, 4) = <<b, 3>>
    BY <2>1, MemoryCodes
  <2> DEFINE w == 4
             reg == 3
  <2> HIDE DEF w, reg
  <2>4. /\ IsOperand(a, x, w) /\ FpuMemCode(i.op, w)[1] = b /\ FpuMemCode(i.op, w)[2] = reg
        /\ reg \in 0 .. 7
        /\ (b = \hDB => reg \notin {4, 6}) /\ (b = \hD9 => reg # 1) /\ (b = \hDD => reg # 5)
    BY <2>1, <2>3 DEF w, reg
  <2> HIDE DEF b
  <2>5. QED
    BY <1>1, <1>4, <1>6, <2>2, <2>4, MemoryMoveStands
<1>12. CASE n = 5
  <2>1. i.op = "FLD" /\ IsOperand(a, x, 10)
    BY <1>2, <1>4, <1>7, <1>12
  <2>2. i.op \in FpuMoves /\ i.op \in SkipsST0
    BY <2>1, FpuTablesAre DEF SkipsST0
  <2>3. FpuMemCode(i.op, 10) = <<b, 5>>
    BY <2>1, MemoryCodes
  <2> DEFINE w == 10
             reg == 5
  <2> HIDE DEF w, reg
  <2>4. /\ IsOperand(a, x, w) /\ FpuMemCode(i.op, w)[1] = b /\ FpuMemCode(i.op, w)[2] = reg
        /\ reg \in 0 .. 7
        /\ (b = \hDB => reg \notin {4, 6}) /\ (b = \hD9 => reg # 1) /\ (b = \hDD => reg # 5)
    BY <2>1, <2>3 DEF w, reg
  <2> HIDE DEF b
  <2>5. QED
    BY <1>1, <1>4, <1>6, <2>2, <2>4, MemoryMoveStands
<1>13. CASE n = 7
  <2> DEFINE c == STArg(0)
             e == \hDD
             reg == 3
  <2>1. i.op = "FSTP" /\ i.argv = <<c, a>>
    BY <1>4, <1>7, <1>13
  <2>2. i.op \in FpuMoves /\ i.op \notin SkipsST0
    BY <2>1, FpuTablesAre DEF SkipsST0
  <2>3. EncodeCase(i, at) = EncodeFpuMove(i.op, i.argv)
    BY <2>2, FpuDispatch
  <2>4. IsST(c) /\ ~IsReg(c) /\ c.kind # "mem" /\ c.reg \in 0 .. 7
    BY StackArgIs DEF IsMem
  <2>5. FpuStackCode[i.op][1] = e /\ FpuStackCode[i.op][2] = reg
    BY <2>1, StackCodes
  <2>6. /\ e \in FPUEscapes /\ reg \in 0 .. 7
        /\ \A y \in Byte : Reg(y) = reg => FPURegister(e, y)
    BY DEF FPUEscapes, FPURegister
  <2>7. i.argv[1] = c
    BY <2>1
  <2> HIDE DEF c, e, reg
  <2>8. EncodeFpuMove(i.op, i.argv) = <<e>> \o ModRM(c, reg)
    BY <2>2, <2>4, <2>5, <2>7 DEF EncodeFpuMove
  <2>9. Escaped(<<e>> \o ModRM(c, reg), 2)
    BY <2>4, <2>6, StackForm
  <2>10. Escaped(EncodeCase(i, at), 2)
    BY <2>3, <2>8, <2>9
  <2>11. 2 \in Int /\ 2 + s \in Int /\ 2 <= 2 + s
    BY <1>2
  <2>12. Escaped(EncodeCase(i, at), 2 + s)
    BY <2>10, <2>11, MoreRoom DEF Escaped
  <2>13. QED
    BY <2>12 DEF s
<1>14. QED
  BY <1>5, <1>8, <1>9, <1>10, <1>11, <1>12, <1>13

(* The escapes.                                                            *)
LEMMA EscapeRows ==
    ASSUME NEW d, NEW x, Fields(d, x), d.lead \in FPUEscapes,
           NEW i, NEW at, Made(i, d, at)
    PROVE  Fine(i, at, InsSize(d.lead, x))
<1>1. CASE d.op = "UD_NOP"
  BY <1>1, NopFits, FitsIsFine
<1>2. ASSUME d.op # "UD_NOP", Mod(x) = 3 PROVE Fine(i, at, InsSize(d.lead, x))
  <2>1. InsSize(d.lead, x) = 2
    BY <1>2, RegisterEscape
  <2>2. Escaped(EncodeCase(i, at), 2)
    BY <1>2, RowD8Register, RowD9Register, RowDARegister, RowDBRegister, RowDCRegister,
       RowDDRegister, RowDERegister, RowDFRegister DEF FPUEscapes
  <2>3. QED
    BY <2>1, <2>2, EscapedIsFine
<1>3. ASSUME d.op # "UD_NOP", Mod(x) # 3 PROVE Fine(i, at, InsSize(d.lead, x))
  <2>1. InsSize(d.lead, x) = 2 + Size(Displacement(x))
    BY <1>3, MemoryEscape
  <2>2. Escaped(EncodeCase(i, at), 2 + Size(Displacement(x)))
    BY <1>3, ArithmeticOfMemory, IntegerOfMemory, MovesD9, MovesDB, MovesDD, MovesDF DEF FPUEscapes
  <2>3. QED
    BY <2>1, <2>2, EscapedIsFine
<1>4. QED
  BY <1>1, <1>2, <1>3

(* All the rows.                                                           *)
LEMMA AllRows ==
    ASSUME NEW d, NEW x, Fields(d, x), NEW i, NEW at \in Nat, Made(i, d, at), i.len = d.len,
           d.op # "UD_NOP" => d.len >= InsSize(d.lead, x)
    PROVE  Fine(i, at, InsSize(d.lead, x))
<1>1. d.lead \in Int /\ 0 <= d.lead /\ d.lead <= 255
  <2>1. d.lead \in Byte
    BY DEF Fields
  <2>2. QED
    BY <2>1 DEF Byte
<1>2. CASE d.op = "UD_NOP"
  BY <1>2, NopFits, FitsIsFine
<1>3. CASE d.op # "UD_NOP" /\ d.lead \in FPUEscapes
  BY <1>3, EscapeRows
<1>4. CASE d.op # "UD_NOP" /\ d.lead \notin FPUEscapes
  <2>1. CASE d.lead < \h80
    BY <1>4, <2>1, LowRows
  <2>2. CASE d.lead \in \h80 .. \hBF
    BY <1>4, <2>2, MiddleRows
  <2>3. CASE d.lead >= \hC0
    BY <1>4, <2>3, HighRows
  <2>4. QED
    BY <1>1, <2>1, <2>2, <2>3
<1>5. QED
  BY <1>2, <1>3, <1>4

-----------------------------------------------------------------------------
(* What is decoded of bytes that hold the whole instruction.               *)

Whole(s) ==
    /\ s \in Seq(Byte) /\ PrefixLength(s) \in Nat /\ PrefixLength(s) + 6 <= Len(s)
    /\ ~PrefixAt(s, PrefixLength(s) + 1)

LEMMA WholeBytes ==
    ASSUME NEW s, Whole(s)
    PROVE  /\ \A k \in 1 .. PrefixLength(s) + 6 : s[k] \in Byte
           /\ Opcode(s) \in Byte /\ Opcode(s) \notin Plain /\ Second(s) \in Byte
           /\ Len(s) \in Nat
<1> DEFINE n == PrefixLength(s)
<1>1. s \in Seq(Byte) /\ n \in Nat /\ n + 6 <= Len(s) /\ ~PrefixAt(s, n + 1)
  BY DEF Whole
<1>2. Len(s) \in Nat
  BY <1>1, LenProperties
<1> HIDE DEF n
<1>3. \A k \in 1 .. n + 6 : k \in 1 .. Len(s)
  BY <1>1, <1>2
<1>4. \A k \in 1 .. n + 6 : s[k] \in Byte
  BY <1>1, <1>3, ElementOfSeq
<1>5. n + 1 \in 1 .. n + 6 /\ n + 2 \in 1 .. n + 6 /\ n + 2 <= Len(s)
  BY <1>1, <1>2
<1>6. s[n + 1] \notin Plain
  BY <1>1 DEF PrefixAt, Plain
<1>7. Opcode(s) = s[n + 1] /\ Second(s) = s[n + 2]
  BY <1>5 DEF Opcode, Second, n
<1>8. QED
  BY <1>2, <1>4, <1>5, <1>6, <1>7 DEF n

LEMMA TwoByteValue ==
    ASSUME NEW a \in Byte, NEW b \in Byte
    PROVE  a + 256 * b \in Word16
<1>1. a \in 0 .. 255 /\ b \in 0 .. 255
  BY DEF Byte
<1>2. a + 256 * b \in Int /\ 0 <= a + 256 * b /\ a + 256 * b < 65536
  BY <1>1
<1>3. QED
  BY <1>2, InWord16

LEMMA ValuesAre ==
    ASSUME NEW s, Whole(s), NEW c \in Int, 0 <= c, c <= PrefixLength(s) + 4
    PROVE  /\ ValueAt(s, c, 1) \in Byte /\ ValueAt(s, c, 2) \in Word16
           /\ ValueAt(s, c, 1) \in Int /\ ValueAt(s, c, 2) \in Int
<1> DEFINE n == PrefixLength(s)
<1>1. n \in Nat /\ \A k \in 1 .. n + 6 : s[k] \in Byte
  BY WholeBytes DEF Whole
<1> HIDE DEF n
<1>2. c + 1 \in 1 .. n + 6 /\ c + 2 \in 1 .. n + 6
  BY <1>1 DEF n
<1>3. s[c + 1] \in Byte /\ s[c + 2] \in Byte
  BY <1>1, <1>2
<1>4. ValueAt(s, c, 1) = s[c + 1] /\ ValueAt(s, c, 2) = s[c + 1] + 256 * s[c + 2]
  BY DEF ValueAt
<1>5. ValueAt(s, c, 2) \in Word16
  BY <1>3, <1>4, TwoByteValue
<1>6. ValueAt(s, c, 1) \in Byte
  BY <1>3, <1>4
<1>7. ValueAt(s, c, 1) \in Int
  BY <1>6 DEF Byte
<1>8. ValueAt(s, c, 2) \in Int
  BY <1>5, WordIsWord
<1>9. QED
  BY <1>5, <1>6, <1>7, <1>8

(* The operands of the decode.                                             *)
LEMMA ArgsAre ==
    ASSUME NEW s, Whole(s)
    PROVE  LET w == WidthsOf(s)
               a == FlatDecode(s).args
           IN  /\ Len(a) = Len(w) /\ Len(w) \in 0 .. 2
               /\ \A k \in 1 .. Len(w) : a[k] \in Int
               /\ Len(w) > 0 /\ w[1] = 1 => a[1] \in Byte
               /\ Len(w) > 0 /\ w[1] = 2 => a[1] \in Word16
<1> DEFINE w == WidthsOf(s)
           a == FlatDecode(s).args
           n == PrefixLength(s)
           at == OperandsAt(s)
<1>1. w \in Widths /\ Len(w) \in 0 .. 2
  BY WidthsAre DEF WidthsOf
<1>2. n \in Nat /\ Len(s) \in Nat /\ n + 6 <= Len(s)
  BY WholeBytes DEF Whole
<1>3. at \in {n + 1, n + 2}
  BY DEF OperandsAt
<1>4. \A k \in 1 .. Len(w) : w[k] \in {1, 2}
  BY <1>1, ElementOfSeq DEF Widths
<1>5. CASE Len(w) = 0
  <2>1. w = << >>
    BY <1>1, <1>5, EmptySeq DEF Widths
  <2>2. a = << >>
    BY <2>1, FlatOfNone DEF Decoding
  <2>3. Len(a) = 0
    BY <2>2
  <2> HIDE DEF w, a
  <2>4. QED
    BY <1>5, <2>3 DEF w, a
<1>6. CASE Len(w) = 1
  <2> DEFINE v == FirstOperand(s)
  <2>1. a = <<v>>
    BY <1>1, <1>6, FlatOfOne DEF Decoding
  <2>2. w[1] \in {1, 2}
    BY <1>4, <1>6
  <2>3. v = ValueAt(s, at, w[1])
    BY DEF FirstOperand
  <2> HIDE DEF w, a, n, at, v
  <2>4. at \in Int /\ 0 <= at /\ at <= n + 4
    BY <1>2, <1>3
  <2>5. v \in Int /\ (w[1] = 1 => v \in Byte) /\ (w[1] = 2 => v \in Word16)
    BY <2>2, <2>3, <2>4, ValuesAre DEF n
  <2>6. Len(a) = 1 /\ a[1] = v
    BY <2>1
  <2>7. /\ Len(a) = Len(w) /\ Len(w) \in 0 .. 2
        /\ \A k \in 1 .. Len(w) : a[k] \in Int
        /\ Len(w) > 0 /\ w[1] = 1 => a[1] \in Byte
        /\ Len(w) > 0 /\ w[1] = 2 => a[1] \in Word16
    BY <1>6, <2>5, <2>6
  <2>8. QED
    BY <2>7 DEF w, a
<1>7. CASE Len(w) = 2
  <2> DEFINE v == FirstOperand(s)
             u == ValueAt(s, at + w[1], w[2])
  <2>1. a = <<v, u>>
    BY <1>1, <1>7, FlatOfTwo DEF Decoding
  <2>2. w[1] \in {1, 2} /\ w[2] \in {1, 2}
    BY <1>4, <1>7
  <2>3. v = ValueAt(s, at, w[1])
    BY DEF FirstOperand
  <2> HIDE DEF w, a, n, at, v
  <2>4. at \in Int /\ 0 <= at /\ at <= n + 4
    BY <1>2, <1>3
  <2>5. v \in Int /\ (w[1] = 1 => v \in Byte) /\ (w[1] = 2 => v \in Word16)
    BY <2>2, <2>3, <2>4, ValuesAre DEF n
  <2>6. at + w[1] \in Int /\ 0 <= at + w[1] /\ at + w[1] <= n + 4
    BY <1>2, <1>3, <2>2
  <2>7. u \in Int
    BY <2>2, <2>6, ValuesAre DEF n
  <2> HIDE DEF u
  <2>8. Len(a) = 2 /\ a[1] = v /\ a[2] = u
    BY <2>1
  <2>9. /\ Len(a) = Len(w) /\ Len(w) \in 0 .. 2
        /\ \A k \in 1 .. Len(w) : a[k] \in Int
        /\ Len(w) > 0 /\ w[1] = 1 => a[1] \in Byte
        /\ Len(w) > 0 /\ w[1] = 2 => a[1] \in Word16
    BY <1>7, <2>5, <2>7, <2>8
  <2>10. QED
    BY <2>9 DEF w, a
<1>8. QED
  BY <1>1, <1>5, <1>6, <1>7

LEMMA FirstOfJoined ==
    ASSUME NEW v \in Seq(Nat), NEW w \in Seq(Nat), Len(v) = 1
    PROVE  Len(v \o w) > 0 /\ (v \o w)[1] = v[1]
<1>1. /\ Len(v \o w) = Len(v) + Len(w) /\ Len(w) \in Nat
      /\ \A k \in 1 .. Len(v) : (v \o w)[k] = v[k]
  BY Joined
<1>2. 1 \in 1 .. Len(v)
  OBVIOUS
<1>3. QED
  BY <1>1, <1>2

LEMMA LeadingWidth ==
    ASSUME NEW v, v \in {<< 1 >>, << 2 >>}, NEW w, w \in {<< >>, << 1 >>, << 2 >>}
    PROVE  Len(v \o w) > 0 /\ (v \o w)[1] = v[1] /\ (v = <<1>> => v[1] = 1) /\ (v = <<2>> => v[1] = 2)
<1>1. << >> \in Seq(Nat)
  OBVIOUS
<1>2. <<1>> \in Seq(Nat) /\ Len(<<1>>) = 1 /\ <<1>>[1] = 1
  OBVIOUS
<1>3. <<2>> \in Seq(Nat) /\ Len(<<2>>) = 1 /\ <<2>>[1] = 2
  OBVIOUS
<1>4. v \in Seq(Nat) /\ Len(v) = 1
  BY <1>2, <1>3
<1>5. w \in Seq(Nat)
  BY <1>1, <1>2, <1>3
<1>6. Len(v \o w) > 0 /\ (v \o w)[1] = v[1]
  BY <1>4, <1>5, FirstOfJoined
<1>7. (v = <<1>> => v[1] = 1) /\ (v = <<2>> => v[1] = 2)
  BY <1>2, <1>3
<1>8. QED
  BY <1>6, <1>7

(* The prefix fields of the decode, and whence they come.                  *)
LEMMA PrefixFieldsAre ==
    ASSUME NEW s, Whole(s)
    PROVE  LET d == FlatDecode(s)
               n == PrefixLength(s)
           IN  /\ d.segment \in -1 .. 3 /\ d.rep \in 0 .. 2 /\ d.lock \in {0, 1} /\ d.fwait \in {0, 1}
               /\ d.segment # NoSegment => \E k \in 1 .. n : s[k] \in SegOverrides
               /\ d.rep # 0  => \E k \in 1 .. n : s[k] \in RepPrefixes
               /\ d.lock = 1 => \E k \in 1 .. n : s[k] \in LockPrefixes
               /\ d.fwait = 1 => \E k \in 1 .. n : s[k] = WaitOpcode
<1> DEFINE d == FlatDecode(s)
           n == PrefixLength(s)
<1>1. /\ d.segment = SegmentPut(s) /\ d.rep = RepPut(s)
      /\ d.lock = Seen(s, LockPrefixes) /\ d.fwait = Seen(s, {WaitOpcode})
  BY DEF FlatDecode
<1>2. n \in Nat
  BY DEF Whole
<1>3. ASSUME NEW kind PROVE LastPrefix(s, kind) = NoByte
                            \/ (LastPrefix(s, kind) \in kind /\ \E k \in 1 .. n : s[k] \in kind)
  <2> DEFINE at == {k \in 1 .. n : s[k] \in kind}
             P(m) == m <= n /\ \A j \in at : j <= m
  <2>1. LastPrefix(s, kind) = IF at = {} THEN NoByte ELSE s[CHOOSE k \in at : \A j \in at : j <= k]
    BY DEF LastPrefix
  <2>2. CASE at = {}
    BY <2>1, <2>2
  <2>3. CASE at # {}
    <3> DEFINE T == {n - k : k \in at}
    <3>1. T \subseteq Nat /\ T # {}
      BY <1>2, <2>3
    <3>2. PICK l \in T : \A m \in T : l <= m
      <4> HIDE DEF T
      <4>1. QED
        BY <3>1, LeastOf
    <3>3. PICK k \in at : l = n - k
      BY <3>2
    <3>4. \A j \in at : j <= k
      <4> SUFFICES ASSUME NEW j \in at PROVE j <= k
        OBVIOUS
      <4>1. n - j \in T
        OBVIOUS
      <4>2. n - k <= n - j
        BY <3>2, <3>3, <4>1
      <4>3. QED
        BY <1>2, <4>2
    <3> DEFINE c == CHOOSE m \in at : \A j \in at : j <= m
    <3>5. c \in at
      BY <3>4
    <3> HIDE DEF c
    <3>6. s[c] \in kind /\ c \in 1 .. n
      BY <3>5
    <3>7. LastPrefix(s, kind) = s[c]
      BY <2>1, <2>3 DEF c
    <3>8. QED
      BY <3>6, <3>7
  <2>4. QED
    BY <2>2, <2>3
<1>4. d.segment \in -1 .. 3 /\ (d.segment # NoSegment => \E k \in 1 .. n : s[k] \in SegOverrides)
  <2> DEFINE b == LastPrefix(s, SegOverrides)
  <2>1. SegmentPut(s) = IF b = NoByte THEN NoSegment ELSE SegmentOf(b)
    BY DEF SegmentPut
  <2>2. b = NoByte \/ (b \in SegOverrides /\ \E k \in 1 .. n : s[k] \in SegOverrides)
    BY <1>3
  <2> HIDE DEF b
  <2>3. b \in SegOverrides => SegmentOf(b) \in 0 .. 3
    BY PrefixFields
  <2>4. QED
    BY <1>1, <2>1, <2>2, <2>3 DEF NoSegment
<1>5. d.rep \in 0 .. 2 /\ (d.rep # 0 => \E k \in 1 .. n : s[k] \in RepPrefixes)
  <2> DEFINE b == LastPrefix(s, RepPrefixes)
  <2>1. RepPut(s) = IF b = NoByte THEN 0 ELSE RepOf(b)
    BY DEF RepPut
  <2>2. b = NoByte \/ (b \in RepPrefixes /\ \E k \in 1 .. n : s[k] \in RepPrefixes)
    BY <1>3
  <2> HIDE DEF b
  <2>3. b \in RepPrefixes => RepOf(b) \in 0 .. 2
    BY PrefixFields DEF RepPrefixes, Byte
  <2>4. QED
    BY <1>1, <2>1, <2>2, <2>3
<1>6. d.lock \in {0, 1} /\ (d.lock = 1 => \E k \in 1 .. n : s[k] \in LockPrefixes)
  BY <1>1 DEF Seen
<1>7. d.fwait \in {0, 1} /\ (d.fwait = 1 => \E k \in 1 .. n : s[k] = WaitOpcode)
  BY <1>1 DEF Seen
<1>8. QED
  BY <1>4, <1>5, <1>6, <1>7

(* The decode of whole bytes is one the rows of the switch are about.      *)
LEMMA FieldsOfWhole ==
    ASSUME NEW s, Whole(s)
    PROVE  LET d == FlatDecode(s)
           IN  /\ Fields(d, Second(s)) /\ d.lead = Opcode(s)
               /\ d.op # "UD_NOP" => d.len = PrefixLength(s) + InsSize(d.lead, Second(s))
               /\ d.op = "UD_NOP" => d.len = 2
<1> DEFINE d == FlatDecode(s)
           x == Second(s)
           b == Opcode(s)
           n == PrefixLength(s)
           w == OperandWidths(b, x)
<1>1. b \in Byte /\ b \notin Plain /\ x \in Byte
  BY WholeBytes
<1>2. n \in Nat /\ Len(s) \in Nat /\ n + 2 <= Len(s)
  <2>1. n \in Nat /\ Len(s) \in Nat /\ n + 6 <= Len(s)
    BY WholeBytes DEF Whole
  <2>2. QED
    BY <2>1
<1>3. /\ d.lead = b /\ d.rm = IF TakesModRM(b, x) THEN x ELSE NoByte
      /\ d.fpu = IF b \in FPUEscapes THEN x ELSE NoByte
  BY DEF FlatDecode, Opcode, Second
<1>4. /\ d.op = OutcomeOf(b, x)
      /\ d.len = IF d.op = "UD_NOP" THEN 2 ELSE OperandsAt(s) + Size(w)
      /\ OperandsAt(s) = IF b \in FPUEscapes \/ TakesModRM(b, x) THEN n + 2 ELSE n + 1
  BY <1>2, DecodeOf
<1>5. /\ Len(d.args) = Len(w) /\ \A k \in 1 .. Len(w) : d.args[k] \in Int
      /\ Len(w) > 0 /\ w[1] = 1 => d.args[1] \in Byte
      /\ Len(w) > 0 /\ w[1] = 2 => d.args[1] \in Word16
  BY ArgsAre DEF WidthsOf
<1>6. d.segment \in -1 .. 3
  BY PrefixFieldsAre
<1>7. Size(w) \in 0 .. 4
  BY FewOperands, FewSizes
<1>8. InsSize(b, x) = (IF b \in FPUEscapes \/ TakesModRM(b, x) THEN 2 ELSE 1) + Size(w)
  BY DEF InsSize
<1>9. ASSUME TakesModRM(b, x) PROVE Addressed(d, x)
  <2>1. w = Displacement(x) \o ImmAfterRM(b, x)
    BY <1>9 DEF OperandWidths
  <2>2. Displacement(x) \in {<< >>, <<1>>, <<2>>} /\ ImmAfterRM(b, x) \in {<< >>, <<1>>, <<2>>}
    BY Shorts
  <2>3. Displacement(x) \in {<<1>>, <<2>>} =>
            /\ Len(w) > 0 /\ (Displacement(x) = <<1>> => w[1] = 1)
            /\ (Displacement(x) = <<2>> => w[1] = 2)
    <3> DEFINE v == Displacement(x)
               u == ImmAfterRM(b, x)
    <3> HIDE DEF v, u, w
    <3>1. w = v \o u /\ u \in {<< >>, <<1>>, <<2>>}
      BY <2>1, <2>2 DEF v, u
    <3>2. v \in {<<1>>, <<2>>} => Len(w) > 0 /\ (v = <<1>> => w[1] = 1) /\ (v = <<2>> => w[1] = 2)
      BY <3>1, LeadingWidth
    <3>3. QED
      BY <3>2 DEF v
  <2> HIDE DEF w
  <2>4. Displacement(x) = <<1>> => d.args[1] \in Byte
    BY <1>5, <2>3
  <2>5. Displacement(x) = <<2>> => d.args[1] \in Word16
    BY <1>5, <2>3
  <2>6. QED
    BY <1>1, <1>3, <1>6, <1>9, <2>4, <2>5 DEF Addressed
<1> HIDE DEF d, x, b, n, w
<1>10. d.len \in Nat
  BY <1>2, <1>4, <1>7
<1>11. d.op # "UD_NOP" => d.len = n + InsSize(b, x)
  BY <1>2, <1>4, <1>7, <1>8
<1>12. Fields(d, x)
  BY <1>1, <1>3, <1>4, <1>5, <1>9, <1>10 DEF Fields, w
<1>13. QED
  BY <1>3, <1>4, <1>11, <1>12 DEF d, x, b, n

-----------------------------------------------------------------------------
(* The segment prefix: none is written where none stood.                   *)

(* A memory operand whose segment is what decode_rm_x86 makes of seg.      *)
Regular(a, seg) == a.kind = "mem" => a.segment = DefaultSegment(a.regs, seg)

Regulars(v, seg) ==
    \/ v = << >>
    \/ \E p : v = <<p>> /\ Regular(p, seg)
    \/ \E p, q : v = <<p, q>> /\ Regular(p, seg) /\ Regular(q, seg)

(* The operand whose segment the encoder looks at is a regular one.        *)
Governed(op, v, seg) ==
    \/ Regulars(v, seg)
    \/ op \in ToES
    \/ op # "FSTP" /\ \E p, q : v = <<p, q>> /\ q.kind = "mem" /\ Regular(q, seg)

OverrideBytes == {<<\h26>>, <<\h2E>>, <<\h36>>, <<\h3E>>}

LEMMA RegularPrefix ==
    ASSUME NEW a, NEW seg \in -1 .. 3, a.segment = DefaultSegment(a.regs, seg)
    PROVE  SegOverride(a, seg # NoSegment) = seg
<1>1. CASE seg = NoSegment
  <2> DEFINE s == \E k \in DOMAIN a.regs : a.regs[k] \in {SP, BP}
             t == \E k \in DOMAIN a.regs : a.regs[k] \in {BP, SP}
  <2>1. s <=> t
    OBVIOUS
  <2>2. a.segment = IF t THEN SS ELSE DS
    BY <1>1 DEF DefaultSegment
  <2>3. SegOverride(a, seg # NoSegment) =
          IF ((a.segment = DS /\ ~s) \/ (a.segment = SS /\ s)) /\ ~(seg # NoSegment)
          THEN NoSegment ELSE a.segment
    BY DEF SegOverride
  <2> HIDE DEF s, t
  <2>4. QED
    BY <1>1, <2>1, <2>2, <2>3
<1>2. CASE seg # NoSegment
  <2>1. a.segment = seg
    BY <1>2 DEF DefaultSegment
  <2>2. QED
    BY <1>2, <2>1 DEF SegOverride
<1>3. QED
  BY <1>1, <1>2

LEMMA PrefixByte ==
    ASSUME NEW seg \in 0 .. 3
    PROVE  <<\h26 + 8 * seg>> \in OverrideBytes
<1>1. seg = 0 \/ seg = 1 \/ seg = 2 \/ seg = 3
  OBVIOUS
<1>2. \h26 + 8 * seg \in {\h26, \h2E, \h36, \h3E}
  BY <1>1
<1>3. QED
  BY <1>2 DEF OverrideBytes

(* The last of the memory operands.                                        *)
LEMMA MemOfOne ==
    ASSUME NEW i, NEW p, i.argv = <<p>>
    PROVE  MemOf(i) = IF p.kind = "mem" THEN <<p>> ELSE << >>
<1> DEFINE at == {k \in DOMAIN i.argv : IsMem(i.argv[k]) /\ (i.op = "FSTP" => k = 1)}
<1>1. DOMAIN i.argv = {1} /\ i.argv[1] = p
  OBVIOUS
<1>2. MemOf(i) = IF at = {} THEN << >> ELSE <<i.argv[CHOOSE k \in at : \A j \in at : j <= k]>>
  BY DEF MemOf
<1>3. CASE p.kind = "mem"
  <2>1. at = {1}
    BY <1>1, <1>3 DEF IsMem
  <2> HIDE DEF at
  <2>2. (CHOOSE k \in at : \A j \in at : j <= k) = 1
    BY <2>1
  <2>3. QED
    BY <1>1, <1>2, <1>3, <2>1, <2>2
<1>4. CASE p.kind # "mem"
  <2>1. at = {}
    BY <1>1, <1>4 DEF IsMem
  <2>2. QED
    BY <1>2, <1>4, <2>1
<1>5. QED
  BY <1>3, <1>4

LEMMA MemOfTwo ==
    ASSUME NEW i, NEW p, NEW q, i.argv = <<p, q>>
    PROVE  MemOf(i) = IF q.kind = "mem" /\ i.op # "FSTP" THEN <<q>>
                      ELSE IF p.kind = "mem" THEN <<p>> ELSE << >>
<1> DEFINE at == {k \in DOMAIN i.argv : IsMem(i.argv[k]) /\ (i.op = "FSTP" => k = 1)}
<1>1. DOMAIN i.argv = {1, 2} /\ i.argv[1] = p /\ i.argv[2] = q
  <2>1. DOMAIN <<p, q>> = 1 .. 2 /\ 1 .. 2 = {1, 2}
    OBVIOUS
  <2>2. QED
    BY <2>1
<1>2. MemOf(i) = IF at = {} THEN << >> ELSE <<i.argv[CHOOSE k \in at : \A j \in at : j <= k]>>
  BY DEF MemOf
<1>3. CASE q.kind = "mem" /\ i.op # "FSTP"
  <2>1. 2 \in at /\ \A j \in at : j <= 2 /\ j \in {1, 2}
    BY <1>1, <1>3 DEF IsMem
  <2> HIDE DEF at
  <2>2. (CHOOSE k \in at : \A j \in at : j <= k) = 2
    BY <2>1
  <2>3. QED
    BY <1>1, <1>2, <1>3, <2>1, <2>2
<1>4. CASE ~(q.kind = "mem" /\ i.op # "FSTP") /\ p.kind = "mem"
  <2>1. at = {1}
    BY <1>1, <1>4 DEF IsMem
  <2> HIDE DEF at
  <2>2. (CHOOSE k \in at : \A j \in at : j <= k) = 1
    BY <2>1
  <2>3. QED
    BY <1>1, <1>2, <1>4, <2>1, <2>2
<1>5. CASE ~(q.kind = "mem" /\ i.op # "FSTP") /\ p.kind # "mem"
  <2>1. at = {}
    BY <1>1, <1>5 DEF IsMem
  <2>2. QED
    BY <1>2, <1>5, <2>1
<1>6. QED
  BY <1>3, <1>4, <1>5

LEMMA GovernedMemory ==
    ASSUME NEW i, NEW seg, Governed(i.op, i.argv, seg)
    PROVE  \/ i.op \in ToES \/ MemOf(i) = << >>
           \/ \E a : MemOf(i) = <<a>> /\ a.segment = DefaultSegment(a.regs, seg)
<1>1. CASE i.argv = << >>
  <2> DEFINE at == {k \in DOMAIN i.argv : IsMem(i.argv[k]) /\ (i.op = "FSTP" => k = 1)}
  <2>1. at = {}
    BY <1>1
  <2>2. MemOf(i) = << >>
    BY <2>1 DEF MemOf
  <2>3. QED
    BY <2>2
<1>2. CASE \E p : i.argv = <<p>> /\ Regular(p, seg)
  <2>1. PICK p : i.argv = <<p>> /\ Regular(p, seg)
    BY <1>2
  <2>2. QED
    BY <2>1, MemOfOne DEF Regular
<1>3. CASE \E p, q : i.argv = <<p, q>> /\ Regular(p, seg) /\ Regular(q, seg)
  <2>1. PICK p, q : i.argv = <<p, q>> /\ Regular(p, seg) /\ Regular(q, seg)
    BY <1>3
  <2>2. QED
    BY <2>1, MemOfTwo DEF Regular
<1>4. CASE i.op # "FSTP" /\ \E p, q : i.argv = <<p, q>> /\ q.kind = "mem" /\ Regular(q, seg)
  <2>1. PICK p, q : i.argv = <<p, q>> /\ q.kind = "mem" /\ Regular(q, seg)
    BY <1>4
  <2>2. QED
    BY <1>4, <2>1, MemOfTwo DEF Regular
<1>5. QED
  BY <1>1, <1>2, <1>3, <1>4 DEF Governed, Regulars

LEMMA GovernedPrefix ==
    ASSUME NEW i, i.segment \in -1 .. 3, Governed(i.op, i.argv, i.segment)
    PROVE  /\ SegPrefix(i) \in {<< >>} \cup OverrideBytes
           /\ i.segment = NoSegment => SegPrefix(i) = << >>
<1> DEFINE a == MemOf(i)
           forced == i.segment # NoSegment
           segment == IF a = << >> \/ i.op \in Unsegmented THEN NoSegment
                      ELSE IF i.op \in ToES THEN (IF forced THEN ES ELSE NoSegment)
                      ELSE SegOverride(a[1], forced)
<1>1. SegPrefix(i) = IF segment = NoSegment THEN << >> ELSE <<\h26 + 8 * segment>>
  BY DEF SegPrefix
<1>2. segment \in -1 .. 3 /\ (i.segment = NoSegment => segment = NoSegment)
  <2>1. CASE a = << >> \/ i.op \in Unsegmented
    BY <2>1 DEF NoSegment
  <2>2. CASE ~(a = << >> \/ i.op \in Unsegmented) /\ i.op \in ToES
    BY <2>2 DEF NoSegment, ES
  <2>3. CASE ~(a = << >> \/ i.op \in Unsegmented) /\ i.op \notin ToES
    <3>1. PICK m : a = <<m>> /\ m.segment = DefaultSegment(m.regs, i.segment)
      BY <2>3, GovernedMemory
    <3>2. a[1] = m
      BY <3>1
    <3>3. SegOverride(m, i.segment # NoSegment) = i.segment
      BY <3>1, RegularPrefix
    <3>4. segment = i.segment
      BY <2>3, <3>2, <3>3
    <3>5. QED
      BY <3>4
  <2>4. QED
    BY <2>1, <2>2, <2>3
<1> HIDE DEF segment
<1>3. CASE segment = NoSegment
  BY <1>1, <1>2, <1>3
<1>4. CASE segment # NoSegment
  <2>1. segment \in 0 .. 3
    BY <1>2, <1>4 DEF NoSegment
  <2>2. QED
    BY <1>1, <1>2, <1>4, <2>1, PrefixByte
<1>5. QED
  BY <1>3, <1>4

-----------------------------------------------------------------------------
(* Every row of the opcode map has such operands.                          *)

LEMMA RegularArgs ==
    ASSUME NEW seg
    PROVE  /\ \A r, w : Regular(RegArg(r, w), seg)
           /\ \A r : Regular(SRegArg(r), seg)
           /\ \A r : Regular(STArg(r), seg)
           /\ \A v, w : Regular(ImmArg(v, w), seg)
           /\ \A v, w : Regular(FarArg(v, w), seg)
  BY DEF Regular, RegArg, SRegArg, STArg, ImmArg, FarArg

LEMMA RegularMemory ==
    ASSUME NEW d, NEW v, NEW w
    PROVE  /\ Regular(MemArg(<< >>, v, Segmented(d, DS), w), d.segment)
           /\ StringSource(d, w).kind = "mem" /\ Regular(StringSource(d, w), d.segment)
<1>1. DefaultSegment(<< >>, d.segment) = Segmented(d, DS)
  BY DEF DefaultSegment, Segmented
<1>2. DefaultSegment(<<SI>>, d.segment) = Segmented(d, DS)
  <2>1. DOMAIN <<SI>> = {1} /\ <<SI>>[1] = SI /\ SI \notin {BP, SP}
    BY DEF SI, BP, SP
  <2>2. QED
    BY <2>1 DEF DefaultSegment, Segmented
<1>3. /\ MemArg(<< >>, v, Segmented(d, DS), w).regs = << >>
      /\ MemArg(<< >>, v, Segmented(d, DS), w).segment = Segmented(d, DS)
  BY DEF MemArg
<1>4. /\ StringSource(d, w).regs = <<SI>> /\ StringSource(d, w).kind = "mem"
      /\ StringSource(d, w).segment = Segmented(d, DS)
  BY DEF MemArg, StringSource
<1>5. QED
  BY <1>1, <1>2, <1>3, <1>4 DEF Regular

LEMMA RegularRM ==
    ASSUME NEW d, NEW x, Addressed(d, x), NEW w
    PROVE  Regular(RM(d, w), d.segment)
<1>1. CASE Mod(x) = 3
  <2>1. Mod(d.rm) = 3
    BY <1>1 DEF Addressed
  <2>2. RM(d, w) = RegArg(Rm(d.rm), w)
    BY <2>1, RegisterForm
  <2>3. QED
    BY <2>2, RegularArgs
<1>2. CASE Mod(x) # 3
  BY <1>2, MemoryForm DEF Regular
<1>3. QED
  BY <1>1, <1>2

LEMMA One == ASSUME NEW op, NEW p, NEW seg, Regular(p, seg) PROVE Regulars(<<op, <<p>> >>[2], seg)
<1>1. <<op, <<p>> >>[2] = <<p>>
  OBVIOUS
<1>2. QED
  BY <1>1 DEF Regulars

LEMMA Two ==
    ASSUME NEW op, NEW p, NEW q, NEW seg, Regular(p, seg), Regular(q, seg)
    PROVE  Regulars(<<op, <<p, q>> >>[2], seg)
<1>1. <<op, <<p, q>> >>[2] = <<p, q>>
  OBVIOUS
<1>2. QED
  BY <1>1 DEF Regulars

LEMMA Either ==
    ASSUME NEW op, NEW b, NEW p, NEW q, NEW seg, Regular(p, seg), Regular(q, seg)
    PROVE  Regulars(<<op, Ordered(b, p, q)>>[2], seg)
<1>1. Ordered(b, p, q) = <<p, q>> \/ Ordered(b, p, q) = <<q, p>>
  BY DEF Ordered
<1>2. QED
  BY <1>1, Two

LEMMA Rows0to3Regular ==
    ASSUME NEW d, d.lead \in 0 .. \h3F,
           d.lead % 8 < 4 => \A w : Regular(RM(d, w), d.segment)
    PROVE  Regulars(Rows0to3(d)[2], d.segment)
<1> DEFINE b == d.lead
           n == (b \div 8) + 1
           seg == d.segment
           r1 == <<Alu[n], Ordered(b, RM(d, WidthOf(b)), RMReg(d, WidthOf(b)))>>
           r2 == <<Alu[n], <<RegArg(AX, WidthOf(b)), ImmArg(d.args[1], WidthOf(b))>> >>
           r3 == <<"PUSH", <<SRegArg(n - 1)>> >>
           r4 == <<"POP", <<SRegArg(n - 1)>> >>
           k == b % 8
           row == CASE k < 4 -> r1 [] k \in {4, 5} -> r2 [] k = 6 -> r3 [] k = 7 -> r4
<1>1. Rows0to3(d) = row
  BY DEF Rows0to3
<1>2. k \in 0 .. 7
  <2> HIDE DEF b
  <2>1. QED
    BY DEF b
<1>3. k < 4 => Regulars(r1[2], seg)
  BY Either, RegularArgs DEF RMReg
<1>4. Regulars(r2[2], seg) /\ Regulars(r3[2], seg) /\ Regulars(r4[2], seg)
  BY One, Two, RegularArgs
<1> HIDE DEF k, r1, r2, r3, r4
<1>5. (k < 4 /\ row = r1) \/ row = r2 \/ row = r3 \/ row = r4
  BY <1>2
<1> HIDE DEF row
<1>6. QED
  BY <1>1, <1>3, <1>4, <1>5

LEMMA Rows4to7Regular ==
    ASSUME NEW d, d.lead \in \h40 .. \h5F \cup \h70 .. \h7F, NEW at
    PROVE  Regulars(Rows4to7(d, at)[2], d.segment)
<1> DEFINE b == d.lead
           seg == d.segment
           r1 == <<"INC", <<RegArg(b % 8, 2)>> >>
           r2 == <<"DEC", <<RegArg(b % 8, 2)>> >>
           r3 == <<"PUSH", <<RegArg(b % 8, 2)>> >>
           r4 == <<"POP", <<RegArg(b % 8, 2)>> >>
           r5 == <<Jcc[(b % 16) + 1], <<ShortTarget(d, at)>> >>
           row == CASE b \in \h40 .. \h47 -> r1 [] b \in \h48 .. \h4F -> r2
                    [] b \in \h50 .. \h57 -> r3 [] b \in \h58 .. \h5F -> r4
                    [] b \in \h70 .. \h7F -> r5
<1>1. Rows4to7(d, at) = row
  BY DEF Rows4to7
<1>2. Regulars(r1[2], seg) /\ Regulars(r2[2], seg) /\ Regulars(r3[2], seg) /\ Regulars(r4[2], seg)
  BY One, RegularArgs
<1>3. Regulars(r5[2], seg)
  BY One, RegularArgs DEF ShortTarget
<1> HIDE DEF r1, r2, r3, r4, r5
<1>4. row \in {r1, r2, r3, r4, r5}
  OBVIOUS
<1> HIDE DEF row
<1>5. QED
  BY <1>1, <1>2, <1>3, <1>4

LEMMA Row8Regular ==
    ASSUME NEW d, d.lead \in \h80 .. \h8F, \A w : Regular(RM(d, w), d.segment)
    PROVE  Regulars(Row8(d)[2], d.segment)
<1> DEFINE b == d.lead
           w == WidthOf(b)
           seg == d.segment
           r1 == <<Alu[Reg(d.rm) + 1], <<RM(d, w), ImmArg(RMImm(d), w)>> >>
           r2 == <<Alu[Reg(d.rm) + 1], <<RM(d, 2), ImmArg(Signed(RMImm(d), 8), 2)>> >>
           r3 == <<"TEST", <<RM(d, w), RMReg(d, w)>> >>
           r4 == <<"XCHG", <<RM(d, w), RMReg(d, w)>> >>
           r5 == <<"MOV", Ordered(b, RM(d, w), RMReg(d, w))>>
           r6 == <<"MOV", Ordered(b, RM(d, 2), SRegArg(Reg(d.rm)))>>
           r7 == <<"LEA", <<RMReg(d, 2), RM(d, 2)>> >>
           r8 == <<"POP", <<RM(d, 2)>> >>
           row == CASE b \in \h80 .. \h82 -> r1 [] b = \h83 -> r2 [] b \in \h84 .. \h85 -> r3
                    [] b \in \h86 .. \h87 -> r4 [] b \in \h88 .. \h8B -> r5
                    [] b \in {\h8C, \h8E} -> r6 [] b = \h8D -> r7 [] b = \h8F -> r8
<1>1. Row8(d) = row
  BY DEF Row8
<1>2. Regulars(r1[2], seg) /\ Regulars(r2[2], seg)
  BY Two, RegularArgs
<1>3. Regulars(r3[2], seg) /\ Regulars(r4[2], seg) /\ Regulars(r7[2], seg)
  BY Two, RegularArgs DEF RMReg
<1>4. Regulars(r5[2], seg) /\ Regulars(r6[2], seg)
  BY Either, RegularArgs DEF RMReg
<1>5. Regulars(r8[2], seg)
  BY One
<1> HIDE DEF r1, r2, r3, r4, r5, r6, r7, r8
<1>6. row \in {r1, r2, r3, r4, r5, r6, r7, r8}
  OBVIOUS
<1> HIDE DEF row
<1>7. QED
  BY <1>1, <1>2, <1>3, <1>4, <1>5, <1>6

LEMMA Rows9toBGoverned ==
    ASSUME NEW d, d.lead \in \h91 .. \h97 \cup {\h9A} \cup \hA0 .. \hBF
    PROVE  Governed(Rows9toB(d)[1], Rows9toB(d)[2], d.segment)
<1> DEFINE b == d.lead
           w == WidthOf(b)
           seg == d.segment
           row == Rows9toB(d)
           p == StringDest(w)
           q == StringSource(d, w)
           r1 == <<"XCHG", <<RegArg(AX, 2), RegArg(b % 8, 2)>> >>
           r2 == <<"CALL_FAR", <<FarArg(d.args[1], d.args[2])>> >>
           r3 == <<"MOV", Ordered(b, RegArg(AX, w), MemArg(<< >>, d.args[1], Segmented(d, DS), w))>>
           r4 == <<"MOVS", <<p, q>> >>
           r5 == <<"CMPS", <<p, q>> >>
           r6 == <<"TEST", <<RegArg(AX, w), ImmArg(d.args[1], w)>> >>
           r7 == <<"STOS", <<p>> >>
           r8 == <<"LODS", <<q>> >>
           r9 == <<"SCAS", <<p>> >>
           r10 == <<"MOV", <<RegArg(b % 8, 1), ImmArg(d.args[1], 1)>> >>
           r11 == <<"MOV", <<RegArg(b % 8, 2), ImmArg(d.args[1], 2)>> >>
<1>1. row \in {r1, r2, r3, r4, r5, r6, r7, r8, r9, r10, r11}
  <2>1. b \in Int
    OBVIOUS
  <2>2. /\ b \in \h91 .. \h97 => row = r1
        /\ b = \h9A => row = r2
        /\ b \in \hA0 .. \hA3 => row = r3
        /\ b \in \hA4 .. \hA5 => row = r4
        /\ b \in \hA6 .. \hA7 => row = r5
        /\ b \in \hA8 .. \hA9 => row = r6
        /\ b \in \hAA .. \hAB => row = r7
        /\ b \in \hAC .. \hAD => row = r8
        /\ b \in \hAE .. \hAF => row = r9
        /\ b \in \hB0 .. \hB7 => row = r10
        /\ b \in \hB8 .. \hBF => row = r11
    BY <2>1, Rows9toBIs
  <2> HIDE DEF r1, r2, r3, r4, r5, r6, r7, r8, r9, r10, r11, row
  <2>3. QED
    BY <2>2
<1>2. /\ Regulars(r1[2], seg) /\ Regulars(r2[2], seg) /\ Regulars(r6[2], seg)
      /\ Regulars(r10[2], seg) /\ Regulars(r11[2], seg)
  BY One, Two, RegularArgs
<1>3. Regulars(r3[2], seg)
  BY Either, RegularArgs, RegularMemory
<1>4. q.kind = "mem" /\ Regular(q, seg)
  BY RegularMemory
<1> HIDE DEF p, q, w, seg
<1>5. Regulars(r8[2], seg)
  BY <1>4, One
<1>6. /\ r4[1] # "FSTP" /\ r4[2] = <<p, q>> /\ r5[1] # "FSTP" /\ r5[2] = <<p, q>>
      /\ r7[1] \in ToES /\ r9[1] \in ToES
  BY DEF ToES
<1> HIDE DEF r1, r2, r3, r4, r5, r6, r7, r8, r9, r10, r11, row
<1>7. Governed(r4[1], r4[2], seg) /\ Governed(r5[1], r5[2], seg)
  BY <1>4, <1>6 DEF Governed
<1>8. Governed(r7[1], r7[2], seg) /\ Governed(r9[1], r9[2], seg)
  BY <1>6 DEF Governed
<1>9. /\ Governed(r1[1], r1[2], seg) /\ Governed(r2[1], r2[2], seg) /\ Governed(r3[1], r3[2], seg)
      /\ Governed(r6[1], r6[2], seg) /\ Governed(r8[1], r8[2], seg)
      /\ Governed(r10[1], r10[2], seg) /\ Governed(r11[1], r11[2], seg)
  BY <1>2, <1>3, <1>5 DEF Governed
<1>10. Governed(row[1], row[2], seg)
  BY <1>1, <1>7, <1>8, <1>9
<1>11. QED
  BY <1>10 DEF row, seg

LEMMA RowsCtoDRegular ==
    ASSUME NEW d, d.lead \in \hC0 .. \hC2 \cup \hC4 .. \hC7 \cup {\hCA, \hCC, \hCD} \cup \hD0 .. \hD5,
           d.lead \notin {\hC2, \hCA, \hCC, \hCD, \hD4, \hD5} => \A w : Regular(RM(d, w), d.segment)
    PROVE  Regulars(RowsCtoD(d)[2], d.segment)
<1> DEFINE b == d.lead
           w == WidthOf(b)
           seg == d.segment
           rm == \A v : Regular(RM(d, v), seg)
           r1 == <<Shifts[Reg(d.rm) + 1], <<RM(d, w), ImmArg(RMImm(d), 1)>> >>
           r2 == <<Shifts[Reg(d.rm) + 1], <<RM(d, w), ImmArg(1, 1)>> >>
           r3 == <<Shifts[Reg(d.rm) + 1], <<RM(d, w), RegArg(CX, 1)>> >>
           r4 == <<"RET", <<ImmArg(d.args[1], 2)>> >>
           r5 == <<"RETF", <<ImmArg(d.args[1], 0)>> >>
           r6 == <<"LES", <<RMReg(d, 2), RM(d, 4)>> >>
           r7 == <<"LDS", <<RMReg(d, 2), RM(d, 4)>> >>
           r8 == <<"MOV", <<RM(d, w), ImmArg(RMImm(d), w)>> >>
           r9 == <<"INT", <<ImmArg(3, 0)>> >>
           r10 == <<"INT", <<ImmArg(d.args[1], 0)>> >>
           r11 == <<"AAM", <<ImmArg(d.args[1], 1)>> >>
           r12 == <<"AAD", <<ImmArg(d.args[1], 1)>> >>
           row == RowsCtoD(d)
<1>1. /\ b \in \hC0 .. \hC1 => row = r1 /\ rm
      /\ b \in \hD0 .. \hD1 => row = r2 /\ rm
      /\ b \in \hD2 .. \hD3 => row = r3 /\ rm
      /\ b = \hC2 => row = r4
      /\ b = \hCA => row = r5
      /\ b = \hC4 => row = r6 /\ rm
      /\ b = \hC5 => row = r7 /\ rm
      /\ b \in \hC6 .. \hC7 => row = r8 /\ rm
      /\ b = \hCC => row = r9
      /\ b = \hCD => row = r10
      /\ b = \hD4 => row = r11
      /\ b = \hD5 => row = r12
  <2> HIDE DEF w
  <2>1. QED
    BY RowsCtoDIs DEF w
<1>2. rm => Regulars(r1[2], seg) /\ Regulars(r2[2], seg) /\ Regulars(r3[2], seg) /\ Regulars(r8[2], seg)
  BY Two, RegularArgs
<1>3. rm => Regulars(r6[2], seg) /\ Regulars(r7[2], seg)
  BY Two, RegularArgs DEF RMReg
<1>4. /\ Regulars(r4[2], seg) /\ Regulars(r5[2], seg) /\ Regulars(r9[2], seg)
      /\ Regulars(r10[2], seg) /\ Regulars(r11[2], seg) /\ Regulars(r12[2], seg)
  BY One, RegularArgs
<1> HIDE DEF r1, r2, r3, r4, r5, r6, r7, r8, r9, r10, r11, r12, row, rm
<1>5. CASE b \in {\hC2, \hCA, \hCC, \hCD, \hD4, \hD5}
  <2>1. row \in {r4, r5, r9, r10, r11, r12}
    BY <1>1, <1>5
  <2>2. QED
    BY <1>4, <2>1 DEF row
<1>6. CASE b \in \hC0 .. \hC1 \cup \hC4 .. \hC7 \cup \hD0 .. \hD3
  <2>1. rm
    BY <1>1, <1>6
  <2>2. row \in {r1, r2, r3, r6, r7, r8}
    BY <1>1, <1>6
  <2>3. QED
    BY <1>2, <1>3, <2>1, <2>2 DEF row
<1>7. QED
  BY <1>5, <1>6

LEMMA RowERegular ==
    ASSUME NEW d, d.lead \in \hE0 .. \hEF, NEW at
    PROVE  Regulars(RowE(d, at)[2], d.segment)
<1> DEFINE b == d.lead
           w == WidthOf(b)
           seg == d.segment
           row == RowE(d, at)
           r1 == <<Loops[b - \hE0 + 1], <<ShortTarget(d, at)>> >>
           r2 == <<"IN", <<RegArg(AX, w), ImmArg(d.args[1], 0)>> >>
           r3 == <<"OUT", <<ImmArg(d.args[1], 0), RegArg(AX, w)>> >>
           r4 == <<"CALL", <<NearTarget(d, at)>> >>
           r5 == <<"JMP", <<NearTarget(d, at)>> >>
           r6 == <<"JMP_FAR", <<FarArg(d.args[1], d.args[2])>> >>
           r7 == <<"JMP", <<ShortTarget(d, at)>> >>
           r8 == <<"IN", <<RegArg(AX, w), RegArg(DX, 2)>> >>
           r9 == <<"OUT", <<RegArg(DX, 2), RegArg(AX, w)>> >>
<1>1. row \in {r1, r2, r3, r4, r5, r6, r7, r8, r9}
  <2> HIDE DEF w
  <2>1. QED
    BY RowEIs DEF w
<1>2. Regulars(r1[2], seg) /\ Regulars(r4[2], seg) /\ Regulars(r5[2], seg) /\ Regulars(r7[2], seg)
  BY One, RegularArgs DEF ShortTarget, NearTarget
<1>3. /\ Regulars(r2[2], seg) /\ Regulars(r3[2], seg) /\ Regulars(r6[2], seg)
      /\ Regulars(r8[2], seg) /\ Regulars(r9[2], seg)
  BY One, Two, RegularArgs
<1> HIDE DEF r1, r2, r3, r4, r5, r6, r7, r8, r9, row
<1>4. QED
  BY <1>1, <1>2, <1>3 DEF row

LEMMA RowFRegular ==
    ASSUME NEW d, d.lead \in {\hF6, \hF7, \hFE, \hFF}, \A w : Regular(RM(d, w), d.segment)
    PROVE  Regulars(RowF(d)[2], d.segment)
<1> DEFINE b == d.lead
           w == WidthOf(b)
           seg == d.segment
           p == RM(d, w)
           q == ImmArg(RMImm(d), w)
           far == Reg(d.rm) \in {3, 5}
           r1 == <<Group3[Reg(d.rm) + 1], <<p>> \o (IF Reg(d.rm) = 0 THEN <<q>> ELSE << >>)>>
           r2 == <<Group5[Reg(d.rm) + 1], <<RM(d, IF far THEN w + 2 ELSE w)>> >>
           row == CASE b \in \hF6 .. \hF7 -> r1 [] b \in \hFE .. \hFF -> r2
<1>1. RowF(d) = row
  BY DEF RowF
<1>2. Regular(p, seg) /\ Regular(q, seg)
  BY RegularArgs
<1>3. Regulars(r2[2], seg)
  BY One
<1> HIDE DEF p, q
<1>4. <<p>> \o <<q>> = <<p, q>>
  <2>1. p \in {p, q} /\ q \in {p, q}
    OBVIOUS
  <2>2. QED
    BY <2>1, TwoItems
<1>5. <<p>> \o << >> = <<p>>
  OBVIOUS
<1>6. r1[2] = <<p, q>> \/ r1[2] = <<p>>
  BY <1>4, <1>5
<1> HIDE DEF r1, r2
<1>7. Regulars(r1[2], seg)
  BY <1>2, <1>6 DEF Regulars
<1>8. row = r1 \/ row = r2
  OBVIOUS
<1> HIDE DEF row
<1>9. QED
  BY <1>1, <1>3, <1>7, <1>8

LEMMA FpuRegisterRegular ==
    ASSUME NEW d, d.lead \in FPUEscapes, d.fpu \in Byte, NEW seg
    PROVE  Regulars(FpuRegisterForm(d)[2], seg)
<1> DEFINE b == d.lead
           x == d.fpu
           st == STArg(x % 8)
           z == STArg(0)
           n == Reg(x)
           r1 == <<FpuArith[n + 1], <<z, st>> >>
           r2 == <<FpuArithR[n + 1], <<st, z>> >>
           r3 == <<FpuArithP[n + 1], IF n = 3 THEN <<z, st>> ELSE <<st, z>> >>
           r4 == <<"FLD", <<st>> >>
           r5 == <<"FXCH", <<st>> >>
           r6 == <<PlainFpu(x), << >> >>
           r7 == <<"FUCOMPP", << >> >>
           r8 == <<PlainControl[x - \hDF], << >> >>
           r9 == <<FpuStack[n + 1], <<st>> >>
           r10 == <<"FSTSW", <<RegArg(AX, 2)>> >>
           row == CASE b = \hD8 -> r1 [] b = \hDC -> r2 [] b = \hDE -> r3
                    [] b = \hD9 /\ n = 0 -> r4 [] b = \hD9 /\ n = 1 -> r5 [] b = \hD9 /\ n > 1 -> r6
                    [] b = \hDA -> r7 [] b = \hDB -> r8 [] b = \hDD -> r9 [] b = \hDF -> r10
<1>1. FpuRegisterForm(d) = row
  BY DEF FpuRegisterForm
<1>2. n \in 0 .. 7 /\ b \in \hD8 .. \hDF
  BY FieldsAre DEF FPUEscapes
<1>3. Regular(st, seg) /\ Regular(z, seg)
  BY RegularArgs
<1>4. Regulars(r10[2], seg)
  BY One, RegularArgs
<1> HIDE DEF b, x, st, z, n
<1>5. Regulars(r1[2], seg) /\ Regulars(r2[2], seg)
  BY <1>3, Two
<1>6. Regulars(r4[2], seg) /\ Regulars(r5[2], seg) /\ Regulars(r9[2], seg)
  BY <1>3, One
<1>7. r6[2] = << >> /\ r7[2] = << >> /\ r8[2] = << >>
  OBVIOUS
<1>8. r3[2] = <<z, st>> \/ r3[2] = <<st, z>>
  OBVIOUS
<1> HIDE DEF r1, r2, r3, r4, r5, r6, r7, r8, r9, r10
<1>9. Regulars(r3[2], seg) /\ Regulars(r6[2], seg) /\ Regulars(r7[2], seg) /\ Regulars(r8[2], seg)
  BY <1>3, <1>7, <1>8 DEF Regulars
<1>10. row \in {r1, r2, r3, r4, r5, r6, r7, r8, r9, r10}
  BY <1>2
<1> HIDE DEF row
<1>11. QED
  BY <1>1, <1>4, <1>5, <1>6, <1>9, <1>10

LEMMA FpuMemoryRegular ==
    ASSUME NEW d, d.lead \in FPUEscapes, NEW seg, \A w : Regular(RM(d, w), seg)
    PROVE  Regulars(FpuMemoryForm(d)[2], seg)
<1> DEFINE n == Reg(d.rm) + 1
           f == FpuMemory(d.lead)[n]
           p == RM(d, IF d.lead = \hD8 THEN 4 ELSE 8)
           q == RM(d, f[2])
           z == STArg(0)
           r1 == <<FpuArith[n], <<z, p>> >>
           r2 == <<f[1], <<z, q>> >>
           r3 == <<f[1], <<q>> >>
<1>1. /\ d.lead \in {\hD8, \hDC} => FpuMemoryForm(d) = r1
      /\ d.lead \in {\hDB, \hDF} => FpuMemoryForm(d) = r2
      /\ d.lead \in {\hD9, \hDA, \hDD, \hDE} => FpuMemoryForm(d) = r3
  BY MemoryForms
<1>2. Regular(z, seg) /\ Regular(p, seg) /\ Regular(q, seg)
  BY RegularArgs
<1> HIDE DEF p, q, z
<1>3. Regulars(r1[2], seg) /\ Regulars(r2[2], seg) /\ Regulars(r3[2], seg)
  BY <1>2, One, Two
<1> HIDE DEF r1, r2, r3
<1>4. d.lead \in {\hD8, \hDC} \/ d.lead \in {\hDB, \hDF} \/ d.lead \in {\hD9, \hDA, \hDD, \hDE}
  BY DEF FPUEscapes
<1>5. QED
  BY <1>1, <1>3, <1>4

(* The opcodes with a case of their own, by row.                           *)
LEMMA RowBytes ==
    ASSUME NEW b \in Byte, b \notin Plain, b \notin DOMAIN PlainOneByte, b \notin FPUEscapes,
           b \notin Absent
    PROVE  \/ b \in 0 .. \h3F \/ b \in \h40 .. \h5F \cup \h70 .. \h7F \/ b \in \h80 .. \h8F
           \/ b \in \h91 .. \h97 \cup {\h9A} \cup \hA0 .. \hBF
           \/ b \in \hC0 .. \hC2 \cup \hC4 .. \hC7 \cup {\hCA, \hCC, \hCD} \cup \hD0 .. \hD5
           \/ b \in \hE0 .. \hEF \/ b \in {\hF6, \hF7, \hFE, \hFF}
<1>1. b \in 0 .. 255
  BY DEF Byte
<1>2. b \notin {\hF0, \hF2, \hF3}
  BY DEF Plain, LockPrefixes, RepPrefixes
<1>3. b \notin {\h90, \hC3, \hCB} \cup \h98 .. \h99 \cup \h9B .. \h9F \cup \hCE .. \hCF
           \cup \hD6 .. \hD7 \cup \hF4 .. \hF5 \cup \hF8 .. \hFD
  BY DEF PlainOneByte
<1>4. b \notin \hD8 .. \hDF /\ b \notin \h60 .. \h6F \cup {\hC8, \hC9, \hF1}
  BY DEF FPUEscapes, Absent
<1>5. QED
  BY <1>1, <1>2, <1>3, <1>4

LEMMA OutcomeKinds ==
    ASSUME NEW b, NEW x
    PROVE  /\ b \in Absent => OutcomeOf(b, x) = "UD_NOP"
           /\ b \in FPUEscapes => OutcomeOf(b, x) = FPUOutcome(b, x)
           /\ b \in PeekOpcodes /\ IsExtension(x) => OutcomeOf(b, x) = "UD_NOP"
<1>1. CASE b \in Absent
  <2>1. b \notin FPUEscapes /\ b \notin PeekOpcodes /\ b \notin ModRMOpcodes
    BY <1>1, Kinds
  <2>2. QED
    BY <1>1, <2>1 DEF OutcomeOf
<1>2. CASE b \in FPUEscapes
  <2>1. b \notin Absent /\ b \notin PeekOpcodes /\ b \notin ModRMOpcodes
    BY <1>2, Kinds
  <2>2. QED
    BY <1>2, <2>1 DEF OutcomeOf
<1>3. CASE b \in PeekOpcodes /\ IsExtension(x)
  <2>1. b \notin Absent /\ b \notin FPUEscapes /\ b \notin ModRMOpcodes
    BY <1>3, Kinds
  <2>2. OutcomeOf(b, x) = "UD_NOP"
    BY <1>3, <2>1 DEF OutcomeOf
  <2>3. QED
    BY <2>1, <2>2
<1>4. QED
  BY <1>1, <1>2, <1>3

(* Which of them decode a ModR/M byte.                                     *)
LEMMA AddressedRows ==
    ASSUME NEW d, NEW x, Fields(d, x), d.op # "UD_NOP"
    PROVE  /\ d.lead \in 0 .. \h3F /\ d.lead % 8 < 4 => TakesModRM(d.lead, x)
           /\ d.lead \in \h80 .. \h8F \cup {\hF6, \hF7, \hFE, \hFF} => TakesModRM(d.lead, x)
           /\ d.lead \in \hC0 .. \hC1 \cup \hC4 .. \hC7 \cup \hD0 .. \hD3 => TakesModRM(d.lead, x)
<1>1. d.lead \in PeekOpcodes => TakesModRM(d.lead, x)
  <2>1. d.op = OutcomeOf(d.lead, x)
    BY DEF Fields
  <2>2. d.lead \in PeekOpcodes /\ IsExtension(x) => OutcomeOf(d.lead, x) = "UD_NOP"
    BY OutcomeKinds
  <2>3. QED
    BY <2>1, <2>2 DEF TakesModRM
<1>2. d.lead \in 0 .. \h3F /\ d.lead % 8 < 4 => d.lead \in ModRMOpcodes
  BY DEF ModRMOpcodes, AluRM
<1>3. d.lead \in \h80 .. \h8F => d.lead \in ModRMOpcodes \cup PeekOpcodes
  BY DEF ModRMOpcodes, ModRMRow8, PeekOpcodes, PopRM
<1>4. d.lead \in {\hF6, \hF7, \hFE, \hFF} => d.lead \in ModRMOpcodes
  BY DEF ModRMOpcodes, ModRMRowF
<1>5. d.lead \in \hC0 .. \hC1 \cup \hC4 .. \hC7 \cup \hD0 .. \hD3 => d.lead \in ModRMOpcodes \cup PeekOpcodes
  BY DEF ModRMOpcodes, ModRMRowC, PeekOpcodes, FarLoads
<1>6. d.lead \in ModRMOpcodes => TakesModRM(d.lead, x)
  BY DEF TakesModRM
<1>7. QED
  BY <1>1, <1>2, <1>3, <1>4, <1>5, <1>6

(* Whatever the row, a segment is named in the operands only if an         *)
(* override was read.                                                      *)
LEMMA AllGoverned ==
    ASSUME NEW d, NEW x, Fields(d, x), NEW i, NEW at, Made(i, d, at)
    PROVE  Governed(i.op, i.argv, d.segment)
<1> DEFINE b == d.lead
           seg == d.segment
           c == Case(d, at)
<1>1. SUFFICES Governed(c[1], c[2], seg)
  BY DEF Made
<1>2. b \in Byte /\ b \notin Plain /\ x \in Byte /\ d.op = OutcomeOf(b, x)
  BY DEF Fields
<1>3. TakesModRM(b, x) => \A w : Regular(RM(d, w), seg)
  BY RegularRM DEF Fields
<1>4. CASE d.op = "UD_NOP"
  <2>1. c = <<"UD_NOP", << >> >>
    BY <1>4 DEF Case
  <2>2. c[2] = << >>
    BY <2>1
  <2>3. QED
    BY <2>2 DEF Governed, Regulars
<1>5. CASE d.op # "UD_NOP" /\ b \in FPUEscapes
  <2>1. b \notin DOMAIN PlainOneByte /\ b \notin Absent
    BY <1>5, PlainBytes, Kinds
  <2>2. d.op = "OK"
    <3>1. d.op = FPUOutcome(b, x)
      BY <1>2, <1>5, OutcomeKinds
    <3>2. QED
      BY <1>5, <3>1 DEF FPUOutcome
  <2>3. c = Escape(d)
    BY <1>5, <2>1, <2>2 DEF Case
  <2>4. CASE d.rm = NoByte
    <3>1. c = FpuRegisterForm(d)
      BY <2>3, <2>4 DEF Escape
    <3>2. d.fpu \in Byte
      BY <1>2, <1>5 DEF Fields
    <3>3. Regulars(c[2], seg)
      BY <1>5, <3>1, <3>2, FpuRegisterRegular
    <3>4. QED
      BY <3>3 DEF Governed
  <2>5. CASE d.rm # NoByte
    <3>1. c = FpuMemoryForm(d)
      BY <2>3, <2>5 DEF Escape
    <3>2. TakesModRM(b, x)
      BY <2>5 DEF Fields
    <3>3. Regulars(c[2], seg)
      BY <1>3, <1>5, <3>1, <3>2, FpuMemoryRegular
    <3>4. QED
      BY <3>3 DEF Governed
  <2>6. QED
    BY <2>4, <2>5
<1>6. CASE d.op # "UD_NOP" /\ b \notin FPUEscapes /\ d.op = "OK" /\ b \in DOMAIN PlainOneByte
  <2>1. c = <<PlainOneByte[b], << >> >>
    BY <1>6 DEF Case
  <2>2. c[2] = << >>
    BY <2>1
  <2>3. QED
    BY <2>2 DEF Governed, Regulars
<1>7. CASE d.op # "UD_NOP" /\ b \notin FPUEscapes /\ (d.op = "OK" => b \notin DOMAIN PlainOneByte)
  <2>1. b \notin DOMAIN PlainOneByte
    <3>1. b \in DOMAIN PlainOneByte => b \notin ModRMOpcodes /\ b \notin PeekOpcodes
      BY PlainBytes
    <3>2. b \notin ModRMOpcodes /\ b \notin PeekOpcodes => d.op \in {"OK", "UD_NOP"}
      BY <1>2, <1>7 DEF OutcomeOf
    <3>3. QED
      BY <1>7, <3>1, <3>2
  <2>2. b \notin Absent
    BY <1>2, <1>7, OutcomeKinds
  <2>3. c = IF b < \h40 THEN Rows0to3(d)
            ELSE IF b < \h80 THEN Rows4to7(d, at)
            ELSE IF b < \h90 THEN Row8(d)
            ELSE IF b < \hC0 THEN Rows9toB(d)
            ELSE IF b < \hE0 THEN RowsCtoD(d)
            ELSE IF b < \hF0 THEN RowE(d, at) ELSE RowF(d)
    BY <1>2, <1>7, <2>1, CaseRows
  <2>4. CASE b \in 0 .. \h3F
    <3>1. c = Rows0to3(d)
      BY <2>3, <2>4
    <3>2. Regulars(Rows0to3(d)[2], seg)
      BY <1>3, <1>7, <2>4, AddressedRows, Rows0to3Regular
    <3>3. QED
      BY <3>1, <3>2 DEF Governed
  <2>5. CASE b \in \h40 .. \h5F \cup \h70 .. \h7F
    <3>1. c = Rows4to7(d, at)
      BY <2>3, <2>5
    <3>2. Regulars(Rows4to7(d, at)[2], seg)
      BY <2>5, Rows4to7Regular
    <3>3. QED
      BY <3>1, <3>2 DEF Governed
  <2>6. CASE b \in \h80 .. \h8F
    <3>1. c = Row8(d)
      BY <2>3, <2>6
    <3>2. Regulars(Row8(d)[2], seg)
      BY <1>3, <1>7, <2>6, AddressedRows, Row8Regular
    <3>3. QED
      BY <3>1, <3>2 DEF Governed
  <2>7. CASE b \in \h91 .. \h97 \cup {\h9A} \cup \hA0 .. \hBF
    <3>1. c = Rows9toB(d)
      BY <2>3, <2>7
    <3>2. QED
      BY <2>7, <3>1, Rows9toBGoverned
  <2>8. CASE b \in \hC0 .. \hC2 \cup \hC4 .. \hC7 \cup {\hCA, \hCC, \hCD} \cup \hD0 .. \hD5
    <3>1. c = RowsCtoD(d)
      BY <2>3, <2>8
    <3>2. b \notin {\hC2, \hCA, \hCC, \hCD, \hD4, \hD5} => b \in \hC0 .. \hC1 \cup \hC4 .. \hC7 \cup \hD0 .. \hD3
      BY <2>8
    <3>3. b \notin {\hC2, \hCA, \hCC, \hCD, \hD4, \hD5} => \A w : Regular(RM(d, w), seg)
      BY <1>3, <1>7, <3>2, AddressedRows
    <3>4. Regulars(RowsCtoD(d)[2], seg)
      BY <2>8, <3>3, RowsCtoDRegular
    <3>5. QED
      BY <3>1, <3>4 DEF Governed
  <2>9. CASE b \in \hE0 .. \hEF
    <3>1. c = RowE(d, at)
      BY <2>3, <2>9
    <3>2. Regulars(RowE(d, at)[2], seg)
      BY <2>9, RowERegular
    <3>3. QED
      BY <3>1, <3>2 DEF Governed
  <2>10. CASE b \in {\hF6, \hF7, \hFE, \hFF}
    <3>1. c = RowF(d)
      BY <2>3, <2>10
    <3>2. Regulars(RowF(d)[2], seg)
      BY <1>3, <1>7, <2>10, AddressedRows, RowFRegular
    <3>3. QED
      BY <3>1, <3>2 DEF Governed
  <2>11. QED
    BY <1>2, <1>7, <2>1, <2>2, <2>4, <2>5, <2>6, <2>7, <2>8, <2>9, <2>10, RowBytes
<1>8. QED
  BY <1>4, <1>5, <1>6, <1>7

-----------------------------------------------------------------------------
(* The prefixes that are written stood there before.                       *)

LEMMA PlainIsByte == Plain \subseteq Byte /\ WaitOpcode \in Byte /\ WaitOpcode \notin Plain
  BY DEF Plain, SegOverrides, LockPrefixes, RepPrefixes, Byte, WaitOpcode

(* One prefix of a kind, or none.                                          *)
LEMMA OneOrNone ==
    ASSUME NEW S, NEW b, NEW v, v = << >> \/ (v = <<b>> /\ b \in S)
    PROVE  v \in Seq(S) /\ Len(v) \in 0 .. 1 /\ (Len(v) = 1 <=> v # << >>)
<1>1. CASE v = << >>
  <2>1. << >> \in Seq(S) /\ Len(<< >>) = 0
    OBVIOUS
  <2>2. QED
    BY <1>1, <2>1
<1>2. CASE v = <<b>> /\ b \in S
  <2>1. <<b>> \in Seq(S) /\ Len(<<b>>) = 1 /\ <<b>> # << >>
    BY <1>2
  <2>2. QED
    BY <1>2, <2>1
<1>3. QED
  BY <1>1, <1>2

LEMMA SegPrefixIs ==
    ASSUME NEW v \in {<< >>} \cup OverrideBytes
    PROVE  v \in Seq(Plain) /\ Len(v) \in 0 .. 1 /\ (Len(v) = 1 <=> v # << >>)
<1>1. {\h26, \h2E, \h36, \h3E} \subseteq Plain
  BY DEF Plain, SegOverrides
<1>2. v = << >> \/ \E b \in Plain : v = <<b>>
  BY <1>1 DEF OverrideBytes
<1>3. CASE v = << >>
  <2>1. \A b : v = << >> \/ (v = <<b>> /\ b \in Plain)
    BY <1>3
  <2>2. QED
    BY <2>1, OneOrNone
<1>4. CASE \E b \in Plain : v = <<b>>
  <2>1. PICK b \in Plain : v = <<b>>
    BY <1>4
  <2>2. QED
    BY <2>1, OneOrNone
<1>5. QED
  BY <1>2, <1>3, <1>4

LEMMA LockPrefixIs ==
    ASSUME NEW i
    PROVE  /\ LockPrefix(i) \in Seq(Plain) /\ Len(LockPrefix(i)) \in 0 .. 1
           /\ Len(LockPrefix(i)) = 1 => i.lock = 1 /\ i.op \in Locked
<1> DEFINE b == \hF0
           v == LockPrefix(i)
<1>1. b \in Plain
  BY DEF Plain, LockPrefixes
<1>2. v = IF i.op \in Locked /\ i.lock = 1 THEN <<b>> ELSE << >>
  BY DEF LockPrefix
<1> HIDE DEF b, v
<1>3. v = << >> \/ (v = <<b>> /\ b \in Plain)
  BY <1>1, <1>2
<1>4. v \in Seq(Plain) /\ Len(v) \in 0 .. 1 /\ (Len(v) = 1 <=> v # << >>)
  BY <1>3, OneOrNone
<1>5. v # << >> => i.op \in Locked /\ i.lock = 1
  BY <1>2
<1>6. QED
  BY <1>4, <1>5 DEF v

LEMMA RepPrefixIs ==
    ASSUME NEW i, i.rep \in 0 .. 2
    PROVE  /\ RepPrefix(i) \in Seq(Plain) /\ Len(RepPrefix(i)) \in 0 .. 1
           /\ Len(RepPrefix(i)) = 1 => i.rep # 0 /\ i.op \in Repeated
<1> DEFINE b == \hF1 + i.rep
           v == RepPrefix(i)
<1>1. i.rep # 0 => b \in Plain
  <2>1. i.rep # 0 => b \in {\hF2, \hF3}
    OBVIOUS
  <2>2. QED
    BY <2>1 DEF Plain, RepPrefixes
<1>2. v = IF i.op \in Repeated /\ i.rep # 0 THEN <<b>> ELSE << >>
  BY DEF RepPrefix
<1> HIDE DEF b, v
<1>3. v = << >> \/ (v = <<b>> /\ b \in Plain)
  BY <1>1, <1>2
<1>4. v \in Seq(Plain) /\ Len(v) \in 0 .. 1 /\ (Len(v) = 1 <=> v # << >>)
  BY <1>3, OneOrNone
<1>5. v # << >> => i.op \in Repeated /\ i.rep # 0
  BY <1>2
<1>6. QED
  BY <1>4, <1>5 DEF v

LEMMA WaitPrefixIs ==
    ASSUME NEW i
    PROVE  /\ WaitPrefix(i) \in Seq({WaitOpcode}) /\ Len(WaitPrefix(i)) \in 0 .. 1
           /\ Len(WaitPrefix(i)) = 1 <=> i.fwait = 1 /\ i.op \in Waiting
           /\ WaitPrefix(i) = << >> \/ WaitPrefix(i) = <<WaitOpcode>>
<1> DEFINE b == WaitOpcode
           v == WaitPrefix(i)
<1>1. v = IF i.op \in Waiting /\ i.fwait = 1 THEN <<b>> ELSE << >>
  BY DEF WaitPrefix, WaitOpcode
<1> HIDE DEF b, v
<1>2. v = << >> \/ (v = <<b>> /\ b \in {b})
  BY <1>1
<1>3. v \in Seq({b}) /\ Len(v) \in 0 .. 1 /\ (Len(v) = 1 <=> v # << >>)
  BY <1>2, OneOrNone
<1>4. <<b>> # << >>
  OBVIOUS
<1>5. v # << >> <=> i.op \in Waiting /\ i.fwait = 1
  BY <1>1, <1>4
<1>6. QED
  BY <1>2, <1>3, <1>5 DEF v, b

LEMMA FourJoined ==
    ASSUME NEW S, NEW u \in Seq(S), NEW v \in Seq(S), NEW w \in Seq(S), NEW t \in Seq(S)
    PROVE  /\ u \o v \o w \o t \in Seq(S)
           /\ Len(u \o v \o w \o t) = Len(u) + Len(v) + Len(w) + Len(t)
<1> DEFINE p == u \o v
           q == p \o w
<1>1. p \in Seq(S) /\ Len(p) = Len(u) + Len(v)
  BY Joined
<1> HIDE DEF p
<1>2. q \in Seq(S) /\ Len(q) = Len(p) + Len(w)
  BY <1>1, Joined
<1> HIDE DEF q
<1>3. q \o t \in Seq(S) /\ Len(q \o t) = Len(q) + Len(t)
  BY <1>2, Joined
<1>4. QED
  BY <1>1, <1>2, <1>3 DEF p, q

LEMMA Widened ==
    ASSUME NEW S, NEW T, S \subseteq T, NEW v \in Seq(S)
    PROVE  v \in Seq(T)
  OBVIOUS

LEMMA NoneBefore ==
    ASSUME NEW S, NEW v \in Seq(S)
    PROVE  << >> \o v = v /\ v \o << >> = v
  BY ConcatEmptySeq

(* The waiting instructions take neither LOCK nor REP.                     *)
LEMMA PrefixesAre ==
    ASSUME NEW i, i.rep \in 0 .. 2, SegPrefix(i) \in {<< >>} \cup OverrideBytes
    PROVE  /\ Prefixes(i) \in Seq(Byte)
           /\ Len(Prefixes(i)) = Len(LockPrefix(i)) + Len(WaitPrefix(i))
                                 + Len(RepPrefix(i)) + Len(SegPrefix(i))
           /\ i.fwait # 1 \/ i.op \notin Waiting => Prefixes(i) \in Seq(Plain)
           /\ i.fwait = 1 /\ i.op \in Waiting /\ SegPrefix(i) = << >> => Prefixes(i) = <<WaitOpcode>>
<1> DEFINE u == LockPrefix(i)
           v == WaitPrefix(i)
           w == RepPrefix(i)
           t == SegPrefix(i)
           p == Prefixes(i)
<1>1. p = u \o v \o w \o t
  BY DEF Prefixes
<1>2. u \in Seq(Plain) /\ Len(u) \in 0 .. 1 /\ (Len(u) = 1 => i.op \in Locked)
  BY LockPrefixIs
<1>3. w \in Seq(Plain) /\ Len(w) \in 0 .. 1 /\ (Len(w) = 1 => i.op \in Repeated)
  BY RepPrefixIs
<1>4. t \in Seq(Plain)
  BY SegPrefixIs
<1>5. /\ v \in Seq({WaitOpcode}) /\ (v = << >> \/ v = <<WaitOpcode>>)
      /\ Len(v) = 1 <=> i.fwait = 1 /\ i.op \in Waiting
  BY WaitPrefixIs
<1>6. i.op \in Waiting => i.op \notin Locked /\ i.op \notin Repeated
  BY DEF Waiting, Locked, Repeated
<1> HIDE DEF u, v, w, t, p
<1>7. Plain \subseteq Byte /\ {WaitOpcode} \subseteq Byte
  BY PlainIsByte
<1>8. u \in Seq(Byte) /\ v \in Seq(Byte) /\ w \in Seq(Byte) /\ t \in Seq(Byte)
  BY <1>2, <1>3, <1>4, <1>5, <1>7, Widened
<1>9. p \in Seq(Byte) /\ Len(p) = Len(u) + Len(v) + Len(w) + Len(t)
  BY <1>1, <1>8, FourJoined
<1>10. Len(<<WaitOpcode>>) = 1 /\ Len(<< >>) = 0 /\ << >> \in Seq(Plain)
  OBVIOUS
<1>11. CASE i.fwait # 1 \/ i.op \notin Waiting
  <2>1. v = << >>
    BY <1>5, <1>10, <1>11
  <2>2. v \in Seq(Plain)
    BY <1>10, <2>1
  <2>3. p \in Seq(Plain)
    BY <1>1, <1>2, <1>3, <1>4, <2>2, FourJoined
  <2>4. QED
    BY <1>9, <1>11, <2>3 DEF u, v, w, t, p
<1>12. CASE i.fwait = 1 /\ i.op \in Waiting
  <2>1. v = <<WaitOpcode>>
    BY <1>5, <1>10, <1>12
  <2>2. Len(u) = 0 /\ Len(w) = 0
    BY <1>2, <1>3, <1>6, <1>12
  <2>3. u = << >> /\ w = << >>
    BY <1>2, <1>3, <2>2, EmptySeq
  <2>4. t = << >> => p = v
    <3>1. << >> \o v = v /\ v \o << >> = v
      BY <1>8, NoneBefore
    <3>2. t = << >> => p = << >> \o v \o << >> \o << >>
      BY <1>1, <2>3
    <3>3. << >> \o v \o << >> \o << >> = v
      BY <3>1
    <3>4. QED
      BY <3>2, <3>3
  <2>5. QED
    BY <1>9, <1>12, <2>1, <2>4 DEF u, v, w, t, p
<1>13. QED
  BY <1>11, <1>12

(* At most one place for each.                                             *)
LEMMA Places ==
    ASSUME NEW n \in Nat, NEW l \in 0 .. 1, NEW w \in 0 .. 1, NEW r \in 0 .. 1, NEW g \in 0 .. 1,
           NEW a \in Int, NEW b \in Int, NEW c \in Int, NEW e \in Int,
           l = 1 => a \in 1 .. n, w = 1 => b \in 1 .. n, r = 1 => c \in 1 .. n, g = 1 => e \in 1 .. n,
           l = 1 /\ w = 1 => a # b, l = 1 /\ r = 1 => a # c, l = 1 /\ g = 1 => a # e,
           w = 1 /\ r = 1 => b # c, w = 1 /\ g = 1 => b # e, r = 1 /\ g = 1 => c # e
    PROVE  l + w + r + g <= n
  OBVIOUS

LEMMA MeaningIs ==
    ASSUME NEW s, NEW at
    PROVE  LET d == FlatDecode(s)
               i == Meaning(s, at)
           IN  /\ Made(i, d, at) /\ i.segment = d.segment /\ i.lock = d.lock
               /\ i.rep = d.rep /\ i.fwait = d.fwait /\ i.len = d.len
<1> DEFINE d == FlatDecode(s)
           c == Case(d, at)
           i == Meaning(s, at)
<1>1. i = [op |-> c[1], argv |-> c[2], segment |-> d.segment, lock |-> d.lock,
           rep |-> d.rep, fwait |-> d.fwait, len |-> d.len]
  BY DEF Meaning
<1> HIDE DEF d, c, i
<1>2. /\ i.op = c[1] /\ i.argv = c[2] /\ i.segment = d.segment /\ i.lock = d.lock
      /\ i.rep = d.rep /\ i.fwait = d.fwait /\ i.len = d.len
  BY <1>1
<1>3. Made(i, d, at)
  BY <1>2 DEF Made, c
<1>4. QED
  BY <1>2, <1>3 DEF d, i

(* No more prefixes are written than were read.                            *)
LEMMA FewPrefixes ==
    ASSUME NEW s, Whole(s), NEW at
    PROVE  LET i == Meaning(s, at)
           IN  /\ SegPrefix(i) \in {<< >>} \cup OverrideBytes /\ i.rep \in 0 .. 2
               /\ Len(Prefixes(i)) <= PrefixLength(s) /\ Len(Prefixes(i)) \in Nat
<1> DEFINE d == FlatDecode(s)
           i == Meaning(s, at)
           n == PrefixLength(s)
           l == Len(LockPrefix(i))
           w == Len(WaitPrefix(i))
           r == Len(RepPrefix(i))
           g == Len(SegPrefix(i))
<1>1. /\ Made(i, d, at) /\ i.segment = d.segment /\ i.lock = d.lock
      /\ i.rep = d.rep /\ i.fwait = d.fwait
  BY MeaningIs
<1>2. Fields(d, Second(s))
  BY FieldsOfWhole
<1>3. /\ d.segment \in -1 .. 3 /\ d.rep \in 0 .. 2 /\ d.lock \in {0, 1} /\ d.fwait \in {0, 1}
      /\ d.segment # NoSegment => \E k \in 1 .. n : s[k] \in SegOverrides
      /\ d.rep # 0  => \E k \in 1 .. n : s[k] \in RepPrefixes
      /\ d.lock = 1 => \E k \in 1 .. n : s[k] \in LockPrefixes
      /\ d.fwait = 1 => \E k \in 1 .. n : s[k] = WaitOpcode
  BY PrefixFieldsAre
<1>4. n \in Nat
  BY DEF Whole
<1> HIDE DEF d, i, n
<1>5. Governed(i.op, i.argv, d.segment)
  BY <1>1, <1>2, AllGoverned
<1>6. /\ SegPrefix(i) \in {<< >>} \cup OverrideBytes
      /\ i.segment = NoSegment => SegPrefix(i) = << >>
  BY <1>1, <1>3, <1>5, GovernedPrefix
<1>7. g \in 0 .. 1 /\ (g = 1 => d.segment # NoSegment)
  <2>1. g \in 0 .. 1 /\ (g = 1 <=> SegPrefix(i) # << >>)
    BY <1>6, SegPrefixIs
  <2>2. QED
    BY <1>1, <1>6, <2>1
<1>8. l \in 0 .. 1 /\ (l = 1 => d.lock = 1)
  BY <1>1, LockPrefixIs
<1>9. w \in 0 .. 1 /\ (w = 1 => d.fwait = 1)
  BY <1>1, WaitPrefixIs
<1>10. i.rep \in 0 .. 2 /\ r \in 0 .. 1 /\ (r = 1 => d.rep # 0)
  <2>1. i.rep \in 0 .. 2
    BY <1>1, <1>3
  <2>2. QED
    BY <1>1, <2>1, RepPrefixIs
<1>11. Len(Prefixes(i)) = l + w + r + g
  BY <1>6, <1>10, PrefixesAre
<1> HIDE DEF l, w, r, g
<1>12. \E a \in Int : l = 1 => a \in 1 .. n /\ s[a] \in LockPrefixes
  BY <1>3, <1>8
<1>13. \E a \in Int : w = 1 => a \in 1 .. n /\ s[a] = WaitOpcode
  BY <1>3, <1>9
<1>14. \E a \in Int : r = 1 => a \in 1 .. n /\ s[a] \in RepPrefixes
  BY <1>3, <1>10
<1>15. \E a \in Int : g = 1 => a \in 1 .. n /\ s[a] \in SegOverrides
  BY <1>3, <1>7
<1>16. PICK a \in Int : l = 1 => a \in 1 .. n /\ s[a] \in LockPrefixes
  BY <1>12
<1>17. PICK b \in Int : w = 1 => b \in 1 .. n /\ s[b] = WaitOpcode
  BY <1>13
<1>18. PICK c \in Int : r = 1 => c \in 1 .. n /\ s[c] \in RepPrefixes
  BY <1>14
<1>19. PICK e \in Int : g = 1 => e \in 1 .. n /\ s[e] \in SegOverrides
  BY <1>15
<1>20. /\ l = 1 /\ w = 1 => a # b
       /\ l = 1 /\ r = 1 => a # c
       /\ l = 1 /\ g = 1 => a # e
       /\ w = 1 /\ r = 1 => b # c
       /\ w = 1 /\ g = 1 => b # e
       /\ r = 1 /\ g = 1 => c # e
  BY <1>16, <1>17, <1>18, <1>19, Kinds
<1>21. /\ l = 1 => a \in 1 .. n
       /\ w = 1 => b \in 1 .. n
       /\ r = 1 => c \in 1 .. n
       /\ g = 1 => e \in 1 .. n
  BY <1>16, <1>17, <1>18, <1>19
<1>22. l + w + r + g <= n
  BY <1>4, <1>7, <1>8, <1>9, <1>10, <1>20, <1>21, Places
<1>23. l + w + r + g \in Nat
  BY <1>7, <1>8, <1>9, <1>10
<1>24. QED
  BY <1>6, <1>10, <1>11, <1>22, <1>23 DEF i, n

(* What is written of what is read.                                        *)
LEMMA Written ==
    ASSUME NEW s, Whole(s), NEW at \in Nat
    PROVE  LET i == Meaning(s, at)
               e == EncodeCase(i, at)
               c == EncodeAll(i, at)
           IN  /\ c \in Seq(Byte) /\ e \in Seq(Byte) /\ Len(c) \in Nat /\ i.len \in Nat
               /\ Wraps(i, at) \/ Outreaches(i, at) \/ Len(c) <= i.len
               /\ c = IF e = << >> THEN << >> ELSE Prefixes(i) \o e
               /\ Wraps(i, at) \/ Outreaches(i, at) \/ e = << >> \/ Stands(e)
               /\ i.op \in Waiting /\ e # << >> => e[1] \in FPUEscapes
<1> DEFINE i == Meaning(s, at)
           d == FlatDecode(s)
           x == Second(s)
           e == EncodeCase(i, at)
           c == EncodeAll(i, at)
           n == PrefixLength(s)
           p == Prefixes(i)
           size == InsSize(d.lead, x)
<1>1. Made(i, d, at) /\ i.len = d.len
  BY MeaningIs
<1>2. /\ Fields(d, x)
      /\ d.op # "UD_NOP" => d.len = n + size
      /\ d.op = "UD_NOP" => d.len = 2
  BY FieldsOfWhole
<1>3. /\ SegPrefix(i) \in {<< >>} \cup OverrideBytes /\ i.rep \in 0 .. 2
      /\ Len(p) <= n /\ Len(p) \in Nat
  BY FewPrefixes
<1>4. n \in Nat
  BY DEF Whole
<1>5. size \in Nat
  <2>1. Size(OperandWidths(d.lead, x)) \in 0 .. 4
    BY FewOperands, FewSizes
  <2>2. QED
    BY <2>1 DEF InsSize
<1> HIDE DEF i, d, x, size, n, p
<1>6. d.len \in Nat /\ (d.op # "UD_NOP" => d.len >= size)
  BY <1>2, <1>4, <1>5
<1>7. Fine(i, at, size)
  BY <1>1, <1>2, <1>6, AllRows DEF size
<1>8. /\ e \in Seq(Byte)
      /\ \/ Wraps(i, at) \/ Outreaches(i, at)
         \/ Short(e, size)
         \/ i.op = "JMP" /\ IsImm(i.argv[1]) /\ Short(e, i.len)
      /\ i.op \in Waiting /\ e # << >> => e[1] \in FPUEscapes
  BY <1>7 DEF Fine
<1>9. c = IF e = << >> THEN << >> ELSE p \o e
  BY DEF EncodeAll, AfterPrefixes, p
<1>10. p \in Seq(Byte)
  BY <1>3, PrefixesAre DEF p
<1>11. d.op = "UD_NOP" => e = << >>
  <2>1. ASSUME d.op = "UD_NOP" PROVE e = << >>
    <3>1. Case(d, at) = <<"UD_NOP", << >> >>
      BY <2>1 DEF Case
    <3>2. i.op = "UD_NOP"
      BY <1>1, <3>1 DEF Made
    <3>3. QED
      BY <3>2, NoCaseIs DEF NoCase
  <2>2. QED
    BY <2>1
<1>12. i.op = "JMP" => p = << >>
  <2>1. ASSUME i.op = "JMP" PROVE p = << >>
    <3>1. i.op \in Unsegmented /\ i.op \notin Locked /\ i.op \notin Waiting /\ i.op \notin Repeated
      BY <2>1 DEF Unsegmented, Locked, Waiting, Repeated
    <3>2. SegPrefix(i) = << >>
      BY <3>1 DEF SegPrefix
    <3>3. LockPrefix(i) = << >> /\ WaitPrefix(i) = << >> /\ RepPrefix(i) = << >>
      BY <3>1 DEF LockPrefix, WaitPrefix, RepPrefix
    <3>4. << >> \o << >> \o << >> \o << >> = << >>
      OBVIOUS
    <3>5. QED
      BY <3>2, <3>3, <3>4 DEF Prefixes, p
  <2>2. QED
    BY <2>1
<1> HIDE DEF e, c
<1>13. /\ c \in Seq(Byte) /\ Len(c) \in Nat
       /\ e # << >> => Len(c) = Len(p) + Len(e) /\ Len(e) \in Nat
       /\ e = << >> => Len(c) = 0
  <2>1. CASE e = << >>
    <3>1. << >> \in Seq(Byte) /\ Len(<< >>) = 0
      OBVIOUS
    <3>2. QED
      BY <1>9, <2>1, <3>1
  <2>2. CASE e # << >>
    <3>1. p \o e \in Seq(Byte) /\ Len(p \o e) = Len(p) + Len(e) /\ Len(p) \in Nat /\ Len(e) \in Nat
      BY <1>8, <1>10, Joined
    <3>2. QED
      BY <1>9, <2>2, <3>1
  <2>3. QED
    BY <2>1, <2>2
<1>14. Wraps(i, at) \/ Outreaches(i, at) \/ Len(c) <= i.len
  <2>1. CASE e = << >>
    BY <1>1, <1>6, <1>13, <2>1
  <2>2. CASE e # << >> /\ Short(e, size)
    <3>1. Len(e) <= size
      BY <2>2 DEF Short
    <3>2. d.op # "UD_NOP"
      BY <1>11, <2>2
    <3>3. i.len = n + size
      BY <1>1, <1>2, <3>2
    <3>4. QED
      BY <1>3, <1>4, <1>5, <1>13, <2>2, <3>1, <3>3
  <2>3. CASE e # << >> /\ i.op = "JMP" /\ Short(e, i.len)
    <3>1. Len(e) <= i.len
      BY <2>3 DEF Short
    <3>2. Len(p) = 0
      BY <1>12, <2>3
    <3>3. QED
      BY <1>1, <1>6, <1>13, <2>3, <3>1, <3>2
  <2>4. QED
    BY <1>8, <2>1, <2>2, <2>3
<1>15. Wraps(i, at) \/ Outreaches(i, at) \/ e = << >> \/ Stands(e)
  BY <1>8 DEF Short
<1>16. /\ c \in Seq(Byte) /\ e \in Seq(Byte) /\ Len(c) \in Nat /\ i.len \in Nat
       /\ Wraps(i, at) \/ Outreaches(i, at) \/ Len(c) <= i.len
       /\ c = IF e = << >> THEN << >> ELSE Prefixes(i) \o e
       /\ Wraps(i, at) \/ Outreaches(i, at) \/ e = << >> \/ Stands(e)
       /\ i.op \in Waiting /\ e # << >> => e[1] \in FPUEscapes
  BY <1>1, <1>6, <1>8, <1>9, <1>13, <1>14, <1>15 DEF p
<1>17. QED
  BY <1>16 DEF i, e, c
=============================================================================
