---------------------------- MODULE AddressProofs ---------------------------
(***************************************************************************)
(* Proofs about AddressForm, for every set of displacements: the memory    *)
(* operand that encoreall.c writes decodes, in decode_rm_x86, to the       *)
(* address it was made of, and is never longer than the one decoded.       *)
(*                                                                         *)
(* Encoded is what the decoder can be given, Formed what it can make.  The *)
(* decoder takes the one into the other (DecodeForms), the encoder takes   *)
(* it back (EncodeEncodes), and the second decode undoes the encoder       *)
(* (EncodeThenDecode).                                                     *)
(***************************************************************************)
EXTENDS AddressForm, TLAPS

-----------------------------------------------------------------------------
(* Numbers of a byte and of two.                                           *)

LEMMA Residues ==
    ASSUME NEW n \in Int
    PROVE  /\ 0 <= n /\ n < 256 => n % 256 = n /\ (n - 256) % 256 = n
           /\ 0 <= n /\ n < 65536 => n % 65536 = n /\ (n - 65536) % 65536 = n
           /\ 65280 <= n /\ n < 65536 => n % 256 = n - 65280
           /\ n % 256 \in Int /\ 0 <= n % 256 /\ n % 256 < 256
           /\ n % 65536 \in Int /\ 0 <= n % 65536 /\ n % 65536 < 65536
<1>1. 0 <= n /\ n < 256 => n % 256 = n /\ (n - 256) % 256 = n
  OBVIOUS
<1>2. 0 <= n /\ n < 65536 => n % 65536 = n /\ (n - 65536) % 65536 = n
  OBVIOUS
<1>3. 65280 <= n /\ n < 65536 => n % 256 = n - 65280
  OBVIOUS
<1>4. n % 256 \in Int /\ 0 <= n % 256 /\ n % 256 < 256
  OBVIOUS
<1>5. n % 65536 \in Int /\ 0 <= n % 65536 /\ n % 65536 < 65536
  OBVIOUS
<1>6. QED
  BY <1>1, <1>2, <1>3, <1>4, <1>5

LEMMA ByteOfWord ==
    ASSUME NEW x \in Int
    PROVE  (x % 65536) % 256 = x % 256
<1> DEFINE k == x \div 65536
           n == x % 65536
<1>1. k \in Int /\ n \in Int /\ x = 65536 * k + n
  OBVIOUS
<1> HIDE DEF k, n
<1>2. n % 256 = x % 256
  BY <1>1
<1>3. QED
  BY <1>2 DEF n

LEMMA Halves ==
    ASSUME NEW m \in Int, NEW v, NEW half \in Int,
           v = IF m >= half THEN m - 2 * half ELSE m, 0 <= m, m < 2 * half
    PROVE  v \in Int /\ -half <= v /\ v < half
<1>1. CASE m >= half
  BY <1>1
<1>2. CASE m < half
  BY <1>2
<1>3. QED
  BY <1>1, <1>2

(* The sixteen bits an address is made of.                                 *)
LowWord(x) == x % 65536

LEMMA SignedIs ==
    ASSUME NEW x \in Int
    PROVE  /\ Signed(x, 8) \in Int /\ -128 <= Signed(x, 8) /\ Signed(x, 8) < 128
           /\ Signed(x, 16) \in Int
           /\ LowWord(Signed(x, 16)) = LowWord(x)
           /\ x \in -128 .. 127 => Signed(x, 8) = x /\ Signed(x, 16) = x
           /\ Signed(x, 16) \in -128 .. 127 => Signed(x, 8) = Signed(x, 16)
<1>1. Signed(x, 8) = IF x % 256 >= 128 THEN (x % 256) - 256 ELSE x % 256
  BY DEF Signed
<1>2. Signed(x, 16) = IF x % 65536 >= 32768 THEN (x % 65536) - 65536 ELSE x % 65536
  BY DEF Signed
<1>3. x \in -128 .. 127 => Signed(x, 8) = x /\ Signed(x, 16) = x
  BY <1>1, <1>2
<1> DEFINE m == x % 256
           n == x % 65536
<1>4. /\ m \in Int /\ 0 <= m /\ m < 256 /\ n \in Int /\ 0 <= n /\ n < 65536
      /\ n % 256 = m
  BY Residues, ByteOfWord
<1>5. /\ Signed(x, 8) = IF m >= 128 THEN m - 256 ELSE m
      /\ Signed(x, 16) = IF n >= 32768 THEN n - 65536 ELSE n
  BY <1>1, <1>2
<1> HIDE DEF m, n
<1>6. /\ n % 65536 = n /\ (n - 65536) % 65536 = n
      /\ n < 128 => m = n
      /\ n >= 65408 => m = n - 65280
  BY <1>4, Residues
<1>7. Signed(x, 16) \in -128 .. 127 => Signed(x, 8) = Signed(x, 16)
  BY <1>4, <1>5, <1>6
<1>8. Signed(x, 8) \in Int /\ -128 <= Signed(x, 8) /\ Signed(x, 8) < 128
  <2>1. m \in Int /\ 0 <= m /\ m < 2 * 128
    BY <1>4
  <2>2. Signed(x, 8) = IF m >= 128 THEN m - 2 * 128 ELSE m
    BY <1>5
  <2>3. QED
    BY <2>1, <2>2, Halves
<1>9. Signed(x, 16) % 65536 = n
  BY <1>5, <1>6
<1>10. Signed(x, 16) \in Int
  BY <1>4, <1>5
<1>11. QED
  <2>1. LowWord(Signed(x, 16)) = LowWord(x)
    BY <1>9 DEF n, LowWord
  <2>2. QED
    BY <1>3, <1>7, <1>8, <1>10, <2>1

LEMMA LowWordIs ==
    ASSUME NEW x \in Int
    PROVE  LowWord(x) \in Int /\ LowWord(LowWord(x)) = LowWord(x)
<1> DEFINE n == x % 65536
<1>1. n \in Int /\ 0 <= n /\ n < 65536
  BY Residues
<1> HIDE DEF n
<1>2. n % 65536 = n
  BY <1>1, Residues
<1>3. QED
  BY <1>1, <1>2 DEF LowWord, n

LEMMA SignedWord ==
    ASSUME NEW x \in Int, Signed(x, 16) \in -128 .. 127
    PROVE  LowWord(Signed(x, 8)) = LowWord(x)
<1>1. Signed(x, 8) = Signed(x, 16)
  BY SignedIs
<1>2. LowWord(Signed(x, 16)) = LowWord(x)
  BY SignedIs
<1>3. QED
  BY <1>1, <1>2, Zenon

LEMMA SignedByte == ASSUME NEW x \in -128 .. 127 PROVE Signed(x, 8) = x /\ Signed(x, 16) = x
<1>1. x \in Int /\ x \in -128 .. 127
  OBVIOUS
<1>2. QED
  BY <1>1, SignedIs

-----------------------------------------------------------------------------
(* The forms.                                                              *)

(* An encoded memory operand decode_rm_x86 can be given: a SIB byte goes   *)
(* with rm 4 of 32-bit addressing, and ModR/M and SIB decide the width.    *)
Encoded(sz, c) ==
    /\ c \in Code
    /\ IF sz = 4 /\ c.rm = 4 THEN c.sib \in SIBs ELSE c.sib = NoSIB
    /\ c.width = DispWidth(sz, c.mod, c.rm, c.sib)
    /\ c.width = 0 => c.disp = 0
    /\ c.width = 1 => c.disp \in -128 .. 127

(* The operands it makes: without a register, with one, with two.          *)
Formed16(a) ==
    /\ a.scalar = 0
    /\ \/ a.regs = << >>
       \/ \E r \in {BX, BP, SI, DI} : a.regs = <<r>>
       \/ \E r \in {BX, BP}, q \in {SI, DI} : a.regs = <<r, q>>

(* ESP is no index, so it is never the first of two and never scaled.      *)
Formed32(a) ==
    \/ a.regs = << >> /\ a.scalar = 0
    \/ \E r \in Register : a.regs = <<r>> /\ (r = SP => a.scalar = 0)
    \/ \E r \in Register \ {SP}, q \in Register : a.regs = <<r, q>>

Formed(sz, a) == a \in Args /\ IF sz = 2 THEN Formed16(a) ELSE Formed32(a)

LEMMA DefaultSegmentIs ==
    ASSUME NEW regs, NEW override \in Segment \cup {NoSegment}
    PROVE  DefaultSegment(regs, override) \in Segment
  BY DEF DefaultSegment, Segment, SS, DS, NoSegment

LEMMA ShortRegs ==
    ASSUME NEW regs,
           \/ regs = << >>
           \/ \E r \in Register : regs = <<r>>
           \/ \E r \in Register, q \in Register : regs = <<r, q>>
    PROVE  regs \in UNION {[1 .. n -> Register] : n \in 0 .. 2}
<1>1. CASE regs = << >>
  <2>1. regs \in [1 .. 0 -> Register]
    BY <1>1
  <2>2. QED
    BY <2>1
<1>2. ASSUME NEW r \in Register, regs = <<r>>
      PROVE  regs \in UNION {[1 .. n -> Register] : n \in 0 .. 2}
  <2>1. regs \in [1 .. 1 -> Register]
    BY <1>2
  <2>2. QED
    BY <2>1
<1>3. ASSUME NEW r \in Register, NEW q \in Register, regs = <<r, q>>
      PROVE  regs \in UNION {[1 .. n -> Register] : n \in 0 .. 2}
  <2>1. regs \in [1 .. 2 -> Register]
    BY <1>3
  <2>2. QED
    BY <2>1
<1>4. QED
  BY <1>1, <1>2, <1>3

LEMMA Regs16Is ==
    /\ Regs16(0) = <<BX, SI>> /\ Regs16(1) = <<BX, DI>>
    /\ Regs16(2) = <<BP, SI>> /\ Regs16(3) = <<BP, DI>>
    /\ Regs16(4) = <<SI>> /\ Regs16(5) = <<DI>> /\ Regs16(6) = <<BP>> /\ Regs16(7) = <<BX>>
  BY DEF Regs16, BX, BP, SI, DI

LEMMA DecodeForms16 ==
    ASSUME NEW c, Encoded(2, c)
    PROVE  Formed(2, Decode(2, c))
<1> DEFINE a == Decode16(c)
           regs == IF c.mod = 0 /\ c.rm = 6 THEN << >> ELSE Regs16(c.rm)
           base == IF c.width = 0 THEN 0 ELSE c.disp
<1>1. /\ c.mod \in 0 .. 2 /\ c.rm \in Register /\ c.segment \in Segment \cup {NoSegment}
      /\ c.disp \in Int
  BY DEF Encoded, Code
<1>2. base \in Int
  BY <1>1
<1>3. \/ \E r \in {BX, BP, SI, DI} : Regs16(c.rm) = <<r>>
      \/ \E r \in {BX, BP}, q \in {SI, DI} : Regs16(c.rm) = <<r, q>>
  <2>1. c.rm \in {0, 1, 2, 3, 4, 5, 6, 7}
    BY <1>1 DEF Register
  <2>2. QED
    BY <2>1, Regs16Is
<1>4. \/ regs = << >>
      \/ \E r \in {BX, BP, SI, DI} : regs = <<r>>
      \/ \E r \in {BX, BP}, q \in {SI, DI} : regs = <<r, q>>
  BY <1>3
<1>5. regs \in UNION {[1 .. n -> Register] : n \in 0 .. 2}
  <2> HIDE DEF regs
  <2>1. {BX, BP, SI, DI} \subseteq Register
    BY DEF BX, BP, SI, DI, Register
  <2>2. QED
    BY <1>4, <2>1, ShortRegs
<1>6. DefaultSegment(regs, c.segment) \in Segment
  BY <1>1, DefaultSegmentIs
<1>7. a = [regs |-> regs, scalar |-> 0, base |-> base,
           segment |-> DefaultSegment(regs, c.segment)]
  BY DEF Decode16
<1> HIDE DEF a, regs, base
<1>8. a \in Args
  BY <1>2, <1>5, <1>6, <1>7 DEF Args
<1>9. Formed16(a)
  BY <1>4, <1>7 DEF Formed16
<1>10. QED
  BY <1>8, <1>9 DEF Formed, Decode, a

LEMMA SIBIsNotNone == ASSUME NEW sib \in SIBs PROVE sib # NoSIB
<1>1. PICK scale \in 0 .. 3, index \in Register, base \in Register :
          sib = <<scale, index, base>>
  BY DEF SIBs
<1>2. Len(sib) = 3 /\ Len(NoSIB) = 0
  BY <1>1 DEF NoSIB
<1>3. QED
  BY <1>2

LEMMA SIBRegs ==
    ASSUME NEW mod, NEW sib \in SIBs
    PROVE  LET regs == RegsSIB(mod, sib)
           IN  \/ regs = << >> /\ sib[2] = 4
               \/ \E r \in Register : regs = <<r>> /\ (r = SP => sib[2] = 4)
               \/ \E r \in Register \ {SP}, q \in Register : regs = <<r, q>>
<1>1. sib[2] \in Register /\ sib[3] \in Register
  BY DEF SIBs
<1>2. QED
  BY <1>1 DEF RegsSIB, SP

LEMMA DecodeForms32 ==
    ASSUME NEW c, Encoded(4, c)
    PROVE  Formed(4, Decode(4, c))
<1> DEFINE a == Decode32(c)
           regs == CASE c.sib # NoSIB -> RegsSIB(c.mod, c.sib)
                     [] ~(c.sib # NoSIB) /\ c.mod = 0 /\ c.rm = 5 -> << >>
                     [] OTHER -> <<c.rm>>
           scalar == IF c.sib # NoSIB /\ c.sib[2] # 4 THEN c.sib[1] ELSE 0
           base == IF c.width = 0 THEN 0 ELSE c.disp
<1>1. /\ c.mod \in 0 .. 2 /\ c.rm \in Register /\ c.segment \in Segment \cup {NoSegment}
      /\ c.disp \in Int
  BY DEF Encoded, Code
<1>2. base \in Int
  BY <1>1
<1>3. \/ c.sib \in SIBs /\ c.sib # NoSIB
      \/ c.sib = NoSIB /\ c.rm # 4
  <2>1. \/ c.sib \in SIBs
        \/ c.sib = NoSIB /\ c.rm # 4
    BY DEF Encoded
  <2>2. QED
    BY <2>1, SIBIsNotNone
<1> HIDE DEF a
<1>4. /\ scalar \in 0 .. 3
      /\ \/ regs = << >> /\ scalar = 0
         \/ \E r \in Register : regs = <<r>> /\ (r = SP => scalar = 0)
         \/ \E r \in Register \ {SP}, q \in Register : regs = <<r, q>>
  <2>1. CASE c.sib \in SIBs /\ c.sib # NoSIB
    <3>1. regs = RegsSIB(c.mod, c.sib) /\ scalar = IF c.sib[2] # 4 THEN c.sib[1] ELSE 0
      BY <2>1
    <3>2. c.sib[1] \in 0 .. 3
      BY <2>1 DEF SIBs
    <3> HIDE DEF regs, scalar
    <3>3. scalar \in 0 .. 3 /\ (c.sib[2] = 4 => scalar = 0)
      BY <3>1, <3>2
    <3>4. QED
      BY <2>1, <3>1, <3>3, SIBRegs
  <2>2. CASE c.sib = NoSIB /\ c.rm # 4
    BY <1>1, <2>2 DEF SP
  <2>3. QED
    BY <1>3, <2>1, <2>2
<1>5. regs \in UNION {[1 .. n -> Register] : n \in 0 .. 2}
  <2> HIDE DEF regs, scalar
  <2>1. QED
    BY <1>4, ShortRegs
<1>6. DefaultSegment(regs, c.segment) \in Segment
  BY <1>1, DefaultSegmentIs
<1>7. a = [regs |-> regs, scalar |-> scalar, base |-> base,
           segment |-> DefaultSegment(regs, c.segment)]
  BY DEF Decode32, a
<1> HIDE DEF a, regs, base, scalar
<1>8. a \in Args
  BY <1>2, <1>4, <1>5, <1>6, <1>7 DEF Args
<1>9. Formed32(a)
  BY <1>4, <1>7 DEF Formed32
<1>10. QED
  BY <1>8, <1>9 DEF Formed, Decode, a

LEMMA DecodeForms ==
    ASSUME NEW sz \in {2, 4}, NEW c, Encoded(sz, c)
    PROVE  Formed(sz, Decode(sz, c))
  BY DecodeForms16, DecodeForms32

-----------------------------------------------------------------------------
(* What the encoder writes.                                                *)

LEMMA FormedFacts ==
    ASSUME NEW sz \in {2, 4}, NEW a, Formed(sz, a)
    PROVE  /\ a.base \in Int /\ a.scalar \in 0 .. 3 /\ a.segment \in Segment
           /\ \/ a.regs = << >> /\ a.scalar = 0
              \/ \E r \in Register : a.regs = <<r>> /\ (r = SP => a.scalar = 0)
              \/ \E r \in Register \ {SP}, q \in Register : a.regs = <<r, q>>
<1>1. /\ a.base \in Int /\ a.scalar \in 0 .. 3 /\ a.segment \in Segment
  BY DEF Formed, Args
<1>2. CASE sz = 2
  <2>1. {BX, BP, SI, DI} \subseteq Register /\ {BX, BP} \subseteq Register \ {SP}
    BY DEF BX, BP, SI, DI, SP, Register
  <2>2. Formed16(a)
    BY <1>2 DEF Formed
  <2>3. QED
    BY <1>1, <2>1, <2>2 DEF Formed16
<1>3. CASE sz = 4
  BY <1>1, <1>3 DEF Formed, Formed32
<1>4. QED
  BY <1>2, <1>3

(* Mod 0 only for a displacement of zero or a direct address; never for    *)
(* [BP] and [EBP], which have no form without a displacement.              *)
LEMMA ModForIs ==
    ASSUME NEW sz \in {2, 4}, NEW a, Formed(sz, a)
    PROVE  /\ ModFor(sz, a) \in 0 .. 2
           /\ a.regs = << >> => ModFor(sz, a) = 0
           /\ a.regs = <<BP>> => ModFor(sz, a) # 0
           /\ \A r \in Register, q \in Register :
                (sz = 4 /\ a.regs = <<r, q>> /\ q = BP) => ModFor(sz, a) # 0
           /\ (ModFor(sz, a) = 0 /\ a.regs # << >>) => a.base = 0
           /\ ModFor(sz, a) = 1 => a.base = 0 \/ FitsByte(sz, a.base)
           /\ ModFor(sz, a) = 2 => a.base # 0 /\ ~FitsByte(sz, a.base)
<1> DEFINE mod == ModOfBase(sz, a.base)
<1>1. /\ mod \in 0 .. 2
      /\ mod = 0 => a.base = 0
      /\ mod = 1 => FitsByte(sz, a.base)
      /\ mod = 2 => a.base # 0 /\ ~FitsByte(sz, a.base)
  BY DEF ModOfBase
<1>2. ModFor(sz, a) =
        CASE Len(a.regs) = 0 -> 0
          [] Len(a.regs) = 1 /\ mod = 0 /\ a.regs[1] = BP -> 1
          [] Len(a.regs) = 2 /\ sz = 4 /\ mod = 0 /\ a.regs[2] = BP -> 1
          [] OTHER -> mod
  BY DEF ModFor
<1> HIDE DEF mod
<1>3. CASE a.regs = << >>
  <2>1. ModFor(sz, a) = 0
    BY <1>2, <1>3
  <2>2. \A r \in Register, q \in Register : a.regs # <<r, q>> /\ a.regs # <<r>>
    <3>1. SUFFICES ASSUME NEW r \in Register, NEW q \in Register
                   PROVE  a.regs # <<r, q>> /\ a.regs # <<r>>
      OBVIOUS
    <3>2. Len(<<r, q>>) = 2 /\ Len(<<r>>) = 1 /\ Len(<< >>) = 0
      OBVIOUS
    <3>3. QED
      BY <1>3, <3>2
  <2>3. QED
    BY <1>3, <2>1, <2>2 DEF BP, Register
<1>4. ASSUME NEW r \in Register, a.regs = <<r>>
      PROVE  /\ a.regs # << >>
             /\ ModFor(sz, a) = (IF mod = 0 /\ r = BP THEN 1 ELSE mod)
             /\ \A x \in Register, y \in Register : a.regs # <<x, y>>
             /\ \A x : a.regs = <<x>> => x = r
  <2>1. Len(a.regs) = 1 /\ a.regs[1] = r
    BY <1>4
  <2>2. a.regs # << >>
    BY <1>4
  <2>3. ModFor(sz, a) = (IF mod = 0 /\ r = BP THEN 1 ELSE mod)
    BY <1>2, <2>1
  <2>4. QED
    BY <1>4, <2>1, <2>2, <2>3
<1>5. ASSUME NEW r \in Register, NEW q \in Register, a.regs = <<r, q>>
      PROVE  /\ a.regs # << >>
             /\ ModFor(sz, a) = (IF sz = 4 /\ mod = 0 /\ q = BP THEN 1 ELSE mod)
             /\ \A x : a.regs # <<x>>
             /\ \A x, y : a.regs = <<x, y>> => x = r /\ y = q
  <2>1. Len(a.regs) = 2 /\ a.regs[1] = r /\ a.regs[2] = q
    BY <1>5
  <2>2. a.regs # << >>
    BY <1>5
  <2>3. ModFor(sz, a) = (IF sz = 4 /\ mod = 0 /\ q = BP THEN 1 ELSE mod)
    BY <1>2, <2>1
  <2>4. QED
    BY <1>5, <2>1, <2>2, <2>3
<1>6. ASSUME NEW r \in Register, a.regs = <<r>>
      PROVE  /\ ModFor(sz, a) \in 0 .. 2
             /\ a.regs = <<BP>> => ModFor(sz, a) # 0
             /\ ModFor(sz, a) = 0 => a.base = 0
             /\ ModFor(sz, a) = 1 => a.base = 0 \/ FitsByte(sz, a.base)
             /\ ModFor(sz, a) = 2 => a.base # 0 /\ ~FitsByte(sz, a.base)
  BY <1>1, <1>4, <1>6
<1>7. ASSUME NEW r \in Register, NEW q \in Register, a.regs = <<r, q>>
      PROVE  /\ ModFor(sz, a) \in 0 .. 2
             /\ (sz = 4 /\ q = BP) => ModFor(sz, a) # 0
             /\ ModFor(sz, a) = 0 => a.base = 0
             /\ ModFor(sz, a) = 1 => a.base = 0 \/ FitsByte(sz, a.base)
             /\ ModFor(sz, a) = 2 => a.base # 0 /\ ~FitsByte(sz, a.base)
  BY <1>1, <1>5, <1>7
<1>8. CASE \E r \in Register : a.regs = <<r>>
  <2>1. PICK r \in Register : a.regs = <<r>>
    BY <1>8
  <2>2. QED
    BY <1>4, <1>6, <2>1
<1>9. CASE \E r \in Register, q \in Register : a.regs = <<r, q>>
  <2>1. PICK r \in Register, q \in Register : a.regs = <<r, q>>
    BY <1>9
  <2>2. QED
    BY <1>5, <1>7, <2>1
<1>10. QED
  BY <1>3, <1>8, <1>9, FormedFacts

(* The displacement written is the base: exactly with 32-bit addressing,   *)
(* and in the sixteen bits that count with 16-bit addressing.              *)
LEMMA BaseIsKept ==
    ASSUME NEW sz \in {2, 4}, NEW a, Formed(sz, a), NEW forced
    PROVE  LET e    == Encode(sz, a, forced)
               base == IF e.width = 0 THEN 0 ELSE e.disp
           IN  /\ e.width = IF ModFor(sz, a) = 1 THEN 1
                            ELSE IF ModFor(sz, a) = 2 \/ a.regs = << >> THEN sz ELSE 0
               /\ e.disp \in Int
               /\ e.width = 0 => e.disp = 0
               /\ e.width = 1 => e.disp \in -128 .. 127
               /\ IF sz = 2 THEN LowWord(base) = LowWord(a.base) ELSE base = a.base
<1> DEFINE e == Encode(sz, a, forced)
           width == IF ModFor(sz, a) = 1 THEN 1
                    ELSE IF ModFor(sz, a) = 2 \/ a.regs = << >> THEN sz ELSE 0
<1>1. /\ a.base \in Int
      /\ (Len(a.regs) = 0) <=> (a.regs = << >>)
  BY FormedFacts
<1>2. /\ e.width = width
      /\ e.disp = CASE width = 0 -> 0 [] width = 1 -> Signed(a.base, 8)
                    [] width = 2 -> a.base % 65536 [] width = 4 -> a.base
  BY <1>1 DEF Encode
<1> HIDE DEF e
<1>3. ModFor(sz, a) \in 0 .. 2
  BY ModForIs
<1>4. CASE ModFor(sz, a) = 0 /\ a.regs # << >>
  <2>1. width = 0 /\ a.base = 0
    BY <1>4, ModForIs
  <2>2. QED
    BY <1>2, <2>1 DEF e
<1>5. CASE ModFor(sz, a) = 1
  <2>1. width = 1 /\ e.disp = Signed(a.base, 8)
    BY <1>2, <1>5
  <2>2. /\ Signed(a.base, 8) \in Int /\ -128 <= Signed(a.base, 8) /\ Signed(a.base, 8) < 128
    BY <1>1, SignedIs
  <2>3. Signed(a.base, 8) \in -128 .. 127
    BY <2>2
  <2>4. CASE sz = 4
    <3>1. a.base \in -128 .. 127
      BY <1>5, <2>4, ModForIs DEF FitsByte
    <3>2. Signed(a.base, 8) = a.base
      BY <3>1, SignedByte
    <3>3. QED
      BY <1>2, <2>1, <2>2, <2>3, <2>4, <3>2 DEF e
  <2>5. CASE sz = 2
    <3>1. a.base = 0 \/ Signed(a.base, 16) \in -128 .. 127
      BY <1>5, <2>5, ModForIs DEF FitsByte
    <3>2. LowWord(Signed(a.base, 8)) = LowWord(a.base)
      <4>1. CASE a.base = 0
        BY <4>1, SignedByte
      <4>2. CASE Signed(a.base, 16) \in -128 .. 127
        BY <1>1, <4>2, SignedWord, Zenon
      <4>3. QED
        BY <3>1, <4>1, <4>2
    <3>3. QED
      BY <1>2, <2>1, <2>2, <2>3, <2>5, <3>2 DEF e
  <2>6. QED
    BY <2>4, <2>5
<1>6. CASE ModFor(sz, a) # 1 /\ (ModFor(sz, a) = 2 \/ a.regs = << >>)
  <2>1. width = sz
    BY <1>6
  <2>2. CASE sz = 4
    BY <1>1, <1>2, <2>1, <2>2 DEF e
  <2>3. CASE sz = 2
    <3>1. e.disp = LowWord(a.base)
      BY <1>2, <2>1, <2>3 DEF LowWord
    <3>2. LowWord(a.base) \in Int /\ LowWord(LowWord(a.base)) = LowWord(a.base)
      BY <1>1, LowWordIs
    <3>3. QED
      BY <1>2, <2>1, <2>3, <3>1, <3>2 DEF e
  <2>4. QED
    BY <2>2, <2>3
<1>7. QED
  BY <1>3, <1>4, <1>5, <1>6

(* Its ModR/M and SIB bytes name the registers they were made of.          *)
LEMMA Rm16Is ==
    /\ Rm16(<< >>) = 6 /\ Rm16(<<SI>>) = 4 /\ Rm16(<<DI>>) = 5
    /\ Rm16(<<BP>>) = 6 /\ Rm16(<<BX>>) = 7
    /\ Rm16(<<BX, SI>>) = 0 /\ Rm16(<<BX, DI>>) = 1
    /\ Rm16(<<BP, SI>>) = 2 /\ Rm16(<<BP, DI>>) = 3
<1>1. Rm16(<< >>) = 6
  BY DEF Rm16
<1>2. /\ Rm16(<<SI>>) = 4 /\ Rm16(<<DI>>) = 5
      /\ Rm16(<<BP>>) = 6 /\ Rm16(<<BX>>) = 7
  BY DEF Rm16, SI, DI, BP, BX
<1>3. /\ Rm16(<<BX, SI>>) = 0 /\ Rm16(<<BX, DI>>) = 1
      /\ Rm16(<<BP, SI>>) = 2 /\ Rm16(<<BP, DI>>) = 3
  BY DEF Rm16, SI, DI, BP, BX
<1>4. QED
  BY <1>1, <1>2, <1>3

LEMMA RegsKept16 ==
    ASSUME NEW a, Formed(2, a)
    PROVE  LET mod == ModFor(2, a)
               rm  == Rm16(a.regs)
           IN  /\ rm \in Register
               /\ a.regs = (IF mod = 0 /\ rm = 6 THEN << >> ELSE Regs16(rm))
               /\ (a.regs = << >>) <=> (mod = 0 /\ rm = 6)
<1>1. Formed16(a)
  BY DEF Formed
<1>2. CASE a.regs = << >>
  BY <1>2, Rm16Is, ModForIs DEF Register
<1>3. CASE \E r \in {BX, BP, SI, DI} : a.regs = <<r>>
  <2>1. a.regs = <<BP>> \/ a.regs \in {<<BX>>, <<SI>>, <<DI>>}
    BY <1>3
  <2>2. a.regs # << >>
    BY <1>3
  <2>3. CASE a.regs = <<BP>>
    BY <2>2, <2>3, Rm16Is, Regs16Is, ModForIs DEF Register
  <2>4. CASE a.regs \in {<<BX>>, <<SI>>, <<DI>>}
    BY <2>2, <2>4, Rm16Is, Regs16Is DEF Register
  <2>5. QED
    BY <2>1, <2>3, <2>4
<1>4. CASE \E r \in {BX, BP}, q \in {SI, DI} : a.regs = <<r, q>>
  <2>1. a.regs \in {<<BX, SI>>, <<BX, DI>>, <<BP, SI>>, <<BP, DI>>}
    BY <1>4
  <2>2. a.regs # << >>
    BY <1>4
  <2>3. QED
    BY <2>1, <2>2, Rm16Is, Regs16Is DEF Register
<1>5. QED
  BY <1>1, <1>2, <1>3, <1>4 DEF Formed16

(* With 32-bit addressing a scale survives with two registers only.        *)
LEMMA RegsKept32 ==
    ASSUME NEW a, Formed(4, a)
    PROVE  LET mod == ModFor(4, a)
               rm  == Rm32(a.regs)
               sib == SIB32(a)
           IN  /\ rm \in Register
               /\ IF rm = 4 THEN sib \in SIBs ELSE sib = NoSIB
               /\ a.regs = CASE sib # NoSIB -> RegsSIB(mod, sib)
                             [] sib = NoSIB /\ mod = 0 /\ rm = 5 -> << >>
                             [] OTHER -> <<rm>>
               /\ ~ScaledIndexOnly(a) =>
                    a.scalar = (IF sib # NoSIB /\ sib[2] # 4 THEN sib[1] ELSE 0)
               /\ (a.regs = << >>) <=> (mod = 0 /\ (rm = 5 \/ (sib # NoSIB /\ sib[3] = 5)))
<1>1. a.scalar \in 0 .. 3
  BY FormedFacts
<1>2. CASE a.regs = << >>
  <2>1. Len(a.regs) = 0 /\ a.regs # <<SP>>
    BY <1>2
  <2>2. Rm32(a.regs) = 5 /\ SIB32(a) = NoSIB
    BY <2>1 DEF Rm32, SIB32
  <2>3. a.scalar = 0
    BY <1>2, FormedFacts
  <2>4. QED
    BY <1>2, <2>2, <2>3, ModForIs DEF Register
<1>3. ASSUME NEW r \in Register, a.regs = <<r>>, r # SP
      PROVE  /\ Rm32(a.regs) = r /\ SIB32(a) = NoSIB
             /\ r = 5 => ModFor(4, a) # 0
             /\ a.regs # << >>
             /\ ~ScaledIndexOnly(a) => a.scalar = 0
  <2>1. Len(a.regs) = 1 /\ a.regs[1] = r /\ a.regs # << >> /\ a.regs # <<SP>>
    BY <1>3
  <2>2. QED
    BY <1>3, <2>1, ModForIs DEF Rm32, SIB32, BP, ScaledIndexOnly
<1>4. ASSUME a.regs = <<SP>>
      PROVE  /\ Rm32(a.regs) = 4 /\ SIB32(a) = <<a.scalar, 4, SP>>
             /\ a.regs # << >> /\ a.scalar = 0
  <2>1. Len(a.regs) = 1 /\ a.regs[1] = SP /\ a.regs # << >>
    BY <1>4
  <2>2. Rm32(a.regs) = 4 /\ SIB32(a) = <<a.scalar, 4, SP>>
    BY <1>4, <2>1 DEF Rm32, SIB32, SP
  <2>3. a.scalar = 0
    <3>1. \A r, q : <<r, q>> # <<SP>> /\ (<<r>> = <<SP>> => r = SP)
      OBVIOUS
    <3>2. QED
      BY <1>4, <2>1, <3>1, FormedFacts
  <2>4. QED
    BY <2>1, <2>2, <2>3
<1>5. ASSUME NEW r \in Register \ {SP}, NEW q \in Register, a.regs = <<r, q>>
      PROVE  /\ Rm32(a.regs) = 4 /\ SIB32(a) = <<a.scalar, r, q>>
             /\ a.regs # << >> /\ (q = 5 => ModFor(4, a) # 0)
             /\ Len(a.regs) = 2
  <2>1. Len(a.regs) = 2 /\ a.regs[1] = r /\ a.regs[2] = q /\ a.regs # << >>
    BY <1>5
  <2>2. Rm32(a.regs) = 4 /\ SIB32(a) = <<a.scalar, r, q>>
    BY <2>1 DEF Rm32, SIB32
  <2>3. q = 5 => ModFor(4, a) # 0
    BY <1>5, ModForIs DEF BP
  <2>4. QED
    BY <2>1, <2>2, <2>3
<1>6. CASE \E r \in Register : a.regs = <<r>> /\ r # SP
  <2>1. PICK r \in Register : a.regs = <<r>> /\ r # SP
    BY <1>6
  <2>2. QED
    BY <1>3, <2>1 DEF SP
<1>7. CASE a.regs = <<SP>>
  <2> DEFINE sib == <<a.scalar, 4, SP>>
  <2>1. sib \in SIBs /\ sib[2] = 4 /\ sib[3] = 4
    BY <1>1 DEF SIBs, Register, SP
  <2>2. RegsSIB(ModFor(4, a), sib) = <<SP>>
    BY <2>1 DEF RegsSIB, SP
  <2> HIDE DEF sib
  <2>3. SIB32(a) = sib /\ Rm32(a.regs) = 4 /\ a.regs # << >> /\ a.scalar = 0
    BY <1>4, <1>7 DEF sib
  <2>4. QED
    BY <1>7, <2>1, <2>2, <2>3, SIBIsNotNone DEF Register
<1>8. CASE \E r \in Register \ {SP}, q \in Register : a.regs = <<r, q>>
  <2>1. PICK r \in Register \ {SP}, q \in Register : a.regs = <<r, q>>
    BY <1>8
  <2> DEFINE sib == <<a.scalar, r, q>>
  <2>2. sib \in SIBs /\ sib[1] = a.scalar /\ sib[2] = r /\ sib[3] = q
    BY <1>1 DEF SIBs
  <2> HIDE DEF sib
  <2>3. SIB32(a) = sib /\ Rm32(a.regs) = 4 /\ a.regs # << >> /\ (q = 5 => ModFor(4, a) # 0)
    BY <1>5, <2>1 DEF sib
  <2>4. RegsSIB(ModFor(4, a), sib) = <<r, q>>
    BY <2>1, <2>2, <2>3 DEF RegsSIB, SP
  <2>5. QED
    BY <2>1, <2>2, <2>3, <2>4, SIBIsNotNone DEF Register, SP
<1>9. QED
  BY <1>2, <1>6, <1>7, <1>8, FormedFacts

(* minx86enc_seg_overrides leaves a prefix out only where the registers    *)
(* imply the segment, and it then decodes to that segment.                 *)
LEMMA SegmentKept ==
    ASSUME NEW a, a.segment \in Segment, NEW forced,
           \A i \in DOMAIN a.regs : a.regs[i] \in Register
    PROVE  /\ SegOverride(a, forced) \in Segment \cup {NoSegment}
           /\ DefaultSegment(a.regs, SegOverride(a, forced)) = a.segment
<1> DEFINE impliesSS == \E i \in DOMAIN a.regs : a.regs[i] \in {SP, BP}
           implied   == \/ a.segment = DS /\ ~impliesSS
                        \/ a.segment = SS /\ impliesSS
<1>1. SegOverride(a, forced) = IF implied /\ ~forced THEN NoSegment ELSE a.segment
  BY DEF SegOverride
<1>2. a.segment # NoSegment
  BY DEF Segment, NoSegment
<1>3. DefaultSegment(a.regs, NoSegment) = IF impliesSS THEN SS ELSE DS
  BY DEF DefaultSegment
<1>4. DefaultSegment(a.regs, a.segment) = a.segment
  BY <1>2 DEF DefaultSegment
<1>5. implied => (IF impliesSS THEN SS ELSE DS) = a.segment
  OBVIOUS
<1> HIDE DEF implied, impliesSS
<1>6. QED
  BY <1>1, <1>3, <1>4, <1>5

LEMMA EncodeIs ==
    ASSUME NEW sz, NEW a, NEW forced
    PROVE  LET e == Encode(sz, a, forced)
           IN  /\ e = [mod |-> e.mod, rm |-> e.rm, sib |-> e.sib, width |-> e.width,
                       disp |-> e.disp, segment |-> e.segment]
               /\ e.mod = ModFor(sz, a)
               /\ e.rm = IF sz = 2 THEN Rm16(a.regs) ELSE Rm32(a.regs)
               /\ e.sib = IF sz = 2 THEN NoSIB ELSE SIB32(a)
               /\ e.segment = SegOverride(a, forced)
<1>1. \A m, r, s, w, d, g :
         LET x == [mod |-> m, rm |-> r, sib |-> s, width |-> w, disp |-> d, segment |-> g]
         IN  /\ x = [mod |-> x.mod, rm |-> x.rm, sib |-> x.sib, width |-> x.width,
                     disp |-> x.disp, segment |-> x.segment]
             /\ x.mod = m /\ x.rm = r /\ x.sib = s /\ x.segment = g
  OBVIOUS
<1> DEFINE mod == ModFor(sz, a)
           rm  == IF sz = 2 THEN Rm16(a.regs) ELSE Rm32(a.regs)
           sib == IF sz = 2 THEN NoSIB ELSE SIB32(a)
           width == IF mod = 1 THEN 1
                    ELSE IF mod = 2 \/ Len(a.regs) = 0 THEN sz ELSE 0
           disp == CASE width = 0 -> 0 [] width = 1 -> Signed(a.base, 8)
                     [] width = 2 -> a.base % 65536 [] width = 4 -> a.base
           segment == SegOverride(a, forced)
<1>2. Encode(sz, a, forced) = [mod |-> mod, rm |-> rm, sib |-> sib, width |-> width,
                               disp |-> disp, segment |-> segment]
  BY DEF Encode
<1> HIDE DEF mod, rm, sib, width, disp, segment
<1> DEFINE e == Encode(sz, a, forced)
<1>3. /\ e = [mod |-> e.mod, rm |-> e.rm, sib |-> e.sib, width |-> e.width,
              disp |-> e.disp, segment |-> e.segment]
      /\ e.mod = mod /\ e.rm = rm /\ e.sib = sib /\ e.segment = segment
  BY <1>1, <1>2
<1> HIDE DEF e
<1>4. QED
  BY <1>3 DEF mod, rm, sib, segment, e

LEMMA EncodeEncodes ==
    ASSUME NEW sz \in {2, 4}, NEW a, Formed(sz, a), NEW forced
    PROVE  Encoded(sz, Encode(sz, a, forced))
<1> DEFINE e == Encode(sz, a, forced)
<1>1. /\ e = [mod |-> e.mod, rm |-> e.rm, sib |-> e.sib, width |-> e.width,
              disp |-> e.disp, segment |-> e.segment]
      /\ e.mod = ModFor(sz, a)
      /\ e.rm = IF sz = 2 THEN Rm16(a.regs) ELSE Rm32(a.regs)
      /\ e.sib = IF sz = 2 THEN NoSIB ELSE SIB32(a)
      /\ e.segment = SegOverride(a, forced)
  BY EncodeIs
<1>2. /\ e.width = IF e.mod = 1 THEN 1
                  ELSE IF e.mod = 2 \/ a.regs = << >> THEN sz ELSE 0
      /\ e.disp \in Int
      /\ e.width = 0 => e.disp = 0
      /\ e.width = 1 => e.disp \in -128 .. 127
  BY <1>1, BaseIsKept
<1>3. e.mod \in 0 .. 2 /\ (a.regs = << >> => e.mod = 0)
  BY <1>1, ModForIs
<1>4. e.segment \in Segment \cup {NoSegment}
  <2>1. a.segment \in Segment /\ \A i \in DOMAIN a.regs : a.regs[i] \in Register
    BY DEF Formed, Args
  <2>2. QED
    BY <1>1, <2>1, SegmentKept
<1> HIDE DEF e
<1>5. /\ e.rm \in Register
      /\ IF sz = 4 /\ e.rm = 4 THEN e.sib \in SIBs ELSE e.sib = NoSIB
      /\ e.width = DispWidth(sz, e.mod, e.rm, e.sib)
  <2>1. CASE sz = 2
    <3>1. /\ e.rm \in Register /\ e.sib = NoSIB
          /\ (a.regs = << >>) <=> (e.mod = 0 /\ e.rm = 6)
      BY <1>1, <2>1, RegsKept16
    <3>2. QED
      BY <1>2, <1>3, <2>1, <3>1 DEF DispWidth
  <2>2. CASE sz = 4
    <3>1. e.rm = Rm32(a.regs) /\ e.sib = SIB32(a) /\ e.mod = ModFor(4, a)
      BY <1>1, <2>2
    <3>2. /\ e.rm \in Register
          /\ IF e.rm = 4 THEN e.sib \in SIBs ELSE e.sib = NoSIB
          /\ (a.regs = << >>) <=> (e.mod = 0 /\ (e.rm = 5 \/ (e.sib # NoSIB /\ e.sib[3] = 5)))
      BY <2>2, <3>1, RegsKept32
    <3>3. QED
      BY <1>2, <1>3, <2>2, <3>2 DEF DispWidth
  <2>3. QED
    BY <2>1, <2>2
<1>6. e \in Code
  <2>1. e.sib \in {NoSIB} \cup SIBs /\ e.width \in {0, 1, 2, 4}
    BY <1>2, <1>5
  <2>2. QED
    BY <1>1, <1>2, <1>3, <1>4, <1>5, <2>1 DEF Code
<1>7. QED
  BY <1>2, <1>5, <1>6 DEF Encoded, e

LEMMA EncodeThenDecode ==
    ASSUME NEW sz \in {2, 4}, NEW a, Formed(sz, a), ~ScaledIndexOnly(a), NEW forced
    PROVE  SameAddress(sz, a, Decode(sz, Encode(sz, a, forced)))
<1> DEFINE e == Encode(sz, a, forced)
           base == IF e.width = 0 THEN 0 ELSE e.disp
<1>1. /\ e.mod = ModFor(sz, a)
      /\ e.rm = IF sz = 2 THEN Rm16(a.regs) ELSE Rm32(a.regs)
      /\ e.sib = IF sz = 2 THEN NoSIB ELSE SIB32(a)
      /\ e.segment = SegOverride(a, forced)
  BY EncodeIs
<1>2. IF sz = 2 THEN LowWord(base) = LowWord(a.base) ELSE base = a.base
  BY BaseIsKept
<1>3. DefaultSegment(a.regs, e.segment) = a.segment
  <2>1. a.segment \in Segment /\ \A i \in DOMAIN a.regs : a.regs[i] \in Register
    BY DEF Formed, Args
  <2>2. QED
    BY <1>1, <2>1, SegmentKept
<1> HIDE DEF e
<1>4. CASE sz = 2
  <2> DEFINE regs == IF e.mod = 0 /\ e.rm = 6 THEN << >> ELSE Regs16(e.rm)
  <2>1. Decode(sz, e) = [regs |-> regs, scalar |-> 0, base |-> base,
                         segment |-> DefaultSegment(regs, e.segment)]
    BY <1>4 DEF Decode, Decode16
  <2>2. a.regs = regs
    BY <1>1, <1>4, RegsKept16
  <2>3. a.scalar = 0
    BY <1>4 DEF Formed, Formed16
  <2> HIDE DEF regs, base
  <2>4. SameAddress(sz, a, Decode(sz, e))
    BY <1>2, <1>3, <1>4, <2>1, <2>2, <2>3 DEF SameAddress, LowWord
  <2>5. QED
    BY <2>4 DEF e
<1>5. CASE sz = 4
  <2> DEFINE regs == CASE e.sib # NoSIB -> RegsSIB(e.mod, e.sib)
                       [] ~(e.sib # NoSIB) /\ e.mod = 0 /\ e.rm = 5 -> << >>
                       [] OTHER -> <<e.rm>>
             scalar == IF e.sib # NoSIB /\ e.sib[2] # 4 THEN e.sib[1] ELSE 0
  <2>1. Decode(sz, e) = [regs |-> regs, scalar |-> scalar, base |-> base,
                         segment |-> DefaultSegment(regs, e.segment)]
    BY <1>5 DEF Decode, Decode32
  <2>2. e.rm = Rm32(a.regs) /\ e.sib = SIB32(a) /\ e.mod = ModFor(4, a)
    BY <1>1, <1>5
  <2>3. a.regs = regs
    BY <1>5, <2>2, RegsKept32
  <2>4. a.scalar = scalar
    <3>1. ~ScaledIndexOnly(a) /\ Formed(4, a)
      BY <1>5
    <3>2. a.scalar = IF SIB32(a) # NoSIB /\ SIB32(a)[2] # 4 THEN SIB32(a)[1] ELSE 0
      BY <3>1, RegsKept32
    <3>3. QED
      BY <2>2, <3>2
  <2> HIDE DEF regs, scalar, base
  <2>5. SameAddress(sz, a, Decode(sz, e))
    BY <1>2, <1>3, <1>5, <2>1, <2>3, <2>4 DEF SameAddress
  <2>6. QED
    BY <2>5 DEF e
<1>6. QED
  BY <1>4, <1>5

(* A displacement the program left out decodes to zero, and one of a byte  *)
(* fits a byte.                                                            *)
LEMMA WithoutDisplacement ==
    ASSUME NEW sz \in {2, 4}, NEW c, Encoded(sz, c), c.width = 0
    PROVE  LET regs == Decode(sz, c).regs
           IN  /\ regs # <<BP>>
               /\ \A r : sz = 4 => regs # <<r, BP>>
<1> DEFINE regs == Decode(sz, c).regs
<1>1. /\ c.mod \in 0 .. 2 /\ c.rm \in Register
      /\ 0 = DispWidth(sz, c.mod, c.rm, c.sib)
      /\ \/ sz = 4 /\ c.sib \in SIBs
         \/ c.sib = NoSIB
  BY DEF Encoded, Code
<1>2. c.mod = 0
  BY <1>1 DEF DispWidth
<1>3. \A x, y : <<x>> # <<x, y>> /\ (<<x>> = <<BP>> => x = BP)
              /\ \A r : (<<x, y>> = <<r, BP>> => y = BP) /\ <<x>> # <<r, BP>>
                      /\ <<x, y>> # <<BP>>
  OBVIOUS
<1>4. CASE sz = 2
  <2>1. c.rm # 6 /\ c.rm \in {0, 1, 2, 3, 4, 5, 7}
    <3>1. c.rm # 6
      BY <1>1, <1>2, <1>4 DEF DispWidth
    <3>2. QED
      BY <1>1, <3>1 DEF Register
  <2>2. regs = Regs16(c.rm)
    BY <1>4, <2>1 DEF Decode, Decode16
  <2>3. Regs16(c.rm) # <<BP>>
    BY <2>1, Regs16Is DEF BP, BX, SI, DI
  <2>4. QED
    BY <1>4, <2>2, <2>3
<1>5. CASE sz = 4 /\ c.sib = NoSIB
  <2>1. c.rm # 5
    BY <1>1, <1>2, <1>5 DEF DispWidth
  <2>2. regs = <<c.rm>>
    BY <1>5, <2>1 DEF Decode, Decode32
  <2>3. QED
    BY <1>3, <2>1, <2>2 DEF BP
<1>6. CASE sz = 4 /\ c.sib \in SIBs
  <2>1. c.sib # NoSIB
    BY <1>6, SIBIsNotNone
  <2>2. c.sib[3] # 5
    BY <1>1, <1>2, <1>6, <2>1 DEF DispWidth
  <2>3. regs = RegsSIB(c.mod, c.sib)
    BY <1>6, <2>1 DEF Decode, Decode32
  <2>4. RegsSIB(c.mod, c.sib) = IF c.sib[2] = 4 THEN <<c.sib[3]>> ELSE <<c.sib[2], c.sib[3]>>
    BY <2>2 DEF RegsSIB
  <2>5. QED
    BY <1>3, <2>2, <2>3, <2>4 DEF BP
<1>7. QED
  BY <1>1, <1>4, <1>5, <1>6

LEMMA ModOfZero ==
    ASSUME NEW sz \in {2, 4}, NEW a, Formed(sz, a), a.base = 0, a.regs # <<BP>>,
           \A r : sz = 4 => a.regs # <<r, BP>>
    PROVE  ModFor(sz, a) = 0
<1>1. ModOfBase(sz, a.base) = 0
  BY DEF ModOfBase
<1>2. CASE Len(a.regs) = 0
  BY <1>2 DEF ModFor
<1>3. ASSUME NEW r \in Register, a.regs = <<r>> PROVE ModFor(sz, a) = 0
  <2>1. Len(a.regs) = 1 /\ a.regs[1] = r /\ r # BP
    BY <1>3
  <2>2. QED
    BY <1>1, <2>1 DEF ModFor
<1>4. ASSUME NEW r \in Register, NEW q \in Register, a.regs = <<r, q>>
      PROVE  ModFor(sz, a) = 0
  <2>1. Len(a.regs) = 2 /\ a.regs[2] = q /\ (sz = 4 => q # BP)
    BY <1>4
  <2>2. QED
    BY <1>1, <2>1 DEF ModFor
<1>5. QED
  BY <1>2, <1>3, <1>4, FormedFacts

LEMMA EncodeIsNoLonger ==
    ASSUME NEW sz \in {2, 4}, NEW c, Encoded(sz, c), Decode(sz, c).regs # << >>
    PROVE  LET e == Encode(sz, Decode(sz, c), c.segment # NoSegment)
           IN  /\ e.width <= c.width
               /\ e.segment # NoSegment => c.segment # NoSegment
<1> DEFINE a == Decode(sz, c)
           e == Encode(sz, a, c.segment # NoSegment)
<1>1. Formed(sz, a)
  BY DecodeForms
<1>2. /\ a.base = IF c.width = 0 THEN 0 ELSE c.disp
      /\ a.segment = DefaultSegment(a.regs, c.segment)
  BY DEF Decode, Decode16, Decode32
<1>3. a.regs # << >>
  OBVIOUS
<1>4. e.segment = SegOverride(a, c.segment # NoSegment)
  BY EncodeIs
<1>5. e.width = IF ModFor(sz, a) = 1 THEN 1
                ELSE IF ModFor(sz, a) = 2 \/ a.regs = << >> THEN sz ELSE 0
  BY <1>1, BaseIsKept
<1>6. e.segment # NoSegment => c.segment # NoSegment
  BY <1>2, <1>4 DEF SegOverride, DefaultSegment
<1>7. c.width \in {0, 1, 2, 4} /\ (c.width = 0 => c.disp = 0)
      /\ (c.width = 1 => c.disp \in -128 .. 127)
      /\ c.width = DispWidth(sz, c.mod, c.rm, c.sib)
  BY DEF Encoded, Code
<1>8. c.width = 0 => ModFor(sz, a) = 0
  <2>1. SUFFICES ASSUME c.width = 0 PROVE ModFor(sz, a) = 0
    OBVIOUS
  <2>2. a.regs # <<BP>> /\ \A r : sz = 4 => a.regs # <<r, BP>>
    BY <2>1, WithoutDisplacement
  <2>3. a.base = 0
    BY <1>2, <2>1
  <2> HIDE DEF a
  <2>4. QED
    BY <1>1, <2>2, <2>3, ModOfZero
<1>9. c.width = 1 => ModFor(sz, a) \in {0, 1}
  <2>1. SUFFICES ASSUME c.width = 1 PROVE ModFor(sz, a) \in {0, 1}
    OBVIOUS
  <2>2. a.base \in -128 .. 127
    BY <1>2, <1>7, <2>1
  <2> HIDE DEF a
  <2>3. FitsByte(sz, a.base)
    BY <2>2, SignedByte DEF FitsByte
  <2>4. QED
    BY <1>1, <2>3, ModForIs
<1>10. c.width \in {0, 1, sz}
  <2>1. c.mod \in 0 .. 2
    BY DEF Encoded, Code
  <2>2. CASE sz = 2
    BY <1>7, <2>1, <2>2 DEF DispWidth
  <2>3. CASE sz = 4
    BY <1>7, <2>1, <2>3 DEF DispWidth
  <2>4. QED
    BY <2>2, <2>3
<1> HIDE DEF a, e
<1>11. e.width <= c.width
  BY <1>3, <1>5, <1>8, <1>9, <1>10, ModForIs, <1>1
<1>12. QED
  BY <1>6, <1>11 DEF a, e

-----------------------------------------------------------------------------
(* The invariant.  What is claimed of the second decode holds because the  *)
(* code is what the encoder wrote for the operand, and of that because the *)
(* operand is one the first decode makes.                                  *)

AddressIInv ==
    /\ size \in {2, 4}
    /\ \/ stage = "given" /\ Encoded(size, code) /\ arg = << >> /\ again = << >>
       \/ stage = "decoded" /\ Encoded(size, code) /\ arg = Decode(size, code) /\ again = << >>
       \/ /\ stage = "encoded" /\ Formed(size, arg) /\ again = << >>
          /\ \E forced \in BOOLEAN : code = Encode(size, arg, forced)
       \/ /\ stage = "again" /\ Formed(size, arg) /\ again = Decode(size, code)
          /\ \E forced \in BOOLEAN : code = Encode(size, arg, forced)

LEMMA DispsAre ==
    DispsOf(0) = {0} /\ DispsOf(1) = Disp8 /\ DispsOf(2) = Disp16 /\ DispsOf(4) = Disp32
  BY DEF DispsOf

LEMMA GivenEstablishes == Given => AddressIInv
<1> SUFFICES ASSUME Given PROVE AddressIInv
  OBVIOUS
<1>1. stage = "given" /\ arg = << >> /\ again = << >> /\ size \in {2, 4}
  BY SizesAssumption DEF Given
<1>2. PICK mod \in 0 .. 2, rm \in Register :
        \E sib \in IF size = 4 /\ rm = 4 THEN SIBs ELSE {NoSIB} :
        \E disp \in DispsOf(DispWidth(size, mod, rm, sib)),
           segment \in Segment \cup {NoSegment} :
             code = [mod |-> mod, rm |-> rm, sib |-> sib,
                     width |-> DispWidth(size, mod, rm, sib),
                     disp |-> disp, segment |-> segment]
  BY DEF Given
<1>3. PICK sib \in IF size = 4 /\ rm = 4 THEN SIBs ELSE {NoSIB} :
        \E disp \in DispsOf(DispWidth(size, mod, rm, sib)),
           segment \in Segment \cup {NoSegment} :
             code = [mod |-> mod, rm |-> rm, sib |-> sib,
                     width |-> DispWidth(size, mod, rm, sib),
                     disp |-> disp, segment |-> segment]
  BY <1>2
<1>4. PICK disp \in DispsOf(DispWidth(size, mod, rm, sib)),
           segment \in Segment \cup {NoSegment} :
        code = [mod |-> mod, rm |-> rm, sib |-> sib,
                width |-> DispWidth(size, mod, rm, sib), disp |-> disp, segment |-> segment]
  BY <1>3
<1> DEFINE width == DispWidth(size, mod, rm, sib)
<1>5. width \in {0, 1, 2, 4}
  BY <1>1 DEF DispWidth
<1>6. disp \in DispsOf(width)
  OBVIOUS
<1> HIDE DEF width
<1>7. /\ disp \in Int
      /\ width = 0 => disp = 0
      /\ width = 1 => disp \in -128 .. 127
  <2>1. CASE width = 0
    BY <1>6, <2>1 DEF DispsOf
  <2>2. CASE width = 1
    <3>1. disp \in Disp8
      BY <1>6, <2>2, DispsAre
    <3>2. disp \in -128 .. 127
      BY <3>1, Disp8Assumption
    <3>3. QED
      BY <2>2, <3>2
  <2>3. CASE width = 2
    <3>1. disp \in Disp16
      BY <1>6, <2>3, DispsAre
    <3>2. QED
      BY SMTT(30), <2>3, <3>1, Disp16Assumption
  <2>4. CASE width = 4
    <3>1. disp \in Disp32
      BY <1>6, <2>4, DispsAre
    <3>2. QED
      BY <2>4, <3>1, Disp32Assumption
  <2>5. QED
    BY <1>5, <2>1, <2>2, <2>3, <2>4
<1>8. /\ code.mod = mod /\ code.rm = rm /\ code.sib = sib /\ code.width = width
      /\ code.disp = disp /\ code.segment = segment
      /\ code = [mod |-> mod, rm |-> rm, sib |-> sib, width |-> width,
                 disp |-> disp, segment |-> segment]
  BY <1>4 DEF width
<1>9. IF size = 4 /\ rm = 4 THEN sib \in SIBs ELSE sib = NoSIB
  OBVIOUS
<1>10. code \in Code
  <2>1. sib \in {NoSIB} \cup SIBs
    BY <1>9
  <2>2. QED
    BY <1>5, <1>7, <1>8, <2>1 DEF Code
<1>11. Encoded(size, code)
  <2>1. width = DispWidth(size, code.mod, code.rm, code.sib)
    BY <1>8 DEF width
  <2>2. QED
    BY <1>7, <1>8, <1>9, <1>10, <2>1 DEF Encoded
<1>12. QED
  BY <1>1, <1>11 DEF AddressIInv

LEMMA StepKeeps == AddressIInv /\ [Next]_vars => AddressIInv'
<1> SUFFICES ASSUME AddressIInv, [Next]_vars PROVE AddressIInv'
  OBVIOUS
<1>1. CASE FirstDecode
  BY <1>1 DEF FirstDecode, AddressIInv
<1>2. CASE Recode
  <2>1. Encoded(size, code) /\ arg = Decode(size, code) /\ again = << >> /\ size \in {2, 4}
    BY <1>2 DEF Recode, AddressIInv
  <2>2. Formed(size, arg)
    BY <2>1, DecodeForms
  <2>3. (code.segment # NoSegment) \in BOOLEAN
    OBVIOUS
  <2>4. /\ stage' = "encoded" /\ size' = size /\ arg' = arg /\ again' = again
        /\ code' = Encode(size, arg, code.segment # NoSegment)
    BY <1>2 DEF Recode
  <2>5. \E forced \in BOOLEAN : code' = Encode(size', arg', forced)
    BY <2>3, <2>4
  <2>6. Formed(size', arg')
    BY <2>2, <2>4
  <2>7. QED
    BY <2>1, <2>4, <2>5, <2>6 DEF AddressIInv
<1>3. CASE SecondDecode
  BY <1>3 DEF SecondDecode, AddressIInv
<1>4. CASE UNCHANGED vars
  BY <1>4 DEF vars, AddressIInv
<1>5. QED
  BY <1>1, <1>2, <1>3, <1>4 DEF Next

THEOREM AddressInvariant == Spec => []AddressIInv
  BY GivenEstablishes, StepKeeps, PTL DEF Spec

(* Type correctness: every operand decoded has at most two registers, a    *)
(* scale of two bits and a segment, and every operand written is one the   *)
(* decoder can be given.                                                   *)
THEOREM AddressTypeCorrect == Spec => []AddressTypeOK
<1>1. AddressIInv => AddressTypeOK
  <2> SUFFICES ASSUME AddressIInv PROVE AddressTypeOK
    OBVIOUS
  <2>1. size \in {2, 4} /\ stage \in {"given", "decoded", "encoded", "again"}
    BY DEF AddressIInv
  <2>2. Encoded(size, code)
    BY EncodeEncodes DEF AddressIInv
  <2>3. arg = << >> \/ Formed(size, arg)
    BY DecodeForms DEF AddressIInv
  <2>4. again = << >> \/ again = Decode(size, code)
    BY DEF AddressIInv
  <2>5. Formed(size, Decode(size, code))
    BY <2>1, <2>2, DecodeForms
  <2>6. QED
    BY <2>1, <2>2, <2>3, <2>4, <2>5 DEF AddressTypeOK, Encoded, Formed
<1>2. QED
  BY <1>1, AddressInvariant, PTL

(* What minx86enc_encode_memreg and minx86enc_seg_overrides write decodes  *)
(* to the same address in the same segment, for every displacement, but    *)
(* for a scaled index without base.                                        *)
THEOREM AddressSurvivesRecoding == Spec => []RecodeKeepsAddress
<1>1. AddressIInv => RecodeKeepsAddress
  <2> SUFFICES ASSUME AddressIInv, stage = "again", ~ScaledIndexOnly(arg)
               PROVE  SameAddress(size, arg, again)
    BY DEF RecodeKeepsAddress
  <2>1. size \in {2, 4} /\ Formed(size, arg) /\ again = Decode(size, code)
    BY DEF AddressIInv
  <2>2. PICK forced \in BOOLEAN : code = Encode(size, arg, forced)
    BY DEF AddressIInv
  <2>3. QED
    BY <2>1, <2>2, EncodeThenDecode
<1>2. QED
  BY <1>1, AddressInvariant, PTL

(* The encoder never takes a longer displacement than the program had, and *)
(* adds no segment prefix, where a register is named.                      *)
THEOREM RecodingIsNoLonger == Spec => RecodeIsNoLonger
<1>1. AddressIInv /\ [Next]_vars =>
        [(Recode /\ arg.regs # << >>) =>
            /\ code'.width <= code.width
            /\ code'.segment # NoSegment => code.segment # NoSegment]_vars
  <2> SUFFICES ASSUME AddressIInv, Recode, arg.regs # << >>
               PROVE  /\ code'.width <= code.width
                      /\ code'.segment # NoSegment => code.segment # NoSegment
    OBVIOUS
  <2>1. Encoded(size, code) /\ arg = Decode(size, code) /\ size \in {2, 4}
    BY DEF Recode, AddressIInv
  <2>2. code' = Encode(size, Decode(size, code), code.segment # NoSegment)
    BY <2>1 DEF Recode
  <2>3. QED
    BY <2>1, <2>2, EncodeIsNoLonger
<1>2. QED
  BY <1>1, AddressInvariant, PTL DEF Spec, RecodeIsNoLonger
=============================================================================
