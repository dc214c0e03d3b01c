--------------------------- MODULE MemoryOperand ---------------------------
(***************************************************************************)
(* Memory operands: how decode_rm_x86 (src/x86_core_macros.h) makes a      *)
(* minx86dec_argv of the ModR/M and SIB bytes and the displacement, and    *)
(* how minx86enc_seg_overrides and minx86enc_encode_memreg                 *)
(* (src/encoreall.c) turn that into prefix, ModR/M and SIB bytes and       *)
(* displacement again.                                                     *)
(*                                                                         *)
(* Encoded operands are kept as their fields.  A displacement of one or    *)
(* four bytes is kept as the signed number, one of two bytes as 0..65535.  *)
(***************************************************************************)
EXTENDS Layout8086

(* Register numbers, MX86_REG_ of state.h; the same for 16 and 32 bits.    *)
Register == 0 .. 7
BX == 3
SP == 4
BP == 5
SI == 6
DI == 7

(* Segment registers, MX86_SEG_ES to MX86_SEG_GS; none is NoSegment.       *)
Segment == 0 .. 5
SS      == 2
DS      == 3

NoSIB   == << >>

-----------------------------------------------------------------------------
(* decode_rm_x86.                                                          *)

(* rm_addr16_mapping, and the second register of the forms with two.       *)
Regs16(rm) ==
    LET first == <<BX, BX, BP, BP, SI, DI, BP, BX>>[rm + 1]
    IN  IF rm < 4 THEN <<first, SI + (rm % 2)>> ELSE <<first>>

(* Mutant: no default.                                                     *)
DefaultSegmentNone(regs, override) ==
    IF override = NoSegment /\ BP \in {regs[i] : i \in DOMAIN regs} THEN SS ELSE override

DefaultSegment(regs, override) ==
    IF override # NoSegment THEN override
    ELSE IF \E i \in DOMAIN regs : regs[i] \in {BP, SP} THEN SS ELSE DS

(* The code looks only at the first of two 16-bit registers; the second is *)
(* SI or DI.                                                               *)
Decode16(c) ==
    LET direct == c.mod = 0 /\ c.rm = 6
        regs   == IF direct THEN << >> ELSE Regs16(c.rm)
    IN  [regs |-> regs, scalar |-> 0,
         base |-> IF c.width = 0 THEN 0 ELSE c.disp,
         segment |-> DefaultSegment(regs, c.segment)]

(* SIB: the index register 4 means none, base 5 with mod 0 means disp32.   *)
RegsSIB(mod, sib) ==
    LET index == sib[2]
        base  == sib[3]
    IN  CASE index = 4 /\ base # 5             -> <<base>>
          [] index = 4 /\ base = 5             -> << >>
          [] index # 4 /\ base = 5 /\ mod = 0  -> <<index>>
          [] OTHER                             -> <<index, base>>

Decode32(c) ==
    LET sib  == c.sib # NoSIB
        regs == CASE sib -> RegsSIB(c.mod, c.sib)
                  [] ~sib /\ c.mod = 0 /\ c.rm = 5 -> << >>
                  [] OTHER -> <<c.rm>>
    IN  [regs |-> regs,
         scalar |-> IF sib /\ c.sib[2] # 4 THEN c.sib[1] ELSE 0,
         base |-> IF c.width = 0 THEN 0 ELSE c.disp,
         segment |-> DefaultSegment(regs, c.segment)]

Decode(sz, c) == IF sz = 2 THEN Decode16(c) ELSE Decode32(c)

(* The displacement decode_rm_x86 fetches for a ModR/M and a SIB byte.     *)
DispWidth(sz, mod, rm, sib) ==
    CASE mod = 1 -> 1
      [] mod = 2 -> sz
      [] mod = 0 /\ sz = 2 -> IF rm = 6 THEN 2 ELSE 0
      [] OTHER -> IF rm = 5 \/ (sib # NoSIB /\ sib[3] = 5) THEN 4 ELSE 0

-----------------------------------------------------------------------------
(* The encoder.                                                            *)

Signed(x, bits) == LET m == x % 2 ^ bits
                   IN  IF m >= 2 ^ (bits - 1) THEN m - 2 ^ bits ELSE m

(* minx86enc_seg_overrides: the segment whose prefix it writes.  Without    *)
(* force_seg_override none where the registers imply the segment.           *)
SegOverride(a, forced) ==
    LET impliesSS == \E i \in DOMAIN a.regs : a.regs[i] \in {SP, BP}
        implied   == \/ a.segment = DS /\ ~impliesSS
                     \/ a.segment = SS /\ impliesSS
    IN  IF implied /\ ~forced THEN NoSegment ELSE a.segment

(* Mutant: the byte taken as unsigned.                                     *)
FitsByteUnsigned(sz, base) == base \in 0 .. 127

FitsByte(sz, base) ==
    IF sz = 4 THEN base \in -128 .. 127 ELSE Signed(base, 16) \in -128 .. 127

ModOfBase(sz, base) ==
    IF base = 0 THEN 0 ELSE IF FitsByte(sz, base) THEN 1 ELSE 2

(* Mutant: [EBP] and [BP] encoded like the others.                         *)
ModForPlain(sz, a) == IF a.regs = << >> THEN 0 ELSE ModOfBase(sz, a.base)

(* [EBP] and [BP] have no form without a displacement.                     *)
ModFor(sz, a) ==
    LET mod  == ModOfBase(sz, a.base)
        n    == Len(a.regs)
    IN  CASE n = 0 -> 0
          [] n = 1 /\ mod = 0 /\ a.regs[1] = BP -> 1
          [] n = 2 /\ sz = 4 /\ mod = 0 /\ a.regs[2] = BP -> 1
          [] OTHER -> mod

Rm16(regs) ==
    CASE Len(regs) = 0 -> 6
      [] Len(regs) = 1 -> (CASE regs[1] = SI -> 4 [] regs[1] = DI -> 5
                             [] regs[1] = BP -> 6 [] regs[1] = BX -> 7)
      [] OTHER -> (IF regs[1] = BP THEN 2 ELSE 0) + (IF regs[2] = DI THEN 1 ELSE 0)

Rm32(regs) ==
    CASE Len(regs) = 0 -> 5 [] Len(regs) = 1 -> regs[1] [] OTHER -> 4

(* A SIB byte <<scale, index, base>> for two registers and for [ESP].      *)
SIB32(a) ==
    CASE Len(a.regs) = 2 -> <<a.scalar, a.regs[1], a.regs[2]>>
      [] a.regs = <<SP>> -> <<a.scalar, 4, SP>>
      [] OTHER           -> NoSIB

Encode(sz, a, forced) ==
    LET mod   == ModFor(sz, a)
        width == IF mod = 1 THEN 1
                 ELSE IF mod = 2 \/ Len(a.regs) = 0 THEN sz ELSE 0
    IN  [mod     |-> mod,
         rm      |-> IF sz = 2 THEN Rm16(a.regs) ELSE Rm32(a.regs),
         sib     |-> IF sz = 2 THEN NoSIB ELSE SIB32(a),
         width   |-> width,
         disp    |-> CASE width = 0 -> 0
                       [] width = 1 -> Signed(a.base, 8)
                       [] width = 2 -> a.base % 65536
                       [] width = 4 -> a.base,
         segment |-> SegOverride(a, forced)]
=============================================================================
