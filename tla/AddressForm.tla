---------------------------- MODULE AddressForm ----------------------------
(***************************************************************************)
(* Memory operands through the decoder and the encoder.                    *)
(*                                                                         *)
(* README offers to "ENCODE opcodes, using the decompiled instruction      *)
(* struct", and the recode programs do just that: decode an instruction,   *)
(* encode the structure, decode the result.  This module takes the memory  *)
(* operand along that way, with 16-bit and 32-bit addressing.              *)
(***************************************************************************)
EXTENDS MemoryOperand

CONSTANTS
    Disp8, Disp16, Disp32,   \* displacements to try, by width
    Sizes                    \* memregsz: 2 for 16-bit, 4 for 32-bit addressing

ASSUME Disp8Assumption == Disp8 \subseteq -128 .. 127
ASSUME Disp16Assumption == Disp16 \subseteq 0 .. 65535
ASSUME Disp32Assumption == Disp32 \subseteq Int
ASSUME SizesAssumption == Sizes \subseteq {2, 4}

VARIABLES
    stage,    \* "given", "decoded", "encoded", "again"
    size,     \* memregsz
    code,     \* the encoded operand: given, and from the encoder
    arg,      \* what the first decode made of it
    again     \* what the decode of the re-encoded operand made of it

vars == <<stage, size, code, arg, again>>

-----------------------------------------------------------------------------
(* The recode programs: ins->segment is set exactly if the program has an  *)
(* override, and every caller of minx86enc_seg_overrides forces it then.    *)

DispsOf(width) ==
    CASE width = 0 -> {0} [] width = 1 -> Disp8
      [] width = 2 -> Disp16 [] width = 4 -> Disp32

(* Every SIB byte, with the scale as it stands in the byte.                *)
SIBs == (0 .. 3) \X Register \X Register

Given ==
    /\ stage = "given"
    /\ arg = << >> /\ again = << >>
    /\ size \in Sizes
    /\ \E mod \in 0 .. 2, rm \in Register :
       \E sib \in IF size = 4 /\ rm = 4 THEN SIBs ELSE {NoSIB} :
       \E disp \in DispsOf(DispWidth(size, mod, rm, sib)),
          segment \in Segment \cup {NoSegment} :
             code = [mod |-> mod, rm |-> rm, sib |-> sib,
                     width |-> DispWidth(size, mod, rm, sib),
                     disp |-> disp, segment |-> segment]

FirstDecode ==
    /\ stage = "given"
    /\ stage' = "decoded"
    /\ arg' = Decode(size, code)
    /\ UNCHANGED <<size, code, again>>

Recode ==
    /\ stage = "decoded"
    /\ stage' = "encoded"
    /\ code' = Encode(size, arg, code.segment # NoSegment)
    /\ UNCHANGED <<size, arg, again>>

SecondDecode ==
    /\ stage = "encoded"
    /\ stage' = "again"
    /\ again' = Decode(size, code)
    /\ UNCHANGED <<size, code, arg>>

Next == FirstDecode \/ Recode \/ SecondDecode

Spec == Given /\ [][Next]_vars

-----------------------------------------------------------------------------
Code == [mod : 0 .. 2, rm : Register, sib : {NoSIB} \cup SIBs,
         width : {0, 1, 2, 4}, disp : Int, segment : Segment \cup {NoSegment}]

Args == [regs : UNION {[1 .. n -> Register] : n \in 0 .. 2},
         scalar : 0 .. 3, base : Int, segment : Segment]

AddressTypeOK ==
    /\ stage \in {"given", "decoded", "encoded", "again"}
    /\ size \in {2, 4}
    /\ code \in Code
    /\ arg \in Args \cup {<< >>}
    /\ again \in Args \cup {<< >>}

(* A scaled index without a base register, which only a SIB byte can name. *)
ScaledIndexOnly(a) == Len(a.regs) = 1 /\ a.scalar # 0

SameAddress(sz, a, b) ==
    /\ a.regs = b.regs /\ a.scalar = b.scalar /\ a.segment = b.segment
    /\ IF sz = 2 THEN a.base % 65536 = b.base % 65536 ELSE a.base = b.base

(* What the encoder writes for a decoded operand decodes to the same       *)
(* address in the same segment, although it picks other mod, width and     *)
(* prefix than the program had; only the scaled index without base is not  *)
(* covered.                                                                *)
RecodeKeepsAddress ==
    (stage = "again" /\ ~ScaledIndexOnly(arg)) => SameAddress(size, arg, again)

(* Re-encoding never lengthens the displacement or adds a prefix, except   *)
(* for a direct address, and for the redundant SIB forms of it.            *)
RecodeIsNoLonger ==
    [][(Recode /\ arg.regs # << >>) =>
          /\ code'.width <= code.width
          /\ code'.segment # NoSegment => code.segment # NoSegment]_vars

(* README:22: "you can also ENCODE opcodes, using the decompiled instruction *)
(* struct".                                                                *)
DecompiledCanBeEncoded == stage = "again" => SameAddress(size, arg, again)
=============================================================================
