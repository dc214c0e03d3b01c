------------------------------ MODULE Flat8086 ------------------------------
(***************************************************************************)
(* What one decode of the 8086 core makes of a byte sequence when every    *)
(* byte it looks at is there: minx86dec_decode8086 of src/core8086.c, whose *)
(* fetch functions just read *cip and step.  It is written from the        *)
(* positions of the fields, not as a walk over the bytes, and serves as    *)
(* the reference for the streaming core.                                   *)
(***************************************************************************)
EXTENDS Layout8086

(* Byte i of s is consumed as a prefix.  0x9B looks one byte further.      *)
PrefixAt(s, i) ==
    \/ s[i] \in SegOverrides \cup LockPrefixes \cup RepPrefixes
    \/ s[i] = WaitOpcode /\ i < Len(s) /\ Waitable(s[i + 1])

(* The number of prefixes s begins with.                                   *)
PrefixLength(s) ==
    CHOOSE n \in 0 .. Len(s) :
        /\ n < Len(s) => ~PrefixAt(s, n + 1)
        /\ \A i \in 1 .. n : PrefixAt(s, i)

(* Of several prefixes of one kind the last one counts.                    *)
LastPrefix(s, kind) ==
    LET at == {i \in 1 .. PrefixLength(s) : s[i] \in kind}
    IN  IF at = {} THEN NoByte ELSE s[CHOOSE i \in at : \A j \in at : j <= i]

SegmentPut(s) ==
    LET b == LastPrefix(s, SegOverrides)
    IN  IF b = NoByte THEN NoSegment ELSE SegmentOf(b)

RepPut(s) ==
    LET b == LastPrefix(s, RepPrefixes) IN IF b = NoByte THEN 0 ELSE RepOf(b)

Seen(s, kind) == IF \E i \in 1 .. PrefixLength(s) : s[i] \in kind THEN 1 ELSE 0

(* Opcode b followed by byte x decodes x as a ModR/M byte.                 *)
TakesModRM(b, x) ==
    \/ b \in ModRMOpcodes
    \/ b \in PeekOpcodes /\ ~IsExtension(x)
    \/ b \in FPUEscapes /\ FPUMemory(b, x)

OperandWidths(b, x) ==
    IF TakesModRM(b, x) THEN Displacement(x) \o ImmAfterRM(b, x)
    ELSE IF b \in FPUEscapes \cup PeekOpcodes THEN << >>
    ELSE Immediates(b)

OutcomeOf(b, x) ==
    CASE b \in Absent                           -> "UD_NOP"
      [] b \in FPUEscapes                       -> FPUOutcome(b, x)
      [] b \in PeekOpcodes /\ IsExtension(x)    -> "UD_NOP"
      [] b \in ModRMOpcodes                     -> GroupOutcome(b, x)
      [] b \in PeekOpcodes /\ ~IsExtension(x)   -> GroupOutcome(b, x)
      [] OTHER                                  -> "OK"

(* Where the operands begin: behind the prefixes, the opcode and the byte  *)
(* that goes with it.                                                      *)
OperandsAt(s) ==
    LET n == PrefixLength(s)
        b == s[n + 1]
    IN  IF b \in FPUEscapes \/ (n + 2 <= Len(s) /\ TakesModRM(b, s[n + 2]))
        THEN n + 2 ELSE n + 1

(* The decode of s, which must hold the whole instruction.                 *)
FlatDecode(s) ==
    LET n      == PrefixLength(s)
        b      == s[n + 1]
        x      == IF n + 2 <= Len(s) THEN s[n + 2] ELSE NoByte
        widths == OperandWidths(b, x)
        at     == OperandsAt(s)
        offset == <<at,
                    at + (IF Len(widths) > 0 THEN widths[1] ELSE 0),
                    at + (IF Len(widths) > 0 THEN widths[1] ELSE 0)
                       + (IF Len(widths) > 1 THEN widths[2] ELSE 0)>>
        result == OutcomeOf(b, x)
    IN  [op      |-> result,
         lead    |-> b,
         fpu     |-> IF b \in FPUEscapes THEN x ELSE NoByte,
         rm      |-> IF TakesModRM(b, x) THEN x ELSE NoByte,
         args    |-> [i \in DOMAIN widths |-> ValueAt(s, offset[i], widths[i])],
         segment |-> SegmentPut(s),
         rep     |-> RepPut(s),
         lock    |-> Seen(s, LockPrefixes),
         fwait   |-> Seen(s, {WaitOpcode}),
         len     |-> IF result = "UD_NOP" THEN 2
                     ELSE offset[Len(widths) + 1]]

(* The bytes of s that decode looks at: those it consumes, and the one it  *)
(* peeks at behind 0x8F, 0x9B, 0xC4 and 0xC5.                              *)
Reach(s) ==
    LET n == PrefixLength(s)
        b == s[n + 1]
        x == IF n + 2 <= Len(s) THEN s[n + 2] ELSE NoByte
        w == OperandWidths(b, x)
        size == (IF Len(w) > 0 THEN w[1] ELSE 0) + (IF Len(w) > 1 THEN w[2] ELSE 0)
    IN  IF b \in PeekOpcodes \cup {WaitOpcode} /\ w = << >> THEN n + 2
        ELSE OperandsAt(s) + size
=============================================================================
