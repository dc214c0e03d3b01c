---------------------------- MODULE MCFlatDriver ----------------------------
(***************************************************************************)
(* Short files, and longer ones over fewer bytes; the margin is shortened  *)
(* with them, so that files are longer than it, as long, and shorter.      *)
(***************************************************************************)
EXTENDS FlatDriver

CONSTANTS ShortMax, LongMax

(* ES:, ADD r/m,imm16 (the longest instruction) and FWAIT; in short files  *)
(* also an FPU escape and MOV r/m,imm16, which with a wrong reg field ends *)
(* in front of operands that were looked at.                               *)
LongBytes  == {\h26, \h81, \h9B}
ShortBytes == LongBytes \cup {\hD8, \hC7}

SomeFiles == UNION {[1 .. n -> ShortBytes] : n \in 1 .. ShortMax}
                \cup UNION {[1 .. n -> LongBytes] : n \in 1 .. LongMax}

(* Static zeros, and what may follow a full buffer: a prefix, an escape.   *)
BehindBytes == {\h00, \h26, \hDB}
=============================================================================
