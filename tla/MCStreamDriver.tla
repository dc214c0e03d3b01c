--------------------------- MODULE MCStreamDriver ---------------------------
(***************************************************************************)
(* Files shorter than tmp and longer, which tmp or the buffer ends.        *)
(***************************************************************************)
EXTENDS StreamDriver

CONSTANTS FileBytes, FileLengths, GroupLength, LongLength

(* ES:, ADD r/m,imm16, LES, FWAIT and an FPU escape.                       *)
DriverBytes == {\h26, \h81, \hC4, \h9B, \hD8}

(* ADD r/m,reg, POP r/m, CALL FAR (two operands without ModR/M), an FPU    *)
(* escape with holes in its table, REPE, and the groups F7 and FF, which   *)
(* have invalid reg fields.                                                *)
GroupBytes == {\h00, \h8F, \h9A, \hDB, \hF3, \hF7, \hFF}

(* Prefixes that fill tmp and end before the buffer does, and ADD.         *)
LongBytes == {\h26, \h81}

(* The bytes of a window: those of the file, the zeros behind it and what  *)
(* stands behind buffer.                                                   *)
WindowBytes == DriverBytes \cup GroupBytes

(* memset(tmp,0xFF,64), and what may stand behind that.                    *)
Wiped      == {\hFF}
StaleBytes == {\hFF, \h26}

SomeFiles == UNION {[1 .. n -> FileBytes] : n \in FileLengths}
                \cup [1 .. GroupLength -> GroupBytes]
                \cup [1 .. LongLength -> LongBytes]
=============================================================================
