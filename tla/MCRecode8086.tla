--------------------------- MODULE MCRecode8086 ---------------------------
(* Every opcode, with the ModR/M bytes, displacements, prefixes and        *)
(* positions at which the encoder takes different paths.                   *)
EXTENDS Recode8086

Jumps == \h70 .. \h7F \cup \hE0 .. \hE3 \cup {\hE8, \hE9, \hEB}

(* Opcodes followed by a ModR/M byte or one like it.                       *)
Groups == ModRMOpcodes \cup PeekOpcodes \cup FPUEscapes
Others == Byte \ (Groups \cup Jumps \cup PrefixBytes)

Prefixed == {<<\h26>>, <<\h36>>, <<\h3E>>, <<\hF0>>, <<\h9B>>, <<\h9B, \h3E>>}

(* Displacements and immediates: short and long, of either sign, and 0.    *)
Tails == {<<0, 0, 0, 0>>, <<1, 0, 1, 0>>, <<\h7F, 0, \h80, 0>>, <<\h80, \hFF, \hFF, \hFF>>}

Far == 256
MCZeros == [i \in 1 .. 8 |-> 0]

(* Encodings whose target does not depend on the position, at one.         *)
GroupInputs    == {<<Far, <<b, x>> \o t>> : b \in Groups, x \in Byte, t \in Tails}
PrefixedGroups == {<<Far, p \o <<b, x, \h7F, 0, \h80, 0>> >> :
                       p \in Prefixed, b \in Groups, x \in Byte}
OtherInputs    == {<<Far, p \o <<b>> \o t>> :
                       p \in Prefixed \cup {<< >>, <<\hF3>>}, b \in Others, t \in Tails}

(* At 65408 a short jump forward crosses the top of the segment.           *)
JumpInputs ==
    {<<at, p \o <<b, lo, hi, 0>> >> :
        at \in {0, 200, 16383, 65408}, p \in {<< >>, <<\h26>>, <<\h26, \hF0>>}, b \in Jumps,
        lo \in {0, \h7E, \h7F, \h80}, hi \in {0, \h7F, \hFF}}

MCInputs == {GroupInputs, PrefixedGroups, OtherInputs, JumpInputs}

(* 0xDC with a register.                                                   *)
FsubInputs == {{<<at, <<\hDC, x>> >> : at \in {0, Far}, x \in \hC0 .. \hFF}}
=============================================================================
