---------------------------- MODULE MCRecodeAll ----------------------------
(* Every opcode of two bytes and those of three, with the prefixes, the    *)
(* ModR/M bytes and the modes at which the encoder takes different paths.  *)
EXTENDS RecodeAll

AllModes == Mode \X Mode
MCZeros  == [i \in 1 .. 16 |-> 0]

At == 512

Doubled == <<DataPrefix, DataPrefix>>
Plain   == {<< >>, <<DataPrefix>>, Doubled, <<\hF2>>, <<\hF3>>}
Others  == {<<AddrPrefix>>, <<\h3E>>, <<\h64>>, <<\hF0>>, <<DataPrefix, \hF3>>}

(* Registers 1 and 2; [BX+DI] or [ECX]; with a displacement of each width; *)
(* an address alone; a scaled index; and each reg field.                   *)
RMs          == {<<\hCA>>, <<\h11>>, <<\h4F, \h80>>, <<\hA7, 0, 1, 0, 0>>, <<\h1E, \h34, 2>>,
                 <<\h2D, \h34, 2, 0, 0>>, <<\h34, \h8A>>, <<\h04, \h8D, 1, 2, 0, 0>>, <<\h7C, \h24, 2>>,
                 <<\h7C, \h25, 2>>}
FewRMs       == {<<\hCA>>, <<\h4F, \h80>>, <<\h2C, \h8A>>}
RegFields    == {<<b>> : b \in {8 * r + m : r \in 0 .. 7, m \in {0, \hC1}}}

(* The groups, whose reg field or whole byte is part of the opcode.        *)
GroupOpcodes == {<<\h0F, b>> : b \in {\h00, \h01, \h0D, \h18, \h1F, \hA6, \hA7, \hAE, \hBA, \hC7}}
Rest         == {<<\h0F, b>> : b \in Byte \ {\h38, \h3A, \h0F}}
ThreeByte    == {<<\h0F, \h38, b>> : b \in {\h14, \h15, \h17, \h2A, \h80, \hF0, \hF1}}
                \cup {<<\h0F, \h3A, b>> : b \in {\h0C, \h0D, \h0F, \h17, \h21, \h40, \h41, \h63}}

Following == <<\h83, 1, 2, 3, 4, 5>>

CaseOf(p, op, m) == <<At, p \o op \o m \o Following>>

PlainInputs  == {CaseOf(p, op, m) : p \in Plain, op \in Rest \cup ThreeByte, m \in RMs}
OtherInputs  == {CaseOf(p, op, m) : p \in Others, op \in Rest \cup ThreeByte, m \in FewRMs}
GroupInputs  == {CaseOf(p, op, m) : p \in {<< >>, <<DataPrefix>>, <<\hF3>>, <<\h26>>},
                                  op \in GroupOpcodes, m \in RegFields}
MonitorInputs == {CaseOf(p, <<\h0F, \h01, b>>, << >>) : p \in {<< >>, <<DataPrefix>>},
                                                      b \in \hC0 .. \hFF}
JumpInputs   == {<<0, <<\h0F, b, lo, hi, hi, hi>> >> :
                     b \in \h80 .. \h8F, lo \in {0, \h7B, \h7C, \h7E, \h80, \h84}, hi \in {0, \hFF}}

(* The prefixes of VEX: register v, both widths, each pp.                  *)
Vex2     == {<<\hC5, \h80 + 8 * (15 - v) + x>> : v \in {0, 1, 5}, x \in 0 .. 7}
Vex3(m)  == {<<\hC4, \hE0 + m, 8 * (15 - v) + x>> : v \in {0, 9}, x \in 0 .. 7}
VexRMs   == {<<\hCA>>, <<\h4F, \h80>>, <<\h2C, \h8A>>, <<\h1E, \h34, 2>>}

Vex0F    == {\h12, \h13, \h28, \h29, \h2A, \h2C, \h2D, \h2F, \h54, \h55, \h58, \h5A, \h5B, \h5D, \h5E, \h5F}
            \cup {\h6E, \h6F, \h7C, \h7D, \h7E, \h7F, \hC2, \hD0, \hD6, \hE6, \hF0}
Vex0F38  == {\h18, \h19, \h1A} \cup \hDB .. \hDF
Vex0F3A  == {\h0C, \h0D, \h40, \h41, \hDF} \cup \h48 .. \h4B \cup \h5C .. \h5F \cup \h68 .. \h6F
            \cup {\h78, \h79, \h7C, \h7D}
VexOpcodes == {v \o <<b>> : v \in Vex2 \cup Vex3(1), b \in Vex0F}
              \cup {v \o <<b>> : v \in Vex3(2), b \in Vex0F38}
              \cup {v \o <<b>> : v \in Vex3(3), b \in Vex0F3A}

VexInputs == {CaseOf(p, op, m) : p \in {<< >>, <<\h3E>>, <<DataPrefix>>, <<\hF0>>},
                                 op \in VexOpcodes, m \in VexRMs}

MCInputs == {VexInputs, PlainInputs, OtherInputs, GroupInputs, MonitorInputs, JumpInputs}
=============================================================================
