----------------------------- MODULE RecodeAll -----------------------------
(***************************************************************************)
(* src/recodeall.c: each instruction of a file is decoded in the mode of   *)
(* st, encoded in the mode of est, and what was written is decoded in the  *)
(* mode of est.  The command line gives the modes: none, /32, /16x32 and   *)
(* /32x16.  Like Recode8086, a behaviour is about one instruction, and the *)
(* output may be given to the program again, in the mode it was written.   *)
(***************************************************************************)
EXTENDS Losses386

CONSTANTS
    Inputs,     \* sets of pairs of ip_value and the bytes that stand there
    Modes,      \* pairs of the modes of st and est
    Rounds,     \* how often the program is run on its own output
    Zeros       \* the bytes of encoded[] behind what was written

ASSUME InputsAssumption == \A set \in Inputs : \A p \in set : p[1] \in Nat /\ p[2] \in Seq(Byte)
ASSUME ModesAssumption  == Modes \subseteq Mode \X Mode
ASSUME RoundsAssumption == Rounds \in Nat \ {0}
ASSUME ZerosAssumption  == Zeros \in Seq({0}) /\ Len(Zeros) >= 16

VARIABLES
    stage,      \* how far the iteration is
    round,      \* which run of the program this is
    st, est,    \* the modes to decode and to encode in
    ip,         \* st.ip_value, which est.ip_value and rst.ip_value repeat
    bytes,      \* the bytes from st.read_ip on
    ins,        \* what minx86dec_decodeall makes of them
    code,       \* est.started_here .. est.write_ip - 1
    again       \* what minx86dec_decodeall makes of code

vars == <<stage, round, st, est, ip, bytes, ins, code, again>>

Nothing == << >>   \* before the first decode

Init ==
    /\ stage = "given" /\ round = 1
    /\ \E modes \in Modes : st = modes[1] /\ est = modes[2]
    /\ \E set \in Inputs : \E p \in set : ip = p[1] /\ bytes = p[2]
    /\ ins = Nothing /\ code = << >> /\ again = Nothing

(* minx86dec_decodeall(&st,&i).                                            *)
FirstDecode ==
    /\ stage = "given"
    /\ stage' = "decoded"
    /\ ins' = MeaningAll(bytes \o Zeros, st, ip)
    /\ UNCHANGED <<round, st, est, ip, bytes, code, again>>

(* minx86enc_encodeall(&est,&i).                                           *)
Encoding ==
    /\ stage = "decoded"
    /\ stage' = "encoded"
    /\ code' = EncodeAny(ins, est, ip)
    /\ UNCHANGED <<round, st, est, ip, bytes, ins, again>>

(* rst, with the data32 and addr32 of est, decodes what was written.       *)
SecondDecode ==
    /\ stage = "encoded" /\ code # << >>
    /\ stage' = "done"
    /\ again' = MeaningAll(code \o Zeros, est, ip)
    /\ UNCHANGED <<round, st, est, ip, bytes, ins, code>>

(* Nothing was written: an empty line is printed.                          *)
Blank ==
    /\ stage = "encoded" /\ code = << >>
    /\ stage' = "blank"
    /\ again' = Nothing
    /\ UNCHANGED <<round, st, est, ip, bytes, ins, code>>

(* The next run of the program, on what this one wrote, where that is one  *)
(* instruction.                                                            *)
NextRun ==
    /\ stage = "done" /\ round < Rounds /\ again.len = Len(code)
    /\ stage' = "given" /\ round' = round + 1
    /\ st' = est
    /\ bytes' = code
    /\ ins' = Nothing /\ code' = << >> /\ again' = Nothing
    /\ UNCHANGED <<est, ip>>

Next == FirstDecode \/ Encoding \/ SecondDecode \/ Blank \/ NextRun

Spec == Init /\ [][Next]_vars

-----------------------------------------------------------------------------
(* What is decoded and what is written are bytes, in modes that exist.     *)
TypeOK ==
    /\ stage \in {"given", "decoded", "encoded", "done", "blank"}
    /\ round \in 1 .. Rounds /\ ip \in Nat
    /\ {st, est} \subseteq Mode
    /\ {bytes, code} \subseteq Seq(Byte)

(* Decoding what minx86enc_encodeall wrote gives the instruction it was    *)
(* given, in whatever mode it was written, for exactly the instructions    *)
(* that are not Lossy.                                                     *)
PreservesAllButLossy ==
    /\ stage = "done"  => (Same(ins, again) <=> ~Lossy(ins, est))
    /\ stage = "blank" => Lossy(ins, est)

(* The second decode consumes what the encoder wrote, no byte more or      *)
(* less, whatever of the instruction was lost, except where that became    *)
(* another or none.                                                        *)
ReadsWhatWasWritten ==
    stage = "done" => again.len = Len(code) \/ BecomesLDS(ins) \/ Scalarised(ins)

(* What the encoder wrote it writes again.                                 *)
SettlesAfterOneRun ==
    stage = "encoded" /\ round > 1 => code = bytes \/ TurnsPrefix(ins, est)

(* argv[].segment is not reset between instructions (the line that did is  *)
(* a comment): what an earlier instruction left there shows in the code of *)
(* exactly the instructions of ReadsUnsetSegment.                          *)
LeftoverSegmentsDoNotShow ==
    stage = "encoded" =>
        ((\A segment \in ES .. DS :
              code = EncodeAny([ins EXCEPT !.p.given = segment], est, ip))
         <=> ~ReadsUnsetSegment(ins))

(* 0x66 is counted, and the count is added to an opcode or tested for its  *)
(* lowest bit: two of it name the instruction that one does, but for the   *)
(* opcodes of CountsPrefixes.                                              *)
RepeatedPrefixIsOne ==
    stage = "decoded" /\ SubSeq(bytes, 1, 2) = <<DataPrefix, DataPrefix>> =>
        LET once == MeaningAll(Tail(bytes) \o Zeros, st, ip)
        IN  ins.op = once.op \/ SubSeq(bytes, 3, 4) \in CountsPrefixes
=============================================================================
