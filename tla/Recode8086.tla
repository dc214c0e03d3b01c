---------------------------- MODULE Recode8086 ----------------------------
(***************************************************************************)
(* src/recode8086.c: each instruction of a file is decoded, encoded again  *)
(* by minx86enc_encodeall at the same ip_value, and what was written is    *)
(* decoded from there.  The iterations of its loop share nothing but the   *)
(* positions in the buffers, so a behaviour is about one instruction; the  *)
(* output may be given to the program again.                               *)
(***************************************************************************)
EXTENDS Encode8086

CONSTANTS
    Inputs,     \* sets of pairs of ip_value and the bytes that stand there
    Rounds,     \* how often the program is run on its own output
    Zeros       \* the bytes of encoded[] behind what was written

ASSUME InputsAssumption == \A set \in Inputs : \A p \in set : p[1] \in Nat /\ p[2] \in Seq(Byte)
ASSUME RoundsAssumption == Rounds \in Nat \ {0}
ASSUME ZerosAssumption  == Zeros \in Seq({0}) /\ Len(Zeros) >= 8

VARIABLES
    stage,      \* how far the iteration is
    round,      \* which run of the program this is
    ip,         \* st.ip_value, which est.ip_value and rst.ip_value repeat
    bytes,      \* the bytes from st.read_ip on
    ins,        \* what minx86dec_decode8086 makes of them
    code,       \* est.started_here .. est.write_ip - 1
    again       \* what minx86dec_decode8086 makes of code

vars == <<stage, round, ip, bytes, ins, code, again>>

Nothing == << >>   \* before the first decode

Init ==
    /\ stage = "given" /\ round = 1
    /\ \E set \in Inputs : \E p \in set : ip = p[1] /\ bytes = p[2]
    /\ ins = Nothing /\ code = << >> /\ again = Nothing

(* minx86dec_decode8086(&st,&i).                                           *)
FirstDecode ==
    /\ stage = "given"
    /\ stage' = "decoded"
    /\ ins' = Meaning(bytes \o Zeros, ip)
    /\ UNCHANGED <<round, ip, bytes, code, again>>

(* minx86enc_encodeall(&est,&i).                                           *)
Encoding ==
    /\ stage = "decoded"
    /\ stage' = "encoded"
    /\ code' = EncodeAll(ins, ip)
    /\ UNCHANGED <<round, ip, bytes, ins, again>>

(* est.started_here < est.write_ip: what was written is decoded.           *)
SecondDecode ==
    /\ stage = "encoded" /\ code # << >>
    /\ stage' = "done"
    /\ again' = Meaning(code \o Zeros, ip)
    /\ UNCHANGED <<round, ip, bytes, ins, code>>

(* Nothing was written: an empty line is printed.                          *)
Blank ==
    /\ stage = "encoded" /\ code = << >>
    /\ stage' = "blank"
    /\ again' = Nothing
    /\ UNCHANGED <<round, ip, bytes, ins, code>>

(* The next run of the program, on what this one wrote.                    *)
NextRun ==
    /\ stage = "done" /\ round < Rounds
    /\ stage' = "given" /\ round' = round + 1
    /\ bytes' = code
    /\ ins' = Nothing /\ code' = << >> /\ again' = Nothing
    /\ UNCHANGED ip

Next == FirstDecode \/ Encoding \/ SecondDecode \/ Blank \/ NextRun

Spec == Init /\ [][Next]_vars

-----------------------------------------------------------------------------
(* What two decodes must share to be the same instruction.  Immediates are *)
(* equal modulo their size, XCHG is symmetric, REP belongs to the string   *)
(* instructions, and the override of XLAT stands in no operand.            *)

Modulo(a) ==
    IF IsImm(a) /\ a.size > 0 THEN [a EXCEPT !.value = @ % (2 ^ (8 * a.size))] ELSE a

Operands(i) ==
    LET argv == [k \in DOMAIN i.argv |-> Modulo(i.argv[k])]
    IN  IF i.op = "XCHG" THEN {argv[1], argv[2]} ELSE argv

Essence(i) ==
    [argv    |-> Operands(i),
     lock    |-> i.lock,
     fwait   |-> i.fwait,
     rep     |-> IF i.op \in Repeated THEN i.rep ELSE 0,
     segment |-> IF i.op = "XLAT" THEN i.segment ELSE NoSegment]

Same(i, j) == i.op = j.op /\ Essence(i) = Essence(j)

-----------------------------------------------------------------------------
(* The instructions recoding does not preserve, by the reason.             *)

(* An override of an operand whose segment the encoder does not look at.   *)
DropsOverride(i) ==
    \/ i.op = "XLAT" /\ i.segment # NoSegment
    \/ /\ i.op \in Unsegmented
       /\ MemOf(i) # << >>
       /\ SegOverride(MemOf(i)[1], FALSE) # NoSegment

DropsLock(i) == i.lock = 1 /\ i.op \notin Locked
DropsWait(i) == i.fwait = 1 /\ i.op \notin Waiting

(* 0x9B is a prefix only before an escape, and the override is put between.*)
SplitsWait(i) == i.fwait = 1 /\ i.op \in Waiting /\ SegPrefix(i) # << >>

(* The byte forms of PUSH and POP that 0xFE decodes as.                   *)
WidensByte(i) ==
    /\ i.op \in {"PUSH", "POP"}
    /\ i.argv[1].kind \in {"reg", "mem"}
    /\ i.argv[1].size % 2 = 1

(* Operands no case takes.                                                 *)
HasNoForm(i) ==
    \/ i.op \in NoCase
    \/ i.op \in DOMAIN LoadCode /\ IsReg(i.argv[2])
    \/ In(FpuArith, i.op) /\ i.argv = <<STArg(0), STArg(0)>>

(* 0xDC has the reverse forms of subtraction and division in each other's  *)
(* place.                                                                  *)
Flips(i) ==
    /\ i.op \in {"FSUB", "FSUBR", "FDIV", "FDIVR"}
    /\ IsST(i.argv[1]) /\ i.argv[1].reg # 0

(* FSTP m80 is taken for FSTP st(0), and FISTP m64 for FISTP m16.          *)
MisreadsStore(i) ==
    \/ i.op = "FSTP" /\ Len(i.argv) = 2
    \/ i.op = "FISTP" /\ \E k \in DOMAIN i.argv : IsMem(i.argv[k]) /\ i.argv[k].size = 8

BecomesNop(i) == i.op = "XCHG" /\ i.argv = <<RegArg(AX, 2), RegArg(AX, 2)>>

Lossy(i, at) ==
    \/ DropsOverride(i) \/ DropsLock(i) \/ DropsWait(i) \/ SplitsWait(i)
    \/ Wraps(i, at) \/ Outreaches(i, at) \/ WidensByte(i)
    \/ HasNoForm(i) \/ Flips(i) \/ MisreadsStore(i) \/ BecomesNop(i)

-----------------------------------------------------------------------------
(* What is decoded and what is written are bytes, at an ip of 16 bits.     *)
TypeOK ==
    /\ stage \in {"given", "decoded", "encoded", "done", "blank"}
    /\ round \in 1 .. Rounds /\ ip \in Nat
    /\ {bytes, code} \subseteq Seq(Byte)

(* Decoding what minx86enc_encodeall wrote gives the instruction it was    *)
(* given, for exactly the instructions that are not Lossy.                 *)
PreservesAllButLossy ==
    /\ stage = "done"  => (Same(ins, again) <=> ~Lossy(ins, ip))
    /\ stage = "blank" => Lossy(ins, ip)

(* The decoder consumes what the encoder wrote, no byte more or less, so   *)
(* that what follows is decoded from its own start.                        *)
ReadsWhatWasWritten ==
    stage = "done" => \/ again.len = Len(code)
                      \/ SplitsWait(ins) \/ Wraps(ins, ip) \/ Outreaches(ins, ip)

(* The encoding is not longer than the instruction it came from, though    *)
(* the encoder never sees that: encoded[] is as large as buffer[], and     *)
(* est.fence is not tested.                                                *)
NotLonger ==
    stage = "encoded" => \/ Len(code) <= ins.len
                         \/ Wraps(ins, ip) \/ Outreaches(ins, ip)

(* What the encoder wrote it writes again: recoding is done after one run, *)
(* but for the flip-flop the comment at encoreall.c:2355 tells of, and for *)
(* a jump over the top of the segment, whose short form gives a target     *)
(* beyond 65535 and whose near form one that has wrapped to the bottom.    *)
SettlesAfterOneRun ==
    stage = "encoded" /\ round > 1 /\ ins.len = Len(bytes) =>
        code = bytes \/ Flips(ins) \/ Wraps(ins, ip)

(* README:22: the encoder encodes "using the decompiled instruction        *)
(* struct"; decoding the result gives the opcode of that structure.        *)
KeepsSubtraction ==
    stage = "done" /\ ins.op \in {"FSUB", "FSUBR"} => again.op = ins.op
=============================================================================
