----------------------------- MODULE FlatDriver -----------------------------
(***************************************************************************)
(* The linear sweep of src/decode8086.c (the other decode programs differ  *)
(* in the core they call and in printing): a file is read into a buffer,   *)
(* fence is set to its end and prefetch_fence Margin bytes before it, and  *)
(* the flat core decodes instruction after instruction until read_ip       *)
(* reaches fence.                                                          *)
(*                                                                         *)
(* The flat core knows the end of the file only by stop_decoding(), which  *)
(* next_round tests after each prefix.                                     *)
(***************************************************************************)
EXTENDS Flat8086

CONSTANTS
    Files,      \* contents of the file
    Behind,     \* bytes that may fill the memory after the file
    Margin,     \* fence - prefetch_fence: 16
    OpcodeMax   \* the longest instruction without prefixes: 6

ASSUME FilesAssumption  == \A f \in Files : f \in Seq(Byte) /\ f # << >>
ASSUME BehindAssumption == Behind \subseteq Byte
ASSUME MarginAssumption == /\ OpcodeMax \in Nat /\ OpcodeMax >= 6
                           /\ Margin \in Nat /\ Margin >= OpcodeMax

VARIABLES
    file,       \* buffer .. fence - 1
    behind,     \* what stands in each byte from fence on
    readIp,     \* state->read_ip - buffer
    start,      \* ins->start - buffer
    ins,        \* the instruction decoded last
    reach       \* history: one past the last byte that decode looked at

sweepVars == <<file, behind, readIp, start, ins, reach>>

Fence         == Len(file)
PrefetchFenceAtEnd == Fence   \* mutant: no margin
PrefetchFence == Fence - Margin

(* What the core sees from position at on.                                 *)
From(at) == SubSeq(file, at + 1, Fence) \o [i \in 1 .. OpcodeMax |-> behind]

(* Mutant: the test is cip > prefetch_fence.                               *)
StopAfterFence(at) == IF at > PrefetchFence THEN 1 ELSE PrefetchFence - at + 1

(* The first prefix after which stop_decoding() holds for a decode that    *)
(* begins at position at: cip >= prefetch_fence.                           *)
StopAfter(at) == IF at >= PrefetchFence THEN 1 ELSE PrefetchFence - at

(* Mutant: the last prefix is given back.                                  *)
OverrunGivingBack(s, n) == [EmptyIns EXCEPT !.op = "UD_OVERRUN", !.len = n - 1]

Overrun(s, n) ==
    LET cut == SubSeq(s, 1, n)
    IN  [EmptyIns EXCEPT !.op = "UD_OVERRUN",
            !.segment = SegmentPut(cut),
            !.rep = RepPut(cut),
            !.lock = Seen(cut, LockPrefixes),
            !.fwait = IF \E i \in 1 .. n : s[i] = WaitOpcode THEN 1 ELSE 0,
            !.len = n]

-----------------------------------------------------------------------------
Init ==
    /\ file \in Files
    /\ behind \in Behind
    /\ readIp = 0 /\ start = 0
    /\ ins = EmptyIns
    /\ reach = 0

MoreAtFence == readIp <= Fence   \* mutant: one round too many
More        == readIp < Fence

(* minx86dec_decode8086 from read_ip, and the test of main's loop.         *)
DecodeOne ==
    /\ More
    /\ \E s \in {From(readIp)}, n \in {StopAfter(readIp)} :
           IF \A i \in 1 .. n : PrefixAt(s, i)
           THEN /\ ins' = Overrun(s, n)
                /\ reach' = readIp + n + (IF s[n] = WaitOpcode THEN 1 ELSE 0)
           ELSE /\ ins' = FlatDecode(s)
                /\ reach' = readIp + Reach(s)
    /\ start' = readIp
    /\ readIp' = readIp + ins'.len
    /\ UNCHANGED <<file, behind>>

Next == DecodeOne

Spec == Init /\ [][Next]_sweepVars

(* main is one sequential loop.                                            *)
FairSpec == Spec /\ WF_sweepVars(Next)

-----------------------------------------------------------------------------
TypeOK ==
    /\ file \in Seq(Byte) /\ behind \in Behind
    /\ start \in 0 .. Fence - 1 /\ {readIp, reach} \subseteq Nat
    /\ ins.op \in Outcomes /\ ins.len \in Nat

(* stop_decoding keeps a run of prefixes from carrying the decoder out of  *)
(* the buffer: what follows fence is looked at only for the operands of an *)
(* instruction that begins less than OpcodeMax bytes before it.            *)
ReachesPastFenceOnlyAtTail ==
    /\ reach < Fence + OpcodeMax
    /\ reach > Fence => start > Fence - OpcodeMax

(* The overrun opcode is kept for a run of prefixes that extends to        *)
(* prefetch_fence; behind prefetch_fence each prefix is an instruction of  *)
(* its own.                                                                *)
OverrunEndsAtPrefetchFence ==
    ins.op = "UD_OVERRUN" =>
        /\ IF start < PrefetchFence THEN readIp = PrefetchFence ELSE ins.len = 1
        /\ \A i \in start + 1 .. readIp : file[i] \in PrefixBytes

(* No byte of the file is decoded as part of two instructions, except for  *)
(* the bytes of an invalid instruction behind the second, which are        *)
(* decoded again.                                                          *)
OverlapOnlyAfterNop ==
    reach > readIp =>
        \/ ins.op = "UD_NOP"
        \/ /\ reach = readIp + 1
           /\ readIp \in DOMAIN file
           /\ file[readIp] = WaitOpcode

(* The sweep reaches the end of the file.                                  *)
Sweeps == <>(readIp >= Fence)

(* state.h:10: "decoding stops at prefetch_fence, so that no reads go past *)
(* fence".                                                                 *)
NoReadPastFence == reach <= Fence
=============================================================================
