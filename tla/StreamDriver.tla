---------------------------- MODULE StreamDriver ----------------------------
(***************************************************************************)
(* The streaming decode program, src/sdecode8086.c: the file lies in       *)
(* buffer, and each instruction is decoded in tmp, where four bytes of it  *)
(* are put and the callback my_fetch8 copies more, up to the end of tmp or *)
(* of buffer.                                                              *)
(***************************************************************************)
EXTENDS Decode8086, Flat8086

CONSTANTS
    Files,        \* contents of the file
    BufferSize,   \* sizeof(buffer): 16384
    Other         \* the byte that stands in the memory after buffer

ASSUME FilesAssumption ==
    \A f \in Files : f \in Seq(Bytes) /\ Len(f) \in 1 .. BufferSize
ASSUME SizesAssumption  == BufferSize \in Nat /\ Prefetch = PrefetchMax
ASSUME CounterAssumption == OverrunModulus > 4
ASSUME AroundAssumption == {0, Other} \subseteq Bytes

VARIABLES
    file,       \* buffer .. buffer + sz - 1
    ip,         \* position in the file
    bufr        \* position up to which bytes were copied to tmp

fileVars   == <<file, ip, bufr>>
streamVars == <<vars, fileVars>>

(* The static buffer is zero behind the file.                              *)
BufferAt(a) ==
    IF a < Len(file) THEN file[a + 1] ELSE IF a < BufferSize THEN 0 ELSE Other

Copied(from, n) == [i \in 1 .. n |-> BufferAt(from + i - 1)]

-----------------------------------------------------------------------------
DriverInit ==
    /\ CoreInit
    /\ win = << >>
    /\ file \in Files
    /\ ip = 0
    /\ bufr = 0

(* Mutants: bufr is not advanced; one byte is copied; fetch_overruns is    *)
(* left as it was.                                                         *)
DecodeAtUnadvanced ==
    /\ pc = "idle" /\ ip < Len(file)
    /\ Enter
    /\ overruns' = 0
    /\ win' = Copied(ip, Prefetch) /\ bufr' = ip
    /\ UNCHANGED <<file, ip>>

DecodeAtOneByte ==
    /\ pc = "idle" /\ ip < Len(file)
    /\ Enter
    /\ overruns' = 0
    /\ win' = Copied(ip, 1) /\ bufr' = ip + 1
    /\ UNCHANGED <<file, ip>>

DecodeAtUncleared ==
    /\ pc = "idle" /\ ip < Len(file)
    /\ Enter
    /\ win' = Copied(ip, Prefetch) /\ bufr' = ip + Prefetch
    /\ UNCHANGED <<overruns, file, ip>>

(* The head of main's loop: tmp is wiped with 0xFF and given four bytes.   *)
DecodeAt ==
    /\ pc = "idle"
    /\ ip < Len(file)
    /\ Enter
    /\ overruns' = 0
    /\ win' = Copied(ip, Prefetch)
    /\ bufr' = ip + Prefetch
    /\ UNCHANGED <<file, ip>>

(* Mutant: the end of tmp is not looked at.                                *)
MyFetch8Unbounded ==
    /\ tries > 0
    /\ tries' = tries - 1
    /\ LET n == IF BufferSize > bufr THEN BufferSize - bufr ELSE 0
       IN  win' = win \o Copied(bufr, n) /\ bufr' = bufr + n
    /\ UNCHANGED <<cip, pc, todo, ins, overruns, failed, unbacked, file, ip>>

(* my_fetch8.                                                              *)
MyFetch8 ==
    /\ tries > 0
    /\ tries' = tries - 1
    /\ LET room == WindowMax - Len(win)
           left == BufferSize - bufr
           n    == IF left <= 0 THEN 0 ELSE IF left < room THEN left ELSE room
       IN  win' = win \o Copied(bufr, n) /\ bufr' = bufr + n
    /\ UNCHANGED <<cip, pc, todo, ins, overruns, failed, unbacked, file, ip>>

DecodeStep == CoreStep /\ UNCHANGED fileVars

(* Mutant: the overrun opcode is not printed.                              *)
PrintInstructionSkipping ==
    /\ pc = "done" /\ pc' = "idle"
    /\ ip' = ip + (IF ins.op = "UD_OVERRUN" THEN 0 ELSE ins.len)
    /\ UNCHANGED <<win, cip, todo, tries, ins, overruns, failed, unbacked,
                   file, bufr>>

(* Printing the bytes moves ip behind the instruction.                     *)
PrintInstruction ==
    /\ pc = "done"
    /\ pc' = "idle"
    /\ ip' = ip + ins.len
    /\ UNCHANGED <<win, cip, todo, tries, ins, overruns, failed, unbacked,
                   file, bufr>>

DriverNext == DecodeAt \/ MyFetch8 \/ DecodeStep \/ PrintInstruction

DriverSpec == DriverInit /\ [][DriverNext]_streamVars

(* main is one sequential loop.                                            *)
FairDriverSpec == DriverSpec /\ WF_streamVars(DriverNext)

-----------------------------------------------------------------------------
DriverTypeOK ==
    /\ win \in Seq(Byte) /\ Len(win) <= WindowMax
    /\ pc \in Labels
    /\ file \in Seq(Byte)
    /\ {ip, bufr, tries, cip} \subseteq Nat

(* tmp holds the buffer at ip, however often my_fetch8 was called, and     *)
(* bufr is where its copy ends: no byte is copied twice or left out.       *)
WindowIsBuffer ==
    pc # "idle" => /\ bufr = ip + Len(win)
                   /\ win = Copied(ip, Len(win))

(* The warning "Fetch overrun and failure to fill" is printed only when    *)
(* tmp is full or the buffer is used up: my_fetch8 never leaves the core   *)
(* short of bytes it could have had.                                       *)
OverrunMeansUsedUp ==
    overruns > 0 => Len(win) = WindowMax \/ bufr >= BufferSize

(* Without that warning, and with no peek beyond the fence, the streaming  *)
(* program decodes the instruction the flat one does.                      *)
SameAsFlat ==
    (pc = "done" /\ overruns = 0 /\ ~unbacked /\ ins.op # "UD_OVERRUN")
        => ins = FlatDecode(Copied(ip, BufferSize - ip + WindowMax))

(* The overrun opcode is printed only for a tmp full of prefixes or for    *)
(* prefixes that run to the end of the buffer.                             *)
OverrunOpcodeAtEnd ==
    (pc = "done" /\ ins.op = "UD_OVERRUN")
        => /\ Len(win) = WindowMax \/ bufr >= BufferSize
           /\ \A i \in 1 .. Len(win) : win[i] \in PrefixBytes

(* The program reaches the end of every file.                              *)
ReachesEnd == <>(ip >= Len(file))

(* The program is a caller as StreamDecode describes it.                   *)
Returned == pc = "idle" /\ ins.len > 0
Stream   == INSTANCE StreamDecode WITH pc <- IF Returned THEN "done" ELSE pc
IsStreamCaller == Stream!Spec

(* x86_core_macros.h:42-43, of reading the next byte without consuming it: *)
(* a streaming core must "ensure that *cip is the next opcode byte, and if *)
(* cip >= end-of-valid-data to extend the window".                         *)
PeeksAreBacked == pc = "peek" => cip < Len(win)
=============================================================================
