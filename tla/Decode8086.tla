----------------------------- MODULE Decode8086 -----------------------------
(***************************************************************************)
(* The streaming 8086 core, minx86dec_sdecode8086 (src/score8086.c, with   *)
(* streaming_decode defined in src/x86_core_macros.h), as a machine that   *)
(* takes one fetch at a time.  It owns the steps of the core; the module   *)
(* that extends it says what the caller and its fetch8 callback do.        *)
(*                                                                         *)
(* Positions count bytes from state->read_ip: win holds the bytes from     *)
(* read_ip to prefetch_fence, so Len(win) is the fence.                    *)
(***************************************************************************)
EXTENDS Layout8086

CONSTANTS
    Bytes,          \* the byte values a program is made of
    Stale,          \* what may stand at prefetch_fence, in the caller's buffer
    Prefetch,       \* the fewest bytes a caller has in the window when it calls
    PrefetchMax,    \* and the most
    WindowMax,      \* no caller's window grows beyond this
    OverrunModulus  \* fetch_overruns is a uint16_t: 2^16

ASSUME BytesAssumption    == Bytes # {} /\ Bytes \subseteq Byte
ASSUME StaleAssumption    == Stale # {} /\ Stale \subseteq Byte
ASSUME WindowAssumption   == /\ Prefetch \in Nat /\ Prefetch >= 2
                             /\ PrefetchMax \in Nat /\ PrefetchMax >= Prefetch
                             /\ WindowMax \in Nat /\ WindowMax >= PrefetchMax
ASSUME OverrunAssumption  == OverrunModulus \in Nat \ {0}

VARIABLES
    win,        \* the bytes read_ip .. prefetch_fence - 1
    cip,        \* the core's static read position
    pc,         \* the fetch or peek the core is about to make
    todo,       \* widths of the operands still to fetch, this one first
    tries,      \* calls of fetch8 stream_fill has still to make for it
    ins,        \* the instruction being decoded
    overruns,   \* state->fetch_overruns
    failed,     \* history: a fetch of this decode failed
    unbacked    \* history: a peek of this decode read at the fence or beyond

coreVars == <<cip, pc, todo, tries, ins, overruns, failed, unbacked>>
vars     == <<win, coreVars>>

(* idle: not called yet.  next: the stop_decoding() test of next_round.    *)
(* done: returned.                                                         *)
Labels == {"idle", "opcode", "next", "peek", "fpu", "modrm", "operand", "done"}

-----------------------------------------------------------------------------
(* stream_fill(c) calls fetch8 once for every byte the window lacks, and   *)
(* counts them before the first call.                                      *)
Missing(w, at, c) == IF at + c > Len(w) THEN at + c - Len(w) ELSE 0

(* Go on at position at with the fetch or test p, for which ws are the     *)
(* operands to fetch.                                                      *)
Goto(p, at, ws) ==
    /\ pc' = p
    /\ cip' = at
    /\ todo' = ws
    /\ tries' = Missing(win, at, IF p = "operand" THEN Head(ws) ELSE 1)

(* The end of the entry function: an instruction without an opcode is a    *)
(* NOP of two bytes, any other ends at cip.                                *)
Return(i, at) ==
    /\ pc' = "done"
    /\ cip' = at
    /\ todo' = << >>
    /\ tries' = 0
    /\ ins' = [i EXCEPT !.len = IF i.op = "UD_NOP" THEN 2 ELSE at]

(* Fetch the operands ws of instruction i, if any, and return.             *)
Operands(i, at, ws) ==
    IF ws = << >> THEN Return(i, at) ELSE ins' = i /\ Goto("operand", at, ws)

-----------------------------------------------------------------------------
(* fetch_u8 and fetch_u16: when the window has room they read and step;    *)
(* otherwise they count an overrun and give *cip, leaving cip where it is. *)
Width   == IF pc = "operand" THEN Head(todo) ELSE 1
HasRoom == cip + Width <= Len(win)

(* *cip.  Beyond the fence lies whatever the caller's buffer held before.  *)
AtCip == IF cip < Len(win) THEN {win[cip + 1]} ELSE Stale

ReadValue == IF HasRoom THEN {ValueAt(win, cip, Width)} ELSE AtCip
(* Mutant: a failed fetch steps over the byte it did not get.              *)
ReadNextAlways == cip + Width
ReadNext  == IF HasRoom THEN cip + Width ELSE cip

(* Mutant: the counter is not 16 bits wide.                                *)
CountOverrunWide ==
    IF HasRoom THEN UNCHANGED <<overruns, failed>>
    ELSE overruns' = overruns + 1 /\ failed' = TRUE

CountOverrun ==
    IF HasRoom THEN UNCHANGED <<overruns, failed>>
    ELSE /\ overruns' = (overruns + 1) % OverrunModulus
         /\ failed' = TRUE

(* A fetch of the core, once stream_fill has made its calls.               *)
Fetch(p) ==
    /\ pc = p
    /\ tries = 0
    /\ CountOverrun
    /\ UNCHANGED <<win, unbacked>>

-----------------------------------------------------------------------------
(* The first byte and what the switch does with it.                        *)

SegmentPrefix(b) ==
    /\ b \in SegOverrides
    /\ ins' = [ins EXCEPT !.segment = SegmentOf(b)]
    /\ Goto("next", ReadNext, << >>)

OtherPrefix(b) ==
    /\ b \in LockPrefixes \cup RepPrefixes
    /\ ins' = IF b \in LockPrefixes THEN [ins EXCEPT !.lock = 1]
              ELSE [ins EXCEPT !.rep = RepOf(b)]
    /\ Goto("next", ReadNext, << >>)

(* 0x8F, 0x9B, 0xC4 and 0xC5 look at *cip next, without stream_fill.       *)
PeekingOpcode(b) ==
    /\ b \in PeekOpcodes \cup {WaitOpcode}
    /\ ins' = [ins EXCEPT !.lead = b]
    /\ pc' = "peek"
    /\ cip' = ReadNext
    /\ UNCHANGED <<todo, tries>>

ModRMOpcode(b) ==
    /\ b \in ModRMOpcodes
    /\ ins' = [ins EXCEPT !.lead = b]
    /\ Goto("modrm", ReadNext, << >>)

FPUOpcode(b) ==
    /\ b \in FPUEscapes
    /\ ins' = [ins EXCEPT !.lead = b]
    /\ Goto("fpu", ReadNext, << >>)

PlainOpcode(b) ==
    /\ b \notin PrefixBytes \cup PeekOpcodes \cup ModRMOpcodes \cup FPUEscapes
    /\ Operands([ins EXCEPT !.lead = b,
                            !.op = IF b \in Absent THEN "UD_NOP" ELSE "OK"],
                ReadNext, Immediates(b))

FetchOpcode ==
    /\ Fetch("opcode")
    /\ \E b \in ReadValue :
          \/ SegmentPrefix(b) \/ OtherPrefix(b) \/ PeekingOpcode(b)
          \/ ModRMOpcode(b) \/ FPUOpcode(b) \/ PlainOpcode(b)

-----------------------------------------------------------------------------
(* Mutants: the stop test is missing, comes a byte early, or is repeated   *)
(* until the callback delivers.                                            *)
NextRoundUntested ==
    /\ pc = "next" /\ tries = 0
    /\ Goto("opcode", cip, << >>)
    /\ UNCHANGED <<win, ins, overruns, failed, unbacked>>

NextRoundEarly ==
    /\ pc = "next" /\ tries = 0
    /\ IF cip + 2 > Len(win)
       THEN Return([ins EXCEPT !.op = "UD_OVERRUN"], cip)
       ELSE Goto("opcode", cip, << >>) /\ UNCHANGED ins
    /\ UNCHANGED <<win, overruns, failed, unbacked>>

NextRoundRepeated ==
    /\ pc = "next" /\ tries = 0
    /\ Goto(IF cip + 1 > Len(win) THEN "next" ELSE "opcode", cip, << >>)
    /\ UNCHANGED <<win, ins, overruns, failed, unbacked>>

(* next_round: after a prefix the core goes on unless stream_fill(1) finds *)
(* nothing more, and then it reports the overrun opcode.                   *)
NextRound ==
    /\ pc = "next"
    /\ tries = 0
    /\ IF cip + 1 > Len(win)
       THEN Return([ins EXCEPT !.op = "UD_OVERRUN"], cip)
       ELSE Goto("opcode", cip, << >>) /\ UNCHANGED ins
    /\ UNCHANGED <<win, overruns, failed, unbacked>>

(* 0x9B: a prefix of an FPU instruction, or FWAIT itself.                  *)
PeekWait(x) ==
    /\ ins.lead = WaitOpcode
    /\ IF Waitable(x)
       THEN /\ ins' = [ins EXCEPT !.fwait = 1, !.lead = NoByte]
            /\ Goto("next", cip, << >>)
       ELSE Return([ins EXCEPT !.op = "OK"], cip)

PeekExtension(x) ==
    /\ ins.lead \in PeekOpcodes
    /\ IF IsExtension(x)
       THEN Return(ins, cip)
       ELSE Goto("modrm", cip, << >>) /\ UNCHANGED ins

Peek ==
    /\ pc = "peek"
    /\ \E x \in AtCip : PeekWait(x) \/ PeekExtension(x)
    /\ unbacked' = (unbacked \/ cip >= Len(win))
    /\ UNCHANGED <<win, overruns, failed>>

(* The byte after an FPU escape.  A memory form steps cip back and decodes *)
(* it again as ModR/M; after a failed fetch the byte at cip - 1 is the     *)
(* escape itself.                                                          *)
FetchFPU ==
    /\ Fetch("fpu")
    /\ \E x \in ReadValue :
          LET i == [ins EXCEPT !.fpu = x, !.op = FPUOutcome(ins.lead, x)]
          IN  IF FPUMemory(ins.lead, x)
              THEN ins' = i /\ Goto("modrm", ReadNext - 1, << >>)
              ELSE Return(i, ReadNext)

(* Mutant: the immediate is fetched before the displacement.               *)
FetchModRMImmFirst ==
    /\ Fetch("modrm")
    /\ \E m \in ReadValue :
          Operands([ins EXCEPT !.rm = m,
                       !.op = IF ins.lead \in FPUEscapes THEN ins.op
                              ELSE GroupOutcome(ins.lead, m)],
                   ReadNext, ImmAfterRM(ins.lead, m) \o Displacement(m))

(* decode_rm_x86 and what the opcode does with the reg field.              *)
FetchModRM ==
    /\ Fetch("modrm")
    /\ \E m \in ReadValue :
          Operands([ins EXCEPT !.rm = m,
                       !.op = IF ins.lead \in FPUEscapes THEN ins.op
                              ELSE GroupOutcome(ins.lead, m)],
                   ReadNext, Displacement(m) \o ImmAfterRM(ins.lead, m))

FetchOperand ==
    /\ Fetch("operand")
    /\ \E v \in ReadValue :
          Operands([ins EXCEPT !.args = Append(@, v)], ReadNext, Tail(todo))

-----------------------------------------------------------------------------
(* Before the first call.                                                  *)
CoreInit ==
    /\ cip = 0
    /\ pc = "idle"
    /\ todo = << >>
    /\ tries = 0
    /\ ins = EmptyIns
    /\ overruns = 0
    /\ failed = FALSE
    /\ unbacked = FALSE

(* Mutant: the instruction is not reset.                                   *)
EnterUnreset ==
    /\ cip' = 0 /\ pc' = "opcode"
    /\ todo' = << >> /\ tries' = 0
    /\ failed' = FALSE /\ unbacked' = FALSE
    /\ UNCHANGED ins

(* The entry of the core: cip = state->read_ip, and the instruction reset. *)
Enter ==
    /\ cip' = 0
    /\ pc' = "opcode"
    /\ todo' = << >>
    /\ tries' = 0
    /\ ins' = EmptyIns
    /\ failed' = FALSE
    /\ unbacked' = FALSE

CoreStep ==
    FetchOpcode \/ NextRound \/ Peek \/ FetchFPU \/ FetchModRM \/ FetchOperand

-----------------------------------------------------------------------------
(* What holds of the core with every caller.                               *)

Ins == [op : Outcomes, lead : Byte \cup {NoByte}, fpu : Byte \cup {NoByte},
        rm : Byte \cup {NoByte}, args : Seq(Nat),
        segment : {NoSegment} \cup 0 .. 3, rep : 0 .. 2, lock : {0, 1},
        fwait : {0, 1}, len : Nat]

(* Every variable stays in its type, and the window within its buffer.     *)
TypeOK ==
    /\ win \in Seq(Bytes) /\ Len(win) <= WindowMax
    /\ cip \in Nat
    /\ pc \in Labels
    /\ todo \in Seq({1, 2})
    /\ tries \in Nat
    /\ ins \in Ins
    /\ overruns \in 0 .. OverrunModulus - 1
    /\ failed \in BOOLEAN
    /\ unbacked \in BOOLEAN

(* However often the callback refuses, whatever stale byte a failed fetch  *)
(* returns and although the FPU forms step back, the core consumes only    *)
(* bytes of the window, and its result covers at least one byte and none   *)
(* behind the fence: the caller advances, and never past prefetch_fence.   *)
ConsumesWindow ==
    /\ cip <= Len(win)
    /\ pc = "done" => ins.len \in 1 .. Len(win)

(* The first byte of an instruction, and of what follows a prefix, is      *)
(* never a stale one: the fetch at decode_next always has room.            *)
OpcodeInWindow == pc = "opcode" => HasRoom

(* MXOP_UD_OVERRUN is reported only for a window that ends after nothing   *)
(* but prefixes; all of them are consumed and no fetch was counted as an   *)
(* overrun.                                                                *)
OverrunMeansPrefixes ==
    (pc = "done" /\ ins.op = "UD_OVERRUN")
        => /\ ins.len = Len(win)
           /\ ~failed
           /\ \A i \in 1 .. Len(win) : win[i] \in PrefixBytes

-----------------------------------------------------------------------------
(* The inductive invariant behind the safety properties.                   *)

(* Between the first fetch and the return.                                 *)
Inside == pc \in {"next", "peek", "fpu", "modrm", "operand"}

(* A called core has at least two bytes, which covers the NOP of two bytes *)
(* and the step back after a fetch that failed behind an FPU escape.       *)
WindowHeld == pc # "idle" => Len(win) >= 2

Progress ==
    /\ cip <= Len(win)
    /\ pc = "opcode" => cip < Len(win)
    /\ Inside => cip >= 1
    /\ pc = "operand" => todo # << >>
    /\ pc = "done" => tries = 0 /\ ins.len \in 1 .. Len(win)

(* As long as the core may still go round its prefix loop, all it has read *)
(* are prefixes, and no fetch has failed.                                  *)
Prefixing == pc \in {"opcode", "next"} \/ (pc = "peek" /\ ins.lead = WaitOpcode)
PrefixesSoFar ==
    /\ Prefixing => /\ ~failed
                    /\ \A i \in 1 .. cip : win[i] \in PrefixBytes
    /\ pc \notin {"idle", "done"} => ins.op # "UD_OVERRUN"

IInv == TypeOK /\ WindowHeld /\ Progress /\ PrefixesSoFar /\ OverrunMeansPrefixes
=============================================================================
