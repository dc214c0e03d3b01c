---------------------------- MODULE Emulator8088 ----------------------------
(***************************************************************************)
(* The 8088 emulator of src/testemu8088.c: a prefetch buffer that slides   *)
(* along a fixed array, filled from memory over a clocked bus, and decoded *)
(* in place by the streaming core, which calls fetch_decode_byte back for  *)
(* the bytes beyond the four that are prefetched.                          *)
(*                                                                         *)
(* Positions in the buffer count from prefetch->buffer: the window win     *)
(* lies at data, prefetch->end is data + Len(win) and prefetch->fence is   *)
(* BufferSize.  sliding_window comes from the isp-utils library.           *)
(***************************************************************************)
EXTENDS Decode8086, Flat8086

CONSTANTS
    BufferSize,     \* PREFETCH_BUFFER_SIZE
    Safety,         \* PREFETCH_BUFFER_SAFETY
    IPModulus,      \* ip.value is a uint16_t: 2^16
    CodeBase,       \* sreg[MX86_SEG_CS].base
    EntryIP,        \* the argument of emu8086_state_set_ip in main
    Programs,       \* contents of the memory, as functions from addresses
    MaxSteps        \* instructions main runs: 1000

ASSUME BufferAssumption ==
    /\ Safety \in Nat
    /\ BufferSize \in Nat /\ BufferSize >= Prefetch + Prefetch + Safety
    /\ WindowMax = BufferSize - Safety /\ PrefetchMax = WindowMax
ASSUME IPAssumption ==
    /\ IPModulus \in Nat \ {0} /\ CodeBase \in Nat
    /\ EntryIP \in 0 .. IPModulus - 1
    /\ MaxSteps \in Nat
ASSUME ProgramAssumption ==
    /\ \hFF \in Bytes
    /\ \A m \in Programs : \A a \in DOMAIN m : m[a] \in Bytes

VARIABLES
    mem,         \* memory
    data,        \* prefetch->data
    ipBase,      \* ip.base, the linear address of the next instruction
    ipValue,     \* ip.value, the IP register
    ipPrefetch,  \* ip.prefetch, the linear address of the next byte to fetch
    clkCPU,      \* clock_cpu.clock
    clkMaster,   \* clock_master.clock
    count,       \* instructions main has run
    filling,     \* in emu8086_fill_prefetch, between two decodes
    held         \* history: the window the last instruction was decoded from

machineVars == <<mem, data, ipBase, ipValue, ipPrefetch, clkCPU, clkMaster,
                 count, filling, held>>
allVars == <<vars, machineVars>>

End == data + Len(win)

(* CLOCK_DELAY_LATCH_MEMIO + CLOCK_DELAY_FINISH_MEMIO, and the divider.    *)
BusCycle       == 4
CPUClockDivide == 3

(* my_memio_r: beyond the memory the bus floats high.                      *)
MemRead(a) == IF a \in DOMAIN mem THEN mem[a] ELSE \hFF

(* The two my_on_clockadv calls around a read.                             *)
AdvanceClocks ==
    /\ clkCPU' = clkCPU + BusCycle
    /\ clkMaster' = clkMaster + BusCycle * CPUClockDivide

(* A byte read over the bus and put at prefetch->end.                      *)
FetchByte ==
    /\ win' = Append(win, MemRead(ipPrefetch))
    /\ ipPrefetch' = ipPrefetch + 1
    /\ AdvanceClocks

-----------------------------------------------------------------------------
(* main: memory loaded, the processor reset, and emu8086_state_set_ip.     *)
EmuInit ==
    /\ CoreInit
    /\ win = << >>
    /\ mem \in Programs
    /\ data = 0
    /\ ipBase = CodeBase + EntryIP
    /\ ipValue = EntryIP
    /\ ipPrefetch = ipBase
    /\ clkCPU = 0 /\ clkMaster = 0
    /\ count = 0
    /\ filling = TRUE
    /\ held = << >>

(* sliding_window_flush moves data .. end to the start of the array.       *)
FlushNeeded == data + Prefetch + Safety > BufferSize

(* One round of the loop in emu8086_state_prefetch_cycle.                  *)
PrefetchCycle ==
    /\ filling
    /\ count < MaxSteps
    /\ Len(win) < Prefetch
    /\ data' = IF FlushNeeded THEN 0 ELSE data
    /\ FetchByte
    /\ UNCHANGED <<coreVars, mem, ipBase, ipValue, count, filling, held>>

(* Mutants: the call does not wait for the prefetch, or waits for a byte   *)
(* more than it delivers.                                                  *)
CallCoreWithin(least) ==
    /\ filling /\ count < MaxSteps
    /\ Len(win) >= least
    /\ filling' = FALSE
    /\ Enter
    /\ UNCHANGED <<win, overruns, mem, data, ipBase, ipValue, ipPrefetch,
                   clkCPU, clkMaster, count, held>>
CallCoreUnfilled == CallCoreWithin(2)
CallCoreWaiting  == CallCoreWithin(Prefetch + 1)

(* emu8086_cpu_step_one_instruction calls the core.                        *)
CallCore ==
    /\ filling
    /\ count < MaxSteps
    /\ Len(win) >= Prefetch
    /\ filling' = FALSE
    /\ Enter
    /\ UNCHANGED <<win, overruns, mem, data, ipBase, ipValue, ipPrefetch,
                   clkCPU, clkMaster, count, held>>

(* Mutants: the byte goes into the safety zone, or costs no time.          *)
FetchDecodeByteInSafety ==
    /\ tries > 0 /\ tries' = tries - 1
    /\ IF End + Safety <= BufferSize THEN FetchByte
       ELSE UNCHANGED <<win, ipPrefetch, clkCPU, clkMaster>>
    /\ UNCHANGED <<cip, pc, todo, ins, overruns, failed, unbacked, mem, data,
                   ipBase, ipValue, count, filling, held>>

FetchDecodeByteFree ==
    /\ tries > 0 /\ tries' = tries - 1
    /\ IF End + Safety < BufferSize
       THEN win' = Append(win, MemRead(ipPrefetch)) /\ ipPrefetch' = ipPrefetch + 1
       ELSE UNCHANGED <<win, ipPrefetch>>
    /\ UNCHANGED <<cip, pc, todo, ins, overruns, failed, unbacked, mem, data,
                   ipBase, ipValue, count, filling, held, clkCPU, clkMaster>>

(* fetch_decode_byte: it refuses when the end comes near the fence.        *)
FetchDecodeByte ==
    /\ tries > 0
    /\ tries' = tries - 1
    /\ IF End + Safety < BufferSize THEN FetchByte
       ELSE UNCHANGED <<win, ipPrefetch, clkCPU, clkMaster>>
    /\ UNCHANGED <<cip, pc, todo, ins, overruns, failed, unbacked, mem, data,
                   ipBase, ipValue, count, filling, held>>

DecodeStep ==
    /\ ~filling
    /\ CoreStep
    /\ UNCHANGED machineVars

(* Mutants: IP does not wrap, follows the core's position in place of      *)
(* inslen, or the buffer does.                                             *)
RetireBy(value, from) ==
    /\ ~filling /\ pc = "done"
    /\ ipBase' = ipBase + ins.len
    /\ ipValue' = value
    /\ data' = data + from
    /\ win' = SubSeq(win, from + 1, Len(win))
    /\ count' = count + 1
    /\ filling' = TRUE
    /\ held' = win
    /\ UNCHANGED <<coreVars, mem, ipPrefetch, clkCPU, clkMaster>>
RetireUnwrapped == RetireBy(ipValue + ins.len, ins.len)
RetireIPByCip   == RetireBy((ipValue + cip) % IPModulus, ins.len)
RetireByCip     == RetireBy((ipValue + ins.len) % IPModulus, cip)

(* The rest of emu8086_cpu_step_one_instruction: the instruction pointer   *)
(* and the buffer advance by inslen.  ip.value is 16 bits wide; ip.base,   *)
(* which the next fetches follow, is not.                                  *)
Retire ==
    /\ ~filling
    /\ pc = "done"
    /\ ipBase' = ipBase + ins.len
    /\ ipValue' = (ipValue + ins.len) % IPModulus
    /\ data' = data + ins.len
    /\ win' = SubSeq(win, ins.len + 1, Len(win))
    /\ count' = count + 1
    /\ filling' = TRUE
    /\ held' = win
    /\ UNCHANGED <<coreVars, mem, ipPrefetch, clkCPU, clkMaster>>

EmuNext == PrefetchCycle \/ CallCore \/ FetchDecodeByte \/ DecodeStep \/ Retire

EmuSpec == EmuInit /\ [][EmuNext]_allVars

(* main is one sequential loop.                                            *)
FairEmuSpec == EmuSpec /\ WF_allVars(EmuNext)

-----------------------------------------------------------------------------
EmuTypeOK ==
    /\ TypeOK
    /\ filling \in BOOLEAN
    /\ \A a \in DOMAIN mem : mem[a] \in Bytes
    /\ data \in 0 .. BufferSize
    /\ {ipBase, ipPrefetch, clkCPU, clkMaster} \subseteq Nat
    /\ ipValue \in 0 .. IPModulus - 1
    /\ count \in 0 .. MaxSteps

(* The window is sane (the assertion that ends a step) and more: slides,   *)
(* refills and callbacks together never put a byte into the last Safety    *)
(* bytes of the array, although emu8086_state_add_to_prefetch does not     *)
(* look at the fence and a NOP of two bytes is retired without being read. *)
BufferSane == End <= BufferSize - Safety

(* The prefetch queue holds the memory at the instruction pointer, and the *)
(* bus goes on where it ends (the assertion in                             *)
(* emu8086_state_add_to_prefetch), through slides, refills, callbacks and  *)
(* decodes that end before, at or after what was fetched for them.         *)
QueueIsMemory ==
    /\ ipPrefetch = ipBase + Len(win)
    /\ \A i \in 1 .. Len(win) : win[i] = MemRead(ipBase + i - 1)

(* An instruction is what the flat core decodes from memory at ip.base,    *)
(* unless the callback refused it a byte or a peek ran ahead of the fetch. *)
DecodesMemoryAtIP ==
    (pc = "done" /\ ~filling /\ ~failed /\ ~unbacked /\ ins.op # "UD_OVERRUN")
        => ins = FlatDecode([i \in 1 .. WindowMax |-> MemRead(ipBase + i - 1)])

(* The clocks tell exactly the bytes read over the bus: no read is free    *)
(* and none is charged twice, whichever of the two paths made it.          *)
ClocksCountFetches ==
    /\ clkCPU = BusCycle * (ipPrefetch - (CodeBase + EntryIP))
    /\ clkMaster = CPUClockDivide * clkCPU

(* The linear instruction pointer and the IP register stay together modulo *)
(* the width of the register.                                              *)
IPInStep == (ipBase - CodeBase) % IPModulus = ipValue

(* The inductive invariant: while an instruction is decoded, that of the   *)
(* core holds too.                                                         *)
EmuIInv ==
    /\ EmuTypeOK
    /\ IF filling THEN tries = 0 ELSE IInv /\ count < MaxSteps
    /\ BufferSane /\ QueueIsMemory /\ ClocksCountFetches /\ IPInStep

(* main runs all its instructions.                                         *)
AllRun == <>(count = MaxSteps)

(* The emulator is a caller as StreamDecode describes it.                  *)
Stream == INSTANCE StreamDecode WITH win <- IF filling THEN held ELSE win
IsStreamCaller == Stream!Spec

(* testemu8088.c:99-101: all decoding is from the prefetch buffer, "just   *)
(* as the CPU must fetch memory to decode".                                *)
FetchesWhatItDecodes == ~failed
=============================================================================
