# minx86dec in TLA+

minx86dec is a small x86 decoder (and encoder) library. One big switch,
`src/x86_core.h`, is included by some twenty `core*.c` files that choose with
macros which processor it decodes for. The part that is hardest to get right is
not the switch but the way a decode takes its bytes: all at once from a buffer
(flat cores), or one callback at a time (the streaming core `src/score8086.c`),
from a window that the caller moves while instructions are decoded from it
(`src/sdecode8086.c`, `src/testemu8088.c`). These modules model that machinery
for the 8086 core, the programs around it, and the way of an instruction
through decoder, encoder and decoder, for the 8086 set and for the opcodes of
two and three bytes and the VEX forms that the core of all processors adds.

## The system

| part | state | operations | interacts with |
|---|---|---|---|
| streaming core, `score8086.c` + `x86_core.h` + `x86_core_macros.h` | static `cip`, `state`, `fetch8`; the `minx86dec_instruction` being filled | one call: prefix loop, opcode, operands; `stream_fill` before each fetch | calls `fetch8` of the caller, which moves `prefetch_fence` under it |
| flat core, `core8086.c` (and every other `core*.c`) | static `cip` | one call | reads the caller's buffer; tests `prefetch_fence` behind prefixes only |
| `sdecode8086.c` | `buffer`, `tmp`, `bufr`, `ip` | main's loop, `my_fetch8` | caller of the streaming core |
| `decode*.c` | buffer, `read_ip`, fences | main's loop | callers of the flat cores |
| `testemu8088.c` | memory, sliding prefetch buffer, `ip.base`, `ip.value`, `ip.prefetch`, two clocks | refill, `fetch_decode_byte`, step | caller of the streaming core; `sliding_window` of isp-utils (external) |
| `encoreall.c` | write position | encode one decoded instruction | reads the structure a decoder filled |
| `recode*.c` | buffers; in `recodeall.c` a mode for each of decoder and encoder | decode, encode, decode | decoder and encoder |
| `string.c`, `opcodes*.h`, `types.h`, `iit387.c` | none | formatting, tables | |

What is hard about it:

- the callback may deliver any number of bytes, or none, each time it is asked
  (x86_core_macros.h:11), and the core goes on after a fetch that failed;
- the core looks at bytes it has not fetched, steps back, and ends invalid
  instructions at a place it has not read up to;
- the emulator has five positions in one buffer, moved in four functions, and
  both the refill and the callback append to it;
- the end of the data is known only by `prefetch_fence`, which is tested in one
  place;
- the encoder picks other forms than the program had, and must pick ones the
  decoder reads back;
- from the 386 on a size is relative to the mode: 0x66 and 0x67 mean the other
  one, 0x66 also selects opcodes, and it is counted where it should be noted;
- some 250 cases of the encoder write prefixes, segment and size each for
  itself, and each can forget one.

What makes each part correct is stated as its module's properties; every hazard
met in the code is listed with its line in `PROJECT.json`.

## Modules

| module | models | used by |
|---|---|---|
| `Layout8086` | instruction formats of the 8086 core: prefixes, ModR/M, operand widths, encodings without opcode, the FPU escapes | all below |
| `Flat8086` | one decode with all bytes present, as a function of the bytes | reference for the streaming core, FlatDriver |
| `Decode8086` | the streaming core, one fetch, peek or stop test per step; its own invariants | the three below |
| `StreamDecode` | the core with the most general caller: the contract | refined by the two below |
| `StreamDriver` | `sdecode8086.c` | |
| `Emulator8088` | `testemu8088.c` | |
| `FlatDriver` | `decode8086.c` | |
| `MemoryOperand` | memory operands of 16 and 32 bits: `decode_rm_x86`, `minx86enc_seg_overrides`, `minx86enc_encode_memreg` | the four below |
| `AddressForm` | an operand through decoder, encoder and decoder | |
| `Meaning8086` | the instruction structure the flat core fills in: mnemonic, operands, jump targets | Encode8086 |
| `Encode8086` | `minx86enc_encodeall` for those mnemonics | Recode8086 |
| `Recode8086` | `recode8086.c`: an instruction decoded, encoded, decoded, and its output recoded | |
| `Meaning386` | the structure `coreall.c` fills in: prefixes of size and segment, `0F`, `0F 38`, `0F 3A`, operands of both sizes | MeaningVex |
| `MeaningVex` | the VEX forms behind `C4` and `C5` | EncodeVex |
| `Encode386` | `minx86enc_encodeall` for those mnemonics, with data32 and addr32 | EncodeVex |
| `EncodeVex` | its cases that look at `ins->vex` or at the number of operands | Losses386 |
| `Losses386` | what recoding does not preserve, by the reason | RecodeAll |
| `RecodeAll` | `recodeall.c` in its four pairs of modes | |
| `FormatProofs` | lemmas about what the models share: instruction formats, widths of operands, runs of prefixes; what the encoder writes for each row of the opcode map | the proofs below but `AddressProofs` |
| `CoreProofs` | proofs about a step of the core: it keeps its invariant, and it follows the flat decode; the same for `StreamDecode`, with any caller | the next row |
| `DriverProofs`, `EmulatorProofs` | proofs about `sdecode8086.c`, about `testemu8088.c` | |
| `SweepProofs` | proofs about `FlatDriver` | |
| `AddressProofs` | proofs about `AddressForm` | |
| `RecodeProofs` | proofs about `Recode8086`: length and extent of what is written; what each case of the encoder is decoded as | `PreserveProofs` |
| `PreserveProofs` | proofs about `Recode8086`: which instructions survive, and that a second run changes nothing more | |
| `MC*` | byte sets and files for TLC | |

### The core

`win` holds the bytes from `read_ip` to `prefetch_fence`, so positions count
from the start of the instruction and `Len(win)` is the fence. `pc` names the
fetch, peek or test the core is about to make, `todo` the widths of the operands
that remain, and `tries` how many calls of `fetch8` the loop of `stream_fill`
still has to make for the fetch at hand; it is set when the core arrives at the
fetch (`Goto`) since the code computes it before the first call. With `tries = 0`
the fetch itself happens: `ReadValue`, `ReadNext` and `CountOverrun` are
`fetch_u8` and `fetch_u16`, with the failure they swallow. A byte read at the
fence (`AtCip`) is any byte of `Stale`: what the caller's buffer held there.

`FetchOpcode` is the switch on the first byte; `NextRound` the macro of that
name; `Peek` the three places that look at `*cip`; `FetchFPU` the second byte of
an escape with its step back; `FetchModRM` is `decode_rm_x86` and what the case
does with the reg field; `FetchOperand` a displacement, immediate or offset.
`Return` is the end of the entry function with the NOP of two bytes.

The decoded instruction keeps the bytes that select its mnemonic and operands
(`lead`, `fpu`, `rm`, `args`), the prefix fields, the length and the kind of
outcome: an opcode, `MXOP_UD`, `MXOP_UD_NOP` or `MXOP_UD_OVERRUN`. Mnemonics,
operand structures and jump targets are functions of those; only `Meaning8086`
has them.

### The callers

`StreamDecode` lets the caller set up any window of at least `Prefetch` bytes,
and the callback append any bytes or none. `StreamDriver` and `Emulator8088` own
the callback and the loop of the two programs and are checked to be such callers
(`IsStreamCaller`, the specification of an instance of `StreamDecode`). For the
driver the instance sees `done` while the loop prints; for the emulator it sees
the last window while the buffer slides and is refilled.

`Emulator8088` counts positions from `prefetch->buffer`: the window lies at
`data`, `prefetch->end` is `data + Len(win)`. `PrefetchCycle` is a round of the
refill loop with the slide that may precede it, `CallCore` the call of the core
in a step, `FetchDecodeByte` the callback, `Retire` the rest of the step. The
program prints instructions and executes none, so registers do not change and
IP only moves forward. `sliding_window_flush` (external) moves `data..end` to
the start of the array, as its use at testemu8088.c:226 requires.

`FlatDriver` needs no machine: the flat core cannot fail, so a decode is
`FlatDecode` of the bytes at `read_ip`, cut at `prefetch_fence` where
`stop_decoding()` ends a run of prefixes. `reach` records how far the decode
looked, which is how the model sees reads behind the fence.

### Memory operands

`MemoryOperand` keeps an encoded operand as its fields (mod, rm, SIB,
displacement and width, segment prefix) and a decoded one as the fields of
`minx86dec_argv` that name the address. Both address sizes are covered, with
decoder quirks kept: a SIB without index whose base is 5 gives no register also
where mod is not 0 (x86_core_macros.h:242-250). `AddressForm` sends each form
through decoder, encoder and decoder.

### Instructions through the encoder

`Meaning(s, ip)` is the structure the flat core makes of bytes `s`: what the
cases of the switch add to the fields `FlatDecode` finds. `EncodeAll(i, ip)` is
the switch of the encoder, by families of cases that are the same code with
another number: prefixes, opcode, and ModR/M with displacement from
`MemoryOperand`. `extra` of the C code, the bytes written before a jump, is 0
for every jump since their cases write no prefix.

An iteration of main's loop in `recode8086.c` shares nothing with the others but
its place in the two buffers, so `Recode8086` follows one instruction at an
`ip_value` (`FirstDecode`, `Encoding`, `SecondDecode` or `Blank`); what stands
behind the encoding in `encoded[]` is 0. `NextRun` runs the program on its own
output, which is where the flip-flop of encoreall.c:2355 shows.

`Lossy` lists the instructions that do not survive, by reason, each an operator
of its own: an override, LOCK or 0x9B their case does not write (`DropsOverride`,
`DropsLock`, `DropsWait`), 0x9B in front of an override (`SplitsWait`), near
targets that wrap and conditional targets put out of reach by a dropped prefix,
which get forms of the 386 (`Wraps`, `Outreaches`), PUSH and POP of a byte
(`WidensByte`), operands no case takes (`HasNoForm`), the reversed forms behind
0xDC (`Flips`), FSTP m80 and FISTP m64, encoded as other stores
(`MisreadsStore`), and XCHG AX,AX. `PreservesAllButLossy` says that the list is
exact: each of these really is lost, and nothing else is.

### The later processors

`coreall.c` includes the switch with every level and extension enabled, so that
its rows are the union of those of the other cores but for conflicts.
`Meaning386` decodes in steps as the code does: `Parts` splits prefixes, opcode
and the rest (`data` is `dataprefix32`, the count of 0x66), `WithRM` adds the
memory operand the next byte would name as a ModR/M byte, which `InRM` uses
where the opcode has one, the row operators name mnemonic and operands, and
`Instruction` says what of it is stored. A form whose operands are the same for
many opcodes is one operator (`Sse`, `Packed`, `Gpr`, `ToRM`). Quirks are kept
as they are: the registers of FXSAVE take no operand and leave the ModR/M byte
(`SaveGroup`), and `AndByCount`, `AddByCount`, `MinByCount`, `MaxByCount` index
the opcode numbers by the count of 0x66. `MeaningVex` repeats this for the forms
with a VEX prefix, whose fields are turned over (`Flipped`).

`Encode386` and `EncodeVex` give the cases of the encoder as tables from
mnemonics to opcode bytes, one table for the cases that are the same code. The
prefixes each case writes, `SegmentOverride`, `DataOverride` and `AddrOverride`,
are operators of the mode, since `minx86enc_32_overrides` compares with it; a
table says which of them its cases leave out (`Unsegmented386`, `UnsizedMemory`).

`RecodeAll` is `Recode8086` with modes: the output is decoded in the mode it was
written for. What one decode leaves to the next in the structure is the segments
of `argv` (`given` in the prefix fields, the last of the four old overrides, is
what an operand without a segment shows); `LeftoverSegmentsDoNotShow` puts any
other there and asks whether the encoder's output depends on it.

`Losses386` lists what does not survive, again with an operator for each reason
and `PreservesAllButLossy` to say that the list is exact:

- LOCK (`DropsLock`), an override in the cases without `minx86enc_seg_overrides`
  (`DropsOverride`), the operand size of CMOVcc, XSAVE, SHLD and some more
  (`Resizes`), the second operand of IMUL (`LosesFactor`);
- mnemonics without a case, or a case that has none for the operands
  (`HasNoForm`, 3DNow among them);
- a scaled index without base (`Unbased`, as `address_scaled` shows), operands
  of moves between registers encoded the other way round (`SwapsSizes`);
- the register forms of FXSAVE and FXRSTOR, which are given an operand that the
  decoder never made (`InventsOperand`);
- opcodes a second 0x66 turned into others (`Strays`);
- of VEX: the prefix itself (`LosesVex`), the length (`Narrows`), and registers
  from 8 on in the prefix of two bytes, which make it an LDS (`BecomesLDS`).

VMXON loses nothing, but its 0x66 comes and goes from run to run
(`TurnsPrefix`).

## Runs

| run | asks | bounds, and why they are enough |
|---|---|---|
| `stream_core` | is the window respected, is a decode without failed fetch the flat one, is the overrun opcode justified, does every call return | windows of 2 to 6 bytes over 6 byte values; 6 is the longest instruction, and each value is met as opcode, prefix, ModR/M and operand; a stale byte is a prefix, an opcode with operands or an escape, so that it answers each peek either way; the overrun counter has 1 bit, so that it wraps; the only loop is that over prefixes |
| `stream_driver` | copying, agreement with the flat core, the warning, progress to the end | files shorter than, as long as and longer than the first copy; files of 8 bytes of prefixes and ADD, which fill tmp (6 bytes) and go on in a buffer of 11, so that a counter that is not cleared is met where tmp is not full and the buffer not used up, and others that use up the buffer; the overrun counter has its 16 bits |
| `stream_peek` | violation, see below | |
| `emulator` | buffer, queue, decode, clocks, IP, progress | buffer of 17 bytes with margin 4: ten instructions slide it twice, fetches near its end are refused; IP has 4 bits and wraps; memory of 22 bytes ends within the run |
| `emulator_fetch` | violation, see below | |
| `flat_sweep` | where are runs of prefixes cut, how far do reads go, what is decoded twice, progress | files of 1 to 7 bytes with a margin of 6 for 16: shorter, as long, longer; `C7` with a wrong reg field, whose operands are looked at and decoded again |
| `flat_fence` | violation, see below | |
| `address` | does decode, encode, decode keep an address | all ModR/M and SIB forms, all segments, displacements at -128, -1, 0, 1, 127, 128 and the ends of 16 and 32 bits |
| `address_scaled` | violation, see below | |
| `recode` | which instructions survive recoding, is the result read back whole, can it grow, is it final | every opcode with all 256 second bytes; displacements and immediates 0, 1, 7F, 80 and FFFF; segment, LOCK, REP and wait prefixes alone and in pairs; jumps by 0, 7E, 7F, 80 and the ends of 16 bits from three positions; two runs, as the second shows whether the first was final |
| `recode_fsub` | violation, see below | |
| `recode_all` | which of the later instructions survive recoding, in which mode; is the result read back whole; is it final; do old segments or a second 0x66 show | every opcode of two bytes and one of each kind of three, with no prefix, 0x66 once and twice, the repeat prefixes, 0x67, an override, LOCK, and ten ModR/M forms (register, memory with each width of displacement, SIB with and without base) in both modes; every reg field for the groups; near jumps around the ends of a byte; VEX with each `pp`, both lengths, both prefix sizes and registers below and above 8; two runs. Two of 0x66, one of which VEX may imply, are the most: the tables by count end there |

Deadlock is checked for `stream_core`, where the caller can always call again. The programs end, so the other runs do not check it.

### Where code and text disagree

- `stream_peek`: the three peeks of the switch read `*cip` without
  `stream_fill`, though x86_core_macros.h:42-43 asks a streaming core to extend
  the window first. Behind three prefixes, a `9B` as fourth byte decides between
  FWAIT and a prefix by the byte of `tmp` that was not copied yet.
- `emulator_fetch`: the refill slides the buffer when `data` and a prefetch come
  within the margin of its end, `fetch_decode_byte` refuses when `end` does. In
  between begins an instruction longer than `PREFETCH_SIZE` that is not slid and
  then refused: in the run a six-byte ADD without prefixes at `data` 8 of 17 gets
  its fifth byte and not its sixth, so its immediate is read where nothing was
  fetched and it is taken to be four bytes long. In the code's numbers such
  instructions begin at 4059 or 4060 of 4096. testemu8088.c:99-101 says that all
  decoding is from what the CPU fetched.
- `flat_fence`: state.h:10 says no reads go past `fence`; an instruction begun in
  the last bytes of a file reads its operands there. How far they can go is what
  `ReachesPastFenceOnlyAtTail` bounds.
- `address_scaled`: README:22 offers to encode decompiled instructions; a scaled
  index without base loses its scale. `RecodeKeepsAddress` shows that this is the
  only form that does.
- `recode_fsub`: the FIXME at encoreall.c:2355 suspects encoder or decoder of
  turning FSUB into FSUBR. It is the encoder: behind 0xDC it uses the numbers of
  0xD8, and each run turns the one into the other; FDIV and FDIVR likewise.

## Fairness

Each program is one thread, and a decode is straight-line code between calls.
`FairSpec` of `StreamDecode` assumes that the core and the callback go on,
nothing of the caller; those of the programs assume that their loop goes on.
No property needs strong fairness or assumes that the callback delivers.

## Proofs

The theorems hold for every byte set, window and buffer size, margin, file,
memory contents, width of IP and of the overrun counter that satisfy the named
assumptions in the modules: the core is called with two bytes or more (four in
both programs), the emulator's array holds two prefetches and the margin, a file
is not empty and fits the buffer, the overrun counter of the streaming program
can count to four, the margin of the sweep is at least the longest instruction,
displacements are of one, two or four bytes, the buffer of a recode program ends in
eight zeros. The theorems about recoding hold for all bytes at any position and any
number of runs, where `recode` picks tails, positions and prefixes.
tlapm checks all of it; TLC evaluates the assumptions in the runs.

| specification | inductive invariant | theorems about |
|---|---|---|
| `StreamDecode` | `IInv`, `FlatIInv` | `TypeOK`, `ConsumesWindow`, `OpcodeInWindow`, `OverrunMeansPrefixes`, `StreamEqualsFlat` |
| `StreamDriver` | `DriverIInv`, `SameIInv` | `DriverTypeOK`, `WindowIsBuffer`, `OverrunMeansUsedUp`, `OverrunOpcodeAtEnd`, `SameAsFlat`, `IsStreamCaller` |
| `Emulator8088` | `EmuIInv`, `MemoryIInv`, `RefIInv` | `EmuTypeOK`, `BufferSane`, `QueueIsMemory`, `ClocksCountFetches`, `IPInStep`, `DecodesMemoryAtIP`, `IsStreamCaller` |
| `FlatDriver` | `SweepIInv` | `TypeOK`, `ReachesPastFenceOnlyAtTail`, `OverrunEndsAtPrefetchFence`, `OverlapOnlyAfterNop` |
| `AddressForm` | `AddressIInv` | `AddressTypeOK`, `RecodeKeepsAddress`, `RecodeIsNoLonger` |
| `Recode8086` | `RecodeIInv`, `OwnOutput` | `TypeOK`, `NotLonger`, `ReadsWhatWasWritten`, `PreservesAllButLossy`, `SettlesAfterOneRun` |

**The core.** `CoreProofs` shows for one step of the core that `IInv` is kept
(`CoreKeeps`), and the same for bytes appended by a callback (`GrowKeeps`) and
for a call (`EnterKeeps`), without saying who the caller is, so that the three
specifications that contain the core share it. `IInv` strengthens the safety
properties by what they rest on. `WindowHeld`: the core is called with two bytes
or more, which is what makes the NOP of two bytes and the step back from a failed
fetch behind an escape stay in the window. `Progress`: while inside an
instruction at least its first byte was consumed, so the step back has something
to step over; at `opcode` there is a byte. `PrefixesSoFar`: as long as the loop
may go round, all that was read are prefixes and no fetch failed, so an overrun
reported later is justified.

**Agreement with the flat decode.** `StreamEqualsFlat` compares whole decodes,
which takes an invariant that says at each fetch how far the flat decode has
come: `Follows(s)` in `CoreProofs`. It is stated of every sequence `s` that
*begins with* the window (`Extension`), for two reasons: the callback makes the
window longer in mid-decode, which leaves fewer extensions and so keeps the
invariant (`FollowGrowth`), and at the end it says that no byte behind the window
had any influence. `FollowCoreStep` and `FollowEnter` are the other two cases, so
that `StreamingIsFlat`, `ProgramsAgree` and `DecodesWhatMemoryHolds` are three uses
of the same lemmas. The instance of `s` is the window itself, the buffer from `ip`
on, and the memory from `ip.base` on.

**The streaming program.** `my_fetch8` is called at most as often as bytes are
missing, but its first call brings all there are: a fetch that has used its calls
and still lacks room (`Starved`) means that `tmp` or the buffer is at its end
(`Answered`). `Fed` says that no step of the core arrives at a fetch already
starved. That `overruns` is 0 only if no fetch failed needs a bound: one decode
makes at most four fetches that can fail (`Counted`), so the counter, which the
loop clears, does not wrap.

**The emulator.** The core's invariants hold only while a decode is under way,
since `Retire` takes away the window they speak of.

**The refinements.** Both programs implement `StreamDecode`. `DriverProofs` and
`EmulatorProofs` prove it for the two mappings the modules state: Init maps to
Init, and each step to a call, a callback, a step of the core or a stutter. The
first half of each shows that a definition of the instance is the definition
itself while an instruction is decoded.

**The sweep.** Each property of `FlatDriver` is one of a single decode, so the
invariant is their conjunction with the types. What has to be shown is that a run
of prefixes which `stop_decoding` does not end meets an opcode before
`prefetch_fence` (`PrefixesEnd`, by the least non-prefix), and that an
instruction reaches at most six bytes behind its prefixes (`DecodeBounds`).

**Addresses.** `AddressIInv` says of which sets the encoding (`Encoded`) and the
operand (`Formed`) are members, and that the operand is the decode of the one and
the encoding that of the other. The work is in three lemmas about the pure
functions: the decoder takes encodings to operands (`DecodeForms`), the encoder
operands to encodings (`EncodeEncodes`), and decoding what was encoded gives the
same address unless a scaled index had no base (`EncodeThenDecode`). Displacements
are any numbers of their width, so this covers what `address` samples.

**Recoding.** `RecodeIInv` says only that each variable is the function of the
earlier ones that its stage makes of them; what it takes is a theorem about decode
and encoder, for all bytes. It has three parts. First, the input: the zeros behind
it end every prefix and hold every operand (`PaddedIsWhole`), so a decode is one of
an opcode with all its fields (`FieldsOfWhole`). Second, the rows: for every opcode
the case of `minx86enc_encodeall` that takes its mnemonic and operands writes
nothing, or bytes that *stand on their own* (`Stands`: an opcode that is no prefix,
of which the decoder consumes every byte) and are no more than were read
(`AllRows`, from one lemma a row and one an escape). The ModR/M byte is where this
could fail: the encoder chooses the form anew, and `ModIsKept` shows that it has
no longer displacement than the one decoded, and rm 6 with mod 0 only for a direct
address. Third, the prefixes: the segment override is not copied but written where
the operands name a segment that is not their default, so it must be shown that
they do so only if an override was read (`AllGoverned`, for every row);
then the prefixes written are of different kinds, each of which stood at a
place of its own (`FewPrefixes`), and the whole is no longer than what was read
(`Written`). Read again, they are prefixes and the opcode behind them is none
(`Reread`), except 0x9B with an override behind it (`SplitsWait`). `Wraps` and
`Outreaches` are the two ways a row can fail, and the theorems except them.

**What survives.** `PreservesAllButLossy` is an equivalence, so that for each
instruction either all its operands have to be found again or one difference. The
*verdict* on a case of the encoder (`Verdict`) says which, before prefixes come
in: if the instruction has one of the reasons for a loss that lie in its operands
(`Odd`), what is decoded from the encoding is another instruction (`Lost`);
otherwise it has the same mnemonic and operands, up to a segment (`Kept`).
`RecodeProofs` has a lemma for each shape of an encoding that gives the operands
found in it (ModR/M byte and displacement, numbers behind it, sign-extended bytes,
targets, stack registers), and from these the verdict on each case of the encoder.
`PreserveProofs` has one lemma for each row of the switch that leads its
instructions to such a case (`AllVerdicts`). The prefixes are found again as
`Prefixes` wrote them (`ReadsBack`), so that a segment comes back exactly where the
encoder looks at the operand it belongs to (`SegmentBack`). `Preserved` combines them with the reasons that lie in the
prefixes.

**What the second run changes.** `SettlesAfterOneRun` compares encodings, not
instructions. The verdict serves again: an instruction that was kept has, up to
the parts no case looks at, the operands of the one it came from, and is written the
same (`KeptSettles`); one that was lost has become another, and for each reason the
encoding of that one is what was written already (`LostSettles`), but for the forms
behind 0xDC. `OwnOutput` carries to the second run that its bytes are what the
first one wrote. One exception came up in the proof: the target of a short jump
is not cut to 16 bits. If it lies beyond the segment's end and a dropped prefix puts
it out of the short form's reach, a near jump is written, whose target is cut, and
the second run takes that for too far (`WrappedIsFar`). The property excepts it by
`Wraps`, and `recode` has jumps near the end of the 16 bits.

Only model-checked, and why:

- The six invariants of `RecodeAll`. They ask the same questions over tables ten
  times as large, in four pairs of modes; the rows and verdicts would have to be
  proved again for each form, as the decoder and encoder are other operators. Its
  encodings are finite but for operands, and the run enumerates them.
  `RepeatedPrefixIsOne` is about at most two of 0x66, which is what the run gives.
- Liveness (`Returns`, `ReachesEnd`, `AllRun`, `Sweeps`), which is out of the
  prover's reach.

## Not modelled

- Of `coreall.c`: opcodes of one byte other than 70-7F, 90, the far loads and
  the prefixes, whose 16-bit forms `Meaning8086` has; XOP behind `8F`, a table of
  mnemonics that the encoder has no case for; three or more 0x66.
- The other builds of the switch (286 to Pentium, vendor cores), which are rows
  left out or, for Cyrix, IBM and NEC, put in place of others; x86-64.
- The encoder's cases of one-byte opcodes with data32 or addr32 set.
- The other recode programs, which are the same loop around another core.
- The positions of successive encodings in `encoded[]`: `NotLonger` says which
  instructions can make the output outgrow the input.
- Printing.
- Use the code does not have: two decodes at a time, a callback that decodes.

## Plan

1. Core machinery, callers, memory operands, proofs of core and emulator: done.
2. Encoder of the 8086 set, recoding of whole instructions: done.
3. Opcodes of two and three bytes and VEX in `coreall.c`, the encoder for them
   with data32 and addr32, `recodeall.c`: done.
4. The opcodes of one byte in 32-bit mode on both sides; the sweep over
   `coreall.c`, where instructions are longer than its margin of 16 bytes; which
   encodings of one level change meaning at the next.
5. Proofs: agreement with the flat decode, both programs, both refinements, the
   sweep, memory operands, everything the run `recode` checks of the 8086 encoder:
   done. The properties of `RecodeAll` are left.
