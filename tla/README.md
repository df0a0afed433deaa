# Verification of ca0132-tools in TLA+

ca0132-tools is a set of command-line programs that talk to Creative's ca0132
HDA codec through Linux' hwdep device: they read and write the codec's buses,
drive its embedded 8051, send commands to its DSP, step the DSP, decode traces
of a driver's traffic, and assemble and disassemble DSP code. This directory
models the programs in TLA+, checks the models with TLC and proves theorems
about them with TLAPS.

## 1. Inventory

Every program is single-threaded and keeps its state in local variables. The
only shared state is in the codec, which is external: what it does is modelled
from how the programs use it. Every access is one HDA verb sent by one `ioctl`,
answered by a 32-bit response; the codec, its 8051 and its DSP run on by
themselves between two verbs. So each `ioctl` is one atomic step and everything
the codec does on its own interleaves with them.

| component | source | state | operations | what makes it correct |
|---|---|---|---|---|
| HIC bus library | `ca0132_base_functions.c:95-254` | address, data and read registers and transfer in progress (codec); retry counters | read/write one word or a range, by 16-bit halves, with polls and retries | whole words land at their own addresses, in order; reads are of their own address; every call ends |
| chipio tools | `ca0132-chipio-*.c` | buffers, pieces left | read, dump in pieces, write, load and compare | nothing left out; what is reported is what is on the bus |
| 8051 exram/pmem library and tools | `ca0132_base_functions.c:256-373`, `ca0132-8051-read-*.c`, `ca0132-8051-write-*.c` | address register (codec), `cur_upper`, chunk counters | single and range reads (address high half only when it changes), range writes (auto-increment) | each byte comes from / goes to its own address, also across 256-byte pages and at 0xffff |
| control flags and parameters | `ca0132_base_functions.c:375-443`, `ca0132-get-chipio-flags.c` | selected parameter ID (codec) | set/get flag, set/get parameter (ID, then value) | the value belongs to the parameter named |
| stream tools | `ca0132-get-chipio-stream-*.c` | copies of three tables of the firmware, port counter | read the tables, print ports and fields | a stream is shown with its own ports and fields, none left out |
| DSP command path | `ca0132_base_functions.c:20-93, 1270-1311`, `ca0132-send-dsp-scp-cmd.c` | half-word register, queue (codec); packet position | send one word; send header and data words | the DSP receives the packets that were typed |
| DSP debug control | `ca0132_base_functions.c:445-504` | debug register (codec) | single step on/off, run n steps | a DSP in single-step mode executes what it is told to and no more |
| 8051 serial console | `ca0132-8051-command-line.c` | two rings in exram with base and write pointers | send a command line, print the response | commands and responses arrive complete and in order |
| 8051 state dump | `ca0132-8051-dump-state.c` | handlers installed in exram, signal byte, dump area | install, trigger, wait, collect | the 8051 is never hijacked into half-installed code; each dump is the one asked for |
| DSP operation test | `ca0132-dsp-op-test.c` | assembled program, single-step position | load, run, read registers | steps and instructions correspond |
| frame dump decoder | `ca0132-frame-dump-formatted.c` | partial address/data/packet per register pair | consume verbs, print transactions | what is printed is what the driver did |
| DSP assembler | `ca0132_dsp_functions.c`, `ca0132-dsp-assembler.c` | opcode and layout tables | choose an opcode, encode operands into 25-bit words | encoding is unambiguous and undone by the disassembler |
| DSP disassembler | `ca0132-dsp-disassembler.c` | tables | decode words | inverse of the assembler |
| documentation and data | `documentation/`, `ca0132_defs.h`, `hda_hwdep.h` | - | - | `emu10k1-explog.c` is third-party and not modelled |

Components interact by calls only: every tool calls the library in
`ca0132_base_functions.c`; the assembler, the disassembler and the operation
test share `ca0132_dsp_functions.c`; the decoder reads what a driver sent with
the same verbs the library sends.

Hard behaviour, in order of importance:

* any verb may be refused and every poll may time out, at any point of a
  multi-verb operation; the functions in between return `void` or a value that
  may also be data, so failure is often invisible to the caller;
* a tool can be killed between two verbs and leaves registers half-written;
* the 8051 and the DSP run concurrently with the tools (rings, signal byte,
  single stepping, command queue);
* counters and addresses at their limits (16-bit addresses, ring ends, pieces);
* decoding and encoding must be inverse to each other.

## 2. Plan

Order of work, most important behaviour first. An operation that changes state
is one action per `ioctl`, so that every place where a verb may be refused or
the tool killed is a state of the model; what has no state (headers, layouts,
installed code) is a module of operators that the stateful ones extend.
No module uses a RECURSIVE operator.

| step | modules | question | theorems | state |
|---|---|---|---|---|
| 1 | `HicWords`, `HicMemory` (abstract), `HicBus` | is the bus a memory of whole words, whatever is refused or killed? | type, safety, refinement | done |
| 2 | `ScpHeader`, `DspioScp` | does the DSP receive the commands that were typed? | header round trip, type, safety | done |
| 3 | `Exram8051` | does every byte come from and go to its own address? | type, safety | done |
| 4 | `Console8051` | do lines and responses pass two rings whole and in order? | the rings, `HeardIsSent`, `PrintedIsSaid` | done |
| 5 | `DumpLayout`, `DumpHandler8051`, `StateDump` | is the dump the state of the 8051 at rest? | all safety properties of the handlers; type and `SavedIsTrue` of the protocol | done |
| 6 | `FrameDecoder`, `FrameDump` | is what the decoder prints what the driver did? | all safety properties of its run | done |
| 7 | `DspOpTestProgram`, `DspCore`, `DspOpTest` | does a DSP in single-step mode do the steps it is told, and does the operation test show the registers that the operation changed? | - | checked |
| 8 | `ChipStreams` | are streams shown with their own ports while the firmware may change them? | `StableIsShown` | done |
| 9 | `DspOperands`, `DspLayouts`, `DspOps`, `DspAssembler`, `DspDisassembler`, `DspListing` | is decoding the inverse of encoding, is the layout that the assembler chooses the one the disassembler finds, and is a listing fit to be assembled? | `ListingIsTheFile`, `AddressesKept` | done |

Modules 1 to 3 are used by all others at a coarser grain: `Console8051`,
`ChipStreams` and `StateDump` take one call of the exram library (or one byte of
it) as one step, which `Exram8051` takes apart; `DspOpTest` takes the writing of
the program and the reading of an area, which `HicBus` takes apart, as one;
`StateDump` takes the handlers for what `DumpHandler8051` shows of their code;
`DspOpTest` runs the words that `DspAssembler` makes of its program. The
abstract specification of step 1 is `HicMemory`. The two streams of
`Console8051` and the queue of `DspioScp` are kept as history variables instead
(`sent`, `heard`; `stream`), which says the same with less.

A module `X` comes with `MCX` (values for TLC), one `X_<run>.cfg` for each run,
and `X_proofs` when theorems are proved about it. A definition marked "Fault"
is a wrong version of the definition that follows it (a guard dropped, an
off-by-one, an order swapped); no action uses it. Substituting it for the right
one makes the property that `PROJECT.json` lists with it fail, which shows that
the property can fail.

## 3. The modules

### HicWords, HicMemory, HicBus: the HIC bus and the chipio tools

`HicBus` is `chipio_get_status` to `chipio_hic_read_data_range`
(`ca0132_base_functions.c:95-254`) and the `main` of the four chipio tools, with
the codec's side of the bus.

| state | in the code |
|---|---|
| `alo, ahi`, `dlo, dhi`, `latch` | address, data and read register of the codec, by 16-bit verbs |
| `pend`, action `Transfer` | the transfer that the codec performs by itself after the high half of a word (write) or POST_READ (read) has been sent; it steps the address by four |
| `pc`, `tries` | the `ioctl` that comes next, and the retry counters of `chipio_get_status` and `chipio_verb_send_with_status` |
| `job, phase, off, left, idx, got` | arguments, buffers and loop counters of the tools |

`PollReady`/`PollBusy` are the status verb of `chipio_get_status`,
`SendRefused` a verb refused in `chipio_verb_send_with_status`, `SendAddress`,
`SendData`, `PostRead` and `Fetch` the verbs of `chipio_hic_set_addr`,
`chipio_hic_write_data` and `chipio_hic_read_data`. `Start`, `WriteReturns`, `ReadReturns`
and `Finish` are the tools around them: `PieceLeft` and `ChunkSize` are how
`chipio-read-to-file` cuts a range in pieces. `Kill` ends a tool between any two
verbs; what it left in the registers is what the next tool finds. The codec may
refuse any verb and be busy at any poll.

`HicMemory` says what a user may expect: whole words appear at their places in
order, a load stops anywhere, and a word read is the word there unless it is
marked stale. `HicBus` implements it (`ImplementsMemory`, refinement mapping
`store <- Settled`, the bus as it is once the transfer under way is done).

### ScpHeader, DspioScp: the DSP command path

`ScpHeader` is the packing of a packet header (`send-dsp-scp-cmd`) and its
unpacking as the DSP, and the decoder, do it: the fields are shifted and masked
by their widths. `DspioScp` is `dspio_write` with `dspio_write_wait` and
`dspio_send` (`ca0132_base_functions.c:20-93`) and the loop of
`send-dsp-scp-cmd`. The codec queues whole words (`stream`) and remembers that
it found the queue full (`lost`); the DSP takes words (`DspTakes`) and puts packets together from
the size in their headers.

### Exram8051: exram and program memory

The functions of `ca0132_base_functions.c:256-373` and the tools
`8051-read-exram(-to-file)`, `8051-write-exram(-from-file)`, and the program
memory part of `8051-dump-state`, one verb at a time. `curUpper` is the
library's belief about the upper half of the address; `AimAt` is the decision
whether it must be sent. `Ask` holds the tools' refusal of ranges that are too
large.

### Console8051: the serial console

`8051-command-line` against the firmware (`Take`, `Say`) and the UART
(`Drain`). The IN ring is written at the base pointer by `Store` and announced
by `Announce`; the response is what lies between the two OUT pointers at the
time they were read. `Offset` is the code's split of a range at the end of a
ring.

### ChipStreams: the stream tools

`get-chipio-stream-ports` and `get-chipio-stream-data` read tables of the
firmware byte by byte (`ReadInfo`, `ReadStart`, `ReadEnd`) while the firmware may
write any of their bytes (`Firmware`), and print from their copies
(`PrintData`, `PrintStream`, `PrintPort`). `Distance` and `MorePorts` are the
unsigned arithmetic of the loop over the ports, with `WORDS` for 2^32. The
tables lie closer together than they are long: the last entry the tools read is
not one of the firmware's (`FirstAt`, `LastAt`, section 8).

### DumpLayout, DumpHandler8051, StateDump: the state dump

`DumpLayout` is the code that `8051-dump-state` installs: the byte arrays of the
source, where the tool puts them and in which order (`Image`, `ByteAt`,
`Written`). `DumpHandler8051` executes those bytes, one 8051 instruction at a
time, from the call of the hooked routine to the return. The numbers of blocks
that the loops copy (`PMEM_BLOCKS`, `XRAM_BLOCKS`; 96 and 32 in the source) are
constants, so that TLC can go through the loops with small ones. `StateDump` is the
protocol of request, signal, clear and read between the tool and those
handlers, for the three sections of the file.

### FrameDecoder, FrameDump: the frame dump decoder

`FrameDecoder` is `frame-dump-formatted`: its two passes (`CountFrame`,
`Rewind`, `Decode`) and one action per case of its verb handlers. `hic`, `ram`,
`param` and `dsp` are what it has gathered of a transaction of each kind,
`shown` is the lines it has printed. At the end of a file it handles the last
verb once more, in both passes (`atEnd`, `At`), because it looks for the end
only before it reads. The array for a run of exram bytes has `RunSize` bytes (128
in the source) and no check; a byte behind it would be stored over what the
program keeps next to it, the number of downloads first. `RamWrite` leaves open what then
happens (`Overruns`); TLC stops with an error if it gets there. `FrameDump` puts the codec that took the verbs beside the
second pass (`codec`, external), so that a property can compare what is shown
with what happened. A frame the codec refused is marked in the file (`ok`);
the decoder cannot see that.

### DspOperands ... DspListing: the DSP assembler and disassembler

| module | in the code |
|---|---|
| `DspOperands` | the operand types: which text fits one (`Fits`, `check_operand_compatibility`), what is put into its field (`Encode`, `asm_op_operand_val_fixup`), and what is printed for the field (`Show`, `print_operand_str`) |
| `DspLayouts`, `DspOps` | the tables: the alternatives of a layout with the bits that tell them apart and the places of their fields; the operations with their names, layouts and modifiers; the parallel operations |
| `DspAssembler` | `find_compatible_asm_opcode` and what it calls (`Choice`), `create_op_words` (`OpWords`), and which lines are refused (`Refused`) or end in a crash (`Crashes`) |
| `DspDisassembler` | `get_op_data` and what it calls (`Disassembled`) |
| `DspListing` | the two programs: assembling a text to a file (`AssembleLine`, `WriteZero`, ...), listing a file (`ListOp`), and assembling the listing (`Reassemble`) |

A word sequence is the set of its bits that are one. A text is a sequence of
items: lines given by their tokens, lines that give an operation by its number,
and the two other things that the disassembler prints. `ReadOn` and
`pending` are what happens to text that no `;` ends: it becomes part of the next
line (`Garbled`) or, before a line that ends in `.` or at the end of the text,
is dropped. `Die` is a crash or a kill while a text is assembled (what was
written is still in the buffer of stdio), `CutShort` a file of which the end is
missing.

The tables and the operators on them were compared with the programs, built
from the source: for some 18 000 lines and word sequences chosen at random, the
words assembled, the line listed, and whether the line is refused or crashes
are the same.

### DspOpTestProgram, DspCore, DspOpTest: the operation test

| module | in the code |
|---|---|
| `DspOpTestProgram` | the program that `ca0132-dsp-op-test` puts together, as `Parts` placed one behind another: the two dump functions, the function that writes all registers, and the places of the operation under test; its words are those that `DspAssembler` makes of the lines of the source |
| `DspCore` | external: what the DSP does for the operations that occur in that program (moves, the two data buses, calls, stacks, loops), decoded from the words by `DspDisassembler` |
| `DspOpTest` | the tool: `dsp_run_op_cnt` and what it calls, step by step against the debug register, the areas read back, and the comparison of the two dumps |

The words were compared with the compiled program: all 506 of them and the three
addresses are the same. The functions are run instruction by instruction; the
number of steps the tool counts by hand (`op_cnt`) is what it gives the DSP. A
step may be lost, and a read of the debug register may be given up, in which
case the function that reads it answers 0 and the tool writes that back with its
own bits.

`Misread` and `Collides` name what the two directions do not share; everything
else reads back. Section 8 says where they come from.

## 4. The runs

| run | shows | bounds |
|---|---|---|
| `hic` | loads leave a prefix; reads are true unless a POST_READ was given up; complete unless a call failed; refinement; every job ends | `LOW_SIZE` 8 (an address carries from the low into the high half within a job), `HIGH_SIZE` 3, 2 tries of each kind (first and last), 2 pieces with and without a rest, two-valued halves so that a torn word differs from both words |
| `scp` | what is queued is prefixes of commands; what is said is true; unbroken runs are understood; the prompt returns | `SIZES` 4 so that a command can be longer than its size field, queue of 2 and packets of up to 3 words so that the queue fills within a packet, 2 tries, 3 commands so that a broken one has one before and one after it |
| `scp_retry` | trying again after "DSP busy" is misread by the DSP | as above, one command |
| `exram` | bytes read and written are those at their addresses; complete | 3 pages of 4 bytes (a range may cross two pages), both ends of the memory, 2 pieces, empty and too large ranges |
| `console` | what is announced is taken in order; what is printed was said | rings of 7 and 4 bytes, lines that are empty, fill a chunk, take two chunks, and wrap; 2 looks |
| `streams` | a stream left alone is shown once, with its ports and fields; every tool ends | 3 entries of which the firmware has 2, 3 ports, every first routing, entries of 3 bytes, counters of 8 values, any 2 bytes written at any time (a last port before the first, at every distance) |
| `dump_handler` | after the signal the area is complete and is what was asked for; registers and iram saved and restored; the firmware goes on | all values of the parameter the handler tells apart; copying loops cut from 96 and 32 blocks to 1 and 2 (the block counter is reached and the page carried) |
| `statedump` | a file saved without a message holds the three sections; every run ends | area in 2 pieces (half of it may be another request's), 2 looks, 2 runs (a run may find what the one before left) |
| `decoder` | first HIC words, exram bytes, settings and packets shown are those the codec took; each line is true when it is printed; the end of the downloads is marked once | files of up to three calls (HIC, exram, parameters, packets of every size the decoder tells apart, answers to queries), of which each may be killed at any verb, or send any verb again or give up on it; calls of different kinds, or of two codecs, in turns; an empty file and one that begins within a run |
| `assembler` | what is assembled is listed as it was, at its address; no shorter operation would have done; the words listed are those of the file, cut off or not; a listing assembled again keeps its addresses and lists the same | every operation in every alternative of every layout, four lines each; 26 more for each kind of operation, so that every sample of an operand type (its ends, and the values just beyond) comes up; every parallel operation next to some operation and every layout next to some parallel operation, in their own and in other lengths; texts of up to three items of each kind; files with every number and length and different patterns of bits, pairs of operations, each also cut off after every word |
| `optest` | each function leaves the DSP as it found it, with the steps counted for it; every change that the operation made is shown | 3 operations to type, 2 of them in a run; 1 lost step; any read of the debug register and any write of the program counter given up; all registers different |
| `optest_names` | a register is shown under the name of another (section 8) | as above |

`CHECK_DEADLOCK FALSE` is set where the model stops by its bound on inputs (the
user has typed the last command or used the tool for the last time, or the file
has been read).

Fairness. Safety is checked without it. The liveness properties use weak
fairness of the tool's own steps (`WF_vars(Tool)`): a running process that is
not killed gets to its next `ioctl`, and every `ioctl` returns. It is not
assumed that any verb is accepted, or any poll answered ready; `JobsEnd`,
`PromptReturns` and `RunsEnd` hold because the code counts. For
`SentIsPutTogether` the DSP keeps taking words, for `AnnouncedIsTaken` the
firmware and the UART keep running, for `HandlerReturns` the 8051 keeps
executing: each is a processor or a transmitter that runs by itself.

## 5. What is proved

For every value of the constants that satisfies the modules' assumptions:

* `HicBus_proofs`: `TypeCorrect`, `PrefixCorrect`, `FreshReadsCorrect`,
  `OnlyWritersWriteCorrect` and `Refinement` (`Spec => Memory!Spec`). The
  properties are not inductive: that a word goes to its place depends on the
  address register, which is set once per call and then stepped by the codec.
  `IInv` adds where the counters stand for each `pc` (`CountersInv`), that no
  verb but a poll is sent during a transfer (`QuietInv`), and what the
  registers hold at each place of a call, one step ahead or not according to
  `pend` (`RegistersInv`). The refinement needs that words behind the current
  one have not been read (`AheadInv`).
  `UnfailedReadsCorrect` and `UnfailedLoadsCorrect` rest on `UnfailedInv`: while
  no call was aborted a call returns at its last word only, and the calls so far
  have covered every word before the one in hand, also where the last piece of
  a dump is shorter than the others.
* `DspioScp_proofs`: `HeaderRoundTrip` (reading a packed header gives back
  every field, for fields within their widths), `ScpTypeCorrect`, `StreamCorrect`, `ResultsCorrect`. `PlaceInv`
  says how many words of the command in hand are queued at each `pc`, and that
  the half word the codec holds is the current word's.
  `UnbrokenCorrect` rests on `PacketsInv`, where the DSP is in the stream: it has
  put the first commands together, from words queued in full, and holds the
  beginning of the next one. It is stated for commands whose request, source
  and target fit their fields (`FieldsFit`): the tool takes larger numbers and
  cuts them off.
* `Exram8051_proofs`: type, `ReadsAreTrue`, `WritesArePrefix`, `DoneMeansAll`.
  `AimInv` says what the address register holds where the tool relies on it, in
  particular that the upper half is right when only the lower one is sent.
* `StateDump_proofs`, of the handlers: `HandlerInductive`
  (`HandlerSpec => []HandlerIInv`), `SignalTheorem`, `SavedTheorem` and
  `RestoredTheorem`, for loops over any number of blocks the code has room for, memories and registers
  with any content, and any parameter. `HandlerIInv` is `Common /\ Point`. `Common`
  is what holds at every step: the room on the stack, the domains of the
  memories, that the exram to be copied is left alone (`LowKept`), and of iram all
  but the stack and the counters (`IramKept`), and the two properties about the
  signal. `Point` is the program annotated: for each address in the
  code, which registers hold what, what lies on the stack and how much of the
  area is copied; inside the loops, that the counters and the two data pointers
  stand for the same number of bytes. One lemma per stretch of code shows that
  each instruction, fetched from the bytes of the source at its address, leads
  from one point to the next.
* `StateDump_proofs`, of the protocol: type and `SavedIsTrue`. `OneRequest` says
  that in a run without a message at most one request is under way, and how far
  it may have come.

* `Console8051_proofs`: `RingsAreKept` (`IInv`), `HeardCorrect` and
  `PrintedCorrect`. The properties are about sequences, the state is two arrays
  and their pointers: `InRingInv` says that the bytes announced and not taken
  lie around the IN ring from its base pointer on and never fill it, `StoreInv`
  that a line being stored lies behind all of them, `OutRingInv` that what the
  firmware said lies around the OUT ring, both from its own base pointer on and,
  until the firmware has gone once round, from the tool's copy of it, and
  `ResponseInv` that the copies of the pointers measure what was said in
  between. `Around` is the arithmetic of a ring; `RangeIsAround` shows that the
  code's two parts of a range are the same places.

* `ChipStreams_proofs`: `Inductive` (`Spec => []IInv`) and `ShownTheorem`
  (`StableIsShown`), for any number of streams, ports, fields and changes. While
  the firmware writes where it likes, all that can be kept is what a stream it
  leaves alone looks like: `BytesAreFirst` and `CopiesAreTrue` say that its bytes,
  and every copy made so far, are those of the beginning. `ShownInOrder` (only
  the last line may belong to the stream in hand) makes "once" follow from the
  counter of the loop, and `LoopIsTrue` says that its first `k` ports are printed,
  that the address in hand is that of the next one, and that the unsigned
  distance of the last port to the first was not wrapped.
* `FrameDump_proofs`: `Inductive` and a theorem for each property of the run:
  `LinesTheorem` (an action property), `FirstWordsTheorem`, `ExramTheorem`,
  `SettingsTheorem`, `EndTheorem`, `PacketsTheorem`; for files of any length,
  with any number of codecs and packets, whose exram runs fit the array of a run. The decoder keeps flags of what it has
  gathered, so the invariant is put together from what the last verb of each
  kind means for both sides: `HicInv` (for the last verb of the HIC, refused or
  not, which halves the decoder has and which of them the codec has), `RamInv`
  (the run gathered ends where the codec's address is), `ParamInv`, `DspInv` (the
  words of the open packet are those of the DSP's; `WordsAreSent`, `HasPart`), and
  `EndInv` (downloads counted, and freed so far). "The last" and "none so far" are
  facts about positions of the file (`LastOf`, `NoneOf`), with lemmas for one frame
  more. `RunInv` counts: a run is no longer than the bytes written behind its
  address, one more at the end of the file. With `RunsAssumption` the array is
  never written past (`NoOverrun`, `RunWithin`); without it no theorem would hold,
  as nothing is known of a program that has done so. That a run replays to the exram of the codec rests on `Place` and
  `NextRamAddr` being the same addition modulo 2^16.

* `DspListing_proofs`: `ListInductive` with `ListingTheorem`
  (`ListingIsTheFile`), `KeptInductive` with `AddressesTheorem`
  (`AddressesKept`), and `SmallestTheorem` (`SmallestIsChosen`), for texts and
  files of any length. `ListedSoFar` says that
  what was listed is the file up to the current address, also when that address
  has passed the end of a file that was cut off. `KeptInv` adds that the
  entries lie one behind the other from address 0 (`Contiguous`), that the text
  assembled again is the listing (`Given`), and that the words written so far
  end where the next entry began (`PutBack`). That an entry is assembled to as
  many words as it had is a fact about the choice of an operation: a line with
  operands is listed with its length; one without must be one word long to keep
  it, and the assembler then finds a row of one word with the same number. This
  rests on the whole table: `Ops_00` to `Ops_F3` show for each of its 13 parts that a row
  without operands has a name of its own and no other row a layout of one word
  that takes none (`IsNop`, `IsOther`, `OneWordIsNotNop`). Sequences are joined
  with a fold; what it gives for any number of them is proved without an
  induction theorem that takes an operator: the set of the numbers for which it holds is all of `Nat`
  (`NatSetInduction`, from `WFMin`).

  The assembler takes the first row of the table that takes a line, and only
  then the smallest length; that this is the smallest of all needs the rows of
  one name that take the same line to be one row (`FormTold`). `OpOf` says which: for most
  names there is one row (`Number`); a literal or a register as second operand
  tells the two rows of a jump, the order of register and address, and
  what the address is offset by, those of MOVX, a literal or the modifier those of MOV, and
  a literal as third operand those of a shift. `Num_00` to `Num_F3` show it for the
  rows, `LayoutsTypes` what operands the layouts of these rows have, and
  `RegText` to `LitOffsetText` what text fits an operand of each type.

The proofs about the handlers assume (`StackAssumption`) that where the firmware
calls the hooked routine, the next `STACK_USE` bytes of its stack lie in iram
and are none of those the handlers count in or read the parameter from (section 6), and
(`BlocksAssumption`) that at most 128 blocks of program memory, the upper half
of a bank, and at most 32 of exram are copied, which the layout has room for; the
source copies 96 and 32. The proofs about listings
assume (`DumpsAssumption`) that a file is a sequence of words of 25 bits: no
opcode and no field has bits above these; and (`SourcesAssumption`) that a text
is a sequence of items and the operands of a line are a sequence. TLC evaluates
all four.

The decoder proofs rest on four assumptions, which TLC evaluates for the files
of the run. `FilesAssumption`: a file is a sequence of verbs with 16-bit data.
`BitOrAssumption`: the bitwise or of 0 and x is x, and of x and x is x (the decoder
ors a half word into a field that is zero, or that a refused verb has filled with
the same half; the run uses the bits themselves). `OrderAssumption`: within one
codec, the verbs of the HIC, of exram and of parameters come in the order in
which the functions of `ca0132_base_functions.c` send them, killed anywhere, and a
refused HIC verb is followed by itself or given up for a new address; nothing is
said of verbs of different kinds, or of different codecs, which may be mixed in any way. A
trace may begin anywhere within a run of bytes or words. Nothing but
`PacketsAreShown` is
about the verbs to the DSP, whose order is free: `torn` tells where they are not
in pairs. `RunsAssumption`: behind one address a file has at most `RunSize` bytes for
exram (one fewer where they end the file, whose last verb is handled twice), as
many as the array holds. The run sets `RunSize` to 4, and has files that end in a
run of three: the array is filled to the last byte.

Each `IInv` is proved by one lemma per action. The arithmetic that the
invariants need (halves join to the address, two word addresses of a job
differ, bit fields do not overlap) is in lemmas of its own.

Only model-checked:

* the liveness properties `JobsEnd`, `PromptReturns`, `SentIsPutTogether`,
  `AnnouncedIsTaken`, `PrintingEnds`, `HandlerReturns` and `RunsEnd` (fairness is
  out of TLAPS' reach);
* `LineReadsBack` and `ListingIsStable`: that decoding undoes encoding is a fact
  about the positions of bits in each of the layouts with every operand type, the
  exceptions in `Misread` and `Collides` included; it rests on folds over sets
  and on powers of two, with which the provers cannot compute, so TLC goes through the tables;
* `StateComesBack` and `ChangesAreShown`: they are about one program of 506 words
  that the assembler's model makes and the DSP's runs; TLC runs it.

The type invariants of `DspioScp`, `Exram8051`, `StateDump` and `Console8051` are
proved and have no run of their own.

## 6. What is assumed of the codec

The repository does not contain the codec. From how the programs use it: a
transfer on the HIC bus is over when a status poll answers ready, and steps the
address; READ_DATA answers a latch; a refused verb changes nothing; the DSP
queue answers "full" to the status verb that follows a word it did not take;
a write to exram steps the address and a read does not; program memory and
exram are two spaces under one address register; the firmware keeps its
pointers inside their rings and takes the IN write pointer one past the end for
0; parameter requests are taken one after the other. The 8051 executes the
instructions that occur in the installed code as its manual says, with two data
pointers and a bank register. The firmware leaves room for what the handlers put
on its stack: 16 bytes (`STACK_USE`), the return address of the hooked call, the
eight registers pushed, two nested calls, the bank register and the interrupt
enable register.

Of the DSP (`DspCore`), from the comments of `ca0132-dsp-op-test.c` and from what
its program counts on: in single-step mode one operation is run for each word
with execute bits, and any other word with them lets it run on; an operation and
the one in parallel read before either writes; a stack grows by one for a word;
the condition register is 0 and the modifier of A_R7 is 1 when the test begins
(the entry function moves A_R7 by that modifier).

Of the tables of streams: each has as many entries as the distance between the
two says, and the firmware may write any byte of them at any time.

## 7. What is not modelled

* A failing `ioctl` (the result of `chipio_*` is then an uninitialised local)
  and a kernel driver that uses the codec at the same time.
* HIC jobs that are not aligned or that run over the end of the address space.
* Argument, file and `scanf` parsing, end of input at the console, the wording
  of what is printed, and the header and trailer of the dump file.
* How the assembler splits a line into tokens, its comments, and its interactive
  mode, which assembles one line in the same way.
* A line longer than a chunk loses the character that ends each full chunk:
  `Console8051` does what the code does; no property is about it.
* Interrupts of the 8051 and the parity bit of its status word.
* Taking the DSP out of single-step mode (`set_dsp_dbg_single_step` with 0): no
  program does it. The program counter that the operation test prints after an
  operation.
* Control flags, and reading a parameter back: no program sets a flag or reads a
  parameter, and `get-chipio-flags` prints bits of 25 answers to single verbs and
  keeps nothing, so there is no state to model. A parameter is set by the state
  dump alone, as one step of `StateDump`; that its ID and its value are two verbs
  matters only beside another user of the codec, the driver, which is outside
  the repository.
* A half word that a driver sends again after a refusal: the decoder does not
  see answers and cannot tell it from another (`PacketsAreShown` says so).
* `documentation/`: names and constants, and a numerical experiment
  (`emu10k1-explog.c`) that no tool uses.

## 8. Where code and documentation disagree

Each is a run that must end in a violation:

* `scp_retry`: after "DSP busy, try again." the DSP still waits for the rest of
  the broken command and takes the new header for data
  (`ca0132-send-dsp-scp-cmd.c:71`).
* `optest_names`: the two lines that store R04_T1, R12_T1, R05_T1 and R13_T1 are
  refused by the assembler, nobody looks, and a NOP takes their place
  (`ca0132-dsp-op-test.c:380`); every name from R04_T1 on is printed for the
  register four names later.

Met while reading, without a run: a load whose writing and reading back were
both aborted compares equal if its words are zero
(`ca0132-chipio-write-data-from-file.c:59`; `UnfailedLoadWritesAll` leaves such
loads out); a signal of an earlier request of the state dump is taken for the
current one's (`ca0132-8051-dump-state.c:647`; `clean` and `told` in
`SavedIsTrue`); the table of first ports is read one byte into the table of last
ports, so that the last stream is given the last port of stream 0 for its first
(`ca0132-get-chipio-stream-ports.c:20`, and the same in `-stream-data.c`); if a
stream is changed between the two tables, up to 2^32 ports are printed for it
(`:34`); a line that gives the number of its operation
(`OP_0x164.1:MOV_2 R00, R04;`) becomes one zero word, a NOP, because the length is
never set (`ca0132_dsp_functions.c:4178`; `AssembleExplicit`); a POST_READ that is given up is not noticed,
and the tool prints what the latch held before
(`ca0132_base_functions.c:140`; `FreshReadsAreTrue` leaves such words out); a
command is stored at the base pointer, over one not yet taken
(`ca0132-8051-command-line.c:88`; `rushed`); `8051-write-exram-from-file` refuses a file
that ends exactly at the last byte of exram (`Exram8051!TooBig` models it as it
is); two comments in the installed code name wrong targets (`:f32f` for 0xf326)
and bytes (`50 13` for `50 0a`); the handlers use registers R0 and R1 of bank 3
(iram 0x18 and 0x19) as counters and neither save nor restore them, so the dump
holds counters there (`Counters` in `DumpHandler8051`);
`chipio-write-data-from-file` reports a mismatch at `start + i`, although words
are four addresses apart (`ca0132-chipio-write-data-from-file.c:63`).

In `frame-dump-formatted`, all modelled as they are: the last verb is handled
twice, so that a packet that a killed driver left with only the low half of a
last word missing its high half is closed, or a file's last exram byte
doubled (the properties that compare exram and packets hold up to the end of
the file and say so); the case of POST_READ_DATA goes on into that
of POST_COUNT_QUERY (`:326`), so a query whose count is read before its words
never matches the 4 reads and 2 counts that are expected and is shown only when
the next packet begins; PARAM_GET is looked for under a group it is not in
(`:649` and on) and shown raw; downloads are counted whatever codec they are for
(`:786`); a packet has fewer than four data words, so the later test for 15 of
them cannot be met; a run of exram bytes is kept in 128 bytes without a check
(`:535`), so everything said of the decoder is said of traces whose runs are no
longer (`RunsAssumption`).

In the assembler and the disassembler, all modelled as they are and named in
`Misread`, `Collides` or `KeepsLength`:

* the `+ 12` of REG_3_FMA_A_T1 begins above 4, not at 4, so R12 is listed as R04
  (`ca0132-dsp-disassembler.c:199`);
* registers next to another (REG_11_4_OFFSET, REG_11_10_OFFSET) are listed with
  the wrong GPRAM or with an index cut to seven bits (`:248`, `:272`); indexes
  above 255 are taken by the assembler and listed modulo 256;
* an address literal of more than 16 bits is taken, and listed as one of Y;
  registers of an indirect call are only compared modulo 32;
* bits that tell the alternatives of a layout apart are also bits of something
  else: the lowest bit of the number in `LOOP_PC_LIT_16_2` (`UNK-0x18 #n` is
  listed as `LOOP-0x19`), that of the parallel operation in `P_MOVX_DUAL_4`
  (number 43 without the address modifier is listed with it), two bits of
  REG_3_FMA_Y_T2 in the double alternative of `R_X_Y_A_2`;
* an operation without operands is listed without its length, so one of two
  words is assembled to one ("helps the assembler produce 1:1 binaries",
  `ca0132_dsp_functions.c:5045`);
* words that are no operation are listed as one line and assembled to one zero
  word, whatever their number; the name of an operation without a layout is
  listed without `;` and runs into the next line;
* a length suffix of two or four with a parallel operation that has no such
  length ends in a crash (its layout is NULL); the shift of a literal for the
  upper half refuses 0 (`:4731`); `C_STK_BASE + n` is taken below 16 where the
  field has five bits;
* of a file that ends within an operation, the missing words are those of an
  earlier operation, and a lone first word is not listed.
