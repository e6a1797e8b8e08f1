# dcrecomp in TLA+

dcrecomp turns the SH-4 code of a Dreamcast or Naomi game into C and links it
with a runtime that plays the rest of the machine. The recompiled code runs
straight on the host. There is no instruction loop that could take an interrupt
or advance a device, so the runtime does both *inside the game's memory
accesses*: one read in 256 calls `sh4_poll_irq`, which steps the devices, moves
the 60Hz clock and may call the game's interrupt handler on the spot. Everything
is on one host thread, and yet code is entered between any two reads of other
code. That is where this program is hard to test, and what these modules are
about first.

Paths below are relative to the source tree (`src/hal/...` and so on);
`PROJECT.json` gives the lines each definition was translated from.

## 1. Inventory

| Component | State | Operations | Talks to |
|---|---|---|---|
| Interrupt delivery (`src/recompiler/sh4_cpu.c` 158-412) | handler, `g_in_irq`, back-off counter and word, saved frame; SB_ISTNRM/ISTEXT and their masks | `sh4_poll_irq`, `sh4_set_irq_handler`, register writes | called by every memory read; calls the devices and the game's handler |
| 60Hz clock (same file 237-344) | tick, last VBlank, owed frames and milliseconds | the clock part of a poll, `sh4_credit_elapsed_ms` | credited by the GD-ROM, raises VBlank-IN |
| System-bus registers (`src/hal/dc_hardware.c`) | `hw_regs`, status words | `dc_hw_read32`, `dc_hw_write32` | start DMAs, renders, Maple; raise status bits |
| G2 DMA (`dc_hardware.c` 206-398) | `g_g2_busy`, poll count, length and start registers | start, retire | retired by polls and register reads |
| GD-ROM system call (`src/hal/dc_bios.c` 134-340) | next, last and reported id; tracks | ReqCmd, GetCmdStat, InitSystem | raises the drive's bits, credits the clock |
| Cooperative tasks (`src/recompiler/sh4_task.c`) | `g_current`, per-task saved registers, fibers | spawn, resume, yield, destroy, shutdown | share the register file with interrupts |
| AICA registers, sound processor scheduling (`dc_hardware.c` 700-918, 1199-1275) | interrupt registers, timer A, instruction debt | register reads and writes, `dc_aica_update` | runs the ARM7 in polls, signals the SH-4 |
| ARM7 interpreter (`src/hal/arm7.c`) | registers, banks, FIQ line | `step`, `arm7_run`, reset | reads and writes the AICA registers |
| Memory map, store queues, TMU (`sh4_cpu.c` 673-1225) | RAM areas, UTLB, store queues, TMU registers | reads and writes of every width, `sh4_ldtlb`, prefetch | every other component |
| Tile accelerator (`src/hal/pvr2_ta.c`) | half a parameter, vertex type, strip, five lists | `pvr2_ta_write`, reset | fed by queues, words and DMAs; raises end-of-list bits |
| Renderer (`src/hal/pvr2_render.c`) | bound buffer, the framebuffer's quad, the window | render a frame, present the framebuffer | reads the lists; called by STARTRENDER and the vertical blank |
| Maple bus (`dc_hardware.c` 967-1133) | pads, DMA address | one DMA answers a chain of frames | raises a status bit |
| Naomi I/O (`src/hal/naomi_io.c`) | buttons, coins, card | operator's calls, JVS DMA | writes into the game's buffer |
| BIOS calls other than the drive (`dc_bios.c`) | flash image | flash, font, system information | answer at once |
| Recompiler (`tools/static_recompile.py`) | functions, hints, entries in the middle | discovery, emission, dispatch table | offline; its output is the code all the above runs |
| Platform, disassembler, extraction tools | - | I/O, text, file conversion | - |

Hard behaviours, by component, and what makes each correct:

- **Interrupt delivery.** The handler interleaves with the code it interrupts and
  itself polls. Correct when it is entered only for something routed and
  unmasked, never on top of itself, gives SR back, and when its back-off, which exists
  to survive bits no game clears, skips only what has not changed and starves nothing.
- **60Hz clock.** Correct when a due frame is raised whatever else is pending, and
  the frames owed for disc time are exactly the ones credited, up to the cap.
- **G2 DMA.** Five table entries, four channels, a deadline per entry and registers
  that a retirement clears behind the game's back. Correct when a transfer is whole,
  completes once and on time, for a game that waits for the interrupt and for one that
  polls the register.
- **GD-ROM.** One remembered id shared by all callers, a command whose parameter
  reads may be interrupted, ids that restart. Correct when a driver's spin ends,
  and it has seen the busy-to-done edge.
- **Tasks.** One register file, copied at every switch and every interrupt. Correct
  when it cannot be told from one register file per context.
- **Sound processor.** Two processors share one register block and the FIQ line is a
  copy of a condition on it; the ARM7 runs in bursts inside SH-4 reads while both
  clocks go on; seven register sets share one visible file. Correct when the line
  follows the registers, no time is lost, and every mode keeps its own registers.

- **Tile accelerator.** A packet comes in words, a parameter in one packet or two, an
  End Of List without the name of a list, and a reset at any point of all this.
  Correct when the parser is where the game is, what it keeps is whole triangles of
  what was sent, and each closed list raises its own bit.
- **Renderer.** Two presenters use one GL context and one window, one of them from
  inside a poll. Correct when neither spoils what the other drew or uploaded.
- **Memory map.** Six access functions, the store queues, five DMAs and the disc reads
  each decode physical addresses for themselves. Correct when all of them mean the
  same word by the same address.
- **TMU, Maple, Naomi I/O.** Values computed or sampled when the game asks. Correct when
  time read is time passed, a reply is one sample from its own port, and no coin is
  lost in the byte that counts them.
- **Recompiler.** Branches become gotos, calls, tail calls or nothing, by what the tool
  decided about their targets. Correct when the C runs the instructions the SH-4
  would have run.

`PROJECT.json` lists the hazards, each at its line with the properties that watch
it.

## 2. Modules

| Module | Extends | What it is |
|---|---|---|
| `VBlankClock` | - | the 60Hz clock inside a poll, and the frames owed for disc time |
| `IrqDelivery` | `VBlankClock` | status and mask registers, SR, `sh4_poll_irq` |
| `G2Dma` | - | the G2 channels: busy table, registers, completion bits |
| `G2Driver` | `G2Dma` | the channels under a driver that waits for the interrupt |
| `G2Polling` | `G2Driver` | the channels under a driver that polls the start register |
| `GdRom` | `VBlankClock` | the drive's system call under one or two drivers |
| `Contexts` | - | abstract: one register file per context |
| `SH4Tasks` | (instance of `Contexts`) | fibers, tasks and interrupt frames over one register file |
| `Arm7` | - | the ARM7's modes, banks and exceptions |
| `SoundCpu` | - | AICA interrupt registers, timer A, reset, the instruction debt |
| `TaParser` | - | packets into triangles: halves, strips, sprites, list ends, reset |
| `Display` | - | the two presenters and the buffer binding they share |
| `TaFeed` | `TaParser`, `Display` | the accelerator between a game, by queue, words or DMA, and the window |
| `TriangleLists` | - | abstract: lists of whole triangles, and strips of vertices |
| `MemoryMap` | - | what every agent's address decoding reaches, beside the documented map |
| `Tmu` | - | one timer channel computed from the host's clock |
| `Maple` | - | a chain of frames answered in one DMA |
| `NaomiIo` | - | buttons, coins, a card, and the JVS reply |
| `Recompiler` | (instance of `SH4Flow`) | the tool's decisions about an image, and the C it emits, running |
| `SH4Flow` | - | abstract: which instruction an SH-4 runs after which |
| `*_proofs` | the module, `TLAPS` | theorems (`Bus_proofs`: `MemoryMap`, `Tmu`, `Maple`, `NaomiIo` and `MCBus`; `Sound_proofs`: `Arm7` and `SoundCpu`) |
| `MC*` | the module | instances for TLC, and the properties of the violation runs |

`VBlankClock` is the part `IrqDelivery` and `GdRom` share: the same poll runs the
clock in both, and a disc read in one is what credits frames in the other. The
G2 completion (`DmaBits`), the drive's completion (`Events`) and the sound
processor's signal (`AicaSignals`) enter `IrqDelivery` as the sets of bits those
components raise there.

### State and code

- **`IrqDelivery`.** `istnrm`, `istext`, `nrmMask`, `extMask` are the Holly registers
  as sets of bits; `sr` is the pair SR.BL, SR.IMASK; `handler`, `inIrq`, `frame`,
  `lastPend`, `repeats` are the statics of `sh4_cpu.c` 178-184 and the frame on the
  stack. `Poll` is the whole of `sh4_poll_irq`: devices first, then the clock, then
  the decision. The handler is not called but entered: it runs as further steps, with
  its own polls (`NestedPoll`), until `HandlerReturn`. Register writes are actions
  of their own, open to the main code and to the handler. `repeats` is kept below
  twice the period, since only its remainder is used past the free deliveries.
- **`G2Dma`.** The deadline, an absolute poll count in the code, is the number of
  retire calls left. `RetireFinished` is one retire call, from a poll or a register
  read. The bytes a transfer moves are left out. `G2Driver`'s game programs a channel when
  the interrupt has told it of the end; `G2Polling`'s when a read of the start register
  (`ReadStart`, a retire call of its own) has answered 0.
- **`GdRom`.** ReqCmd of the main code is two steps, because its parameter reads
  may poll and enter the handler, which may call ReqCmd itself. Ids stop at
  `MaxId`, a bound of the model. A command is `Outstanding` from the first of the two steps
  to the answer COMPLETED.
- **`SH4Tasks`.** A register file is one value. `frame[c]` is the interrupt frame on
  context c's stack, `saved[t]` the task's copy, `schedRegs` the local copy in
  `sh4_task_resume`. An interrupt may arrive in any context, and the handler may
  yield.
- **`Arm7`.** A register set is represented by its owner: `cpu.mid` says whose
  r8-r12 are in view and `cpu.top` whose r13-r14. A bank whose contents were copied
  into view is `Stale` until it is written back, because the program may change
  the visible copy at any instruction.
- **`SoundCpu`.** `Poll` is `dc_aica_update` up to `arm7_run`; the instructions of the
  burst are steps (`ArmStep`), and the SH-4 does nothing until `burst` is 0. Of the
  ARM7's state the F bit and FIQ mode are kept; an instruction may leave any other
  value, which covers all that `Arm7` can do.

- **`TaParser`, `TaFeed`.** A packet is the fields of its control word and one value for
  the rest; a vertex is the tuple of the values it was made from, so that one made of
  the wrong halves is another vertex. `Packet` is `pvr2_ta_write` with 32 bytes at once
  (store queue, channel 2, sort and PVR DMA), `Word` is `ta_fifo`, one word at a time.
  The game's own idea of where it is (`header`, `half`, `strip`, `closed`, `word`) is kept
  beside the code's, and the properties compare the two.
- **`MemoryMap`.** A cell is an area and an offset. `Cell`, `G2Cell`, `DiscCell` and the
  others translate the decoding each agent has in the code; `DocCell` is the map that
  `include/recompiler/sh4_cpu.h` documents. `mem` is written through the former, `flat`
  through the latter. The header has no word on the texture path, the registers below
  0x00800000 and the TLB (`UndocumentedCell`, `PhysOf`): there `flat` follows the code, and
  `AliasesMeet` compares the agents with one another only; a wrong choice of TLB entry is
  not seen. `Blocked` is the guard of `sh4_write32` and `sh4_write8` over the vtable words
  and, by the value written, over the pointer to them. `Usable` and `SqBurst` leave out the
  accesses whose mismatch is a finding.
- **`Tmu`.** The count and the time base of one channel. A read that finds the count run
  out reloads it and, as in the code, takes the old interval off the new count.
- **`Recompiler`.** `FindFunctions`, `FindHints` and `ResolveMidEntries` are the three parts of
  `find_functions`; `Run` is one group of emitted lines (an instruction, or a branch with
  the copy of its delay slot). The groups are not written out: what stands at an
  address follows from the tool's sets. An image is a row of words, all decoded alike;
  `live` are the ones the processor may come to, and the others are delay slots and data,
  which the tool decodes and emits all the same (`IsProgram`, the assumption on images).
  Programs the tool does not claim to handle stop in the phase "unsupported"; `Supported`
  says which and why.
- **`Maple`.** A chain is what the game lays out: frames, the last one marked, each with a
  reply buffer of its own. The loop of `dc_maple_dma` is one action: a buffer gets the
  answer to the last examined frame that asks for it, and keeps what it had otherwise.

## 3. What is checked

| Run | Question | Properties |
|---|---|---|
| `irq_delivery` | safety of delivery with stuck bits, critical sections and re-routing | `BackoffBounded`, `GameKeepsItsSr`, `DeliversOnlyUnmasked`, `OnlyUnchangedBacksOff` |
| `irq_live` | does every completion reach the handler, does every frame that has passed set the VBlank bit | `NewWorkReachesHandler`, `FrameRaised` |
| `g2_dma` | three channels in flight at once | `OneEntryPerChannel`, `CompletionPending`, `SignalledOnTime`, `TransferCompletes` |
| `g2_polling` | *violated*: does a start move the length a polling driver has programmed | `TransferWhole` |
| `gdrom` | two drivers, interrupts inside ReqCmd, restarted ids | `CreditConserved`, `SecondAskCompletes`, `CommandCompletes` |
| `tasks` | three tasks with interrupts that may yield | `CurrentIsRunning`, `OneHandler`, `InterruptFinishes`, `ImplementsContexts` |
| `sound` | nested exceptions, mode changes, user-bank transfers; two processors and a timer on one set of registers | `OwnUntilReturn`, `SpsrUntilReturn`, `LineTracksPending`, `NoTimeLost`, `FiqServed` |
| `arm7_return` | *violated*: are the visible registers the mode's own | `VisibleIsOwn` |
| `sound_timer` | *violated*: does timer A keep pace under a prescaler | `TimerKeepsPace` |
| `ta` | packets whole and by word, resets anywhere, renders and blanks in between | `ParserInStep`, `EndsAreOfClosedLists`, `QuadIntact`, `PictureStays`, `KeepsPromise` |
| `bus` | aliases and DMAs, the timer, Maple chains, coins and cards | `AliasesMeet`, `AllAnswered`, `CreditsAddUp`, `CountIsElapsed` |
| `recompiler` | images of seven words, code and data, with one address known to the scans or none | `RunsLikeSh4` |

Passing runs also check `TypeOK` of their module where a fault could break it.

### Bounds

The constants of the code are large (a 64-poll back-off, a 32-poll gate, 16ms
frames, 250 bytes a poll, 4000-instruction bursts) and the behaviour turns on their
order and remainders, not on their size. The configurations keep the order.

- *Interrupts.* A period of 3 has one free delivery, skips and a delivering repeat.
  One unrouted source (VBlank, level 11), one routed DMA bit at a level below and
  above it, one external source, and IMASK values below, between and above the
  levels make every comparison come out both ways. The liveness run has a tick
  gate of 2, so that polls with and without the clock alternate.
- *G2.* Three channels and four entries: more entries than channels, as in the code
  (five and four), which is what the capacity argument needs. Lengths of below one,
  one and several deadlines. The polling driver is checked on the same instance; with a
  start register that reads 1 until the retirement it has no counterexample there.
- *GD-ROM.* Four ids let an id be reused after a restart while the other driver still
  waits; reads of 0, 2 and 4ms against a frame of 3ms leave remainders; a cap of two
  frames is reached.
- *Tasks.* Three tasks and two register values: enough for one running, one suspended
  in the handler and one inline, with values that can be told apart.
- *Sound.* Two sources, so that acknowledging one leaves the other pending; a burst of 1,
  a ceiling of 3 and up to 2 instructions a tick reach a debt left over, and the cut.
  `Arm7` and `SoundCpu` share no variable, so each behaviour of the run runs one of them.
- *Arm7.* User, FIQ and supervisor: the three kinds of bank (r13-r14 and r8-r12, r8-r14
  with an SPSR, r13-r14 with an SPSR). The other modes bank like supervisor, and the
  proofs cover them.

- *Tile accelerator.* A packet of two words has a beginning and an end, and a list of two
  triangles fills up. One header of each size, for list types 0 and 4, vertices of one
  and two packets, a sprite, four vertices between resets: a strip long enough to turn
  twice, and a second list after the first.
- *Memory map.* An address in each area, and its alias in every segment; two TLB entries,
  one of which hides RAM behind other RAM. The areas are what the decoders tell apart.
  Two tokens tell words apart; the guarded pointer, which needs a third, is written in
  behaviours of its own that leave the other words alone.
- *Tmu, Maple, Naomi.* A clock of six milliseconds at three ticks each runs a count out
  and reloads it; chains of up to four frames reach and pass the limit of three (32 in
  the code); a counter of three values wraps within four coins. The four modules of this run
  share no variable, so each behaviour runs one of them.
- *Recompiler.* Seven words, the last two an `rts` and its slot, in every combination of
  plain words, prologues, the six kinds of branch to three targets, and data words that
  decode as `bra` or `bsr` and are never run: up to three functions, branches out of and
  into the middle of each, entries in delay slots, walks put out of step by data. One
  address is known from a literal, a table or a pointer-like word, as a computed jump's
  target or by mistake. The targets are the base, an address in the middle and the slot
  before the last. Each requirement of `Supported`, dropped alone, makes the run fail.

### Fairness

Each is what the code, or a comment in it, takes for granted of the game.

- *Interrupts* (`sh4_cpu.c` 300-311): the game goes on reading memory (`AnyPoll`, weak),
  its handler returns (weak), its main code leaves critical sections and some of its
  reads fall outside them (strong, since they are enabled on and off). Nothing is
  assumed of acknowledgements: a game that never clears a bit is allowed.
- *G2*: polls go on, and a completed transfer is taken up by the driver.
- *GD-ROM* (`dc_bios.c` 305-306): ReqCmd returns and drivers spin (weak). Nothing is assumed
  of the order in which two drivers ask, so `CommandCompletes` promises the answer only to a
  driver that no second one polls against: two in strict turns are each told PROCESSING
  for ever (section 5).
- *Tasks* (`sh4_task.h`, typical use): the scheduler resumes every unfinished task,
  tasks yield or return, and a handler that gets its turns returns.
- *Sound*: the host's clock advances, polls go on, a burst that was started runs.
  `FiqServed` has its own premise that the driver does not mask FIQ for ever.

## 4. What is proved

The proofs hold for every value of the constants that meets the assumption named in
each module; TLC evaluates the assumptions in the runs. Each module's inductive
invariant gives its `TypeOK` too.

- **`IrqDelivery_proofs`.** `IrqInv` adds three facts to the properties. `BackoffInv` ties the
  polls skipped to the repeat counter (below the period, at it and past it), because
  a bound on skips alone says nothing of the next skip. `SrInv` says the frame holds
  the main code's SR while the handler runs, without which `GameKeepsItsSr` does not
  survive the return. `StartedInv` says that the remembered word is the one the handler last
  started with: a poll that stores another also resets the counter, and so delivers. From
  them: `BackoffIsBounded`, `SrIsRestored`, and the action properties `OnlyUnchangedIsSkipped`
  and `OnlyUnmaskedDelivered`.
- **`G2Driver_proofs`.** `G2Inv` adds that the entry of a transfer in flight carries
  exactly the rest of its busy period, and that a length programmed by a driver that
  waits for the interrupt stays until the start. That a free entry exists is a counting
  argument (fewer channels than entries, and no channel with two). From it:
  `EntriesUnique`, `CompletionConserved`, `CompletionOnTime`.
- **`GdRom_proofs`.** `CreditInv` alone is inductive: a quotient and a remainder add up to what
  was divided (`ExecKeeps`), and a sum below what the cap holds leaves the quotient uncut
  (`FramesOrder`). `AskedInv` says that the driver last told PROCESSING still waits, for the
  id that is remembered, which no command of another context can change. From them:
  `NoFrameLost`, `SecondAskIsAnswered`.
- **`SH4Tasks_proofs`.** `TasksInv` (who is current, and who is inside the handler) is
  inductive as it stands. `TasksImplementContexts` proves the refinement: the copies
  of the one register file, taken together (`RegsOf`), behave as one file per context,
  for any number of tasks and any register contents.
- **`Sound_proofs`.** `ArmInv` says of every mode, not only of the current one, where its
  registers and its SPSR are. One lemma about a `bank_out` followed by a `bank_in`
  (`SwapPlaces`) carries every mode change, exception entry and user-bank transfer. From
  it: `RegistersAreOwn`, `SpsrIsOwn`. `SoundInv` is the conjunction of `SoundCpu`'s
  properties. From it: `LineIsPending`, `DebtKeepsTime`; and `PlainTimerKeepsPace`, the other
  side of the run `sound_timer`: with no prescaler nothing is ever dropped.
- **`TaFeed_proofs`.** The game decides from the header it sent whether a vertex is one packet
  or two, the parser from the vertex type it kept. `HalfInv` therefore says that the
  type is the one of the game's header whenever the header is complete, and that the
  open list is the header's; `ListInv` adds that a list that holds a vertex has been
  counted, which is what keeps the framebuffer away. One lemma (`PacketKeeps`) treats a
  packet as the game and the parser both see it, whichever way it came. From it:
  `FeedTypes` (with the bound of the lists), `ParserStaysInStep`, `EndsNameTheList`,
  `QuadStaysIntact`, `GeometryStays`.
  `FeedKeepsPromise` proves the refinement of `TriangleLists`. Beside the invariant it needs that
  lists hold whole triangles and that the two vertices and the small counter the parser
  remembers are the end and the parity of the game's strip (`SyncInv`). The lists are flat
  sequences of vertices; lemmas about taking them three by three (`TriplesOfConcat`,
  `TriplesOfPrefix`) carry the appended triangle and the bound, which cuts none in two because
  the capacity is a multiple of three (`TriplesOfFit`).
- **`Bus_proofs`.** `AliasesAlwaysMeet`: each decoder agrees with the documented map on every
  address it answers, one lemma for each (`CpuReachesDocumented`, `AgentsReachDocumented`,
  `FallbacksReachDocumented`); it assumes the 16MB of a Dreamcast, and
  `NaomiUpperHalfUnreached` shows that it must. `TmuInv` ties the count to the time base and
  gives `TimerShowsTime`; `NaomiInv` bounds the difference of two bytes and gives
  `NoCoinLost`. `ChainIsAnswered` needs only types beside `AllAnswered` itself: a case for each
  command (`AnswerIsRight`), and that a buffer is asked for once (`OneAsksFor`). `BusIsItsParts`
  maps each step of the bus to a step of one part and a stutter of the others, so that
  what is proved of the parts holds of the system the run checks; `BusTypes` is its
  type invariant, proved that way.
- **`Recompiler_proofs`.** `EmittedCodeFollowsSh4` proves the refinement of `SH4Flow`: for every
  image the tool supports, of any length, with any set of starts, hints and pointers. The
  walk of a function is a recursion over its addresses, and the proofs need an induction
  over that. It is done with least numbers, which the provers can use: a set of natural
  numbers that is not empty has a least member (`LeastNumber`), so a walk that goes wrong
  goes wrong at a first address. `WalkExists` shows that the recursion defines a function,
  `WalkCovers` that the walk stops at every address but the slots it takes with the branch
  before them. From there: every live
  word begins a group (`LiveIsEmitted`, `LiveLabel`); the target of a branch
  that leaves its function is a start or an entry in the middle (`OutsideIsDefined`), and so
  is that of a computed jump (`JumpIsDefined`); a live branch keeps its effect
  (`LiveIsNotLost`). `RecompilerInv` says what the tool has computed by each phase, and that
  the C stands at the label of a live word with returns to live words. `RunFollows` then
  maps each group of lines to a step of the SH-4: straight on, a branch, a call, a return.

Only model-checked: everything about liveness and fairness (`NewWorkReachesHandler`,
`FrameRaised`, `TransferCompletes`, `CommandCompletes`, `InterruptFinishes`, `FiqServed`), which
is beyond TLAPS, as is anything that needs ENABLED. Every other property of a passing run
is a theorem.

## 5. Findings

`PROJECT.json` quotes the lines. Shown by a run:

- **An exception return does not swap the ARM7's banks** (`arm7.c` 639-641): the interrupted
  code goes on with the handler's r8-r14. `arm7_return`; `OwnUntilReturn` shows that
  everything before that point is right.
- **A polling driver's transfer loses its length** (`dc_hardware.c` 515-518, 341): a start
  register never reads 1, because the start is never stored, so the driver programs its
  next length while the transfer is in flight, and the retirement clears it. The same
  driver restarts a busy channel, which may then get a second entry of the table, since
  the scan (317-318) takes the first free one. `g2_polling`; `G2Driver`'s properties are those
  of a driver that waits for the interrupt.
- **Timer A stands still under a prescaler** (`dc_hardware.c` 794): each poll drops what
  the shift drops, and polls come about once a sample or more often. `sound_timer`.

The rest was met while modelling. No run asks for it: a property of the runs is
stated so as to leave it out, as noted.

- *G2* (`dc_hardware.c` 330): the comment has the retirement behind the tick gate; it is before it.
- *Drive* (`dc_bios.c` 319-326): the busy-to-done edge can be missing after InitSystem,
  which restarts the ids and keeps the remembered one. `SecondAskCompletes` promises the
  second answer, not the edge. The header comment (139-145) describes other answers. Two
  drivers that poll two ids in turn make the one remembered id (317-319) forget each
  other, and neither is told COMPLETED; `CommandCompletes` stops at that contention.
- *Interrupts* (`sh4_cpu.c` 377-379): new work is not always delivered at once, since a bit
  acknowledged and raised again looks like no change. `OnlyUnchangedBacksOff` is the converse,
  and `NewWorkReachesHandler` says in the end.
- *Sound* (`dc_hardware.c` 879): the first release resets the FIQ line without a look at
  what is pending. A published word (`sh4_cpu.c` 921) is answered although the game wrote it.
- *Partial writes* (`sh4_cpu.c` 994, 1024): a byte or halfword write to a register whose ones
  clear writes back, and so clears, the bits of the other bytes too.
- *TMU* (844): the read that reloads a count takes the old interval off the new one.
  `CountIsElapsed` is about counts that have not run out.
- *Memory map*: the TA and register ranges of the header comment are RAM in P0 and P1 (731);
  a store queue burst to 0x11000000 goes to no video memory (1220); writes to the vtable block
  are kept out in two widths of three (1128); `dma_resolve` does not clamp in RAM
  (`dc_hardware.c` 257) and reaches 16MB on a Naomi too (253).
- *TA fifo* (675): words are taken before the list is initialised, which the comment excludes.
- *Renderer* (`pvr2_render.c` 280): the depth test goes off with the first framebuffer
  presented and is never turned on again. `QuadIntact` is about buffers, not about this state.
- *Naomi* (`naomi_io.c` 212): the reply after an eject carries the id of the card that left.
- *Recompiler* (`static_recompile.py`): the branch targets that keep the walk in step are only
  those that leave their function (140); of the branches whose delay slot starts the next
  function only `rts` has the special case that stops the fall through (1146); and the walk
  that collects those targets runs before any of them is known (140), so that a branch out
  of its function that only a hint separates from a data word before it is not seen, its
  target gets no entry, and the branch becomes a stub. `Supported` in `Recompiler` leaves the
  three kinds of image out. The last came out of the proof: the case could not be closed.

## 6. What is not modelled

- *BIOS flash, fonts, system information* (`dc_bios.c`): each call answers from a constant
  image and keeps no state that another call reads.
- *SH-4 helper operations* (division steps, FPU helpers, cache instructions): straight-line
  arithmetic on one register file, for which a unit test is the better tool.
- *Platform layer, disassembler, extraction and decryption tools*: host I/O, text, file
  conversion.
- *Renderer*: shaders, pixels and texture decoding. What is modelled is which presenter
  draws into the window from which buffer.
- *Recompiler*: the text of the C, `rte`, the reports. The order of instructions is modelled.
- *Inside modelled components*: debugging switches read from the environment, logging, the
  bytes a DMA or a disc read moves, AICA channel registers and interrupt levels, published
  sound words, system-bus registers that are stored and read back and do nothing else,
  Maple frames in memory the game is writing at the same time.

Worth doing next: the bounds under the liveness properties as safety (how many polls a new
completion waits at most, how many asks a command takes), which TLAPS could prove with a
counter beside the code's state; and the half of `translate_addr_cpu` that serves Naomi
boards, whose upper RAM three of the agents do not reach.
