# A verification model of the n64 emulator

This directory holds TLA+ models of the emulator in `src/`: what TLC checks about
them on small instances, and what TLAPS proves about them for every instance. The
models are translated from the C and Rust sources; the documentation under
`src/docs/source` is used only as a statement of what the code is meant to do.

    tlc -config MCScheduler.cfg MCScheduler        # a run: NAME.cfg with module NAME
    tlapm SchedulerProofs.tla                      # the proofs of a module

`PROJECT.json` lists the components, the runs, a mutation of the code for every
checked property that violates it, the source lines behind every definition, the
hazards and the theorems.

## 1. The system

The emulator has one main loop (`n64system.c`: `jit_system_loop`,
`interpreter_system_loop`). A turn of it runs the CPU (a block of instructions
compiled by the JIT, or one interpreted instruction), advances the clock by the
cycles that took, steps the RSP and the AI, and takes at most one due event out of
the scheduler. Nearly all that makes the console work in time is an event. There is
a second thread for audio output, and with the Qt frontend a third for the user
interface; the menu's requests run in the middle of an event handler.

| Component | State | Operations | Interacts through |
|---|---|---|---|
| Scheduler (`scheduler.c`) | clock, pool of 10 nodes, sorted list | tick, enqueue, remove first of a type, reset, ticks until next event | called by all interfaces; `handle_scheduler_event` |
| Interrupts (`n64system.c`, `r4300i.c`, `r4300i_register_access.h`, `n64bus.c`) | MI lines and mask, Cause.IP, Status | raise and lower a line, write mask/Cause/Status, exception, ERET | event HANDLE_INTERRUPT |
| Compare timer (`scheduler_utils.c`) | Count, Compare, ip7 | write Count/Compare, match | event COMPARE_INTERRUPT |
| PI and SI (`pi.c`, `si.c`) | busy bits, write latch, transfer registers | start a transfer, write and read the bus, completion | three completion events, MI |
| Video timing (`vi.c`, `on_vi_halfline_complete`) | halfline, field, V_SYNC, V_INTR, V_CURRENT | write a register, halfline | event VI_HALFLINE, MI, saves, screen |
| Audio (`ai.c`) | two buffers, carry, counter | write address/length/rate, play a sample | MI, the audio output |
| Audio output (`fifo.h`, `audio.c`) | ring buffer, two atomic indices | append a flush, callback | two threads, no lock |
| Saves (`backup.c`) | save memories, dirty marks, debounce counters, files | write, once a frame, quit, reset | frames, user requests, file system |
| Reset (`n64system.c`) | all of it | `reset_n64system` | the menu, HTTP, a movie, the Qt thread |
| RSP control (`rsp.c`, `rsp_interface.c`) | status, semaphore, DMA registers, overlays | write a register, DMA, run a batch | MI, RDP, block caches |
| RDP commands (`rdp.c`) | DPC pointers, partial command | start a list, full sync | MI, RDRAM |
| JIT block cache (`dynarec.c`) | pages of block lists, masks of compiled words, code buffer | look up, compile, invalidate, flush | CPU, every write to RDRAM |
| Exceptions and delay slots (`r4300i.c`, `dynarec.c`, `mips_to_ir.rs`) | pc, next_pc, branch flags, EPC, Cause, EXL, TLB entries | step, block, branch, trap, miss, interrupt, ERET | main loop, bus |
| FPU, instructions | CP1, registers | the instructions | bus |
| PIF and joybus (`pif.c`) | PIF RAM, devices | walk the commands | SI, saves |
| Renderers, frontends, settings, logging, debugger | windows, files | - | - |

What is hard in it:

* **Time without comparison.** Nothing compares Count with Compare or Cause with
  Status in each cycle. The code computes *when* something will be the case and
  queues an event, and must recompute whenever an input changes: a forgotten
  update is a lost interrupt. It must be right across wrap-around, when events wait
  for each other, and inside compiled blocks, during which the clock stands still.
* **Limits.** Ten event nodes; the next allocation after that ends the process.
* **Orders nobody tests.** A read of the bus during a write, V_SYNC rewritten inside
  a field, a buffer that ends between the two writes that queue the next one.
* **Resets in the middle of a handler**, which clear some of the state two components
  share and leave the rest.
* **Stale code.** Code is compiled from memory that five writers change, into a buffer
  that is reused from the front under whoever holds a pointer into it. The RSP's
  program memory is replaced many times a frame, by the CPU and by the program in it.
* **Pieces.** A display list arrives in pieces that need not be whole commands, from
  two processors that share the registers by a semaphore, while the RDP may be frozen.
* **Between two instructions.** A branch takes effect one instruction late. An
  interrupt, a miss or a trap may come before, in and after its slot, while an
  earlier exception is handled, or inside compiled code that has no program counter.
* **Threads.** The ring buffer is used by two threads without a lock.
* **Files.** A save is emptied before it is written; memories are written late.

The correctness properties follow from these, per component: nodes conserved and the
list sorted, so that the scheduler is an event queue (Scheduler); every interrupt the
CPU has to take is queued and taken (Interrupts); the event is queued for the match, if
Compare's top bit is clear (CompareTimer); completions belong to their transfers and busy bits are honest
(PeripheralDma); no change is lost but at the edges of a quit or a reset (Backup); no data race,
nothing lost or reordered, no endless wait (AudioFifo); one chain of halflines which
goes on, one interrupt per field (VideoInterface); what the registers say is what is
left to play (AudioInterface); what runs was compiled from what memory holds, for this
address and mode (BlockCache), on the RSP too (RspOverlays); a display list is read
whole whoever writes the registers, or given up while the RDP is frozen or by a reset,
and where it is cut makes no difference (RdpCommands); exceptions cannot be seen by the
program, but for a coprocessor instruction in a slot of compiled code (Exceptions). `PROJECT.json`
has the hazards at their lines.

## 2. The modules

Every component is a module of its own with `Init`, an action per operation or
handler, `Next` and `Spec`. `MC<Module>` gives the constants their values for TLC,
`<Module>Proofs` has its proofs. Four proof modules serve two components:
`EngineProofs` has those of `Interrupts` and of `BlockCache`,
`SchedulerProofs` has those of `Scheduler` and of `CompareTimer`, whose arithmetic
of time they share, `AudioProofs` those of `AudioFifo` and `AudioInterface`, and
`ProcessorProofs` those of `RdpCommands` and `Exceptions`, which share induction over
sets of numbers; the definitions whose names would collide there begin with `Timer`,
`Ai`, `Cpu` and `Jit` (`TimerSpec`, `AiTypeOK`, `CpuSpec`, `JitNext`). Definitions with a comment "mutant:" are
plausible mistakes in the code and are used by no specification; each shows that
one property would notice that mistake.

### Scheduler, EventQueue (`scheduler.c`)

`Scheduler` has the code's data structure: `scheduler_list` is the linked list with
the node of each entry, `free_event_nodes` the stack of free nodes.
`EnqueueAbsolute`, `EnqueueRelative`, `Tick`, `RemoveEvent`/`RemoveNothing`, `Reset`
are the functions of the file; `PoolExhausted` is the `logfatal` of
`alloc_event_node`; `IdleSkip` is what `idle_loop_replacement` adds to the clock.
`InsertsAt(t, p)` is the loop of `scheduler_enqueue_absolute` as a condition on the
position `p` it ends at.

`EventQueue` is what callers rely on: a bag of (time, type) slots from which the
earliest is delivered when it is due. The refinement maps the entries of the list to
the slots that are their nodes; what is delivered is the abstract event.

### Interrupts (`n64system.c`, `r4300i.c`, ...)

Lines and mask of the MI, Cause.IP, IM/IE/EXL/ERL of Status, and the number of
HANDLE_INTERRUPT events. `at_tick` alternates between the CPU and `scheduler_tick`;
with the interpreter after each instruction, with the JIT after any number of them.
Every writer of a bit is an action, with the update of `r4300i_interrupt_update`
where the code has one and without it where it has none (`WriteCauseCompiled`,
`WriteCompare`). The scheduler is abstracted to: HANDLE_INTERRUPT is due at the next
tick, but any other event may be delivered instead.

### CompareTimer (`scheduler_utils.c`)

`count` has one bit more than the register, as in the code; the number of values
of a register is a constant, `Size`. `index` is the instruction's place in its block: during a
block the code's count and clock stand still. The interpreter is the case of blocks
of one instruction. The event is represented by the time `remaining` until it is due.
`InCycles` shifts Compare as the code does, which loses its top bit: what is checked and
proved of the moment of the event is for a Compare with that bit clear; the other case is
among the disagreements in section 3.

### PeripheralDma (`pi.c`, `si.c`)

The busy flags, the events that end what they announce, and the nodes these take from
the pool. `instant` is the build: with `INSTANT_DMA`, which `CMakeLists.txt:46` turns on,
a transfer completes within the write that starts it and only writes to the cartridge
bus take events; without it, it completes by an event. Both are explored and proved
about. `obedient` says whether the program looks at a busy bit before it starts
something; both kinds are explored. The bytes a transfer moves are left out; of an SI
transfer the registers it was started with are kept as history.

### Backup (`backup.c`)

Both memories of the code share `persist`, so `data`, `dirty`, `debounce` and `file`
are functions on them. `Frame` is `persist_backup` in
`on_vi_halfline_complete`, after which the screen is updated and the user's requests
are polled. `Truncated` is a file that `fopen(.., "wb")` emptied and nothing
was written to. With `Asynchronous`, requests come at any time as well (HTTP API, TAS
movie, Qt). `Reset` forces what counts down to disk, frees the buffers and reads the
files again, so that what it loses is no longer unsaved after it. What it may lose is
therefore a property of the step, `ResetLosesOnlyTheEdges`, and not of the states.

### AudioFifo, BoundedQueue (`fifo.h`, `audio.c`)

A step is one load or store of shared memory: an index, or one item of a `memcpy`.
`BoundedQueue` is what the two threads rely on: chunks are appended whole and prefixes
are taken in order. The refinement maps the items between head and tail to the
queue. The resampler is external: it produces any number of items per flush. Loads
and stores of the indices are atomic and sequentially consistent, as C11 `_Atomic`
makes them.

### VideoInterface (`vi.c`, `n64system.c:252-286`)

The handler of a halfline is split where a user's request can run
(`rdp_update_screen`) and where the loop turns: `HalflineEvent`, `BeginHalfline`,
`UpdateScreen`, `EndHalfline`. All times are relative (to the last halfline and to the
clock), so that the model needs no bound on the clock. `WriteVSyncTraps` is the
division by zero for V_SYNC below 2. `ResetFromMenu` happens inside the handler,
`ResetFromThread` between two turns.

### AudioInterface (`ai.c`)

The two slots, the count and the carry of a page. A sample is the unit of addresses
and lengths. History variables keep what the program asked for.

### BlockCache (`dynarec.c`, `dynarec_memory_management.c`, `v2_compiler.c`, `lib.rs`)

`codecache` is the buffer in which lists of block headers, masks, headers of further
blocks and code lie one after the other; a cell is a header, a mask or the code of
one instruction, so that what matters about sizes is kept: lists are larger than
headers, and any allocation may be the one that flushes. A handler is a chain of
operators on a record of the cache (`NewPage`, `FindMatchingBlock`, `Compile`), in
which pointers are cells and go stale as in the code: an allocation may flush under a
list, a header or a base address that the caller holds. `DynarecStep` is
`n64_dynarec_step` with the program at any word and through any virtual page; the
stores of the program are steps of their own, so that what a block does to its own
later words before it ends is left out, as is `MAX_BLOCK_LENGTH`, which is a page.
Each writer of RDRAM is an action with the words it writes and the words it looks up
(`Write`). `Execute` says whether what lies at the block's address is the code that was
made for that address, and for which mode and instructions.

Cells nothing leads to are forgotten (`Forget`). That loses nothing: an allocation
is overwritten or zeroed by who made it before it is read. The exception is a header
that is written after a flush has put something else in its place; `SetRun` and
`MarkCode` make such a cell `Junk`.

### RspOverlays (`rsp_dynarec.c`, `rsp_jit.rs`, `rsp.h`)

The code of the RSP is kept in overlays: the blocks that begin at each word of IMEM
and a copy of the words they were compiled from. `Invalidate` is
`quick_invalidate_rsp_icache`, which makes the selected overlay dirty;
`SelectOverlay` is the first half of `rsp_dynarec_step`, which then looks for one
that matches, one that is empty, the next, or any; `CompileBlock` marks the words of a
block and then makes room for its code, which may flush all overlays, this one
included. `rand()` is a choice. What matters of an instruction is whether it ends a
block, writes to a register of coprocessor 0 (which may start a transfer into IMEM) or
stops the RSP. One compiled instruction is one cell of the code cache.

The program may go to any word next. A block does its transfer when it ends; more
than one in a block comes to the same overlays as a transfer by the CPU after it. A
block needs an end: where IMEM has neither a branch nor a BREAK, the loop at
`rsp_jit.rs:56` does not end, and the model has no step. A branch in the slot of a
branch leaves the block to the interpreter, whose copy of IMEM is `icache`. The member
`sure` of a block is history: it is FALSE for a block whose compilation flushed the
cache, and for those that were selected when the system was reset. That code is made
for an address it does not run at when it flushes is in `BlockCache`, whose allocation
is the same.

### RdpCommands, CommandStream (`rdp.c`, `rsp.c`)

The registers DPC_START, DPC_END, DPC_CURRENT and DPC_STATUS, and the
`last_run_unprocessed_words` of `rdp_command_buffer`. `RdpRunCommand` is
`rdp_run_command` with `process_rdp_list`: it chooses the dwords it reads, puts what
was left before them, and runs the whole commands (`RunFrom`), each with its own
length. Two masters write the registers, the CPU and the RSP, and take turns by the
semaphore of the RSP. That a master takes the semaphore before it writes a start or an
end, writes the end of a list not before its start, and does not move an end back, is
the program's part of the protocol; writes to the status register need no semaphore.
Left out are the ends of the emulator in `logfatal`: for a list longer than the
command buffer (`rdp.c:168`), and without a known renderer (`enqueue_command`, `full_sync`
and `rdp_run_command`). Of the history, `asked` is what was ever asked for and
not read, and `given_up` what of it was in a list that was replaced unread: by another
one, while the RDP is frozen or after a reset has left it waiting.

`CommandStream` is what the RDP promises whoever feeds it: one stream of dwords, and
the commands that are whole in it, run in order. The refinement maps all that was ever
read to the stream, so that no cut of a list, no freezing and no reset may change
what is run.

### Exceptions, ProgramOrder (`r4300i.c`, `dynarec.c`, `mips_to_ir.rs`, ...)

`HandleException` is `r4300i_handle_exception`, which reads the flag `prev_branch` its
caller may just have set; that is why the model uses the primed flag. `Step` frames an
`r4300i_step`, of which `FetchFault`, `InterpretTrap`, `InterpretBranch`,
`InterpretSkip` (a likely branch that is not taken) and `InterpretPlain` are the
outcomes. With the JIT, `EnterBlock` is `n64_dynarec_step`, and `CompiledTrap`,
`CompiledPanic`, `CompiledBranch` and `CompiledPlain` are one instruction of a block
each: `at` is its address, a constant in the emitted code, and `pc_set` says that a
branch of this block has written the program counter already. A block that would end
in a branch, because the slot is in the next page, is interpreted instead
(`EndsInBranch`). `Interrupt` is the delivery of HANDLE_INTERRUPT; when one is due is
the subject of `Interrupts`.

Programs and handlers are external. A handler keeps EXL set until its ERET: the refill
handler reads a page table, which may be unmapped itself, and fills an entry; the
common handler repairs what the cause names, and on an interrupt lets another
program run, which may take the coprocessor and TLB entries. Of the programs,
`WellFormed` is assumed: no branch stands in a delay slot, which the manual calls
undefined; the last two words are a jump and its slot, so that control does not run past
the end, and nothing else leads to that slot; and the instruction in it is none of the
coprocessor's, after whose trap compiled code would forget that jump and run past the
end.
Handlers find the page in EntryHi and write entries by index: the JIT has no code yet for
TLBWR, SYSCALL and reads of BadVAddr and Context (`todo!` in `mips_parser.rs` and `mips_to_ir.rs`), and
stops the emulator when it meets one.

`ProgramOrder` is what a program relies on: each instruction takes effect once, in
the order its branches give. The data is one bit that each instruction turns over and
branches test, so that an instruction executed twice or left out is noticed at the
next step. The refinement maps the machine to the place the program has come to:
where EPC says while a handler runs (at a branch, if the exception was in its slot,
as the handler returns there), else where the program counter and the flags say.
A coprocessor instruction in a slot is where the JIT differs from that: if it traps,
a compiled block has neither the flag nor the address of its branch, and the handler
returns to the slot alone. `InProgramOrder` is the refinement, which this breaks;
`ImplementsProgramOrder` is the same with that one step excepted, which
keeps the data and the slot and loses where to go after it (`TrapInCompiledSlot`). No run
checks `InProgramOrder`; it is proved of programs without such an instruction, and of
the interpreter (section 4).

### How they compose

Each module contains the part of its neighbours it depends on: `PeripheralDma`,
`VideoInterface` and `CompareTimer` rely on what `EventQueue` promises (a due event
is delivered, once, earliest first), which `Scheduler` is shown to implement;
`PeripheralDma` counts the pool's nodes and `VideoInterface` the queue's copies of one
type, because both can go wrong there. `Interrupts` takes any line from any device,
so that the raising and lowering of lines in the other modules are instances of
its `DeviceRaises`, `DeviceEvent` and `WritesInterrupts`.

## 3. What is checked

Twelve runs pass. Bounds are constants of the modules; each is there
because it is the smallest at which every case of the code occurs.

| Run | Bounds and why they are enough | Shows |
|---|---|---|
| `scheduler` | three nodes, two types, delays -1..2, clock to 4: ties, overdue events, insertion before, between and behind, removal from the middle, exhaustion | `NodesConserved`, `Sorted`, `IdleSkipIsExact`, and the refinement `ImplementsEventQueue` |
| `interrupts` | two lines, ip0, one reset; both engines: one line can mask, replace or outlive another | `Ip2FollowsMi`, `InterruptsAreQueued`, and `InterruptIsTaken` under fairness |
| `timer` | registers of 16 values, all of them, blocks of up to three instructions, events up to two ticks late: every wrap-around of count, shift of Compare and place in a block | `EventAtMatch` (for a Compare with its top bit clear), `Ip7OnlyAfterMatch`, `DueEventNotDropped` |
| `dma` | both builds; four nodes for three kinds of event, so that one is left for a second transfer and the fifth request exhausts the pool; two resets, obedient and other programs | `WriteEventIsCurrent`, `BusyBitsExact`, `SiMovesWhatWasAsked` |
| `backup` | two values, debounce of 4 frames (the code's number is a constant of no consequence beyond 2: the counter has a value that is neither first nor last) | `SavedInTime`, `NotSavedHalfway`, `QuitLosesOnlyTheEdges`, `ResetLosesOnlyTheEdges` |
| `fifo` | four entries, chunks of two, requests of three, flushes of three: full, empty, wrapped, a partial last chunk, a request larger than what there is | `RaceFree`, the refinement `ImplementsQueue`, and `FlushEnds` under fairness |
| `video` | one or two halflines (V_SYNC 4, 1 traps) and three after a reset, of three, six and one ticks; events up to two ticks late, which is several halflines at a time; one reset of either kind | `OneHalflineQueued`, `NextNeverWraps`, `InterruptOncePerField`, and `HalflinesGoOn` under fairness |
| `blockcache` | two pages of two words, each at two virtual addresses; a buffer of seven cells, which is full after one page with two short blocks, or one with a block for each of two modes; memory that begins with an idle loop and two short blocks; one write or reset, before or after which anything may be compiled: a second one would follow the same code, from a cache that the first has left as it was or has emptied | `CodeIsCurrent`, `CodeIsWhole` |
| `rsp` | two words of IMEM, of four kinds of instruction; two overlays, so that a third program has none; a code cache of six cells, which two or three blocks fill; three images that a transfer may bring | `CodeIsCurrent`, `IcacheIsCurrent`, `CodeIsOnlyLostWhenFull` |
| `rdp` | two masters; commands of one, two and three dwords, so that one and two of them may be left over; a memory of three dwords, so that a list may be empty, short, and moved on twice; five dwords asked for in all, read, waiting or given up, which is a cut command, its end, and another one; resets at any time; the two masters are symmetric | `ListsAreRead`, `LeftoverIsPartial`, and the refinement `CutsMakeNoDifference` |
| `exceptions` | programs of six words in two pages, which end with a jump to the start: every combination of plain, coprocessor and load instructions with a branch (likely or not, to another word or into the slot of another) in the middle of a page and at its end; a page table that is mapped or not; two interrupts, so that one may follow the other's return or find the coprocessor and the TLB taken at any place | the refinement `ImplementsProgramOrder`, and `ProgramGoesOn` under fairness |
| `audio` | two pages of four samples; buffers of two and six samples at page borders and between them | `RegistersTellTheTruth`, `PlaysWhatWasAsked` |

Every module has one type invariant, `TypeOK` (`TimerTypeOK`, `AiTypeOK`, `JitTypeOK`).
Where it says more than types (one HANDLE_INTERRUPT at most, the events within the pool,
no block started in a delay slot), its comment says so. It is proved (section 4); the
runs check it in the four modules where it says most of what is allowed at all
(`timer`, `audio`, `blockcache`, `exceptions`).

`CHECK_DEADLOCK FALSE` stands where the system may stop: an exhausted pool
(`scheduler`, `dma`), the end of the process (`backup`), the trap of a division
(`video`) and, for `video`, the bound on the clock, and the panic of compiled code
that cannot resolve an address (`exceptions`).

### Fairness

* `interrupts`: `Runs` (weak) says the loop goes on turning, which it does until the
  emulator quits. Strong fairness of `HandleInterrupt` says other events cannot be
  delivered in its place for ever: each of them is queued again for a later
  time, while HANDLE_INTERRUPT keeps its place in the sorted list.
* `fifo`: both threads are scheduled; SDL goes on calling the callback while the
  device is open. Beginning a flush and the user's key are not fair.
* `video`: the loop goes on running the CPU and ticking the scheduler.
  `HalflinesGoOn` excepts a program that rewrites V_SYNC for ever, which really
  stops the VI.

* `exceptions`: the loop goes on running the CPU (`CpuStep`). Nothing is assumed of
  interrupts. `ProgramGoesOn` excepts the panic of compiled code.

### Where the code disagrees with what is said of it

The following were met while modelling. The models contain them, and the properties are
stated so that they say what does hold: where one of these is an exception, the
property has it as a condition and its comment names it.

| Where | What the code does | What is said of it |
|---|---|---|
| `scheduler.c:61` | an event goes before those of the same time, unless it ties with the head | the comment at 58 puts it before the first with a larger rank |
| `r4300i_register_access.h:77` | a write to Compare clears ip7 and leaves HANDLE_INTERRUPT queued: an exception is taken with nothing pending | `interrupts.rst:51-59` |
| `n64system.c:162` | a reset clears Cause.ip2 and keeps the MI's lines and mask | `interrupts.rst:30` |
| `mips_to_ir.rs:602` | the code the JIT emits for a write to Cause does not call `r4300i_interrupt_update`: a software interrupt raised by compiled code is taken only after some other update | `interrupts.rst:61`: re-checked "when any of these bits change" |
| `mips_to_ir.rs:943` | `prev_branch` is FALSE inside a block: a coprocessor-unusable exception in a delay slot saves the slot's address without BD, and the branch is lost on return | `r4300i.c:81-82`, `interrupts.rst:124-126` |
| `mips_to_ir.rs:865` | a load or store of compiled code from an unmapped address ends in a panic | the interpreter raises a TLB miss |
| `r4300i.c:80-89` | BD is written only if EXL was clear | `interrupts.rst:124` sets or clears it whatever EXL is |
| `r4300i.c:123-126` | with EXL clear, a 64-bit TLB miss goes to 0x80000080 | `interrupts.rst:143`: when EXL = 1 |
| `scheduler_utils.c:7` | the top bit of Compare is shifted out: with it set the event comes half the range early or late | `cpu.rst:199` |
| `scheduler_utils.c:10` | a write to Count drops a due event that has not been delivered | `cpu.rst:199-201`: only a write to Compare clears its interrupt |
| `mips_to_ir.rs:646` | a compiled write to Compare queues the event early by its index in the block | the interpreter |
| `mips_to_ir.rs:766` | a compiled write to Count keeps the upper half of the old count | `dynarec_compare.c:193` compares all of it |
| `n64system.c:181` | without `INSTANT_DMA`, a reset removes a transfer's completion and leaves `dma_busy` set | `pi.c:23` tells the program to wait |
| `n64bus.c:416` | a doubleword store looks up its first word only: if the second is code and the first is not, the old block goes on running | `dynarec.h:92`, which is called before every store |
| `si.c:17` | a PIF transfer writes RDRAM and looks up nothing | `pi.c:179`, `rsp.h:248` do |
| `rsp.h:249` | of each row of an RSP transfer the first word is looked up, and the page stays if that word is not code | the comment at 247: "Invalidate all pages touched by the DMA" |
| `pi.c:179` | what a PI transfer writes beyond the end of RDRAM wraps to its beginning (`mem_util.h:118`) and is looked up beyond the end | - |
| `lib.rs:39-45` | code is compiled for the next free address; if it does not fit, the allocation flushes, and the code runs at another address than it was made for, possibly with a header written into it | the TODO at `dynarec_memory_management.c:40` |
| `backup.c:362-365` | a counter of 0 is not forced: quitting or resetting in the frame before a save is due loses it | - |
| `backup.c:332` | what is dirty when it is forced only starts its counter: a reset reads the old file over it | - |
| `n64system.c:132` | a reset in the frame before the memory pak is due frees its buffer without saving it (`backup.c:368` looks at counters above 0 only), and the next frame empties the file and hands a NULL pointer to `fwrite`; one that is merely dirty when a reset comes from elsewhere leaves its counter running with no buffer | the file is then what `backup.c:303` calls "Corrupted save file: wrong size!" |
| `dynarec_memory_management.c:21` | a flush while a block is compiled clears the mask and the copy of its words, and `rsp_dynarec.c:33` then marks the overlay as having code: it matches anything | `rsp_dynarec.h:19-20,26-27`: the mask has what has been compiled, an empty one "would otherwise compare equal to any IMEM contents" |
| `n64system.c:172` | a reset clears IMEM and does not tell the overlays: with the selected one not dirty, its old code goes on running | `rsp.h:128`, which every other write goes through |
| `n64system.c:152` | a reset unfreezes the RDP without running the list that waits, and leaves half a command and the semaphore as they were | `rdp.c:337` runs what waits when the RDP is unfrozen |
| `rdp.c:352` | a new list given to a frozen RDP replaces the one that waits, which is never run | - |
| `n64system.c:275` | an interlaced frame has three fields: `field` runs over 0, 1, 2 at the moment of the comparison | `vi.c:24` sets two |
| `vi.c:130` | V_CURRENT is compared with V_INTR without bit 0 | `interfaces.rst:86` |
| `n64system.c:284` | the next halfline is two lengths after the event before the last: lateness accumulates | - |
| `n64system.c:181` | `last_halfline_at` stays in the future after a reset; a menu reset leaves two chains of halflines | `n64system.h:132` |
| `ai.c:92` | the interrupt is raised while the second buffer remains | `interfaces.rst:84`: "when there are no more samples" |

## 4. What is proved

TLAPS proves the following for all values of the constants that satisfy the modules'
named assumptions, with no other assumption unless it is given here.

* **`SchedulerProofs`**: `TypeCorrect`, `ListStaysSorted`, `NodesStayConserved`,
  `IdleSkipStaysExact`. Sortedness is inductive together with the types: the
  condition `InsertsAt` bounds the neighbours of the new entry. That the nodes are
  conserved is proved with a counting-free formulation: no duplicates on the stack,
  none in the list, and each node in exactly one of the two. The lemmas at the
  beginning say what `InsertAt`, `RemoveAt`, `Front` and `Last` return.
  `SchedulerIsAnEventQueue` is the refinement, one lemma per call: the slots of
  `EventQueue` are the nodes, and since a node is in the list at most once, inserting,
  removing and delivering an entry changes the slot of its node alone. The entry at
  the head is the earliest because the list is sorted.
* **`SchedulerProofs`, the timer**: `TimerTyped`, `TimerIsOnTime`,
  `NoTimerInterruptBeforeMatch`, `DueTimerEventStays`, for any number of values of
  the registers, any length of blocks and any lateness; of the moment of the event and
  of ip7 only for a Compare with its top bit clear. Inductive is `ShiftedMatch`, that the
  event is for the moment Count equals what the code's shift leaves of Compare, which
  with the top bit clear is Compare. Time passes by steps that
  `count` and `remaining` share, so their sum keeps its remainder. `Ip7OnlyAfterMatch`
  is not inductive: `MatchSeen` adds that an event of the interpreter that is due
  has seen the match already, or sees it now. The lemmas on remainders of a
  variable divisor (`DivMod`, `ModUnique`, `ModPlus`, ...) follow from uniqueness of
  quotient and remainder.
* **`EngineProofs`, interrupts**: `TypeCorrect`, `Ip2IsTheMi`, `NoInterruptLost`. The invariants
  are inductive together: `NoInterruptLost` needs at most one queued event, since
  `HandleInterrupt` takes one and the update leaves exactly as many as the
  condition asks for (`UpdateQueues`).
* **`EngineProofs`, the block cache**: `CacheTyped`, `CodeStaysCurrent`, `CodeStaysWhole`,
  for memories, pages and buffers of any size, any programs and any number of writes. What
  is executed is current only because of all that came before it, so the invariant
  `JitInv` is about the whole buffer: each header belongs to one word and leads to later
  ones of the same word (`GoodHeader`, `GoodOwners`), so that a chain ends and no write to
  it disturbs another; a block that a header leads to is in the part of the buffer in use,
  made for that place, from what is known of the words of its page (`Compiled`); and each of these
  words is in the page's mask (`Masked`), so that a write that looks it up drops the list.
  `Known` is what memory holds, and anything for a word written by who does not look. A
  handler is followed call by call (`PageFound`, `BlockFound`, `CompileSteps`,
  `MissingSteps`), each with the possibility that its allocation flushes: then there are
  no lists, and nothing has to be true of what lies under the pointers the
  handler still holds. `BeyondUse` says that what is written beyond the part in use
  disturbs nothing, and `ForgetIsGood` that the model may forget what nothing leads to.
* **`PeripheralDmaProofs`**: `TypeCorrect` and `NoStaleWriteEvent` for any program and
  any number of resets; `BusyBitsAreHonest`, for at least three nodes, by an invariant
  that counts one event per busy flag. It is needed because exactness and the absence
  of exhaustion imply each other only together. `TransferMovesWhatWasAsked` needs no
  number of nodes: an exhausted pool stops the emulator before a register changes.
* **`AudioProofs`, the ring buffer**: `TypeCorrect`, `LooksAreStable`, `NoDataRace`. The invariant
  `Promises` says that what each thread computed from the other's index stays a lower
  bound until it stores its own; two ranges on a ring, of at most `to_read` from the
  head and at most the free room from the tail, are then disjoint. The remainders
  are replaced by `Ahead`, which the arithmetic lemmas justify. `FifoIsAQueue` is the
  refinement: a store of `tail` appends the chunk that was copied and a store of `head`
  drops what was taken, which needs that the copies so far are in the buffer
  (`Copies`), and that nobody overwrites what lies between the two indices.
* **`AudioProofs`, the interface**: `AudioTyped`, `AudioRegistersAreRight`,
  `AudioPlaysWhatWasAsked`, for any sizes of pages, buffers and samples. That the
  right address is played is not inductive: `Playing` says that a buffer that is
  asked for has something left, and what carry it began with; `Addressed` that the
  address the program wrote is in the slot its length will go to. The address moves within its page and the carry
  moves the page; `CarriedIsMod` and `FollowingIsNext` say that the two together count
  on through memory.
* **`BackupProofs`**: `TypeCorrect`, `LeftAloneIsSaved`,
  `QuitLosesLittle`, `ResetLosesLittle`, `NothingSavedHalfway`, for any values and any
  debounce time. The invariant `Tracked` says of each memory that it is on disk, or freshly changed and
  dirty, or counted down by exactly the frames it has been left alone.
* **`VideoInterfaceProofs`**: `OneChainOfHalflines`, `NextIsNeverBelowZero` (with any
  number of resets, in the middle of the handler too), `OneInterruptPerField`, for all
  lengths of halflines that are not shorter than the one after a reset. The
  invariant `RaisedOnce` says when in a field the comparison has come to V_INTR:
  2 * (halfline + field div 2) takes every even value once; `TypesAreRight` adds what
  the invariants leave of the types; `OvershotIsSmall` keeps
  the lateness below what is still to be caught up.
* **`RspOverlaysProofs`**: `TypesAreRight`, `RspCodeIsCurrent`, `RspIcacheIsCurrent`, for
  any sizes and images. An overlay that is not selected agrees with nothing, so the
  invariant is about its copy: `Copied` says that the copy describes the blocks, and the
  selected overlay, unless it is dirty, agrees with IMEM. Matching turns the first into
  the second; a write to a word that is no code leaves it. `RspCodeIsKept` follows
  the code that compiles, step by step: which overlay is selected, what it loses when
  it is given up, and what a full code cache empties.
* **`ProcessorProofs`, the RDP**: `ListsAreReadOrGivenUp`, for any number of masters,
  commands and addresses: of all that was asked for, what was not read is what was given
  up, and then what waits. The semaphore makes `inside` a singleton (`Exclusive`), and so the start
  that is valid is the one its master wrote (`StartIsPlanned`); a list that is moved on is
  one list because extents concatenate (`ExtentConcat`). `RegistersAreTyped` is the part
  of the types this needs, for any number of masters. `OnlyAPartIsLeft` and the
  refinement `ListsAreOneStream` rest on `WhatIsRun`: the commands run of any buffer are
  whole, and with what is left over they make up the buffer. `RunFrom` and `FlattenSeq`
  are recursive functions, of which the library only says that one satisfying the
  recursion is chosen; `Running` and `Flattening` show that there is one, and their
  values follow, by induction over a set of indices (`UpTo`, from the least number of a
  set). `FlattenConcat` then says that the commands of two runs are those of one.
* **`ProcessorProofs`, exceptions**: `CpuTyped` and the refinement of
  `ProgramOrder`, for any pages and any `WellFormed` programs of any length, in three
  forms: `OnlyATrapInASlotIsSeen` with the trap in a compiled slot excepted,
  `ExceptionsCannotBeSeen` without exception where no coprocessor instruction is in a slot
  (`NoUnitInSlot`), and `TheInterpreterKeepsOrder` without exception for the interpreter.
  The invariant `ExcInv` has one part for each way an instruction can be under way: in a
  handler EPC is a word control comes to, and never a slot (`InHandler`); in a slot of
  the interpreter the flags and `next_pc` are those of the branch before it (`InSlot`);
  between instructions or blocks `pc` is a word control comes to (`Between`); in a block
  no branch lies between its first word and the one that runs, unless the block has
  written `pc` (`InBlock`). Then each action either takes the one step of `ProgramOrder`
  or leaves `Position` alone: an exception does, since the handler returns to the branch
  if it came in a slot. In a slot of a compiled block it does not, and `InBlock` says that
  such a slot follows a branch. Where control settles after a branch (`Settle`) is recursive
  towards the end of the program; `SettleIs` proves its equation by induction again.

Only model-checked:

* liveness (`InterruptIsTaken`, `FlushEnds`, `HalflinesGoOn`, `ProgramGoesOn`), which is out
  of TLAPS's reach.

## 5. The plan

Done: 1 Scheduler, 2 Interrupts, 3 CompareTimer, 4 PeripheralDma, 5 Backup,
6 AudioFifo, 7 VideoInterface, 8 AudioInterface, 9 BlockCache, 10 RspOverlays,
11 RdpCommands with CommandStream, 12 Exceptions with ProgramOrder, with their proofs as
above: every invariant, action property and refinement that a run checks is proved.

Next, in this order:

1. **Pure algorithms** against reference definitions over bounded inputs, in modules
   that share one run: the integer instructions as the interpreter and the JIT execute
   them (`mips_instructions.c` and `mips_to_ir.rs`), which should agree in sign, width
   and overflow; unaligned loads and stores; address translation
   (`resolve_virtual_address`, the segments and the TLB); the compare and rounding rules
   of the FPU; the RSP's vector accumulator, multiplication and clamping; the checksums
   of memory paks.
2. **The rest of exceptions**: handlers that clear EXL to be interrupted themselves,
   system calls and other exceptions after which a handler returns elsewhere, LL and SC,
   ERL.
3. **PIF and joybus**: the walk over the commands, flash and EEPROM commands.
4. **The rest of RSP control**: the set and clear bits of the status register, and the
   DMA registers with their shadows.
5. **Proofs** about these, where they have invariants.

## 6. What is not modelled, and why

The renderers (pixels, and a third-party library), windows and input, settings,
logging, metrics, ROM loading and the debugger keep no state of the console. The
arithmetic of instructions is in the plan as pure operators; the repository tests it
with ROMs recorded on hardware. The rate at which samples are played and the bytes a
DMA moves are abstracted away in the modules that have the rest of the component.
A data race with the Qt thread inside a handler is undefined and is not modelled;
its resets are modelled between two turns of the loop. Of the RSP's status register only
the halt bit is modelled, and of its transfers those into IMEM; of the RDP's status the
bits that decide whether a list runs. Of exceptions those a handler repairs and
returns from to the same instruction are modelled; of address translation only whether
a page is missing, invalid or there. A crash of the process while a file is
written is not modelled. What a renderer writes to RDRAM
is not seen by the block cache, in the code or in the model.
