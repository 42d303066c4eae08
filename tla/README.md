# A TLA+ model of melonDS HD

melonDS HD is a Nintendo DS and DSi emulator in C++. Most of it is sequential
code that imitates hardware; what makes it hard to test is the scheduler that
holds the imitated hardware together in time, and the places where host threads
meet: the render thread, the save thread, the UI thread against the emulation
threads, the texture dumper's worker, and several emulator instances that talk to
each other. Besides those, the project models the three pieces of imitated hardware
whose bookkeeping is spread over many files: the geometry command queues, the cache
of compiled code and the video memory banks.

Paths below are relative to the root of the repository; source paths in
PROJECT.json are prefixed with `src/` once more.

## 1. The system

| Component | State | Operations | Met by | Hard behaviours |
|---|---|---|---|---|
| **System scheduler**, `src/NDS.cpp` | CPU and system timestamps, event list, sleep and wakeup bits | `RunFrame`, `RunSystem`, `ScheduleEvent`, `CancelEvent`, sleep loop | every device | order of CPUs and events, late events, sleep entered anywhere |
| **ARM9/ARM7**, `src/ARM*.cpp`, `CP15.cpp` | registers, caches, cycle counts | `Execute`, interrupts, halts | scheduler, JIT | instruction semantics, halting against interrupts |
| **JIT**, `src/ARMJIT*` | compiled blocks, code ranges, page protection | compile, look up, invalidate | CPU, memory | self-modifying code |
| **IRQ, IPC, timers, DMA**, `NDS.cpp`, `DMA.cpp`, `DSi_NDMA.cpp` | flags, FIFOs, counters | register writes, overflow, transfer units | both CPUs, devices | FIFO limits, transfers cut in the middle |
| **LCD and 2D**, `GPU.cpp`, `GPU2D*` | scanline, VRAM map, dirty bits | `StartFrame`, `StartScanline`, `StartHBlank`, `FinishFrame` | scheduler, 3D | VCount writes, power-down in mid-frame |
| **3D**, `GPU3D*.cpp` | command FIFO, polygon lists, render state | commands, VBlank, `RenderFrame`, `GetLine` | LCD, render thread | stall queue, render thread semaphores |
| **HD textures**, `GPU3D_Texcache*`, `src/video/hirez` | texture cache, dump queue, replacement cache | dump, replace, evict | 3D renderers, worker thread | stale textures, shutdown of the worker |
| **SPU, mic, audio output** | channels, output ring | mix, read output, audio sync | scheduler, SDL callback | rings shared with the callback |
| **RTC, SPI, cartridges, GBA slot** | chip state machines | serial commands | ARM7, scheduler | command sequences, save memory |
| **DSi devices** (AES, SD, camera, NDMA, DSP, NWifi) | FIFOs and transfers | register writes, events | DSi, scheduler | FIFO and DMA hand-over |
| **Save manager**, `frontend/qt_sdl/SaveManager.cpp` | two buffers, versions, timer | `RequestFlush`, `CheckFlush`, `FlushSecondaryBuffer`, `SetPath` | cartridges, save thread | debounce, failing writes, shutdown |
| **Emulation thread**, `frontend/qt_sdl/EmuThread.cpp` | status, pause stack, message queue | API calls, `handleMessages`, run loop | UI, other instances | synchronous calls over a semaphore, GL lending |
| **Local multiplayer**, `net/LocalMP.cpp` | two rings, semaphores | `Begin`, `Send*`, `Recv*` | Wifi of each instance | posts after unlock, late replies |
| **LAN, netplay, Wifi** | players, packets, MP phases | ENet events, MP exchange | LocalMP interface | disconnection, loss, timeouts |
| **Savestates, cheats, FAT images, GDB stub, UI, configuration** | files and dialogs | | | |

What each must guarantee, in short. Scheduler: no event is forgotten, fired a
whole period late, or left in the past; time is monotonic; a frame ends.
Renderer: the picture shown is the one that was asked for, and the thread can
always be stopped. Save manager: what the game saved reaches the disk.
Emulation thread: calls return, return their own result, and a pause pauses.
Local multiplayer: every frame is read once, whole and in order. Geometry queues:
three queues and a stall behave like one queue, and nobody waits for ever. JIT
cache: the code that runs is compiled from what memory holds, and no list points
to a deleted block. VRAM: banks are where the registers say, and what is drawn is
what they hold. Texture dumper: what counts as dumped gets dumped, and the worker
can be stopped.

Components that are left out, with the reason, are listed in PROJECT.json.

## 2. Modules

| Module | Models | Runs | Proofs |
|---|---|---|---|
| `NDSScheduler` (`MCNDSScheduler` for its constants) | frame loop, event list, sleep mode | `scheduler` | `NDSSchedulerProofs` |
| `SoftRenderer` | render thread of the software renderer, driven by the LCD | `render` | `SoftRendererProofs` |
| `SaveManager` | saves from chip to disk, with the save thread | `save_flush` | `SaveManagerProofs` |
| `EmuThread` | UI calls, messages, pauses, GL lending, exit | `emu_ui`, `emu_keys` | `EmuThreadProofs` |
| `LocalMP` | local multiplayer between instances | `local_mp` | `LocalMPProofs` |
| `GXQueue` | what the geometry queues promise: one queue, first in, first out | `gxfifo` (as `QueueSpec`) | `GXFIFOProofs` |
| `GXFIFO` (`MCGXFIFO`) | geometry commands from ARM9 and DMA to the engine; implements `GXQueue` | `gxfifo`, `gx_stall_queue` | `GXFIFOProofs` |
| `JITCache` (`MCJITCache`) | compiled blocks: registration, invalidation, restoring | `jit_cache`, `jit_remap` | `MemoryProofs` |
| `VRAM` (`MCVRAM`) | VRAM banks, dirty bits, flat copies | `vram` | `MemoryProofs` |
| `TexDump` | texture dumping: queue, worker, remembered files | `texdump` | `TexDumpProofs` |

### NDSScheduler

`pc` is the position in `RunFrame`: `StartFrame`, the iterations (`Iterate`,
ARM9 steps, ARM7 catching up, `RunSystem` visiting one event of its mask at a
time) and the sleep loop. What a CPU executes is abstracted to a step of up to
`MaxCost` cycles that may schedule, cancel or restart an event, raise an
interrupt, enter sleep mode, halt or stop. Handlers reschedule themselves
with a delay from `Periods` and may chain one-shot events; the RTC's delay carries its fraction
of a cycle in `TimerError`, as `RTC::ScheduleTimer` does; the LCD handler counts lines and
ends the frame. Timestamps of the ARM9 are in its own, faster, clock
(`ClockRatio`), as in the code. `MaxTime` bounds time for TLC only. `latest` is a history
variable, the latest system time there was.

`RunSystem` walks a copy of the mask and reschedules a periodic event from its due time, so an
event that is fired later than its period is overdue again as soon as it is handled. The display
FIFO comes round every 48 cycles, and a compiled block or a DMA unit may take longer, so the model
allows it: `Short` are the events whose period can be shorter than their lateness, `MaxLate` is how
late an event can be, and `LeftOver` says that an event was fired that late. The next iteration then
has its target in the past; the ARM9 does not run, and a halted one goes back in time to the
event (`ARM.cpp`, 612). The properties say how far this can go. `PeriodAssumption` says
only that the LCD, the SPU and the RTC, whose periods are hundreds of cycles, are not `Short`.

### SoftRenderer

The emulation thread goes through the lines of a frame (`main`, `line`,
`vcount`), the render thread through `RenderThreadFunc` (`thread`), and the
three semaphores and two flags are variables. Reading and taking the count in
`Semaphore_Reset` are two steps, as in `Platform.cpp`. Pictures are version
numbers: `buffer[l]` is the version line `l` was drawn from. `Ops` names the
calls that may cut into the plain loop: VCount writes, power-down (`SetEnabled`, which clears the
render state and does not wait for the thread), console resets, savestates, which bring their
`AbortFrame`, the threaded setting, renderer changes and wakeups, between frames or in the middle of one.

### SaveManager

`ChipWrite` changes the chip and calls `RequestFlush` with an offset and a length
that may run over the end of the chip; `CheckFlush` takes the snapshot; the save
thread polls, compares versions, takes the lock, opens the file and writes. A
file may fail to open, and a write whose result nobody looks at may leave it empty or cut short
(`Short`); `failed` remembers that the last write was one of these. Savestate loads and their undo replace the chip's contents
and, when the save file is relocated, the path. Contents are `N` bits, a write
inverts bits: distinct writes are told apart.

### EmuThread

A thread's remaining work is a sequence of primitive steps (`send`, `wait`,
`waitAll`, `read`, `broadcast`, ...), the ones the API function is made of. The
emulation thread handles the whole queue under the mutex, one message per step,
and releases a credit for each. Pauses are broadcast to other instances through
`EmuInstance::handleCommand`. `dialog`, `manual` and `inactive` are the reasons
the window has to pause; `checked` is the mark of the menu's pause item, which a click changes and
`windowEmuStart` and `windowEmuPause` set (those signals are taken as delivered when they are
emitted; the code queues them to the UI thread). `stray` is a history variable: the instances that
got a message whose sender does not take its credit (a hotkey, a power-off), takes as many as there are
(`waitAllMessages` after a frame step or an exit), or waits for the credits of an instance that the
UI thread may be waiting for (a broadcast by another instance's emulation thread).

### LocalMP

Rings are modelled cell by cell: a frame is a header cell and payload cells, and
wraps around. The write under the mutex and each semaphore post after it are
separate steps; so are taking a credit and reading under the mutex. Payload cells
carry the identity of their frame, so torn or misaligned reads show. Timestamps
are the number of the CMD frame an exchange belongs to: the comparison with
`timestamp - 32` distinguishes exactly replies to earlier CMDs. `Ops` allows
overtaking a slow receiver (`Overflow`) and rejoining (`Rejoin`). The code never checks
for room; without `Overflow` a sender waits (`Fits`) until what was written since the
slowest reader's place (`Written` less `Passed`, from the history `log`) and the new frame
are at most the ring.

### GXFIFO and GXQueue

`GXQueue` is the abstract specification: `Submit` appends an entry to a queue,
`Execute` takes the oldest, and `Lose` drops the new one if `Capacity` entries wait already, which is
what `FIFO::Write` does when the stall queue is full too. `GXFIFO` implements it with `queue` mapped to
`CmdPIPE \o CmdFIFO \o CmdStallQueue` (`Pending`), and `QueueSpec` is the refinement.
The steps of one turn of `RunFrame` are ordered by `pc`: the turn is stalled, runs a
DMA channel or the ARM9; a word goes through `Word`, `Unpack` and `CmdFIFOWrite`; then
`Run` lets the engine take entries (`CmdFIFORead`, `Drain`, `Drained`,
`ExecuteCommand`), and `System` is the vertical blank, which ends a pending swap of
the buffers. A game is the sequence of packed words `Program`, written by stores of up
to `MaxSTM` words, by DMA or by both in turn; a command is abstracted to the cycles it
takes. A DMA channel starts at once or when the FIFO asks for words, moves at most `Burst` words at a time,
may repeat, and may be disabled between bursts; enabled again it goes on with what was left of
its old count (`DMA::Start`, 160). The end of a repeating transfer does not look at the FIFO level, so
the next one starts when the level falls below half the next time. The engine's own pipelines (`FinishWork`) may keep bit 27 set or not.

### JITCache

A unit stands for 16 bytes, a range for 512; a setting of `WRAMCnt` gives each CPU its
mirrors of the shared WRAM. `cache` is the state of `ARMJIT`: the two maps, the restore
candidates, the lists of the ranges, their code bits, the lookup table and the invalid
literals. The operations on it are operators from cache to cache, in the code's order:
`CompileBlock` retires a block whose address was remapped, fetches (`FetchBlock`), lets a store
of the block itself happen that is interpreted while it is being compiled (`StoreInBlock`),
looks for a candidate (`MayRestore`, `TakeCandidate`) or compiles (`NewBlock`, after
`ResetBlockCache` if the code buffer is full), and enters the block (`Register`).
`InvalidateByAddr` is a recursive function over the turns of its loop, in the order in which
`TinyVector::Remove` yields the blocks (`RemovalOrder`). Hashes are what is hashed, so collisions
are left out. Deleted blocks stay distinguishable from live ones as long as somebody points to
them (`Tidy`). Two history variables: `dirty` has the blocks that overwrote themselves while they
were compiled, and `moved` is set when a block is compiled again at another unit, or restored
where it does not belong (`Misfit`); after that the cache is beyond repair, and the invariants say
nothing.

### VRAM

Memory is counted in units of 8 KB, the smallest piece that is mapped, with one bit of
contents each, so memories are sets and ORing them is union. `Place_AB` to `Place_I` are
the switches that map the nine banks, `Unmap_AB` to `Unmap_I` the ones that unmap them, both complete; each
sets the pointers of the slots it changes (`Repointed`). A savestate brings masks and `VRAMSTAT` of its
own, the ones the program had when it was written (`SavesAssumption`). `Synced` is `DeriveState` followed by
`MakeVRAMFlat_*`; a drawn line synchronises the six 2D regions and the two sprite
regions in the code's order, a frame the two texture regions. The display capture and
both CPUs store. `Uses` says which values a game writes to each `VRAMCNT`.

### TexDump

The emulation thread puts a job together in three critical sections, pushes it and
notifies; `Init` begins with `Shutdown`. The worker tests its condition while it holds
`Qmtx` and then waits: the two are separate steps because `Shutdown` clears `GRunning`
and notifies without the mutex. A file is one of texture, palette description and
index map; writing it may fail and leave none, or one that is cut short and exists from then on. `lost` and `missed` are history variables that name the ways a file is given
up and the wakeup that is lost.

## 3. Runs

| Run | Bounds | Shows |
|---|---|---|
| `scheduler` | five events, DS clock ratio, steps of up to 5 ARM9 cycles, a display FIFO of 1 system cycle, an RTC of 3½, 7 system cycles | an event is left behind only if it was fired a period late, lateness and the way back in time are bounded, the CPUs stay in step, the RTC keeps time, through frames, sleep and wakeup |
| `render` | 2 visible lines of 5, 2 pictures, two outside calls of any kind | lines shown are current and the render state is protected in frames no call cut into, frames complete, the thread and its flag agree, `StopRenderThread` returns |
| `save_flush` | 2 bytes, 4 commands, commands of up to 3 bytes | the buffer mirrors the chip, flushed is on disk, closing leaves nothing behind, the last snapshot gets written and stays |
| `emu_ui` | 2 instances, 4 calls | synchronous calls, pauses, GL lending |
| `emu_keys` | 1 instance, 3 calls, hotkeys, focus | every UI call returns, also among stray credits |
| `local_mp` | host and client, rings of 8 cells, 3 frames of 2 or 3 cells | frames are read once, whole, in order; replies are current; nothing is left unread |
| `gxfifo` | FIFO of 4, stall queue of 2, 4 packed words, bursts of 2, slices of 2, frames of 3 | `GXFIFO` implements `GXQueue`; words are unpacked to their entries; queues fill from the front; GXSTAT is true; stalls end; interrupts and DMA requests are served |
| `gx_stall_queue` (violation) | the same with a fifth word, frames of 4 and a stall queue of 4, room for one store | entries are dropped, see findings |
| `jit_cache` | 2 CPUs that enter blocks at the same address, 2 units in 2 ranges, 2 settings of `WRAMCnt`, 2 contents, blocks of 1 or 2 units for the ARM9 and of 1 for the ARM7, 2 blocks at a time | nothing dangles, stores find their blocks, dispatched blocks are current |
| `jit_remap` (violation) | the same, also after a block has moved | a deleted block stays listed, see findings |
| `texdump` | 3 textures, one of them with a palette, budget of 2, queue of 1 | remembered files are accounted for and arrive, `Shutdown` returns |
| `vram` | banks C, D and I with their placements, overlaid or moved, one unit touched, one savestate | banks are in place, unmarked flat copies are current |

Why the bounds are enough. Seven system cycles cover two iterations with every
order of the five events around a frame and a sleep, since periods are 1 to 4
cycles, and a step of 5 ARM9 cycles leaves the display FIFO overdue by more than a period;
the theorems lift the result to all constants. Two lines let the render
thread be behind, level with and finished before the display. Writes of three bytes
to a two-byte chip wrap, and wrap more than once. Four calls are two dialogs nested
or a command between two pauses. Three frames of two or three cells in a ring of eight
put two unread frames in the ring, split the third over its end or end exactly there; a
stale reply needs two CMDs and a reply. The entries of four words fill PIPE, FIFO and stall queue
and overflow it, after a swap that keeps the engine from taking any. Two blocks over
two ranges are one block in both lists beside another in one of them. A queue of one with
a budget of two overflows both while a third texture arrives. In `vram` the placements are
the ones that interact: a bank the ARM7 fills, overlaid with another that comes and goes,
and one that changes slots of a region drawn only once a frame; banks that differ only in
size or place behave alike.

`jit_cache` has the constraint `Bounded`: it stops where a block has moved, since what
follows is the state `jit_remap` is about, where two blocks have overwritten themselves
while they were compiled, and where both CPUs have lost their literal. The invariants exempt the
first two themselves, and the theorems do without all three.

Deadlock is checked except in `emu_ui`, `render` and `local_mp`. In the first the
system stops when all threads have exited or a `returnGL` wakeup was lost; in the others
it may stop in the hang described in section 4, or when calls and frames are used up and
everybody has left. In `gxfifo`, `texdump`, `jit_cache` and `vram` no state is final.

**Fairness** is weak fairness of each thread: a host thread that can take a step
takes one. In `SaveManager` the clock ticks and the emulation thread comes back
to `CheckFlush` (it does after every frame); chip writes and commands are not
fair. In `EmuThread` the UI thread finishes the call it is in, and no user action
is assumed. In `LocalMP` each thread finishes its call, and polls `RecvPacket`
again and again (strong fairness: `Wifi::CheckRX` is called from a timer whatever
else the emulation does). The render properties assume no fairness of outside calls.
In `GXFIFO` everything runs on one thread, which takes its next step (`WF_vars(Next)`);
what the game does is not fair, so the liveness properties hold for games that never
read GXSTAT or write again, and they are conditional on the geometry engine being on. In
`TexDump` both threads run, and the emulation thread gets a mutex that is free again and
again (strong fairness of `Push`); nothing makes the game show a texture, and a spurious
wakeup is never relied on.

## 4. Findings

Confirmed by the violation runs, with the source lines in PROJECT.json:

1. A full geometry FIFO stalls DMA but not the ARM9 that filled it: `GXFIFOStall` tests
   `CurCPU == 1` while the ARM9 runs with `CurCPU = 0`. The ARM9 goes on to the end of its
   slice and the stall queue drops entries (`gx_stall_queue`).
2. `CompileBlock` retires a block whose address was remapped without taking it out of the
   lists of its ranges; it is deleted later while they still point to it (`jit_remap`).

Seen while modelling, without a run of their own:

- `NDSScheduler`: `RunFrame` skips `StartFrame` after every wakeup (`NDS.cpp`, 971). If
  sleep mode was entered by the iteration that finished the frame, or an ARM7 interrupt
  arrived in the iteration that entered it, no LCD event is left and the loop of 977 never
  ends, though the frame count "needs to be tracked" (1062).
- `NDSScheduler`: an event that is fired a whole period late is overdue again at once. A halted
  ARM9 then goes back to its time (`ARM.cpp`, 612), so system time runs backwards, and `RunTimers`
  adds a negative number of cycles. In the code only the display FIFO is that short.
- `NDSScheduler`: sleep mode mixes no audio (`RunSystemSleep` pushes `Event_SPU` back, 910)
  although "we also keep outputting audio" (941).
- `SoftRenderer`: `SetupRenderThread` may wait for a `Sema_RenderDone` that `VCount144`
  already took, since `RenderThreadRendering` is cleared after the post (`GPU3D_Soft.cpp`,
  66 and 1800). `FramesComplete` is therefore stated for runs without outside calls.
- `SaveManager`: a file that cannot be opened, or that a full disk cuts short, counts as flushed and
  is not tried again (`SaveManager.cpp`, 183-190). A game that saves every two seconds without end
  gets no snapshot written before it is closed.
- `SaveManager`: a save in `Buffer` that no frame has snapshot yet, such as one restored by
  a savestate while paused, is lost on closing (`SaveManager.cpp`, 59; `SaveManager.h`, 65,
  says versions are kept for that case).
- `EmuThread`: a hotkey's message leaves a credit behind; the next UI call takes it, returns
  before its own message is handled and reads an older result (`EmuThread.cpp`, 163 and 665).
  `ResultIsOwn` holds for an instance up to the first such message (`stray`).
- `JITCache`: `MapSharedWRAM` does not reset `FastBlockLookupSize`, so a CPU that stays in the
  region looks up the table of the memory it had; if `CompileBlock` then finds the block to
  "switch", it writes an entry the stale table never shows and the CPU makes no progress.
  The inner `mask` of `InvalidateByAddr` (951) hides the outer one, so a store takes out all
  blocks of its 512 bytes. Code that a block overwrites while it is being compiled stays stale.
  `CompileBlock` compares start, ranges and hashes with a restore candidate (855-866) but not the
  CPU: a block of the ARM9 is restored for the ARM7 once the same memory is mapped at the same
  address there, with machine code made for the ARM9, and `InvalidateByAddr` (1015) then erases it
  from the map of the ARM9. The model lets it happen and sets `moved`.
- `TexDump`: the lost wakeup of `Shutdown` (269-271) leaves it in `join` for ever; `JoinReturns`
  exempts exactly that schedule. A job that is dropped at a full queue, or whose write or index
  generator fails, is remembered as dumped for the session; a file that is cut short exists, and is
  not dumped again in later sessions either (404). `enableDump` stays set after
  `Shutdown`, and jobs are then queued for nobody. The state is static: instances share it.
- `VRAM`: one set of dirty bits per bank serves all regions and the first to derive its state
  clears it. A bank moved from a texture slot to a background, written, drawn, and moved back
  before the next `RenderFrame` leaves the texture stale; `FlatIsCurrent` is therefore stated
  for banks used for one kind of graphics, and TLC finds the schedule without that premise.
  `ReadVRAM_AOBJExtPal` tests the bits of E and F to read F and G (`GPU.h`, 667), so two banks
  overlaid there are not ORed as the comment at `GPU.cpp`, 526, says. `MapVRAM_CD` clears
  `VRAMSTAT` before it returns for an unchanged value (619), so writing the same value again hides
  a bank the ARM7 still has.
- `SoftRenderer`: three properties are stated for the time before the first call from outside
  the frame loop (`calls = 0`), and TLC violates each without that premise. After a restarted frame,
  credits of the interrupted one let the display run ahead of the lines drawn
  (`LinesAreCurrent`; comment at `GPU3D_Soft.cpp`, 1809). `SetEnabled` clears the render state
  (`ResetRenderingState`, `GPU3D.cpp`, 169) while the thread may be drawing from it. After a write of `VCOUNT`, skipping
  line 192 skips the wait before the state is rewritten (`RenderStateProtected`; comment at
  1796). After `SetRenderer3D`, `FrameIdentical` is not initialised (`IdenticalIsDrawn`;
  `GPU3D_Soft.h`, 486).
- `Semaphore_Reset` reads the count and then acquires that many; a credit taken in
  between blocks it.
- `EmuThread`: two instances whose hotkeys broadcast a pause wait for each other; a
  reset or frame step queued behind an exit revives the thread, whose instance then waits for it
  for ever; losing the focus while a dialog is open pushes no pause, but getting it back takes one, the
  dialog's (`Window.cpp`, 1102; `PauseHolds` fails with `Focus` among the `Ops`); a pause, a stop and an
  unpause leave the status running with nothing active; `waitAllMessages` leaves
  credits behind; `returnGL` before the wait loses its wakeup; the RAM search
  dialog's thread is another caller that takes credits.
- `LocalMP`: a reply written before the host's next `SendCmd` and posted after it is
  a credit too many: `RecvReplies` reads past the write offset, reports "REPLY FIFO
  OVERFLOW" and, with two clients, drops the replies it holds. `Ops = {"Rejoin"}` gives a
  rejoining reader a credit too many in the same way; `Ops = {"Overflow"}` violates `FramesIntact`
  (the TODO at line 164).

## 5. Proofs

All proofs are for every value of the constants that satisfies the named
assumptions, without TLC's bounds.

**NDSSchedulerProofs.** `IInv` (in `NDSScheduler`) is inductive. `EventsInFuture`
speaks of the points between iterations only; `ARM9TurnInv`, `ARM7TurnInv` and
`SystemInv` say what is true in between: that the ARM9's target never lies beyond a
scheduled event, how far each CPU can be past it, that no event will be later than `MaxLate`
when the ARM9's time becomes the system's (`LateAt`), and that events already visited
are in the future or `LeftOver`. Short events are the hard case: an iteration that begins with one
overdue has its target in the past (`BehindTime`), and lateness does not add up because the ARM9
does not run in such an iteration at all. `NearInv` says that neither the system nor a short event is ever
further behind the latest time than one lateness, which is `BackIsBounded`.
`LCDInv` is needed because `StartFrame` schedules from the last
LCD event's time, which must be recent. Each action has a lemma; `Invariance`
combines them, and the theorems `TypeCorrect`, `NoEventLeftBehind`,
`BoundedLateness`, `CPUsStayInStep`, `ARM9Stops`, `BackBounded` and `Monotonicity` follow, for
periods of any length but those of the LCD, the SPU and the RTC. `ClockKeepsTime`
needs `RTCInv` besides: within an iteration the tick may be overdue, but it is scheduled, at a
whole number of ticks with the fraction of `TimerError`, and at most a period ahead.

**SoftRendererProofs.** For every number of lines and every `Ops`. `ThreadFlagIsTrue` holds
through every outside call: its invariant `FlagInv` adds that a thread `StopRenderThread` waits
for has been told to stop. The others are for the behaviour up to
the first call from outside the frame loop (`calls = 0`; afterwards the invariants fail, see
above): `CreditsAddUp` is `Spec => [](calls = 0 => TypeOK /\ FrameCredits)`, the credits of
`Sema_ScanlineCount` plus the lines fetched are the lines drawn, from which
`LinesShownAreCurrent`, `IdenticalFramesAreDrawn` and `RenderStateIsProtected` follow.

**SaveManagerProofs.** For every chip size and command length: `CopiedCovers` shows
that the two clamped pieces of `RequestFlush` cover every byte a command changes;
`SnapshotCount`, `LockState` and `Shutdown` tie the versions to the lock and to the
progress of the destructor, and `SnapshotIsBuffer` the last snapshot to the buffer;
`BufferMirrors`, `FlushedMeansOnDisk` and `ClosingFlushes` follow.

**EmuThreadProofs.** For any number of instances and calls. `TypeCorrect` holds for all `Ops`;
the others say on which calls they depend, and the dependence is real:

- `PausedHasAPause` (invariant `Stacks`: status, previous status and pause stack of each emulator
  in step) assumes no frame stepping, which ends in `Paused` whatever the stack is.
- `ResultsAreOwn` is for all `Ops`. Its invariant (`CreditsInvariance`) follows the UI thread's
  program at one instance that is not in `stray`: each message that was sent there is on the queue, being
  handled, or handled with its credit given, and these are what the call still waits for. The property is
  not inductive without it: which message a credit is for is nowhere in the state. It says nothing of an
  instance once a hotkey, a power-off, a frame step, an exit or another instance's broadcast has
  been there, and cannot (section 4).
- `ContextIsExclusive` assumes that the UI thread is the only caller (`UIOnly`). Its invariant
  `Protocol` adds that the UI thread is busy with one instance at most, and that everybody else is at rest
  with no credit left.
- `DialogsStopEveryone` adds `Stopping`, that the instances `emuPause` has been through stand
  still, and assumes that the window does not follow the focus, which unpauses behind a dialog.

**LocalMPProofs.** `FramesAreWhole` and `FramesComeInOrder` are for any finite number of instances
and hosts, any ring and any frames that fit into it, with `Ops = {}`: both fail with `Overflow`
or `Rejoin` (section 4). The invariant `Delivery` has three parts. `Chained`: frames are written
one behind the other. `Placed`: from a reader's offset on, the ring holds the frames it has not
come to, cell by cell modulo the ring's size, up to the write offset. `Counted`: its credits given,
taken and still to be posted are at most those frames; that makes up for the posts coming after the
mutex is released, in any order. So who holds a credit is at the header of its next frame
(`AtFirstUnread`). The lemmas `MovedMoved` and `MovedOnce` are what wrapping around comes to.
`RepliesAreToTheLastCommand` holds for all `Ops` but for one host: `Exchanges` says that nobody
answers a later CMD than the host's last. With two hosts the comparison of timestamps is not enough,
since one takes a reply to the other's later CMD.

**GXFIFOProofs.** For every program, size and length of bursts and slices. `IInv` is `TypeOK`,
`Control` (where `RunFrame` returns to), `Backed`, `Counted` and `BusyBits`; the last three extend
the properties to the steps in which the engine holds an entry that is in no queue. `QueuesAreBacked`
and `StatusIsTrue` follow. `QueuesAreOneQueue` is the refinement of `GXQueue`, for every size of the two
queues: by `Backed` an entry goes to the stall queue only behind a full FIFO and a PIPE that need not be
refilled, so when the stall queue is full too `Capacity` entries wait, and dropping the new one is a step
of the abstract queue; nothing else is lost, doubled or overtaken. Whether a game can get that far is
not for this theorem but for `gx_stall_queue`.
`WordsAreUnpacked` is for every program, however it is cut. Its invariant `Parsed` says that the entries
issued so far followed by those that the commands and parameters still in `CurCommand` and `ParamCount`
stand for (`RestOf`) are the stream of the words taken. What `FlattenSeq` computes is not to be
had from its definition alone, as it is recursive: `FlattensExists` and `FlattensUnique` show by
`SetInduction` that the recursion has one solution for every length, and `FlattenSeqAppend` that one more word
appends its entries.

**TexDumpProofs.** For all textures, palettes, budgets and queue lengths: `RememberedFilesAreAccounted`.
`SeenKinds` is needed because trimming one memory must not give up a file that another remembers, and
`JobsOwnFiles` because a job must not claim a file whose stage the worker has passed.

**MemoryProofs.** What is derived from memory agrees with it; the module has the proofs for `VRAM` and for
`JITCache`.

`VRAM`, for every use of the banks and all savestates. `BanksStayInPlace`: the invariant is
inductive once `VRAMCNT` is known to be a function on the banks; the argument is that the triples
of different banks are disjoint, so unmapping one bank from where its old value had it takes no
other bank out of a slot they share (`MovedIsPlaced`), that the two switches of each bank agree
(`UnmapsWhatIsMapped`), and that a pointer is made anew wherever a mask changes (`RepointedIsUnique`). `FlatCopiesAreCurrent` adds `Tracks`: a
region was last derived from banks the game uses for it, and, since the ARM7's stores set no dirty
bits, a bank it has is dirty all over or no region has seen it.

`JITCache`, for all sets of CPUs, units, ranges, settings, addresses and lengths of blocks that
satisfy `JITAssumption`, which only types them. `NothingEverDangles`, `StoresFindBlocks` and
`DispatchedIsCurrent` follow from `JITInv`, which says of the time before `moved` that

- `CacheInv`: a map has a block only under its own CPU and start address and only while it lives
  (`MapsInv`); a mapped block is known to all its ranges (`SeenInv`), and no other block is listed
  anywhere, or twice (`ListInv`); lookup entries are for mapped blocks, at their first unit
  (`FastInv`); candidates live, are not mapped, and are filed under their own instructions (`CandInv`).
  None of the three properties is inductive alone: that deleting a candidate leaves no pointer
  behind needs that it is in no list, and that needs what is listed to be mapped.
- `Fresh`: mapped blocks agree with memory, and in all blocks, retired ones too, the embedded
  literals are the hashed ones, which is why comparing hashes is enough in `MayRestore`. That in turn
  holds because a literal written by the block that is being compiled is not embedded, unless the code
  buffer was full and `ResetBlockCache` forgot it: those blocks are `dirty`.

In the loop of `InvalidateByAddr` `CacheInv` does not hold: the code bits of the range are gone and
its blocks are still mapped. `LoopInv` says which (`P`, the blocks that have not had their turn), and
`InvalidateBlockStep` that a turn takes one out of `P` and disturbs no other range; `TurnsKeep` is
the induction over the turns. Every operation of the cache has a lemma (`CheckAndInvalidateKeeps`,
`ResetBlockCacheKeeps`, `TakeCandidateKeeps`, `RegisterKeeps`, `RestoreKeeps`, `NewBlockKeeps`), and
`CompileBlockKeeps` puts them together in the order of the code.

**Only model-checked.** All liveness properties (fairness is beyond the prover): `FramesComplete`,
`StopReturns`, `SnapshotsGetWritten`, `CallsReturn`, `FramesArrive`, `StallEnds`, `RequestsServed`,
`DumpsArrive`, `JoinReturns`. Every invariant and every action property that a passing run checks is a
theorem. The library's induction theorems take a predicate as a parameter, which the provers cannot
instantiate; where an induction over data is needed (`GXFIFOProofs`, `MemoryProofs`) it is over a set of
natural numbers, by the least element of its complement (`SetInduction`).

## 6. Plan

Modelled so far: the modules of section 2. What is left, in the order of its worth:

1. Proofs. For `LocalMP`, what survives of `Delivery` when an instance rejoins between an unlock
   and its post: at most one credit too many for each sender under way. For `JITCache`, what is left
   of `CacheInv` once a block has moved.
2. `IPC`: interrupts, halting and the two IPC FIFOs, on the scheduler's clock.
3. `LAN` and the Wifi exchange, on an abstract medium that `LocalMP` implements. A peer slot's
   data pointer is not cleared on disconnection (`LAN.cpp`, 573).
4. The save chips' command machines, DMA and NDMA (only the geometry DMA's stall is modelled, in
   `GXFIFO`), timers, the SPU's output ring and audio sync, savestate sections, the RTC calendar
   and cheat codes as algorithms.

Not planned, since they are numeric or plain I/O and have no control a model would add to:
instruction semantics, code generators, pixel pipelines and mixing, OpenGL calls, file formats,
dialogs and vendored libraries.
