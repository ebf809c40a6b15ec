# STM32F411-Scheduler: models, checks and proofs

The repository is the firmware of an STM32F411 board: a preemptive round-robin
scheduler, a first-fit heap, UART or USB serial input and output, a W25Q64
flash with LittleFS on it, an SH1106 display, a formatter and fixed-point
mathematics. This directory holds TLA+ models of it, TLC configurations that
check them on small instances, and theorems proved with TLAPS.

Run `tlc -config X.cfg M` for a row of the table of runs below, and `tlapm` on the
modules whose name ends in `Proofs` for the proofs.
`PROJECT.json` maps every definition that models code to its lines, and lists the runs, the mutations that show each property can fail, the
findings, the hazards and the theorems.

## Inventory

| component | state | operations | who else touches it |
|---|---|---|---|
| Scheduler (`src/scheduler.cpp`, `src/asm/scheduler.s`) | `cur`, the ring of TCBs (`sp`, `next`, `prev`), PSP, PENDSVSET | `createTask`, `taskExit`, `yield`, `start`, `pend_sv_handler` | the tick (`sys_tick_handler` yields), the heap (a TCB with its stack is one block), every waiting loop (`UART::send`, `recv`, `delayMs` yield) |
| Heap (`src/memorymanager.cpp`) | a doubly linked list of `Arena` headers in address order | `init`, `malloc`, `calloc`, `free`, `realloc`, `copyToCirc`, `copyFromCirc` | every task; only `malloc` masks interrupts |
| System tick (`src/systick.cpp`, `src/asm/systick.s`) | `ms`, 64 bits in two words; the DWT cycle counter | `sys_tick_handler`, `delayMs`, `delayUs`, `delayCyc` | every task reads `ms` unmasked |
| Ring buffers (`include/types.hpp`, `circBuffer`) | `buf`, `head`, `tail` | `append`, `pop`, `copyIn`, `copyOut`, `full`, `empty` | one interrupt handler and any number of tasks |
| UART (`src/uart.cpp`) | `rx`, `tx`, `echo`, TXEIE | `send`, `recv`, `usart2_isr` | `printf`, `_write`; the handler appends echoes to `tx` |
| USB serial (`src/usb.cpp`) | `rx`, the endpoint, `echo` | control and data callbacks, `send`, `recv` | the same callers when built with COMM=2 |
| Flash and file system (`src/spi.cpp`, `src/filesystem.cpp`) | the SPI bus and its chip selects, the flash's busy bit, LittleFS | read, program, erase, sync; mount, format, init | the display shares nothing but the tick |
| Display (`src/sh1106.cpp`) | a frame buffer, the bit-banged I2C pins | drawing, clipping, `update` | one task |
| Formatter (`src/printf.cpp`) | a heap buffer sized by a first pass | `printf`, `sprintf` | heap, UART |
| Data types (`include/types.hpp`) | `Vector`, `Array`, `i16f16_t` | growth, fixed-point arithmetic | heap |
| Mathematics (`src/trig.cpp`, `include/trig.hpp`, `src/math3d.cpp`) | none | sine table and range reduction, rotation, projection | display task |
| Standard I/O (`src/sysio.cpp`), SVC (`src/syscall.cpp`, `src/asm/exceptions.s`) | none | `_read`, `_write`, `readline`, `sv_call_handler` | newlib |
| `src/main.cpp` | the boot order | initialises everything, creates three tasks, starts the scheduler | everything |
| LittleFS (`lib/littlefs`), configured and called by `src/filesystem.cpp` | on the flash: metadata pairs, file blocks, the global state; in memory: caches, the lookahead window, the list of open handles | files, directories, rename, mount, commit, compaction, relocation, allocation | the driver below it; one task at a time |
| Font, USB descriptors | data | | |

What is hard: nothing but `malloc`, the display's page write and `spi_transfer`
masks interrupts, and a switch may come at any instruction of a task. The ring
of TCBs, the arena list, `tx` and `ms` are all shared between tasks, or between
a task and a handler, with no lock. `PROJECT.json` lists the hazards at their
lines.

What makes each component correct:

* Scheduler: the ring is one cycle through exactly the tasks created and not
  yet returned, at every instant a switch can come; a switch saves and restores
  each task's own context; every task on the ring runs again.
* Heap: blocks given out are disjoint and inside the heap, the arena list is in
  address order with `next` and `prev` inverse, under any interleaving.
* Serial: bytes come out in the order they went in, each once, none stuck.
* Tick: a delay never ends early, and ends.
* Flash: a transaction on the bus is not broken up by another; a program or
  erase starts only when the chip is idle.
* Formatter: the second pass writes at most what the first pass reserved.
* Drawing and mathematics: figures are the pixels asked for; the turning body
  stays what it is, however often its coordinates have been rounded.
* LittleFS: at every instant a mount finds each operation done or not begun;
  nothing that was synced is lost, and no block in use is handed out.

## Plan

Done, in this order:

1. `Scheduler`, its abstract specification `RoundRobin`, the refinement
   `SchedulerRoundRobin` and the proofs `SchedulerProofs`.
2. `MemoryManager`: the arena list word by word; abstractly (`Heap`) a set of
   disjoint blocks; with `MemoryManagerProofs`.
3. `Start`: `main` and `Scheduler::start` before the first switch, with
   its part of `BoardProofs`.
4. `CircBuffer` and `Uart`: handler and tasks on `rx` and `tx`, with
   `CircBufferProofs` and `UartProofs`.
5. `Clock`: the two-word millisecond counter and the delays, proved in
   `BoardProofs`.
6. `Flash`: bus transactions, the busy bit, the mount, resets and power
   failures; abstractly (`BlockDevice`) the device LittleFS assumes; proved
   in `BoardProofs`.
7. `Usb`, on the same buffers, with `UsbProofs`; `Sh1106`, `Frame`, `Render`,
   `FixedPoint`, `Printf`, `Vector`, of which `LibrariesProofs` proves the panel,
   the formatter and the vectors.
8. LittleFS: `LfsCache`, `LfsCtz`, `LfsFile`, `LfsCommit`, `LfsDir`, `LfsTree`,
   with `LfsProofs` on commits and caches.

Left:

* theorems on `LfsDir` and `LfsTree`, whose recursive operators would have to
  become recursive functions or steps first, as those of `LfsCache` have;
* the composition of `Scheduler` and `MemoryManager`, where the TCB of a task
  that returned is a block of the heap;
* what is listed under "Not modelled".

## The modules

### Scheduler

One step is one access to memory other tasks can reach. `cur`, `next`, `prev`
and `sp` are the code's; a TCB with its stack is a heap slot of the constant
`TCBs`, and a context is named by the slot whose task it belongs to. `running`
is the task whose registers the CPU holds, which the code can only name through
`cur`; `pc` and `reg` are its position in `createTask` or `taskExit` and the
pointers it has loaded. The actions correspond to the code as follows:

| action | code |
|---|---|
| `SysTickHandler`, `Yield` | setting PENDSVSET |
| `PendSvHandler` | the whole handler, which masks interrupts: `cur` moves on, the old context is saved unless its `sp` is null, the new one is restored; restoring from null is a hard fault |
| `CreateTask`, `LoadNext`, `LinkPrev`, `LinkNext` | `createTask` up to the last private store, the load of `cur->next` of line 45, its store, and line 46 |
| `CreateTaskNoMemory` | `malloc` returned null and is not checked |
| `TaskExit`, `UnlinkNext`, `UnlinkPrev`, `ClearSp`, `Free` | `taskExit` line by line; it ends in its endless loop of `yield` |
| `HardFaultHandler` | the blinking loop |

The initial state is the ring `main`'s calls of `createTask` build, with the
first task running. `raced` is a history variable: it becomes true when a
switch leaves a task that is inside `taskExit`, or when a task takes itself off
the ring while a preempted `createTask` has already read it as its successor.
Both can happen on the device, and `scheduler_restore` shows what follows; the
other properties say what holds until then, and `OwnContext` is proved
regardless.

`RoundRobin` is the promise: a queue of ready tasks. `SchedulerRoundRobin` maps
the ring to it by reading `next` from `cur` (`ReadFrom`) until the walk meets
`cur` or a TCB it has seen, which takes at most as many steps as the heap has
slots.

The inductive invariant of `SchedulerProofs` describes the links at each control
point: the new TCB of a task inside `createTask` already points at both
neighbours, its successor points back at it from `linkNext` on, and no two
creators hold one TCB; a task inside `taskExit` is the running one and its
registers agree with its links; and on the ring no proper part is closed under
`next`. The last conjunct is what makes the exit of the last task
recognisable: without it, a TCB that is its own successor could be a second
ring. The initial ring is shown to be one cycle with the least-number
principle, from well-foundedness of the naturals.

### Start

What `Scheduler` starts from, one level lower: `psp` and every `sp` are the
stack they point into and the number of words in use, so that the arithmetic of
`pend_sv_handler` and the pops of `start` count. `CreateTask` is one call of
`createTask` from `main`; `StartLoadPsp`, `StartControl` and `StartPop` are
`start` up to `MSR psp`, up to the `ISB`, and the pops; `PendSvNoTask` is the
handler's exit for `cur == nullptr`. `Run` is external: a task's own calls.
`struck` becomes true when a switch comes while `cur` is set and the processor
still runs on MSP. Until then `OwnStack` holds; `start_first` shows that the
code does not keep such a switch out.

The proof's invariant says of each place in `main` what the processor and the
created tasks' contexts look like, and that the ring leads only to created
tasks, without which the handler could load the context of none.

### MemoryManager

`mem` maps an address to the word stored there and the actions load and store
words, so a header written over another destroys it. `blk` is what the clients
hold. Payloads are left out: the manager copies and fills them but never looks.
`malloc` masks interrupts: `masked` keeps the others from running while a client
walks the list, one step per arena (`MallocBegin`, `Scan`, `Insert`,
`OutOfMemory`; `MallocFirst` is the case of an unallocated first arena).
`free` and `realloc` do not mask: `FreeBegin` is the call, `FreeLoad` the loads
of lines 74 to 76, `FreeUnlinkNext` and `FreeUnlinkPrev` the stores of lines 75
and 77 with the loads before the next store, `FreeClear` the stores into the
arena itself. `ReallocShrink` and `ReallocCheck` with `ReallocGrow` are the in
place cases; otherwise `realloc` goes on as `malloc` and then as `free`.

`spoilt` records what the list does not survive: a client using it while another
is between a load and the last store of `free` or between check and store of a
growing `realloc`; a header put where there is only room for the payload; the
first block freed before the others. The first two
are shown by violation runs; the third loses the rest of the list, as the code
clears the next of an arena that stays the head. Until then `HeapSound` holds,
which is `BlocksDisjoint` and `ListIntact`, and every change of the set of blocks
is a step of `Heap` (`ImplementsHeap`). `FirstFit` is about a step of `malloc`.

A word is addressed by its first byte, and overlapping words are not modelled:
headers overlap only when `spoilt` holds already, and the runs that go on from
there use sizes that are multiples of four. Sizes of zero are left out.

### CircBuffer and Uart

`CircBuffer` holds what the class computes from `head`, `tail` and the cells.
`Uart` takes the steps: `Usart2Isr` is the whole handler, because no task runs
while it does, and in its order: the received byte with its echo, then, if TXE
is set, a byte to send or the disabling of the interrupt. A task's step is one
access that the handler or another task can disturb: in `send` the tests `full`
(`TxNotFull`) and `empty` (`TxEmpty`), the loads of `freeSpace` (`LoadTxTail`,
`TxSpace`), the copy (`CopyIn`), the load and the store of `head`
(`LoadTxHead`, `StoreTxHead`), and `Enable`; in `recv` likewise. `full` and
`empty` also load two words, but what they answer is the answer at one of the
instants between, or keeps a task waiting one more round. The copy is one step:
a second producer between two of its bytes leaves what one before or after it
leaves in the cells both write. `kept`, `got`, `wire` and `put` are histories
the properties speak of. `missed` records that the handler disabled the
transmit interrupt between a sender's `empty` and its store of `head`.

`echo` is a variable, as the program may set it before it uses the port.
`SentOnce` is the promise of `send`: it holds for one sender without echo. The
code does not keep it with echo on, when the handler may append to `tx` between
a sender's accesses, nor for two senders, as `send` has no lock; the model has
both behaviours, and no run claims anything of them. `Drains` holds until `missed`;
`uart_stall` shows that the bytes then stay.

### Clock

`ms` is the pair of words of the counter and `ticks` the time that really passed.
`SysTickCount` is the handler's addition with carry, a single step as it runs with
interrupts disabled. A task in `delayMs` loads one word, then the other, in
either order, since the compiler may choose (`LoadWord`; `LoadStart` and `Test`
load the second and use the pair). `torn` remembers that a carry fell between
the two loads. `NotEarly` is about the delays that were spared one: they last
their milliseconds. `DelayEnds` is about all of them, since a torn start lies at
most a word's range ahead. `Word` is the number of values of a word: four make
a carry, rare on the device, come often.

### Flash and BlockDevice

A transaction is what happens between `cs_low` and `cs_high`, and the chip acts
when `cs` rises: `Execute` gives what a command does to the busy bit `busy`, the
write enable latch `wel` and `cells`. A command that reaches a busy chip is lost,
except the status read. `Driver` is the next transaction of `prog` or `erase`:
write enable, the command, and status reads until the chip is idle (`ChipDone`
is the chip finishing). `Jedec`, `Mount` and `Formatted` are `main`'s way to a
mounted file system: the identification, which a busy chip does not answer, the
first mount, and, when that fails for any reason, format and second mount.
`FileWrite` is external: LittleFS asks for the erase of a block and a program
of some of its pages. A program is of one to all pages of a block, as
LittleFS hands the driver up to its cache of 4096 bytes at a time (`lfs.c:183`) and
the driver sends all of them in one page-program transaction
(`filesystem.cpp:74-80`). The chip wraps such a transaction inside the
page it began in (`After`): the other pages stay erased, and the first one is torn.
`Reset` restarts the controller and lets the chip go on; `PowerFail` stops both
and leaves the page or block they were at in any state.

`BlockDevice` says what LittleFS takes for granted: a call changes what it is
about, between its start and its return, and nothing else ever changes; after a
crash that part is unsettled but settles before the next call. A program of more
than a page may also fail (`Fail`) and leave its region, and only that, in any
state: LittleFS reads back what it programs, and this is what the driver offers.
That it is not what `lfs.h:167` asks for is shown by the run `flash_programs`, where
`ProgramsRegion`, a program leaves its whole region programmed, is violated. `Flash`
implements `BlockDevice` so understood, which needs the waiting in the driver,
the busy check of the identification and the order of write enable and command. `Underway` is the device's call: the
first of `todo` from the first `cs_low` to the last status read. `Unsettled` are
the pages a chip is at work on that a restarted controller knows nothing of.

### Usb

`Usb` extends `CircBuffer` for `rx`; a byte is its place in the host's stream.
The callback of the OUT endpoint is split where other things happen: `RxCallback`
takes the packet, `Echoed` is the IN endpoint accepting it after the callback's
waiting loop, inside the interrupt, and the copy of what fits to `rx`. No task
runs in between, hence `isr = <<>>` in `Send`, `CopyOut` and `MoveTail`. `Send`
is one round of the loop of `USB::send`; `CopyOut` and `MoveTail` are the two
halves of `copyOut`, between which the handler may append. `HostSends` and
`HostReads` are external. Every byte of the host comes back, as the echo is sent
before the clipping; `recv` hands over what was kept, in order, and between its
calls the rest of it is in `rx`.

### Sh1106, Frame, Render, FixedPoint

`Sh1106` has the controller's registers and RAM: `SetMode` sends the commands of
a mode, `Page` is one page of `update` (interrupts are disabled per page), and
`Draw` may come between two of them. `PanelSound` needs the addressing of page
and column to be right for the mirrored panel, and the modes to combine.

`Frame` gives for each drawing function the set of pixels it stores to,
computed the way the code does: the error term of `drawLine`, the clipping of
`drawFastRect`, the edge walk of `drawTriangle`, the wrapping of `drawText`.
`ShapesDrawn` compares with the geometric figure: a line stays within half a
pixel, a filled triangle has the pixels with the centre inside, a rectangle has
its border or its area. The places tried lie on both sides of every edge. Past a far
edge the code computes the remaining width or height in a way that is not a
clipping (`sh1106.cpp:208`, a hazard in `PROJECT.json`), and pixels on the panel are
lost. So a rectangle that ends past the far edges only has no pixel
outside of the one asked for (`RectDrawn`), and a filled triangle that reaches below
the panel none whose centre is outside (`TriangleFilled`); stated of all triangles, that
every pixel inside is lit fails in this run.

`FixedPoint` is `i16f16_t` with its width and fraction as constants. `Render` is
the loop of `test3` with `Trig` and `Math3D` in that arithmetic: `BodyWhole`
follows the icosahedron frame by frame.

### Printf

`Count` and `Write` are the two passes of the formatter over the format, one
character or placeholder per step, `Malloc`, `Finish` and `Free` what is around
them. `Rewrite` is external: both passes read the arguments through pointers, so
another task may change a variable in between. `PrintfFits` is the agreement of
the passes, of the texts whose arguments did not change. It leaves out the
numbers `Undercounted` names, for which the first pass counts a byte too few:
the least value of a signed type of 32 or 64 bits, and negative fixed-point
numbers. The widths are parameters; `IntBits` is the width of the `int` that
narrower types are promoted to, which decides whether the comparison with
`T(1) << bits` can overflow.

### Vector

`Vector` is `Util::Vector` with the heap reduced to block numbers that are never
reused, so that a block freed twice or held by two vectors shows. `reserve` may
fail in any call; `pushBack` does not look, which `overrun` records and ends
the behaviour with.

### LfsCache

An action is one call of `lfs_bd_prog`, `_flush`, `_sync` or `_erase`, or one round
of the loop of `lfs_bd_read`; `reading` is the call under way, with what it has
returned so far.

| action | code |
|---|---|
| `BeginRead` | `lfs_bd_read` called with a block, offset, length and hint |
| `ReadProgrammed` | a round that finds `off` in the program cache |
| `ReadCached` | one that finds it in the read cache, and stops where the program cache begins |
| `ReadDevice` | one long and aligned enough to pass the caches, up to the nearer of them |
| `LoadCache` | the read cache loaded, for the next round |
| `BdFlush`, `BdSync`, `BdProg`, `BdErase` | the calls, `BdProg` with the flush of a cache that fills up |
| `DropBad` | a caller told of a bad block, which drops its program cache |

`latest` is what the blocks hold once everything is flushed, and `stale` says that
the read cache's block was written or erased behind it: a reader that goes on with
such a cache is the caller's business (`lfs_file_flush` drops it). Of every other read
`CacheSound` asks that what it has returned is the latest, and that each round brings
it on: a read past the caches reads something, and what is loaded is what the next
round looks for. `ValidatedIsWritten` says that a validated flush was checked
against the device and not against a cache. Block 1 does not take its last
program; what was lost there is what a validated flush exists to report, so
`CacheSound` leaves reads of such a block out.

### LfsCtz and LfsFile

`LfsCtz` has the skip list of a file's blocks: `CtzIndex`, `CtzFind` and
`CtzExtend` word by word. `LfsFile` puts files on it: open, read, write, seek,
truncate, flush, sync and close, and the allocator with its lookahead window and
`lfs_fs_traverse_` over what is on the disk and what is open. A file moves from
inline to a list and back. A sync is two steps, the flush and the commit
(`CommitFile`), and power may be lost between; `ResetFiles` starts the allocator
at any block, as the mount's random seed does. `want` and `saved` are what each
file should hold now and after a crash.

`file_relocation` runs the same module with a block that goes bad: `WrittenKept`
fails there, because the allocator walks an unflushed list with a position that
does not cover the list's last block yet, and hands out a block of the list.

### LfsCommit

One commit to one metadata pair, program by program: `BeginCommit` looks the pair up
on the disk, appends if the log has room and is not torn, else `Compact`,
`Erase`, `Prog` unit by unit, `Verify`, and `Relocate` with `Link` (the parent's
commit of the new pair) for a worn block or when `block_cycles` is due. Power is
lost before, in or after every program and erase, with everything a torn one may
leave. Revisions wrap at `Revs`. `CommitsSafe` is the promise of the whole
file system in small: a mount finds the last commit that returned or, until then,
the one under way, and after a power loss that undid the latter it goes on finding
the former; and no unit is programmed twice without an erase.
`WearIsSpread` says that relocations against wear take turns between the two
blocks of a pair. The modulus is odd for that, and the wrap of the revision must
not spoil it: the revisions have to hold an even number of moduli, or the same
block is kept twice in a row at the wrap. Of 2^32 revisions and a modulus of 1001
(`block_cycles` is 1000 in `filesystem.cpp`) this is so, as of the 8 revisions and
the modulus 3 of the run; with 10 revisions TLC finds the property violated.

### LfsDir

A directory as a chain of pairs, each a log of CREATE, DELETE, NAME, STRUCT,
attribute and MOVE tags that renumber one another: `Find`, `Get` and the
traversal read a log backwards as `lfs_dir_getslice` and `lfs_dir_fetchmatch` do.
Commits append or compact, which may split a pair or drop an empty one, and then
renumber the handles. `entries` is the directory that should be seen; a rename
cut off between its two commits is a `moved` entry. `DirAgrees` is of all
entries but the one such a cut may hide; `DirAgreesAlways`, of all, does not
hold, as the entry behind the hidden one can be read under a wrong number until
the move is completed. `strayed` marks that a handle was led to another entry,
after a removal of an open file (`RemovedIsDetached` does not hold); the run
stops there.

### LfsTree

`mkdir`, `remove` and `rename` over a tree of pairs threaded on the list of
tails, each a sequence of commits with the global state (orphans and moves)
carried as differences, the repairs `Demove` and `Deorphan` that the next
operation starts with, relocations of a pair with the commits to parent and
predecessor that follow, and `Cut` between any two commits. `TreeAtomic`: a
mount finds the tree before or after the operation. `TreeCutsFlagged`: unless
the disk says there are orphans, the list threads exactly the pairs of the tree,
and no commit goes out from an outdated copy of a pair. What they leave out:

* `lfs_rename_` does not refuse to move a directory into itself or into one below
  it (`lfs.c:3963`). `Rename` follows the code there, and records the move (`Within`,
  "into itself"): the subtree is no longer reached from the root, while its pairs
  stay on the list and nothing marks them. Both properties would fail.
* `DropsAreExpected` fails when a nested commit empties a pair and asks for a
  predecessor nobody passed (`LFS_ASSERT(pdir)`, line 2261).
* What the other asserts on the way exclude is recorded as well: orphans counted
  below zero in `MkdirEnter` (line 4897), and an orphan although what was removed is no
  directory (`NothingToDrop`, 3938, 4085). Neither is reached in the run, nor is the error
  that `Drop` returns when the directory is not on the list. The asserts are
  compiled out (`lfs_util.h:42`), so the code goes on; the model stops.
* `OrphansFlagged`, without the exemption of `CutsFlagged`, fails when a relocation
  follows a cut.
* The run has one relocation in a behaviour (`MaxMoves`). With two, where a rename
  moves a directory below another and both its new parent's pair and, while that is
  repaired, the directory's own pair are relocated, the parent is not on the list
  yet when the code looks for it, and in the model its entry keeps the old
  address, unmarked: `OrphansFlagged` fails without a cut.

`Failed` is the first three, and the exploration ends there.

### Compositions

`MCBoard` and `MCLibraries` put parts side by side: a behaviour chooses one in
its initial state (`part`) and takes steps of that one only, so their state
spaces add up and do not multiply. They share no state in the code either, at
the level of these modules, and none is needed for another's properties.
`MCLibraries` extends the parts with theorems, and `LfsFile`, and instantiates the others;
`MCBoard` extends `MCStart`, `Clock`, `Flash` and `Usb`; its `BootsEnd` is
`BootEnds` of the behaviours of the flash. `MCRoundRobin` has two instances of
`Scheduler` beside each other: in one every task may create and return, in the
other one creates and two return, for progress. `MCSerial` runs the receiver with and
without echo, and the sender without, as `SentOnce` says nothing of the rest.
Fairness is of the steps of the part that runs.

## Runs

| run | module, instance | what it shows |
|---|---|---|
| `scheduler` | `MCRoundRobin`: 4 slots, 2 booted; either all may create and return, up to the first race, or one creates and the others return, races included | type, `OwnContext`, `RingIntact`, `OneCycle`, `NoLostContext`, and every step is a round-robin step or a stutter (`RoundRobinSteps`), in both; where few create and return, every task on the ring runs again (`FewServed`) and the queue has its fairness (`FewQueueGoesOn`), up to a race or an empty heap |
| `scheduler_restore` | `MCScheduler`: 3 tasks, all may return | violated: a `taskExit` cut off between lines 14 and 15 leaves `prev` wrong, and the next exit makes the handler restore from null |
| `heap_calls` | `MCMemoryManager`: 2 clients, 3 blocks, 48 bytes, sizes that need rounding, resizing | until spoilt: blocks disjoint, list intact, first fit, the walk ends, every call is one of the abstract `Heap` |
| `heap_space` | `MCMemoryManager`: 1 client, 24 bytes | violated: a gap without room for the header is taken |
| `heap_allocated` | `MCMemoryManager`: 2 clients, blocks of one size | violated: `malloc` inside another's `free` loses its header |
| `board` | `MCBoard`: 3 tasks at depth 2; a counter with words of 4 values; a chip of 4 pages with 3 resets; USB with 6 bytes in packets of 2 | `OwnStack`; `NotEarly`, `DelayEnds`; `BootsEnd`, `NeverFormattedAgain`, `ImplementsBlockDevice` with programs of one and two pages; `InOrder`, `AllPassedOn`: the USB port keeps order and forgets nothing it kept |
| `flash_programs` | `Flash`: 4 pages, one write | violated: a program of two pages returns with one of them torn and one erased |
| `start_first` | `MCStart`: 3 tasks | violated: a switch right after the first `createTask` saves through a PSP nobody set, and `start` enters thread mode with the address this left in the first task's `sp` |
| `serial_calls` | `MCSerial`: 4 cells; 1 sender of 8 bytes in calls of up to 5, without echo; 1 receiver of 6 bytes, one of which may come while the sender sends | sent once and in order and, unless missed, all of it; received once and in order, echoes in order, everything kept delivered |
| `uart_stall` | `MCUart`: 1 sender, 3 bytes | violated: bytes stay in `tx` for ever |
| `libraries` | `MCLibraries`: LittleFS part by part with cuts and worn blocks, formatter, vectors, display, figures, turning body | the properties named with the modules above, part by part |
| `file_relocation` | `MCLfsFile`: 1 file, 4 blocks, one of them bad | violated: a block the file still uses is given to it again and erased |

Constraints end the exploration at the first state after which the code is known
to have lost its way (`NotRacedOfMany`, `NotSpoilt`, `NotStruck`, `Explored`); the
violation runs, the hazards and the sections above say what happens there.
`Explored` also keeps attributes out of directories with an open handle, since
they need more tags than its logs hold with the entries.

### Bounds

* Ring edits involve a TCB, its two neighbours and a new one, so four slots give
  every relative position of a creator, an exiting task and a bystander; three
  give all coincidences of neighbours.
* An edit of the arena list likewise involves an arena and its two neighbours;
  the heap has room for three headers and gaps below, at and above every size
  asked for. `KeepFirst` leaves out that a client frees the block at the bottom
  of the heap before the others: only the runs that go on after a
  hazard set it. `Top` is where memory the model keeps ends.
* Four cells let a buffer be empty, partly filled across its end, and full, and
  the bytes take `head` and `tail` around at least once. A packet is half of it,
  so that packets fit, fit in part and do not fit.
* Words of four values and twelve ticks carry three times, at every point of a
  delay of one and of three milliseconds.
* Two blocks of two pages are the least where an erase touches more than was
  asked for, a program may be of more than a page, and something must stay untouched; three resets hit the
  identification, the mount and the format after a write each.
* A file of 11 words takes three blocks of five, the third with two pointers;
  five blocks leave the allocator with one or none to give, and a window of three
  wraps around the chip. Five calls write, sync, overwrite and read again.
* A pair has three blocks, one worn, and three units to a block: a commit of two
  parts fits once, so appends, compactions and relocations alternate. Eight
  revisions wrap in five commits, from the last of the starts within two.
* Blocks of four units, with reads and programs of two, have a read begin and end
  inside, at the ends of and across both caches; two erases tell three generations
  of contents apart.
* Three names in pairs of two entries split and empty a pair; logs of five tags
  compact after one or two operations.
* The tree has blocks for the superblock, two directories and a fresh pair; three
  operations make a directory, put something in it and rename or remove it, one
  of them with a relocation and one with a cut anywhere.
* Integers of 4 and 8 bits and fixed-point numbers of 24 have both ends of their
  range and every change of the number of digits around them; 420
  frames turn the body through a full turn of one angle and almost two of the
  other.

`MaxSent`, `MaxArrived`, `MaxLen`, `MaxDepth`, `MaxTicks`, `MaxWrites`, `MaxOut`,
`MaxIn`, `MaxErases`, `MaxCommits`, `MaxCalls`, `MaxResets`, `MaxOps`, `MaxMoves`,
`MaxCuts`, `MaxBlocks` and `MaxFrames` bound what the code leaves open.

### Fairness

* The timer keeps ticking and a pending PendSV is taken: weak fairness of
  `SysTickHandler` and `PendSvHandler`, and of `SysTickCount` in `Clock`. Task
  steps are under none in `Scheduler`: a task may loop for ever. Starvation is
  possible when a task that was created may itself create and return, because a
  new task is linked directly behind its creator; `Served` is therefore checked
  where the tasks that return do not create (`FewServed`, `FewQueueGoesOn`).
* A task inside a call goes on (`DelayStep`, `SendStep`, `Recv`, `RecvStep`, the
  USB port's `Recv`), which is what `Served` says of the scheduler. In the heap
  only the masked walk is under fairness: nothing else runs meanwhile.
* The hardware works: the transmitter (`ShiftedOut`), interrupts that are enabled
  (`Usart2Isr`, `RxCallback`), the flash (`ChipDone`). `HostReads` is an
  assumption about the host: without it the board waits inside the interrupt for
  ever, the hazard at `usb.cpp:204`.
* `main` goes on: `Driver`, `Jedec`, `Mount`, `Formatted`. `Echoed` is the
  handler's own loop.
* No fairness is assumed of arriving bytes, calls, resets or cuts, and none in
  `MCLibraries`, which has no liveness property.

The deadlock check is off where all bytes sent, all ticks counted or all calls
made is an end (`board`, `flash_programs`, `serial_calls`, `uart_stall`, `libraries`,
`file_relocation`).

## Proofs

Every theorem is of the specification of one module, from the assumptions that
module names, by an inductive invariant with one lemma per action. No theorem
bounds the constants that bound the runs.

* `SchedulerProofs`: `TypeOK`, `OwnContext`, `RingIntact`, `OneCycle`,
  `NoLostContext` and `RoundRobinSteps`, for any boot order. Only the last needs
  `SlotsAssumption`, a heap with room for finitely many TCBs. Its invariant is that
  some sequence of tasks without repetition lists the ring but `cur` in the order
  of `next`, and leads back to `cur`, or past it if `cur` has left the ring
  (`Reads`); such a sequence is the ready queue, because the walk `ReadFrom` makes
  exists (`WalkExists`) and cannot differ from it (`ReadFromIs`), both by the
  least-number principle. Of all the stores of `createTask` and `taskExit` one each
  moves the queue, `LinkNext` and `UnlinkNext`, and `PendSvHandler` turns it.
* `MemoryManagerProofs`: `TypeOK`, `HeapSound`, `FirstFit` and `ImplementsHeap`,
  for any heap, any clients, blocks and sizes that do not wrap around the address
  space (`HeapAssumption`, `SizesAssumption`). The list is described by functions
  of addresses (`Listed`): every arena ends before its successor starts, the
  successor's `prev` is the arena, and no arena lies between the two. A walk of
  `next` need not be counted for that, and unlinking or inserting an arena is a
  lemma about four functions (`Removed`, `Inserted`), without the word
  arithmetic of `mem`. To be inductive the invariant also says what the others'
  registers know: nobody else is between a load and a store of the list while a
  walk or an edit goes on (`Exclusive`); no two clients have a claim on one arena
  (`Claimed`); `scan` has passed only arenas without room, `unlinkNext` still has
  the neighbours of its arena, and from `unlinkPrev` on the arena is off the list
  and its header touches none on it (`Registers`). The abstract `Heap` follows:
  an insertion is where no held block is, a free takes one away.
* `CircBufferProofs`: lemmas only. A buffer is described by the stream its bytes
  are a part of: the cells in use hold the stream from place `o + 1` to its end
  (`Holds`), and `Put`, `Pop`, `CopyToCirc` and `CopyFromCirc` move `o` or the
  end, across the wrap of `head` and `tail`, for any number of cells.
* `UartProofs`: `TypeOK`, for any number of senders and receivers;
  `ReceivedOnce`, if there is at most one receiver; `SentOnce`, if there is at
  most one sender; `EchoedInOrder`. Two receivers or two senders do race, as the
  section on `Uart` says, and these hypotheses are what the code needs; any number
  of the other kind may be there. The invariants say what a task that has
  loaded one index and not yet stored the other knows: the handler only takes
  from `tx` and adds to `rx`, so that a sender's `freeSpace` and a receiver's
  `available` may be too small when they are used and never too large; the bytes
  staged behind `head` stay, and a loaded index stays the task's own.
  `EchoInv` follows the last echo: what comes next was kept after it.
* `BoardProofs`, on `Start`: `TypeOK` and `OwnStack`, for any list of tasks and
  any depth.
  On `Clock`: `NotEarly`, for any width of a word, any tasks and any delays
  (`ClockAssumption`). `SleepInv` says of a sleeper without a carry between its
  loads that the word it holds is the counter's, at most `k` ticks old, and that
  `start` is what the counter was `k` ticks ago, modulo the range of the pair, for
  a `k` no larger than the time since the call. The difference modulo the
  range is then at most `k` (`RemainderBelow`), and the loop goes on while it is
  below the delay. No bound on the range is needed: a counter that wraps around
  makes a delay longer, never shorter.
  On `Flash`: `NeverFormattedAgain` and `ImplementsBlockDevice`, for any number
  of pages from two blocks on, any size of a block and any number of resets,
  power failures and writes (`ChipAssumption`). A first mount fails only when
  the chip is busy or both superblocks are gone, so the invariant has two parts.
  `DriverInv`: the chip is idle wherever the driver does not poll it and the
  identification is behind. `SuperInv`: once mounted, one superblock is whole and
  neither the chip's command, nor the one on the bus, nor any that waits touches
  it; `FileWrite` erases one of the two only while the other is whole. For the
  refinement `CallInv` adds what makes a command take effect: the latch is set
  when the command is next, what is on the bus is the call's own command, and the
  chip is at work on nothing else once the call is under way. Each step is then a
  begin, an effect, a failed program of several pages, a return, a crash or a
  settling, or changes nothing the
  device shows; the end of an erase the controller has forgotten is a settling.
  Of programs of several pages the theorem says only that they are over when the
  call returns and stay within their region.
* `UsbProofs`: `UsbTypeOK` and `InOrder`, for any size of `rx`, of a packet and of
  a `recv` (`UsbAssumption`). `Circulating` numbers the host's bytes through
  the two endpoints and the handler; `Kept` places `tail` and a half-done
  `copyOut` in the stream of what was kept.

* `LfsProofs`, on `LfsCommit`: `CommitsSafe`, for any blocks, any of them worn, any number of
  units, of commits and of cycles, if more revisions lie between two that are
  compared (half of `Revs`) than between two relocations (`CommitAssumption`).
  `PairInv` says what the pair looks like at each control point. Between commits
  one block leads (`Leads`): it says what was committed last, has nothing behind its
  first erased unit, and the other one is older or says nothing. During a commit
  `Way` keeps that, and the job either goes on behind the leader's last commit
  (`Appending`) or fills a block from its beginning with the next revision
  (`Rewriting`); in both cases its units so far hold its parts or what a worn block
  made of them, and the rest is erased (`Laid`). From `Way`, the pair left by an end
  of the commit, and by any torn program or erase, has a leader again: the one
  before, or the new commit once it is whole (`WayLeads`). That the next revision is
  newer also across the wrap is `FollowingNewer`.
  `WearIsSpread`, if the revisions hold an even number of moduli (`EvenWrap`).
  `WearInv` says that the block the last relocation kept leads at odd revisions and
  only there, the moduli passed taken off (`Odd`, `Turns`). A compaction moves the
  lead and changes the parity. A revision that is due to relocate is even, so the
  block kept then is not the one kept before, and the fresh block leads at an even
  revision again; a relocation that is cut off leaves the pair as it was.
  On `LfsCache`: `CacheSound` and `ValidatedIsWritten`, for any blocks, any of them
  worn, any reads and sizes that `lfs_init` accepts if a program is of whole reads
  (`CacheAssumption`). `CacheInv` says unit by unit that the latest is what the program
  cache has, where it covers the unit, and otherwise what the device has
  (`Coherent`), or was lost to a worn unit (`Lost`), and that a read cache that is not stale
  mirrors the device. A flush is one lemma, `FlushIs`, of any program cache that holds what is to
  become the latest: the one there is, or the one a program has just filled. That a
  read past the caches reads something needs that caches begin at multiples
  of `ReadSize` (`Gap`).
* `LibrariesProofs`, on `Vector`: `VectorSound`, for any vectors, capacities and
  size of the heap. `Owned` says block by block what `BlocksOwned` says of the set.
  On `Printf`: `TextSound`, for any formats and any lists of arguments of the types
  the code has (`PrintfAssumption`). The second pass walks the places the first one
  walked, so the invariant carries the first pass as a sequence of places
  with the bytes counted there (`Trace`): while the first pass runs it is the last of
  them, during the second `dst` is the count at the place it has reached, and the counts
  never decrease. What is left is that `digitCount` and `toBuf` agree on a number
  that is not `Undercounted`. A typed argument is what the proof needs the
  assumption for: an unsigned number is not negative.
  On `Sh1106`: `PanelSound`, for any pages and columns and the margin of 2 the code
  has (`ShAssumption`). `SentShown` says of each page an update has sent that it is
  the one in the buffer until a task draws; for `ModesAdd`, what each mode's commands do to
  the registers is computed command by command (`ObeyAllIs`), as the command lists
  are at most six long.

Model-checked only: every liveness property, as liveness and `ENABLED` are out of
the prover's reach, and with it the fairness of the round-robin queue; everything
built on recursive operators (`LfsCtz`, `LfsFile`, `LfsDir`, `LfsTree`,
`Frame`), since the prover's SMT backend does not accept them; and `BodyWhole`
(`Render`), which is about the rounding of one figure with one choice of constants.

## Not modelled

* Timing, the priorities of other interrupts, the contents of stacks and
  payloads, and undefined behaviour after a store through null.
* Memory block operations, standard I/O and system calls: no state of their own;
  `_write` and `_read` pass their arguments to the serial port.
* The font, the USB descriptors and the answers to control requests: data.
* Of the mathematics `tan`, `dot` and `cross`, which nobody calls.
* Of LittleFS: the expansion of the superblock before a compaction
  (`lfs.c:2199-2229`), the migration from version 1, `lfs_fs_grow`, `lfs_fs_gc`,
  `lfs_fs_stat`, the encodings of tags and superblock, custom attributes of open
  files, and the API wrappers with their tracing. The parts that are modelled
  take one another for atomic: `LfsFile` and `LfsTree` a commit, which
  `LfsCommit` justifies, `LfsTree` a directory in one log per pair, which
  `LfsDir` looks into, and `LfsCommit` the caches, which `LfsCache` justifies.
* A second task in the driver at the same time: the file system's calls come
  from one task.
