# LambOS in TLA+

LambOS is a hobby operating system kernel for 32-bit x86, in C++, with its own C
library, C++ library and container library (`libsys`). These modules model the
parts of it that keep state other parts depend on, and the library under them,
check them with TLC on small instances, and prove nearly all of the safety
properties with TLAPS for instances of every size.

`PROJECT.json` maps every definition to the lines it models and lists runs,
mutants, findings, hazards and theorems.

## 1. Inventory

### How the system works

`boot.s` calls `kernel_main`, which constructs the kernel object, installs the
descriptor tables and the memory management: the *page frame allocator* reads the
boot loader's memory map, the *MMU* makes a page directory and turns paging on,
and from then on the *heap* (`malloc`/`new`, used by everything) takes pages from
the MMU. System calls and interrupts are enabled, and `init_system` sets up the
keyboard and the timer, identifies the ATA drives, mounts the CD-ROM (ATAPI,
ISO 9660) and has the *program loader* execute programs found on it, the shell
last. Programs read characters and print through system calls.

One processor and no preemption: `X86Kernel::schedule` is an empty function and
nothing uses the `Scheduler` class. The concurrency is that of interrupt handlers
with the code they interrupt. Interrupts are disabled in handlers and inside
system calls, except in `read`, which enables them to wait for a key. Calls go
downwards (program, system call, kernel, device); handlers communicate with the
code above them only through shared state (the keyboard's ring buffer). An error
deep in the kernel is a `panic`: the message is printed and the processor halts.

### Components

| Component | State | Operations | What is hard | What makes it correct | Module |
|---|---|---|---|---|---|
| page frame allocator | two bitmaps, end of the last allocation | loadMemoryMap, markFrameUsable, requestFrame, alloc, free | rounding of the memory map; next-fit with wrap-around; nearly full memory | no frame handed out twice, none lost; only RAM used; panic only when nothing is left | `PageFrames`, `FrameClients`, `PageFrameAllocator`, `FrameProofs` |
| MMU | page tables in physical memory, cr3, translation buffer | create, install, palloc (two forms), pfree | tables reached through themselves; frames run out in the middle of a call; stale translations | clients see private pages that keep their content; kernel stays mapped; no frame leaks | `VirtualMemory`, `MMU`, `MMUProofs` |
| heap (liballoc) | majors, minors, best bet | malloc, free, realloc, calloc | doubly linked lists at two levels, five cases of malloc, restart of the search | blocks private and aligned; lists sound; pages go back; calls return | `Liballoc`, `LiballocProofs` |
| ring buffer, keyboard, key stream | indices, count, shift state | enqueue in the handler, pop in the reader | the handler runs between any two instructions of pop; a key between test and `hlt` | codes in order, none twice; newest kept; shift as typed; reader not left asleep | `Keyboard`, `LibraryProofs` |
| program loader | segments, `_isLoaded`, mapped pages | construct, move, exec, loadSegments, unloadSegments, destroy | failure at the n-th segment; heap and loader compete for pages | all or nothing; frees what it was given, once | `Executable`, `ExecutableProofs` |
| boot sequence | how far it has come | kernel_main, init_system | interrupts are enabled half way | handlers are there before their interrupts | `Interrupts`, and memory in `FrameClients`, `MMU` |
| interrupt dispatch and controller, system calls | descriptor tables, routines, masks, interrupt flag | set routine, unmask, dispatch, end of interrupt | interrupts enabled inside a system call; masks split over two controllers | an unmasked interrupt reaches its routine and is ended, whatever programs do | `Descriptors`, `Interrupts`, `KernelProofs` |
| ATA/ATAPI driver | identity, sector size; the drive's registers | isAttached, type, descriptor, read | resets that are not waited for; polling without timeout; the drive decides the block size; chunks | a successful read has filled the buffer, none overruns it; every call whose commands the drive heard ends | `AtaDevice`, `AtaDeviceProofs` |
| ISO 9660, FileReader | root, entry, stream, cache | createVolume, find, readdir, fileStream, read, readAll | results of device reads ignored; walk without a bound; growth of the cache | find is lookup; the bytes read are those on the disk; mounting ends | `Iso9660`, `FileReader`, `Iso9660Proofs` |
| text console, panic | cursor, colours, screen | write, newline, backspace, scroll, clear, log of tasks, layout of a panic | scrolling at the last cell; lines cleared and overwritten by the log | the screen shows the last lines of all that was written | `Console`, `KernelProofs` |
| real-time clock | the clock's registers | currentTime | an update between two of eight reads; two codes, two ways to count hours | the time read is one that was | `Clock`, `KernelProofs` |
| containers, counted pointers | nodes and counters, blocks, sizes | push, pop, insert, remove, grow, move, destroy | who owns a node; the null character; cells outside of the block | the sequence that was put in comes out, nothing is freed twice | `LinkedList`, `DynamicArray`, `ArrayList`, `BasicString`, `LibraryProofs` |
| C strings, formatted output | strtok's position, the argument list | compare, tokenize, convert, memset, printf, sys::print | ends and off-by-one; sizes of arguments | agreement with a reference | `Text`, `Format`, `LibraryProofs` |
| shell | the line, the mode | getchar, gets, readCommand, who | backspaces; arguments found by pointer arithmetic | a command gets what was typed for it | `Shell` |
| scheduler, processes | – | – | – | – | not modelled (section 7) |
| C++ headers, ABI stubs | – | – | – | – | not modelled (section 7) |

## 2. Modules and their correspondence to the code

### Page frames — `PageFrames`, `FrameClients`, `PageFrameAllocator`

`PageFrames` has the allocator's fields and its operations. A bitmap is the set
of the indices whose bit is 1; `lastAlloc` is `_lastAllocFrame` as an index.
`NextFit(n, f)` is what `alloc(n)` returns.

`FrameClients` is the abstract specification: boot (one entry of the memory map
per step, then the MMU constructor's two loops), then clients that allocate and
free runs, each call in one step.

`PageFrameAllocator` replaces the atomic `alloc` by the code's two loops, one
index per step (`AllocCall`, `FoundFrames`, `NotHere`, `CheckTheRest`,
`PanicOutOfMemory`). `ImplementsFrameClients` says that it refines
`FrameClients`; the refinement mapping is the identity on the shared variables.

### Virtual memory — `VirtualMemory`, `MMU`

`MMU` extends `PageFrames` and puts page tables *into* the frames: `mem` is
physical memory, a frame holds a table, and tables are found the way the code
finds them, through the last directory entry (`TableFrame`). One step is one
iteration of a loop of `install`, `palloc`, `pfree` or `allocatePages`, so
running out of frames stops a call half way. `Fill` lets the processor cache a
translation at any moment; `setEntry`'s invalidation is modelled as it is
written (it invalidates the page whose number is the *frame* of the entry), so
only the `_flush` at the end of a call removes stale ones. `Store` lets a client
write to a page it holds: if a client's frame were also a table, the store would
change the translation.

`VirtualMemory` is the promise: disjoint runs of pages, each page with a content
that only stores to it change. The mapping takes `blocks` to the runs held and
`content[p]` to what a load from p returns, through the translation buffer.

### Keyboard input — `Keyboard`

The handler (`KeyInterrupt`: read the port, `pushScanCode`, `enqueue`) is one
step, since interrupts are disabled in it. The reader is a program counter over
the instructions of `KeyboardInputStream::read`, `PS2Keyboard::read`,
`RingBuffer::pop` and `halt` that touch the shared fields. `Decrements` says how
`--_size` compiles: without optimisation (the default build) as load and store,
with it as one instruction. A scan code is the position at which it was typed,
which makes order and loss visible. Interrupts may come at any step, also in `pop` on a
full buffer, where `enqueue` and `pop` both move `_front`; the history variable
`collided` remembers that this has happened.

### Heap — `Liballoc`

Majors and minors are functions from header addresses to header contents; the
links are addresses, as in the code. The steps of a call are the labels of
malloc's loops: `FirstMajor`, `StartSearch` (best bet), `LookAtMajor` (cases
1 to 3), `UseNewMajor` (case 2 after case 1), `LookAtMinor` (cases 4 and 5).
`Realloc`/`ReallocCopy` and `Free` follow `realloc` and `free`. The MMU is what
`liballoc_hook.cpp` uses of it: a run of free pages, or NULL.

### Program loader — `Executable`

Objects with their program headers; `LoadSegment`, `LoadFails`,
`CleanUpSegment` are `loadSegments` with the destructor of its cleanup list,
`UnloadSegment`, `UnloadPanics`, `UnloadDone` are `unloadSegments`. A heap takes
and gives back single pages at any time, also between two segments of a load
(the cleanup list allocates its nodes there).

### ATA driver — `AtaDevice`

Driver and drive are two processes. The driver's steps are the exchanges with
the drive: a reset, the signature, a command, a packet, one successful look of a
polling loop, the transfer of a block. `type()` and `descriptor()` are called
from several places and return to `call.next` and `call.back`. The drive is
external: it takes a command when it is idle, loses one that is sent during a
reset, and answers with data or with an error when it likes. Packets are
sequences of 12 bytes (`read12Command`, `readCapacityCommand`), which the drive
decodes, and the sector size is swapped out of the answer's bytes.

### Files — `FileReader`, `Iso9660`

`FileReader` has the stream over a file's sectors and the reader's cache as
records, and `read(offset)`, `read(buf, offset, n)` as operators on them.
`Iso9660` follows `read_ata`: probe, `createVolume`, `Volume::init` (a round of
its loop per step), `find` (one directory per step), `readdir`, `isElf` and the
constructor of `Executable` (`readAll` byte by byte, then reads of ranges). Each
device read may fail after some of its sectors (`Outcomes`); what the code then
takes from the buffer is `Junk`, of which anything can come. A directory record
is one cell, so the walk goes cell by cell. The references the properties
compare with (`Children`, `Reached`, `ExtentOf`) are defined on the disk alone.

### Interrupts — `Descriptors`, `Interrupts`

`Descriptors` encodes segments and gates as `encodeEntry` and `EncodeEntry` do
and decodes them as the CPU does. `Interrupts` runs from `boot.s` on: `pc` is
the next step of `kernel_main` and `init_system`, `stack` the frames of what
interrupts it. `Deliver` is an interrupt through the controllers (external:
priorities, masks, lines in service), `Call` and `Fault` are those of programs;
routines run in steps of their own, and `read` waits with interrupts enabled, so
that handlers run on top of it. `Return` is the end of `isr_common_stub`.
A frame records how many words lie under it, so that a stub that does not fit
the CPU's error code is seen. What happens inside the reader and the keyboard's
handler is module `Keyboard`; here a key is a number counted up and down.

### Console, panic, clock — `Console`, `Clock`

`Console` has the screen as the array of cells that video memory is, and the
operations of `VGATextConsole` as functions on the record `console`, with the
names of the code; `log_task_begin` and `log_result` are the log of `main.cpp`.
Beside it `paper` is the reference: an unbounded sequence of lines on which a
pen writes and never scrolls, each character with the colour that was set.
`PanicLines` is the layout of `Kernel::panic`, a
pure function of its message. `Clock` reads eight registers in eight steps; the
clock (external) warns, updates, and rests.

### The library — `LinkedList`, `DynamicArray`, `ArrayList`, `BasicString`, `Text`, `Format`, `Shell`

`LinkedList` has nodes and the counters of the `ArcPtr`s that own them, which
are objects of their own: that is where a node gets two owners. Use of freed
memory sets `bad` and ends the behaviour. `DynamicArray` is a block of cells
that remembers whether it was written outside of; `ArrayList` and `BasicString`
are built on it, with their operations as actions, and beside each the sequence
it should hold. `Text` and `Format` are functions, checked on every short input
against references that do not follow the code. `Shell` is a state machine of
keys, lines and commands.

These modules have calls that the code gets wrong. A history variable
(`reowned`, `unsupported`, `misused`), set from the call and the abstract value,
remembers that one was made, and the property of the passing run says that the
container is right as long as there was none. What a comment in the code promises
of the other calls is stated in a property of its own, which is violated
(section 6). The cells of `DynamicArray::clear` are bytes: an element
type that needs construction finds no object in them, one that does not finds a
cell as good as any, so `ArrayClear` leaves either `Raw` or `Blank` cells, and
adding to a list with `Raw` cells is `unsupported`.

### Side by side — `Library`, `Kernel`, `LambOS`

`Library` and `Kernel` compose the modules of the two sections above, and `LambOS`
these two, the loader and the ATA driver. The parts share no state that the
properties speak of, so the composition would be a product of independent
behaviours, and a property of one part would be checked again in every state of
the others; instead one `component` (and in it one `part`), chosen at the start,
takes steps while the others rest. The fairness of a part is that of its own
specification.

### How the modules fit together

`MMU` is checked for clients that free only runs they hold. The kernel has two
such clients, and each is checked to be one: `Executable` by `MappedIsHeld`,
`Liballoc` by `PagesAccounted`. In the same way `FrameClients` assumes that only
held frames are freed, which `FramesAccounted` of `MMU` shows. The state in
which `MMU` starts is the one that `FrameClients` reaches at the end of boot
(`UsedIsHeld` with no blocks, low frames not usable). `Iso9660` uses the device
as `AtaDevice` shows it: a read that reports success has filled the buffer
(`ReadComplete`), one that fails may have filled the first chunks. `Executable`
takes the bytes of its file as given, which is `BytesAsOnDisk`. `Keyboard`
assumes that the key and timer interrupts reach their handlers, also while a
program reads, which is `InterruptsAreServed`, and that handlers are not
interrupted, which is `HandlersNest`. `Iso9660` takes paths as their tokens,
which is `TokensAreFields`.

## 3. Runs

| Run | Checks | Shows |
|---|---|---|
| `frames` (`PageFrameAllocator.cfg`) | NoFrameHandedOutTwice, UsedIsHeld, UsableIsRam, ImplementsFrameClients | the loops give out each frame once, lose none, use only RAM, and do what an atomic next-fit allocator does |
| `mmu` (`MMU.cfg`) | FramesAccounted, IdentityMapIntact, ImplementsVirtualMemory, PallocNullOnlyWhenFull | private, stable pages through tables, allocator and cached translations; frames accounted for; palloc fails only when it must |
| `keyboard` (`Keyboard.cfg`) | CodesInOrder, ShiftAsTyped, CountedCodesAreRead | order, overwriting of the oldest and shift state survive every interleaving, until a key meets a full buffer within a `pop`; no slot is read before it was written even then; the reader does not sleep on a counted code |
| `heap` (`Liballoc.cfg`) | ListsSound, PayloadsPrivate, PagesAccounted, MallocNullOnlyWhenFull, CallsReturn | lists, usage and payloads stay sound through any sequence of calls; NULL only when there is no room; every call returns |
| `files` (`Iso9660.cfg`) | FindIsLookup, ListedCanBeFound, BytesAsOnDisk, MountEnds | find, readdir and file reads agree with the disk, mounting ends, with device faults anywhere |
| `system` (`LambOS.cfg`) | *interrupts:* HandlersReady, HandlersNest, InterruptsAreServed | handlers are ready, nest as they may and serve every line with a driver |
| | *console, panic, clock:* ScreenIsWindow, PanicShowsMessage, TimeIsOneMoment | the screen is a window on all output; a panic shows its message; a time read is one that was |
| | *loader:* MappedIsHeld, LoadIsAllOrNothing | a load is all or nothing, and loader and heap free exactly what they were given |
| | *ATA driver:* ReadComplete, BufferNotOverrun, HeardCallsReturn | a read that succeeds has put every sector in its place, whatever the drive left from earlier commands; none writes behind the buffer; every call whose commands were heard ends |
| | *library:* ListIsSequence, ArrayIsSequence, StringIsSequence, CompareIsOrder, TokensAreFields, NumbersReadBack, MemsetIsExact, ConversionsGetTheirArguments, CommandAsTyped | the calls of containers, strings, text functions and the shell that do what they are for, in any sequence or on any input |
| `keyboard_size` (`KeyboardSize.cfg`) | SizeIsCount | **violated**, finding 1 |
| `keyboard_overwrite` (`KeyboardOverwrite.cfg`) | OldestMakesRoom | **violated**, finding 2 |
| `heap_realloc` (`LiballocRealloc.cfg`) | FailedReallocKeepsBlock | **violated**, finding 3 |
| `executable_unload` (`ExecutableUnload.cfg`) | UnloadReturns | **violated**, finding 4 |
| `ata_reset` (`AtaReset.cfg`) | CallsReturn | **violated**, finding 5 |
| `list_pop` (`ListPop.cfg`) | PopReturnsFront | **violated**, finding 6 |

The type invariant of a module (`TypeOK`, `LoopTypeOK`) is a conjunct of one of
its invariants.

Each property of a passing run has a mutant: a definition of the model changed
the way a plausible bug would change the code, under which TLC finds the
property violated. The mutated definitions stand beside the originals, marked
`Mutant of`.

### Bounds

* `frames`: 8 frames of 2 units, requests of 1 to 3 frames, four memory maps
  (one piece, with a hole, ending inside a frame, and with part of the kernel
  image missing). Five frames for clients and requests up to 3 give every way a
  run can straddle, wrap or just fit; the theorems remove the bound.
* `mmu`: tables of 4 entries, 10 frames, five sizes of RAM, requests for 1, 2
  or 4 pages. Install needs two tables (so the loop chases `lastUsedFrame`),
  clients make a third, runs cross a table's end, and memory runs out in every
  call, also during boot. One cached translation is enough to make any page
  stale.
* `keyboard`: buffer of 3 slots, 4 scan codes, one plain key and both shift keys.
  The buffer fills and overwrites, also within a `pop`; the indices wrap.
* `heap`: 3 pages of 22 words, headers of 3 words, up to 3 blocks, requests 1,
  2, 15 and 60. 15 fills a page nearly (one more small block does not fit), 60
  needs more pages than there are (NULL), 1 and 2 share a page and leave gaps of
  different sizes. Realloc to 0 and 2 covers free, shrink and move.
* `system`, loader: two objects, 5 pages of 2 units, six binaries that overlap,
  with partial pages, an empty segment, an address off a page, a Null entry and
  an unknown type.
* `system`, driver: sectors of 4 bytes, chunks of 2 sectors, a disk of 5 sectors,
  reads of 0 to 5 sectors at 1: up to three chunks, the last one short, and reads
  beyond the end. The byte count limit wraps at 16, above the largest chunk of a
  known sector size as in the code (10 * 2048 < 65536), below that of a sector
  size taken from memory that was not written.
  The four values of a packet's byte (`ByteValues`) make the disk's addresses
  need two of them.
* `files`: sectors of 5 cells and a cache of 2, so that it grows twice; files of
  0 cells, part of a sector, one sector and more; the five disks of `MCIso9660`,
  of which two have a directory that the walk is not right for (full, and of two
  sectors); eight paths, among them the empty one and one through a file.
* `system`, library: lists of up to 7 nodes and counters over two values; arrays of up to
  4 elements in blocks that start with 2 cells, so that they grow twice; two
  strings of up to 3 characters; all pairs of texts of up to 3 letters, all
  paths of up to 6 characters of which one is the delimiter, all numbers of one
  and the outermost ones of two bytes in five bases; all formats of up to 3
  items over 21; memset of up to 12 bytes at every place in a word, in an address
  space of 64, of values with bits in the first byte, in others, or in both; lines
  of 4 cells and 5 keys, so that a typed key, a newline and a backspace come when
  the line is full.
* `system`, kernel: lines of the timer, the keyboard and the second controller, raised up
  to 4 times in all, three calls or faults. A screen of 3 rows of 8 and four
  calls that write 1, 3 or 7 characters: it scrolls, wraps, and tasks end on
  every column that matters. All panic messages of up to 12 characters on a
  screen of 10 columns. The seconds around a new year, where all registers
  change. Descriptors with digits of 2 values (16): all 256 offsets, bases and
  limits.

Deadlock is not checked where the system may stop: after a panic (frames, mmu,
files, system) or a call on a null volume (files), when a command was lost in a
reset or nothing of a bounded supply is left (system), after a failed `realloc`
whose caller holds a freed pointer (heap), when the bounded typing is over and
nothing remains but the timer (keyboard), and when a container was used in a way
that leaves it undefined or a function has no further step (system).

### Fairness

`Keyboard`: weak fairness of the reader (the processor executes its
instructions) and of the timer interrupt (the PIT ticks, and IRQ 0 is unmasked
at boot); no fairness of typing. `Liballoc`: weak fairness of the steps of a call
in progress (nothing else runs meanwhile). `AtaDevice`: weak fairness of the
driver and of the drive, which so does not stay busy; clients need not call.
`Iso9660`: weak fairness of the rounds of `Volume::init`. `Kernel`: weak fairness
of the CPU's steps, an interrupt's delivery among them; devices need not raise
their lines and programs may fault for ever. No other specification has fairness,
and no other property is temporal beyond safety.

## 4. Assumptions

* The start of every entry of the memory map is a multiple of the frame size,
  and RAM ends below the last frame of the bitmap (which also makes the reads
  past the bitmap that `alloc` would do for a run at its end harmless, because
  the last frame is never free). Both are named in `ClientsAssumption`; the code
  does not enforce them (hazard at `PageFrameAllocator.cpp:33`).
* Physical memory does not reach into the range of pages through which tables
  are mapped (`MMUAssumption`), and callers of `palloc` at an address name one
  below that window.
* The address of a table entry is all of it that the kernel uses besides two
  flag bits; there is one address space, the kernel's (`cloneDirectory` has no
  caller).
* Requests to the heap do not wrap around an unsigned long (hazard at
  `liballoc.c:252`).
* The drive sends a transfer that fits the byte count limit in one block.
  `ReadComplete` and `BufferNotOverrun` are stated for calls in
  which the sector size was read from the drive, `ReadComplete` and
  `HeardCallsReturn` for calls of which no packet command was sent during a reset
  (`late`); what the driver does otherwise is finding 5. When the sector size is
  not known, because READ CAPACITY failed or because the drive is a SATAPI one,
  a read uses whatever was in memory, or 0.
* Reads end below sector 2^32: `read` takes 64-bit addresses, but the packet has room
  for 32 bits of them. A byte count of 8 fits the limit's registers, and a sector of
  an ATA drive is at most twice as long as the medium's (`AtaAssumption`).
* `FindIsLookup` and `ListedCanBeFound` are stated for directories that lie on
  the disk, with no padding between records and some behind them (`Orderly`), and
  for calls without a device fault; `FindIsLookup` also for volumes whose
  descriptors end with a terminator and that have one root (`WellFormed`), and
  directories whose names differ and that have a record of themselves (`Named`),
  as ISO 9660 demands. On the other directories of the run's disks the code misses
  entries or searches behind its buffer (hazard at `DirectoryEntry.cpp:166`).
* A disk is a sequence of sectors of `SectorSize` cells, and a cell that claims to
  be a directory record has the fields of one (`Iso9660Assumption`). An ELF header
  fits the reader's first buffer.
* A screen has more than 6 columns and more than one row (`ConsoleAssumption`):
  the log moves to the column 7 before the end of the line to write `[DONE]`, and
  up a row after clearing one. VGA's has 80 and 25. A panic's message has room
  between the banner and the last words: up to 1216 characters on that screen. The
  code does not check it; its messages are literals of one line, except for the
  page fault's, which is put together (`PageFaultPanicISR.hpp:33`) and may take two.
* The mark of a text that was moved from is not a character
  (`BasicStringAssumption`), nor that of a cell without an object an element
  (`ArrayListAssumption`); memset is asked for less than the address space
  (`TextAssumption`), and a conversion may be without a length modifier
  (`FormatAssumption`).
* The controllers are 8259s in fully nested mode whose first initialisation
  command clears what is pending; the CPU pushes error codes as the i386 does.
  Exception 17 also pushes one, and its stub expects none (`interrupt.s`); it
  occurs in user mode only, which nothing runs in, so the run leaves it out.
* The clock announces an update early enough for eight reads that nothing
  interrupts (`Window`, at least 8); real ones do so 244 microseconds before. Its
  registers hold numbers of two digits, and hours below 24 (`ClockAssumption`).
* No key is both a plain and a shift key (`KeyboardAssumption`). The keyboard's
  routine finds the controller's input buffer empty: its wait
  `while (inb(KEY_PENDING) & 2);` (`PS2KeyboardISR.hpp:31`) is left out, since
  nothing in the kernel writes to that controller.
* A segment that has content is page-aligned and ends inside of the address space
  (`ImagesAssumption`), as those the linker makes.
* Programs raise exceptions, but the kernel itself does not.
* Calls with no effect (alloc of 0 frames, palloc of 0 pages, an unaligned
  address) are left out.

## 5. Proofs

Eight modules hold theorems, all checked by TLAPS from nothing. Each holds for
every value of the constants that satisfies the named assumptions of section 4:
any size of memory, tables, headers, buffers and sets of clients, and any number
of steps, where the runs of section 3 check one small instance.

| Module | Theorem | Statement |
|---|---|---|
| `FrameProofs` | `ClientsSafe` | `Spec => []ClientsInv` (the abstract allocator) |
| | `LoopSafe` | `LoopSpec => [](LoopInv /\ ClientsInv)` (the loops) |
| | `LoopsImplementNextFit` | `LoopSpec => ImplementsFrameClients` (refinement) |
| | `TypesCorrect`, `NoDoubleAllocation`, `NoLeak`, `OnlyRamIsUsed` | the invariants of run `frames` |
| `MMUProofs` | `Safe` | `Spec => []Inv` |
| | `KernelStaysMapped` | `Spec => []IdentityMapIntact` |
| | `NoFrameIsLost` | `Spec => []FramesAccounted` |
| | `PallocFindsRoom` | `Spec => PallocNullOnlyWhenFull` (action property) |
| | `PagesArePrivate` | `Spec => ImplementsVirtualMemory` (refinement) |
| `LiballocProofs` | `HeapIsSound` | `Spec => []Inv` |
| | `PayloadsArePrivate` | `Spec => []PayloadsPrivate` |
| | `PagesAreAccounted` | `Spec => []PagesAccounted` |
| | `SearchIsSound` | `Spec => []SearchInv` |
| | `ListsAreSound` | `Spec => []ListsSound` |
| | `MallocFailsOnlyWhenFull` | `Spec => MallocNullOnlyWhenFull` (action property) |
| `ExecutableProofs` | `LoaderFreesWhatItTook` | `LoaderSpec => []MappedIsHeld` |
| | `ProgramsLoadWholly` | `LoaderSpec => []LoadIsAllOrNothing` |
| `KernelProofs` | `ClockShowsOneMoment` | `Spec => []TimeIsOneMoment` |
| | `DescriptorsDecode` | `GatesLeadToStubs`, for every base of the digits |
| | `InterruptsFindHandlers` | `Spec => []HandlersReady` |
| | `HandlersDoNotPileUp` | `Spec => []HandlersNest` |
| | `ScreenShowsLastLines` | `Spec => []ScreenIsWindow` |
| | `PanicsAreReadable` | `Spec => []PanicShowsMessage` |
| `AtaDeviceProofs` | `DriverIsSound` | `AtaSpec => []Inv` |
| | `ReadsAreComplete` | `AtaSpec => []ReadComplete` |
| | `BufferIsNotOverrun` | `AtaSpec => []BufferNotOverrun` |
| `Iso9660Proofs` | `FilesReadAsOnDisk` | `Spec => []BytesAsOnDisk` |
| | `ListingMatchesFind` | `Spec => []ListedCanBeFound` |
| | `FindLooksUp` | `Spec => []FindIsLookup` |
| `LibraryProofs` | `CodesAreReadInOrder` | `Spec => []CodesInOrder` (`Keyboard`) |
| | `CharactersAreShiftedAsTyped` | `Spec => []ShiftAsTyped` |
| | `ArrayListIsSequence` | `ArrayInit /\ [][ArrayNext]_arrayVars => []ArrayIsSequence` |
| | `StringsAreTexts` | `StringInit /\ [][StringNext]_stringVars => []StringIsSequence` |
| | `StrcmpIsOrder` | `TextInit /\ [][FALSE]_input => []CompareIsOrder` |
| | `MemsetIsExactUnlessShort` | `TextInit /\ [][FALSE]_input => []MemsetIsExact` |
| | `PrintedAsPassed` | `FormatInit /\ [][FALSE]_format => []ConversionsGetTheirArguments` |

The specifications of `Text` and `Format` have no steps: a behaviour is one input,
and the theorems are about every input that the constants allow.

### Induction

Loops and references over sequences are recursive functions, or folds of the
community modules, which are recursive functions on sets. What such a function
computes is proved by induction, in the form of the lemma `Least`: a set of
numbers that is not empty has a least element (from the well-foundedness of `<` in
the library). The set is that of the lengths for which a claim fails; its least
element is neither 0 nor one more than a length for which the claim holds. The same
induction gives the existence of the function, without which its `CHOOSE`
definition says nothing (`LayoutExists`, `FoldExists`, `ArgumentsExist` and
others).

### Invariants

Few of the properties are inductive as they stand. What was added, and why:

*Page frames, abstract level.* `NoFrameHandedOutTwice` is not inductive: that a
run of free frames is disjoint from every held run follows only if held frames
are marked used, and that freeing a run leaves the other ones marked follows only
if runs are disjoint. `ClientsInv` therefore joins types, disjointness, the
accounting `used = KernelFrames \cup HeldFrames` and `BootInv`, which describes how
far the boot loops have come: the used frames are those below the cursor, and low
memory is not usable. `RegionFramesFit` is the arithmetic of the memory map: a
frame derived from a region by two divisions that round down lies in the region.

*Page frames, loops.* An alloc step must be shown to be a `NextFit` step: the index
found is at least as near to the last allocation as any other that fits. The
strengthening is `RejectedHaveNoRoom` (no index that the loops have passed fits)
with bounds on the index (`SearchInv`). `FoundIsNextFit` derives the minimal
distance from it; at the end of the second loop the rejected indices are all
frames, so the panic is an `AllocFails` of the abstract allocator. `NotHere` and
`CheckTheRest` are stuttering steps of the abstract specification.

*MMU.* What the tables say is stated of a memory, a directory and a set of used
frames (`Space`): tables, directory and clients' pages have frames of their own,
all used; the pages up to the last one that `install` mapped are mapped to
themselves, beyond them exactly the pages of a given set; and every used frame is
one of these. During `install` it holds of the memory as it will be once the table
under construction is entered (`InstallInv`, `Done`); in calls, with the pages
held so far and those of the call (`Pending`), so that it survives a `palloc` that
stops half way. `Scan` says what `palloc`'s search knows: no run of the asked
length ends before the place it has come to, which gives `PallocFindsRoom`.
`TlbInv` says that a cached translation of a page that is held is the tables' own;
with it a client's load or store goes to the frame of its page, which the abstract
specification of `PagesArePrivate` knows nothing of. Frames are distinct per page,
so a store changes one page's content.

*Heap.* Lists are described locally, without paths: `NextIn(S, y, x)` says that x
is the least address of S above y. A major's minors are *chained* if `first`, every
`next` and every `prev` are what `NextIn` and `PrevIn` say of the set of headers in
that major. Insertion and removal then need four lemmas on ordered sets of
addresses (`InsertNext`, `InsertPrev`, `RemoveNext`, `RemovePrev`) and no induction.
Majors are not ordered by address; of their list `Linked` says that both directions
agree and that only the root has no predecessor, and `Ranked` that it does not go
round. `PadOK` and `LiveOK` lead a client's pointer to its header, as `free`
finds it; `EmptyOK` says that a major without blocks is the one that the running
`malloc` has just obtained, and that the request fits in it: otherwise the call
could return and leave it behind.
`PayloadsArePrivate` then follows from header arithmetic: a block's size includes
twice the alignment, which pays for the padding and the byte before the pointer.

*Heap, sizes.* `Counted` says that a major's `usage` is the sum of its blocks'
sizes, a fold over the set of their headers; `SumStep` and the lemmas on it say
what inserting, removing and resizing one block does to that sum. `malloc` skips a
major whose `usage` leaves no room, and looks at the gaps of the others one by one;
`NothingSkipped` says of a search that every gap it has passed is too small, and
every major it has passed has none. `Counted` makes the skipped ones full: if the sum
leaves no room for the request, no gap does. A search that starts at the best bet and
finds nothing starts again at the first major, so only the second one has to have
seen everything. `ListsAreSound` needs
`Inv`, `Counted` and that the majors are finitely many, so that the local
description of their list has an order.

*Keyboard.* `CodesInOrder` speaks of states between two calls of `pop`; the
invariant (`RingInv`) says what each instruction of `pop` relies on while a handler
may run: the code being taken lies just before `front`, where no interrupt
writes; the saved index is still `front` until it is stored; the count `size` may
fall behind the number of codes but never exceeds it (`SizeInv`), which is what
keeps `pop` from an empty buffer. All of that is the invariant (`Ordered`) as long
as no key has met a full buffer within a `pop`; the first one that does may break
it, and what holds whatever happens (`TypedInv`) is that `pop` returns codes that
were typed: when a key finds the buffer full, all other slots hold codes already,
so from then on none is unwritten. `ShiftInv` adds that the keys recorded as pressed
are those that were down at the last code read.

*Loader.* `RestInv` says that an object no call works on has all its runs or none,
and `CallInv` how far a call has come: a load has the segments before the next one,
and the cleanup list is exactly those; an unload has those from the next one on.
That segments of a loaded program begin on distinct pages comes from `palloc`
refusing a page that is mapped, and makes "frees once" true for the second half.

*Clock.* An undisturbed reader has the registers it has read as they were when it
began, the clock has not moved since, and a clock that has announced its update
still leaves as many reads as there are to come (`ReaderInv`). `CodesReadBack` is
the arithmetic of the register codes.

*Interrupts.* `TablesInv` says how far boot has filled the tables; `StackInv` which
frames can be on the stack: none, one of a line or of a program with the flag as
that frame left it, or a `read` that waits with one line's routine on it. The flag
is part of it because only a `read` has it on.

*Screen.* `Shows(con, p)` is `ScreenIsWindow` of any console and paper, with their
types. The video memory shows a character's own code and colour only up to the code 127;
`Displayed` is what it holds of any other. Every operation of the console is shown to keep it with the operation of the
pen it corresponds to, in particular scrolling (`ScrollShows`: moving the screen's
rows up is what appending a line to the paper does to the window). A text is a fold
on both sides, so both go through the same number of states, pairwise in
`Shows` (`TextShows`). The log's operations are sequences of these, while the
reference states them as a line replaced (a task) or overwritten at its end (a
result); `BlanksPenned`, `TaskShows` and `ResultShows` compare the lines that come
out.

*Panic.* `LaidOut` says of the first m lines which positions of the message they
end at: each line is the piece between two of them, not wider than the screen
allows, and broken in a word only if there is no space in it. The pieces put
together are the message up to the last position (`FlattenIs`). Without spaces that
is m full lines or all of the message, and `EstimateIs` says when the estimate is
enough for all of it and that it fits the rows.

*ATA driver.* `Phase` ties the drive to the driver: after a reset it is idle or
still resetting; while the driver polls, its last command was carried out, failed, is
under way with the chunk asked for, or was not heard because of a reset (`late`).
`ReadOK` says of a read that knows the sector size that the words before the chunk
are those of the disk, those from it on are untouched, and the increment is the
sector size as soon as there is a second chunk; `BeforeSize` that a buffer is fresh
until then. That the sector size does not change in between needs `SizeOK`: it is not
0 only in an identified drive, and such a drive is not identified again. The numbers in
packets and answers are read back by `PacketIsUnderstood` and `CapacityReadsBack`,
for every number of values of a byte.

*Files.* `FileInv` describes the reader: what its cache holds is the beginning of
the stream (`IsReader`), the stream's cells are those of the extent on the disk
unless a device read failed, `readAll` reads the byte behind the cache, and after it
the whole file is there. `ListInv` remembers that a listing was made of what was
read of the directory's extent; on an orderly directory the walk from record to
record finds all of them (`RecordsAre`). `FindInv` says that a search
that has taken k tokens is in the directory that these lead to (`Reached`, a
recursive function on the disk alone), and `MountInv` that the walk through the
descriptors does not pass the terminator and takes a root for the root.

*ArrayList.* The cells in use and the elements are compared one by one (`Shows`),
which is what the copying loops of `ArrayList` and `DynamicArray` preserve. Cells
behind those in use may hold no object; `Unconstructed` makes the calls that would
assign to them the end of what the theorem promises.

*BasicString.* Until a misuse every string is as it should be (`StringOK`: not
freed, and its size, cells and null character those of its text); a behaviour ends
at the first misuse (`StringInv`). For `insert`,
which writes character by character and doubles the block when it is full, this needs
the size of the block after n characters: the null character falls behind the block
only if the new size is the old capacity doubled some number of times.

*Text and formatted output.* `Differ` is the first difference by `Least`; the sign of
the difference there is the dictionary's order (`PrecedesAtStop`). memset of a value
of one byte writes a head, words and a tail that add up to what was asked
(`MemsetRight`). For
`printf` the invariant of the loop is that, as long as nothing upset it, the words
taken are all words of the arguments before the item; from the first 64-bit argument
on that is read as 32 bits fewer words were taken than passed, for good, so that no
later conversion gets its own. For `sys::print` the k-th input is shown at the k-th
conversion, counted by cardinality.

Each of these invariants was first checked by TLC on the small instance of its run.

### Only model-checked

* Liveness (`CountedCodesAreRead`, `CallsReturn` of the heap,
  `HeardCallsReturn`, `MountEnds`, `InterruptsAreServed`): the prover handles neither fairness nor ENABLED.
* `ListIsSequence`: releasing a node releases its successor, a recursion on the
  memory itself (a RECURSIVE operator), and the property follows lists whose nodes
  have two owners to their destruction.
* `TokensAreFields`: its reference sorts a set of runs with a CHOOSE over all
  sequences, and its second half cuts up again what was put together.
* `NumbersReadBack`: how many digits a number has is a statement about powers of
  its base, and the provers have no theory of exponentiation.
* `CommandAsTyped`: the keys that were not taken back are counted with operators
  as parameters.

## 6. Findings

1. `RingBuffer::pop` decrements `_size` with a load and a store; a key interrupt
   in between is not counted. "Returns the number of elements in the buffer"
   (`RingBuffer.hpp:93`) fails from then on, and the reader may halt with a code
   in the buffer until another key comes.
2. `RingBuffer`: "If an object is enqueued while the queue is full, the
   frontmost (oldest) object is erased to make room" (`RingBuffer.hpp:15`).
   `enqueue` erases it by moving `_front`, which `pop` may be about to move
   itself: after two keys within one `pop` of a full buffer the newest code is
   returned before the older ones, and once more in its turn.
3. `realloc`: "NULL if it failed (the original block is left intact)"
   (`stdlib.h:83`); the code frees the original block.
4. `unloadSegments`: "@return `true` if the segments are unloaded, `false`
   otherwise" (`Executable.hpp:84`); for a binary with an empty segment it
   panics.
5. `X86AtaDevice::softReset` "waits until master drive is ready again" (the
   comment at its calls, `X86AtaDevice.cpp:15` and `:41`). It does not; a packet
   command sent to a drive that is still resetting is lost, and the driver polls
   for ever.
6. `LinkedList::pop`: "Removes an element from the front of the List. @return
   The object." (`LinkedList.hpp:87`). With other elements in the list the node
   gets a second counter and is deleted before its value is moved out of it.
   `push` onto a list with elements and `popBack` (`:65`, `:146`) also give a
   node a second counter; no such list is destroyed without a use of freed
   memory.

The library contradicts more of its comments. What they say is stated in the
modules beside the properties of `system`, which leave these cases out, each under
the name given here. No run checks them; put in the place of `PopReturnsFront` in
`ListPop.cfg` (`ColorIsSet` in `LambOS.cfg`), TLC finds each violated.

* `RemoveTakesOne`. `LinkedList::remove`: "Removes the first element equal to
  `object`" (`LinkedList.hpp:186`). The list keeps a node that is deleted.
* `PushAdds`. `ArrayList`: "dynamically resized as needed" (`ArrayList.hpp:16`).
  `push` onto a list with elements and room for more shifts the whole block, and
  its last cell out of it.
* `InsertGrows`. `ArrayList::insert`: "growing its size" (`ArrayList.hpp:205`).
  A list without capacity, as one that was moved from, grows to twice nothing.
* `InsertKeepsNull`. `BasicString::insert`: "Appends a character to the end of
  the BasicString" (`BasicString.hpp:92`), and `cstr` is "null-terminated"
  (`:165`). The null character after the one that fills the block is written
  behind it.
* `AppendSelfDoubles`. `BasicString::append`: "Appends the provided BasicString"
  (`BasicString.hpp:179`). Of itself, when the block must grow, it reads the
  freed block.
* `EqualMeansEqual`. `operator==` of strings: "Equality operator"
  (`BasicString.hpp:333`). It compares the characters behind the first
  difference.
* `EqualViewsMeanEqual`. The same comment on string views
  (`StringView.hpp:108`): `strncmp` compares the characters behind the views.
* `PathReadsBack`. `Path::pathString`: "Returns the Path as a String"
  (`Path.hpp:29`). It leaves out delimiters: `a/a` becomes `aa`.
* `DigitsFit`. `to_string` in bases 8 to 15: "1 byte representable in 3 chars"
  (`String.hpp:130`). Below -99 it takes four.
* `FirstByteIsCopied`. `memset`: "copy first byte over the rest of the word's
  bytes" (`memset.cpp:44`). The other bytes of the value are or'ed with it.
* `BodyIsAligned`. `memset`: "the main (word-aligned) body" (`memset.cpp:53`).
  The head is as long as the pointer is past a word boundary, which leads to one
  only from 0 and 2.
* `ColorIsSet`. `setForegroundColor`: "Sets the foreground color for future
  writes" (`Console.hpp:11`). A character above 127 is white on white in any
  colour.

The following departs from what names suggest, and no comment, assertion or test
of the repository speaks of the case; the property named has it as a condition:

* `ArrayList`: move assignment assigns nothing (`ArrayIsSequence`).
* `BasicString`: a string moved from by assignment still points to a freed block;
  assigned to itself it becomes empty (`StringIsSequence`).
* `memset` of fewer bytes than the pointer is past a word boundary wraps around
  (`MemsetIsExact`); `printf` loses its place after a 64-bit argument other than
  `%lld` and `%lli` (`ConversionsGetTheirArguments`).
* `gets` has no limit, and a shell command behind spaces does not get its
  argument (`CommandAsTyped`).
* A panic message that must wrap at spaces may lose its end (`PanicShowsMessage`).
  The log's result covers the end of a task's text of nearly the full width
  (`ScreenIsWindow`). A clock that counts hours to 12 is misread
  (`TimeIsOneMoment`).

Read off the code and not checked: `unmaskIRQ` sets a line of the second
controller to 8 instead of subtracting 8 (`X86.cpp:108`), so that none of them can
be unmasked. `UnmaskIRQ` follows the code, but the kernel only unmasks the lines 0
and 1, and so does the model. `ArrayList::clear` does not destroy the elements, as
`DynamicArray.hpp:116` says of the array's ("destroying all contents"): destructors
are not modelled.

## 7. Not modelled

*Scheduler and processes*: `Scheduler.cpp` is in no build target and does not
compile against `Process` (it uses a member that is not there), and the body of
`X86Kernel::schedule` is commented out: there is no behaviour to model.
*C++ headers and ABI stubs*: resolved at compile time; `Maybe` carries results
and has no state of its own, `HashMap` is abstract and has no subclass,
`UniquePtr` and iterators are used where the models have values.
*Programs*: `proc_test` prints its arguments. *C library*: plain copies
(`memcpy`, `strcpy`, `strncpy`), character classes. *Scripts and build files.*
Assembly entry code, except for the order in which it calls. Within the modelled
parts: header parsing byte by byte, messages, statistics counters and the
diagnosis of invalid frees in liballoc, the move assignment of `Executable`
(no caller); the identity strings of a drive, `pioWrite` and `typeOf` (no
caller); the volume label, `mark`, `reset` and `skip` of a stream (no caller), and
the file operations that return -1 on a read-only file system.

## 8. Plan

Done: every component of section 1 but those of section 7 is modelled and checked;
all safety properties but the four named in section 5 are proved. What could be
added, in this order:

1. `AtaDevice` with drives that give smaller blocks than they were asked for, and
   `find` on directories of several sectors once the code handles them.
2. `TokensAreFields` and `CommandAsTyped` with references stated by positions
   instead of sorting and filtering, which the induction of section 5 would reach.
3. `ListIsSequence` for lists in which no node has a second owner, with `Release`
   as a function of the length of the chain.
