# Arcadia OS: specifications, model checking and proofs

Arcadia is a single-CPU x86_64 kernel written in Rust (`src/kernel/src`): a
bitmap physical memory manager, page tables, interrupt handlers, a polled
terminal fed by the keyboard interrupt, an ATA driver, FAT32 under a small VFS,
and a loader for one user program. This directory holds TLA+ models of its
parts, the TLC runs over small instances and TLAPS proofs that hold for every
instance. `PROJECT.json` maps every definition to the lines it models.

Everything runs on one CPU without a scheduler: there is one kernel thread, and
what interleaves with it is interrupts, exceptions and panics. The rest of what
is hard here is sequences of calls whose state must stay consistent (the
allocator's bitmap, count and hint), failure in the middle of an operation (disk
writes, process launch), and limits (a full ring, a full disk).

## 1. Inventory

| Part | State | Operations | Interacts with | What makes it correct |
|---|---|---|---|---|
| Physical memory manager (`memory/physmem.rs`) | static `BITMAP`, `allocated_frames`, hint `next_free`, statistics, memory map, reserved regions | `init`, `init_from_memmap`, allocate and free (one frame, a block), `reserve_region`, `set_validation`, `self_test` | called at boot, by the VMM, the process loader and the shell | no frame handed out twice; count equals bits set; a refused call changes nothing; non-RAM never allocatable |
| Virtual memory manager (`memory/vmm.rs`) | page tables, tracked regions | map, unmap, remap, regions | frames from the PMM | regions, statistics and tables agree after every call, also one that stops half way; no translation changes behind the caller's back |
| Keyboard path (`terminal/mod.rs` 6-37, `arch/idt.rs`) | ring of 256 bytes, atomic `HEAD`/`TAIL`, spin lock, interrupt flag, 8259 in-service bit | `push_scancode` in IRQ 1, `pop_scancode` in the polling loop | the terminal's `read_line` | bytes once each and in order; the handler never spins; the controller is always acknowledged |
| Console and panic (`vga_buffer.rs`, `serial.rs`, `panic.rs`, `arch/idt.rs`) | a spin lock per device, the interrupt flag, nested contexts | `_print`, the handlers that print, `panic_handler` | everything prints | no interrupt while a lock is held; a panic reports and halts |
| Timer (`time/mod.rs`, `interrupts/mod.rs`) | tick counter, PIC masks | tick; `sleep_ms` has no caller | printed by the shell | the controller is acknowledged |
| Line editor and shell (`terminal/mod.rs`) | input line, cursor, history | `read_line`, commands | ring, VFS, disk | line and history stay within 256 and 50; a command acts on the file it checked |
| FAT32 (`fs/fat32`) | allocation table, directory and file clusters on the disk | chains, allocation, directory entries, file data | block device; called by the VFS | no cluster in two chains; directories readable; damage and leaks only where a write failed |
| VFS (`fs/vfs/mod.rs`) | mounted volume, current directory, open files | `create_file`, `mkdir`, `delete`, `open`, `read`, `write`, `close`, path resolution | FAT32, shell | operations on files are all or nothing; an open file is written in its own clusters |
| ATA and block layer (`drivers/ata`, `block`) | device registers, reset state | identify, read, write, flush, three attempts, software reset | FAT32 | a success is the answer to this command, whatever was given up before; a written sector survives a power loss; every call ends |
| Processes and system calls (`process`, `elf`) | table of eight slots, page tables, stacks | parse, launch, entry; exit and system calls behind it | PMM, mapper, shell | every frame has one owner; a process runs only when all of it is mapped; the code that enters it stays mapped |
| MBR and PCI (`fs/mbr.rs`, `drivers/pci`) | none | parse | block layer | ranges inside the disk |
| CPU and memory information, version, heap, GDT, boot assembly | set up once | text for the shell | - | - |
| `boot/`, `editor/`, `flux/`, `libs/shared` | none | placeholders | not called by the kernel | - |

Hard to test here: the keyboard interrupt between any two accesses of
`pop_scancode`; an exception in the middle of a message; the hint after a mix of
frees, block allocations and reservations; a boot map whose entries share a
frame; an operation on the disk that stops between two sector writes; a volume
that fills up in the middle of an overwrite; an open file whose clusters were
freed and given to another; a launch that fails at its n-th step; a bulk mapping
that stops between two pages; a disk that answers a command that was given up. `PROJECT.json` lists them as hazards, each at its line.

## 2. Modules

| Module | Models | Composition |
|---|---|---|
| `FrameAllocator` | `PhysicalFrameAllocator` as operators on an allocator record | extended by `Pmm` and `PageTables`, whose calls compose several of its operators in one step |
| `Pmm` | `PhysicalMemoryManager`: boot paths, calls of clients | state machine over `FrameAllocator` |
| `FrameStore` | abstract: what a client may rely on | refined by `Pmm` |
| `PmmProofs` | theorems about `Pmm` | |
| `ScancodeRing` | keyboard controller, interrupt, handler, ring, polling loop | |
| `ScancodeQueue` | abstract: a bounded queue | refined by `ScancodeRing` |
| `RingProofs` | theorems about `ScancodeRing` | |
| `Console` | the two writers' locks, exception handlers, panic | |
| `ConsoleProofs` | theorems about `Console` | |
| `Fat32` | the volume and the VFS operations that change it | |
| `FileTree` | abstract: a tree of files | refined by `Fat32` |
| `Shell` | the file commands and the open files | extends `Fat32` |
| `Fat32Invariant` | the inductive invariants of `Fat32` and `Shell`, and what an operation does to them | extends `Shell` |
| `Fat32Proofs` | theorems about `Fat32` and `Shell` | extends `Fat32Invariant` |
| `PageTables` | the mapper of the `x86_64` crate (external) on four-level tables, and the tables of the boot code | operators over `FrameAllocator` |
| `Vmm` | `VirtualMemoryManager`: take-over of the boot tables, single-page and bulk calls | state machine over `PageTables` |
| `PageMap` | abstract: a partial map from pages to frames | refined by `Vmm` |
| `MemoryProofs` | what the operators of `FrameAllocator` and `PageTables` preserve and return | used by `PmmProofs`, `VmmProofs` and `ProcessProofs` |
| `VmmProofs` | theorems about `Vmm` | |
| `Process` | `cmd_run`, ELF parsing, the loader, the switch to the new tables | state machine over `PageTables` |
| `ProcessProofs` | theorems about `Process` | |
| `Ata` | the driver and the block layer, a device and its write cache | |
| `AtaProofs` | theorems about `Ata` | |
| `MCPmm`, `MCScancodeRing`, `MCConsole`, `MCFat32`, `MCShell`, `MCVmm`, `MCProcess`, `MCAta` | the instances of the runs | |

### Pmm and FrameAllocator

A call of the manager is one step: it is a `static mut` used by the single
kernel thread, and no handler allocates. `init_from_memmap` is one step for each
entry of the boot map, so that the order of its entries is visible; nothing else
can run in between. The bitmap is the set of frames whose bit is 1.
Addresses are counted in units, several to a frame, so that the outward
rounding of unaligned ranges happens. `allocated_frames` is a `usize`: additions
and subtractions wrap at `UsizeModulus`. The vectors of regions are sets (their
order and byte totals decide nothing). `reply` is what the last call returned.

The self-test is modelled by all of its steps, early returns included, because it
works on the live allocator: `init`, the boot path without a memory map, calls it
at its end, `init_from_memmap` does not, and it can be called again.

### ScancodeRing

One step for each access to shared state: the two loads of `push_scancode`, its
lock, its write, its store; the loads of `pop_scancode`, `cli`, lock, read, `sti`
and the store of `HEAD`. The handler runs through an interrupt gate, so while it
runs the terminal does not. A new interrupt of the line needs the flag set, the
in-service bit clear and a byte in the controller. The controller holds one byte
and is marked external, like the entry of the interrupt. Atomic accesses are
taken in program order: there is one CPU, and an interrupt is taken between two
instructions.

### Console

The CPU's stack of contexts, each with the list of messages it still has to
print. `without_interrupts` saves and restores the flag; the spin lock is a step
that is not enabled while the lock is held, so a context that waits for a lock
held below it on the stack waits for ever. A maskable interrupt needs the flag,
exceptions and panics do not, a second NMI is held back by the CPU. Cursor,
colours and scrolling are left out.

### Fat32

Shell commands run one at a time, so an operation is one step. What can happen
in the middle is that a sector write fails (the operation returns early) or that
the machine stops; both leave the writes made so far on the disk. The write that
fails may itself have landed: the driver also answers an error when the flush behind
the sector fails or times out (`FailureIsPrefix` of `Ata` allows one such sector).
Every operation therefore takes a number of half writes, in which an even number
ends before a sector and an odd one behind a sector that is reported as failed, and
runs through its writes in the order of the code: `Write` does nothing once the
operation has failed. `FileTree` says what a client can then conclude from an
answer: `Ok` means that the operation has happened, a refusal that it has not, an
error leaves open whether it has, and an overwrite may have torn its own file. A
block is a cluster of one sector with a few slots, each a directory entry or as
much text of a file. `view` and `damaged` are history variables: what reading
each path gives after the last operation, and whether a chain in use ever ran
into a cluster that the table gives as free.

The loops of the code (walking a chain, freeing it, allocating, writing and linking
the clusters of a file, following a path) are recursive functions over the number of
rounds, so that they can be proved about. `write_file_data` allocates all missing
clusters before it marks one, and `alloc_cluster` takes the first cluster that is
free: every round gives the same one, which is why the list of clusters repeats it.

Restrictions, each visible as a constant: `Stored` is what `set_name_83` leaves
of a name (the runs use names that fit 8.3, for which it is the identity);
`AnyParent` says whether clients pass paths that lead through a file; `Contents`
are of at most two clusters in the runs. Only the first copy of the table is
kept, since only it is read: a failure at the write of the second copy is a half
write, too, which has landed and is reported as failed. Clusters of several
sectors, the volume label and the checks on the boot sector are left out.

### Shell

`Shell` adds to `Fat32` the current directory (`cwd`), the table of open files and
the next descriptor number. A typed argument is a path with or without a slash in
front: `canonicalize` is the only place where the difference counts, and `stat`,
`open` and `cd` are the only callers that use it, since `resolve_parent` starts at
the root. `touch` and `rm` are one step, the question to `stat` and the change
that follows it: the lock on the VFS is released in between in `cmd_rm`, but
nobody else takes it. An open file is `[fd, path, writable, pos, size, cluster]`;
`write` goes through `write_file_data` from that cluster and then looks its path up
again to record the size. `read` never advances the position and changes nothing,
so it is not an action. `strayed` is a history variable: some file was written
through a descriptor that no longer named its file's first cluster or claimed
more of it than there was. The kernel calls `open`, `write` and `close` nowhere;
they are the VFS's interface for user programs to come. A write may be empty: at the
start of a file it rewrites the clusters with zeros and records a size only if the
descriptor knows one. `disk w` writes raw sectors below the file system
(terminal/mod.rs:569-606) and is left out: nothing is claimed of a volume that was
written to in this way. Paths with `.`, `..` (but
for `cd ..`) and double slashes are left out.

### PageTables, Vmm and Process

An address space is three maps: the frames of the tables by level and position,
the huge leaves by level and position, and the 4 KiB leaves by page; the frame of
its root is kept by its owner. `map_to` takes
the tables that are missing one by one from the allocator and stops at the first
one it does not get, keeping the others, as the crate does. The crate adds the
WRITABLE and USER_ACCESSIBLE flags of the call (`ParentBits`) to every entry it
passes, before it looks where the entry leads: a huge page in the way is an error,
but has those flags from then on (`create_next_table`). For an entry that leads to a
table this changes no translation that was promised, and its flags are left out.
Frames are reached at their physical address, through the mapping of
the boot code.

`Vmm` keeps beside the tables the list of regions and the statistics that
`validate` compares with a walk. A bulk call is one step made of its pages in
order (`EachPage`, a recursive function over the pages), with a return at the first
failure. `reply` holds the call, its result, the pages it named and the targets it
wanted for them; `PageMap` says by name which pages a call may map, lose or move, and
that a boot page may gain the flags of a call refused because of it, nothing else.
`others` are frames that the rest of
the kernel holds, so memory can run out between two tables of one call.

`Process` follows `launch_init_process` step by step; each step that can fail is an
early return that leaves what was taken. The two loops of the loader are recursive
functions, over the pages of a segment (`LoadSegment`) and over the headers of the
program (`LoadSegments`). A launch is one step (nothing else runs)
with the outcomes: refused, failed, panicked on a frame beyond the boot mapping,
or complete. The last step, `Start`, is `build_initial_kernel_stack`: the context goes
to the top of a stack of 8 KiB of which 4 KiB were allocated, so to the frame behind.
When a table lies there, of this address space or of one that a failed launch left,
`Overwritten` replaces its last entries by words of the context: two of them, the
selectors 0x2B and 0x23, are PRESENT and name frame 0, the others are not, and what
was reached through them is gone. What frame 0 holds (when a table is replaced by
it) is left out. `enter_user_mode` then loads CR3: the next instruction and the stack
must be mapped by the new tables, and they are not (`EntryIsMapped`), so
`TripleFault` resets the machine. System calls and `exit_process` can only run
behind that switch and are not modelled.

### Ata

One step for each command, poll, transfer and reset. The device (external) is busy
until it serves or fails the command, possibly for ever; a software reset does not
stop it at once, and a command written while it is busy is ignored. Written
sectors are in its cache until a flush, or until it writes them out by itself.
`PowerLoss` may strike anywhere. Sector numbers keep their two widths: 28 bits in
the registers and 32 in `lba + i`.

## 3. Runs

Passing runs:

| Run | Instance | States | Shows |
|---|---|---|---|
| `pmm` | 7 frames of 2 units, frames 0 and 2 reserved by the kernel, three boot maps and none, blocks of 0, 2, 3, 8, aligned and unaligned addresses | 67 thousand | `CountMatches`, `NextFreeIsFree`, `BootReservesNonRam`, `LargestBlockIsAllocatable`, `SelfTestIsNeutral`, `ImplementsFrameStore` |
| `scancode_ring` | 4 slots, 2 bytes | 34 thousand | `HandlerNeverSpins`, `ImplementsQueue`, `EveryByteReceived`, `KeyboardServed` |
| `console` | 2 preemptions of any of the six kinds, both devices | 28 thousand | `LockedMeansMasked`, `PanicStaysMasked`, `PanicReports` |
| `fat32` | 3 free clusters, 2 slots to a block, paths F, D and D/F, empty and two-cluster contents, one operation cut short at any write, which has landed or not | 49 thousand | `NoCrossLinks`, `DirectoriesWellFormed`, `DamageNeedsWindow`, `LeaksNeedFailure`, `ImplementsFileTree` |
| `vmm` | tables of 3 entries, 3 huge boot pages, 7 frames of which 3 are free, aligned and unaligned addresses, ranges over two tables and into a huge page, calls for the kernel and for the user | 33 thousand | `ValidateHolds`, `RegionsMatchTables`, `TakenFramesAreOwned`, `ImplementsPageMap` |
| `process` | tables of 6 entries, 16 sizes of memory, 6 programs, 2 slots | 14 thousand | `FramesHaveOneOwner`, `RunningIsComplete` |
| `ata` | 3 sectors, registers of 4 and words of 8, 3 attempts, 2 polls, 8 requests | 83 thousand | `ReadReturnsDisk`, `WriteIsDurable`, `FailureIsPrefix`, `CallsEnd` |
| `shell` | as `fat32` without failing writes; 2 opens, data of 2 slots and none, 4 other calls that change something | 120 thousand | `OpenFilesKeepVolume`, `CommandsLookFirst`, `WritesStayInFile`, `StaleNeedsReplacement` |

Bounds and why they are enough. In `pmm` frame 1 is a hole below a block in
which the self-test's four frames fit, so that the hint can pass free frames,
blocks can be too large, and the end of memory is reached; `MaxCounter` bounds the
failure counters, which no decision reads. Proofs lift the size. The ring of four slots becomes full, drops and wraps from every
position; proofs lift the size. Two preemptions reach a fault in a handler in a
message, and a fault in the panic handler; a third repeats a situation of two,
since an exception in the middle of a message already ends in a wait. In
`fat32` a directory is full with its two dot entries, so its first entry makes it
grow; a directory, its growth and a file fill the volume, so the table runs out
in every operation; `MaxWrites` exceeds the longest operation and `MaxFaults` is
one, after which every sequence of operations follows. In `vmm` a mapping may need
none to three new tables with at most three frames free; `MaxOps` bounds the pages
mapped and unmapped before a call, and one bulk call goes beyond it. In `process`
the memory ends after each of the frames a launch takes, once below and once above
the end of the boot mapping, and the programs reach each refusal and collision of
the loader. The context falls on a page table and on tables of higher levels, and
spoils the page of the kernel stack itself; in these instances it meets no table of
another address space, and no page of a segment or of the user stack is spoilt. The
proofs cover those cases. In `ata` two polls tell "ready at once", "ready later" and "never";
the requests contain each early return and both wrap-arounds. In `shell` two opens and
four more calls are enough to open two files, take one away, give its clusters to
another path and write twice; `MaxSize` lets a file cross into its second cluster, `MaxOpens` bounds
the descriptors. The run's VIEW leaves out `reply`, which no step and no property
but the type reads, and `view`, which is a function of the disk.

Every property of a passing run comes with a mutant of a definition (marked
`Mutant` in the modules) that breaks it.

Runs that end in a violation show where code and documentation disagree:

| Run | Property | What the code does |
|---|---|---|
| `pmm_none` | `NoneOnlyWhenFull` | `allocate_frames` moves the hint behind the block it took; `allocate_frame` only looks at the hint and answers `None` with lower frames free ("or `None` if no free frames remain", physmem.rs:596) |
| `console_fault` | `PageFaultHalts` | the page-fault handler avoids the VGA lock and then calls `panic!`, whose handler prints to the VGA first and spins (idt.rs:73) |
| `process_entry` | `EntryIsMapped` | the tables loaded by `enter_user_mode` map neither the kernel's code nor the page its stack pointer is in ("so kernel code/data remains accessible", process/mod.rs:107) |
| `fat32_parents` | `ParentsAreDirectories` | path resolution follows a file as if it were a directory; `NotADirectory` (vfs/mod.rs:28) is never returned |

### Fairness

`ScancodeRing`: weak fairness of the handler (code the CPU executes without
interruption); strong fairness of taking the interrupt (the CPU looks for one at
every instruction boundary with the flag set, and the polling loop switches the
flag off and on again and again); strong fairness of the terminal (handlers
preempt it again and again but return). Key presses are not fair: nobody needs to
press a key. `Console`: weak fairness of the running context, the CPU executes
instructions; preemptions are not fair. `Ata`: weak fairness of the driver's next
step, since the CPU executes it; the device owes nothing, and `CallsEnd` holds even
if it never answers. The other modules state no liveness.

The console's behaviours end, in `hlt` or in a wait for a lock, so deadlock is not
checked there; nor in `vmm` and `shell`, whose bounds on calls end every behaviour
(in the system, the `halt` command or a panic does). The other runs check it; in
`process` that is a claim of its own: after `entering` nothing but a reset follows.

## 4. Proofs

`PmmProofs` (for any number of frames, frame size, maps, calls and arguments):

- `TypeCorrect`, `HintIsFree`: no assumption beyond those on the constants. The
  inductive invariant `IInv` is `TypeOK` with `Sound`: the allocator is well typed
  and its hint free or at the end. `NextFreeIsFree` is not inductive alone, since
  `recalculate_next_free` and `Take` need the types and finiteness of the bitmap.
- `CountCorrect`, `SelfTestNeutral`, `Refinement`: under `Disciplined`, that is,
  clients never switch validation off and no boot map has a usable entry that
  touches a frame of an earlier reserved one. Both are needed: without validation
  a free of a free frame lowers the count, and a straddling map clears a bit
  without the count. The invariant `CInv` adds: count equals cardinality,
  validation on, `BootMapClear` (usable entries still to be read touch no set
  bit; this is what makes the count survive `mark_frames_free`), and nothing but
  the boot has answered before the manager is up. Each operator of
  `FrameAllocator` has its lemma (what it preserves and returns), and each action
  cites the lemmas of the operators it is built from. The self-test is the
  longest: after each of its steps the bitmap and count are related to those at
  its start.
- `Refinement` shows `Init => StoreInit` and maps every action to a step of
  `FrameStore` or a stutter.

`RingProofs` (for any ring size above one and any set of bytes):

- `RInv` = `TypeOK`, `CpuInv` (the interrupt flag and the lock are functions of
  the two program counters), `HandlerInv` (past its check the handler knows the
  ring is not full, and that the slot it wrote holds its byte), `TerminalInv`
  (past its check the terminal knows the ring is not empty, and its byte is the
  one at `HEAD`). The last two are needed because the queue of the refinement
  changes at the two index stores, long after the checks.
- `RingTypeCorrect`, `HandlerFindsLockFree`, `RingImplementsQueue` follow. The
  refinement rests on lemmas about `Contents` (what appending at `TAIL` and
  dropping at `HEAD` do to the sequence between two indices modulo the size).

`ConsoleProofs` (for any preemption depth and any set of devices the main thread
prints to):

- `ConsoleTypeCorrect`, `LocksAreMasked`, `PanicKeepsMasked`. `LockedMeansMasked`
  speaks of one flag and two locks, while what restores the flag is the value each
  nested `without_interrupts` has saved. `ConsoleInv` therefore adds to the type
  `StackInv` (only the bottom context is the kernel thread), `HolderInv` (a lock is
  held by the context that is writing to that device) and `FlagInv` (every context
  above the bottom runs with interrupts off and has saved "off"; the bottom has
  them off around a message). With it a handler's `without_interrupts` can only
  restore "off", and only the bottom context can switch the flag on, at a point
  where it holds no lock.

`AtaProofs` (for any disk, register widths, number of attempts and polls, requests):

- `AtaTypeCorrect`, `ReadsAreCorrect`, `WritesAreDurable`, `FailuresArePrefixes`.
  What a call reports depends on what the device did several commands ago, so
  `AtaInv` relates the two: `CommandInv` lists, for each program counter of the
  driver, the commands the device can be at. That is the argument against
  late answers: after a command was given up nothing but its own ending or the
  reset is left, and a data phase is always that of the present sector.
  `SectorInv` says how far the present sector has got (in the buffer, in the cache,
  on the medium), `CallInv` that the sectors before it are done and those behind it
  untouched, and `ReplyInv` that the report stays true after the call, when the
  device may still write its cache out or lose it with the power.

`MemoryProofs` (for any table size, any well-formed tables and allocator):

- `MapToCorrect`, `UnmapCorrect`: `map_to` adds this page or nothing, changes no
  other page and no huge page other than by flags, on the way to a refusal, and every
  frame it takes from the allocator is in a
  table of the result, whether or not it ends in an error; `unmap` removes this page
  or nothing. The lemmas below them are about the arithmetic of indices (a page lies
  below exactly one node of each level) and about one step of `create_next_table`.

`VmmProofs` (for any table size, huge boot pages, frames, addresses and ranges):

- `VmmTypeCorrect`, `ValidateCorrect`, `FramesAreOwned`, `RegionsCorrect`,
  `RefinesPageMap`. The invariant is `Good(v, a, o)`, of a manager, an allocator and
  the frames held elsewhere, rather than of the variables: it has to hold between
  two pages of a bulk call, where no state of the module is. Its parts: `TreeOK`
  (the huge pages are still those of the boot code, in their frames, with flags that
  have only grown, and the pages are finitely
  many; without it the count of mapped pages cannot be related to the tables),
  `ListOK` (the list holds exactly the regions of the 4 KiB pages and those the boot
  code's huge pages had at the start; `RegionsMatchTables` is its consequence), `CountOK` (the statistics are what `validate` counts) and
  `FramesOK` (the taken frames are the reserved ones, the tables and the others,
  no table shares a frame; this is stronger than `TakenFramesAreOwned`, because a
  frame that is handed out must be new to all three).
- Each of `map_page`, `unmap_page`, `remap_page` and the page of a bulk call keeps
  `Good`; the bulk calls follow by induction over the pages. The recursive
  functions behind them (`EachPage`, and `retain` on the list) are shown to exist
  and to satisfy their equations from the least number at which they would not,
  since the library's induction rule cannot be instantiated here.
- `RefinesPageMap`: huge pages keep their frames, so the abstract map is determined by
  the 4 KiB pages and by the flags that huge pages have gained; each action changes
  it as the `PageMap` step of the same name allows, on the pages it names, also when
  it stops half way. A bulk call stops at the first refusal, so all the flags that it
  has added to boot pages come from the page that was refused.
- Assumptions (`VmmAssumption`, evaluated by the `vmm` run): the three frames of
  the boot tables are among the reserved ones (physmem.rs:527-533 reserves
  0x1000-0x5000), the frames of RAM lie under the boot mapping, and the addresses
  passed lie in the address space.

`Fat32Proofs` (for any size of volume and block, names, paths, contents and number of
failing operations, paths through files included):

- `TypeCorrect`, `ShellTypeCorrect`: types. For the shell the invariant `ShellInv`
  adds that descriptors are records of known fields. Most of the work is in the
  loops: that the recursive functions exist and satisfy their equations is shown
  once (`Iteration`), from the least number at which they would not.
- `NoSharedClusters`, `OnlyWindowsDamage`: `NoCrossLinks` speaks of the clusters that
  paths reach, and is not inductive: an operation that stops half way, or the
  removal of a directory, leaves clusters that the table gives as used and that no
  path reaches. `Forest(d, L)` says of a set `L` of clusters: it has the root and
  is closed under the links of the table, none of it is free, each has at most one
  predecessor and the root has none; every entry in a block of `L` names no cluster
  or one that has no predecessor, and no two entries name the same one, or the root.
  Hence two chains meet only if they start alike (`ChainsApart`), and two paths lead
  to the same cluster only if they are the same (`PathsApart`). `ForestInv`: a volume
  that was never damaged has such a set. The set is chosen anew at each step:
  `DeleteForest` takes the chain of the removed entry out of it before it is freed,
  while what a removed directory held stays in it; `OverwriteForest`, `CreateForest`
  and `MakeDirectoryForest` add the new chain when its entry is written and not
  before. Each of them goes through the places where the operation can stop, and
  ends in a forest again or in one of the two windows of `DamageNeedsWindow`, where
  the damage is then visible (`DamageSeen`).
- `DirectoriesInOrder`: under the hypothesis that `set_name_83` keeps the names
  clients use; without it, it is false (two long names can be stored alike, see the
  observations). `Tidy(d, L)` adds to the forest that the slots of every directory
  named in `L` are in order. It has to speak of all of `L`, not only of what paths
  reach, and of a chain that grows by a block (`OrderlyGrown`).
- `OpenFilesKeepForest`: two of the three parts of `OpenFilesKeepVolume`, without the
  bounds of its run. A descriptor that has lost its file may write into any cluster,
  directories included, so the forest is an invariant only until one strays
  (`ShellForestInv`). A write through a descriptor that owns its file is the hard
  step: `write_file_data` allocates clusters without marking them, so it may get
  the same one several times, and it links them only after the data is written.
  `FileRewritten` says what is left wherever it stops: the blocks of its own chain
  have kept or lost their entries, no other block of the forest has changed, and the
  end of the chain may be linked to one cluster from outside the forest. A forest
  allows this (`RewrittenForest`), and the size which `update_file_size` then records
  belongs to an entry that is still the only one of its chain (`ForestSized`).
- `OpenFilesKeepRoom`: all of `OpenFilesKeepVolume`, for any volume, block size, paths
  and number of calls, under three hypotheses that the `shell` run meets too
  (`Bounded`): no sector write fails, contents take at most two clusters, and
  descriptors stay within two. Without the first and the second it is false: see the
  overwrite that stops and the file of three clusters in the observations.
  `Room(d, L)` adds to the forest that every file named in `L`, also one that no path
  reaches any more, has a cluster if it is not empty, and that its first cluster is
  linked to another if it is longer than a block. A file that is written gets its link
  from `WriteLinks` (`FileLinked`), unless the data is shorter than the file: a write
  at position 0 passes the data alone, but keeps the old size. Then the link was there
  before, because the descriptor owns its file and claims no more of it than there is,
  and is kept (`LongChain`, `OverlayLength`). This takes a bound on the sizes of the
  descriptors (`SmallFiles`), which is part of the inductive invariant.
- `VolumeIsFileTree`: `Fat32` implements `FileTree`, sector writes that fail included,
  under three hypotheses that the `fat32` run meets too: `set_name_83` keeps the names
  clients use, clients look at the parent first (`AnyParent` is FALSE), and contents
  take at most two clusters. Without any one of them it is false (see the observations
  and the run `fat32_parents`). The invariant `TreeInv` adds to the forest that nothing
  is found in the chain of a file (`Barren`): resolution follows a file as if it were a
  directory, so a removed or overwritten file could otherwise take other paths with
  it. The argument has three layers. An operation changes one slot (`PlacedEdited`),
  or adds an entry to a directory that has room or grows by a block (`AddedTree`),
  and leaves every chain alone that is neither the directory's nor the object's own.
  So it edits one name (`Edited`): by induction over the length of paths, no other path
  leads anywhere else, and what is beneath the edited one is absent (`EditedTree`).
  What the path itself then shows is the data, because the blocks of a new file hold
  it once every write of `write_file_data` has succeeded (`FileHolds`).
- `LeaksOnlyByFailure`: `LeaksNeedFailure` for any volume and contents of any size, under
  the first two of these hypotheses. Both are needed: a long name is stored as another
  one, under which no client looks for the chain, and a file with entries beneath it
  takes their chains along. The argument counts clusters: a chain that
  `allocate_and_write` has completed holds every cluster it marked, also where it got
  one cluster several times (`NewFileClaims`), a directory that grows holds the one it
  grew by (`Gains`), and what `free_chain` frees is all of the old chain (`Keeps`).
  Since every other path keeps its chain (`EditedKept`) and nothing is beneath a file
  (`Barren`), a cluster that is lost after the step was lost before (`ThriftyEdit`).

`ProcessProofs` (for any program, size of memory, table size and number of slots):

- `ProcessTypeCorrect`, `LaunchesOwnTheirFrames`, `EnteredIsComplete`. The inductive
  invariant `ProcInv` is the three properties together with three facts none of them
  gives: the allocator is `Sound` (its hint is free or at the end, so a grant is a
  frame nobody has), the `pml4_phys` of every slot is `NoFrame` or the root of an
  address space that is kept, and no address space of the loader has a huge page.
  The second is needed because a failed launch leaves the
  slot unused with the fields it has set: the next launch starts from that slot, and
  only a root it has really replaced adds an address space. The properties hold in a
  strict form (no entry names frame 0, all taken frames but the lost ones are in
  tables) except between the context and the reset that follows it, which is why the
  they distinguish `control = "entering"`.
- A launch is one step of the module made of many of the loader, so the argument is
  about the loader's record, relative to the frames `base` that were taken before it.
  `Accounted`: the new address space owns its frames alone and at most one frame was
  taken besides; `Building` (between two pages) says that there is none, `Obtained`
  (a frame in hand, not yet mapped) that there is exactly one. This is where "at most
  one frame per failed launch" comes from. `Loads` adds which pages a stretch of the
  program has mapped, and with which flags. Each of `Obtain`, `map_user_page`,
  `LoadPage`, `MapUserStack`, `MapKernelStack`, `Start` has its lemma; both loops are
  shown to exist and to keep `Loads` from the least number at which they would not.
- Assumptions (`ProcessAssumption`, evaluated by the `process` run): frame 0 is
  reserved, which makes it usable as `NoFrame` (physmem.rs:519-524 reserves the first
  megabyte), and the page of the user stack and the end of every segment lie in the
  address space.

`PmmProofs` also has `LargestBlockServed`, without an assumption on the clients
(right behind the boot, the largest free block that the statistics announce can be
allocated: `LInv` says that the hint hides no block that long. After a boot map that
is so because the hint is the lowest free frame; after the fallback the self-test
has moved the hint, but only past runs shorter than the block it took), and `BootReserves`, under `Disciplined`
(`BInv`: what has been read of the boot map as reserved is held, up to the end of
the boot).

Only model-checked:

- the liveness properties `EveryByteReceived`, `KeyboardServed`, `PanicReports`,
  `CallsEnd`: the prover does not handle fairness;
- of `Shell`: `WritesStayInFile`, `StaleNeedsReplacement` and `CommandsLookFirst`,
  which compare what two states hold under every path, also after a descriptor has
  strayed: from then on the forest that the proofs about `Fat32` rest on is gone.

## 5. Observations without a run

- `init_standard_reservations` does not reserve 0x200000-0x3FFFFF although the
  layout documented in `physmem.rs` gives that range to the kernel.
- A boot map that straddles also breaks the count: the bit is cleared without
  `allocated_frames`.
- A file of three or more clusters loses all but its first and last: 
  `write_file_data` allocates the missing clusters before it marks any of them,
  so `alloc_cluster` returns the same one each time. Five slots in `Contents`
  make TLC report it as a violation of `ImplementsFileTree`. The shell's input
  line is shorter than a cluster; descriptor writes can reach it.
- Names that do not fit 8.3 are truncated when stored and compared in full when
  looked up, so such a file is never found again and each `create_file` adds
  another entry.
- `..` always leads to the root: `read_dir_entries` leaves out the dot entries in
  which `resolve_path` looks for it.
- An overwrite frees the old chain before it allocates the new one, so an
  overwrite that fails, for lack of space as well, loses the old content, and
  leaves an entry over free clusters (`DamageNeedsWindow` states exactly when).
  If a sector write fails after the old first cluster has been allocated again, no
  chain runs into a free cluster any more, but the entry still claims the old size.
- The counts of the allocator's statistics are written at boot only, although
  they are documented as current ("Number of frames currently free",
  physmem.rs:299). A RAM entry of a boot map that begins inside the last frame of
  a reserved entry frees that frame again ("Mark non-usable regions as reserved",
  physmem.rs:954); `pmm` uses maps without such an overlap.
- With a current directory other than the root, `touch f` asks for the `f` of that
  directory and, when it is absent, empties the `f` of the root; `rm f` may examine
  a file and remove a directory of the root with its contents, although it answers
  "cannot remove directory" (terminal/mod.rs:802) elsewhere. `cd` accepts a file.
  `CommandsLookFirst` states the condition under which neither happens.
- An open file that was removed or overwritten keeps writing into its old
  clusters, whoever has them now, and records its size at its path. A file that was
  empty when another system wrote it has no cluster: a write through a
  descriptor goes to clusters that no entry names. `read` takes `&self` and never
  advances the position, so a caller that reads until nothing comes never ends. The
  first write of a descriptor replaces the rest of the file by zeros.
- A `map_page` that is refused because a huge page of the boot code is in the way has
  given that page the call's WRITABLE and USER_ACCESSIBLE flags, while its region in
  the list keeps the old ones ("Page table flags for this mapping", vmm.rs:147): a
  refused mapping for the user makes a kernel page accessible to the user.
  `RegionsMatchTables` makes the exception for it.
- `unmap_region` drops the result of every page; `identity_map` takes a page that is
  mapped elsewhere for done; a remap that finds no memory has lost the page.
  `page_table_frames` is never updated. The PRESENT flag is documented as implied
  (vmm.rs:344), but neither `map_page` nor the mapper adds it: the model's calls pass
  it.
- Frames are cleared and tables are walked at physical addresses, of which the
  boot code maps the first 6 MiB: the loader panics at the first frame above.
- The loader takes one page for a kernel stack of 8 KiB ("(4 KiB, single page)",
  process/mod.rs:213) and writes the initial context into the frame behind it, for
  the shipped program the page table it has just made: the selectors become two
  present entries that map frame 0. The model does the same, and the exceptions in
  `FramesHaveOneOwner` and `RunningIsComplete` say what it comes to; without them TLC
  reports both as violated. Of the user stack only the
  lower page is mapped, while `rsp` starts at its top. A segment with more than a
  page of file data is copied wrongly or panics (process/mod.rs:178), and two
  segments that share a page make the launch fail.
- Behind the switch, which no behaviour reaches: `free_user_page_tables` frees
  leaves and keeps the tables, contrary to its comment (process/mod.rs:66, 95);
  `exit_process` frees the two stacks a second time; exited slots are not reused;
  every pid is 0.
- `software_reset` of the ATA driver does not wait for the end of the reset, so the
  next attempt's command may be ignored and the attempt be wasted, at boot the
  device be missed. Sector numbers of 2^28 and more reach another sector without
  an error.
- No run executes clusters of several sectors, and no property covers the second
  copy of the table.

## 6. Plan

1. Done: `FrameAllocator`, `Pmm` and `ScancodeRing` with proofs; `Console`;
   `Fat32`; `Shell`; `PageTables` with `Vmm` and `Process`; `Ata`.
2. Done: proofs of the safety properties of `Pmm`, `ScancodeRing`, `Console`, `Ata`,
   `Vmm`, `Process` and `Fat32`, and of four refinements.
   `Fat32` and `Shell`: types, no shared clusters, directories in order, that
   damage needs one of the two windows, room for every file, the file tree, and
   that what succeeds loses no space.
3. `LineEditor`: line, cursor and history against an abstract string. The line is
   bounded by 256 characters and the history by 50 lines.

### Not modelled

CPUID and memory information (text, written once), the heap (the library's
algorithm), the GDT and boot assembly (straight-line set-up; the page tables it
leaves are `BootSpace`), the placeholder crates, host-side tools in `tools/`, PCI
enumeration and the partition table (registers and one sector read into a list),
the clock (`sleep_ms` has no caller and the tick count is only printed), system
calls and process exit (they cannot be reached, see `Process`).
