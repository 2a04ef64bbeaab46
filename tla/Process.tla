------------------------------ MODULE Process -------------------------------
(***************************************************************************)
(* The shell's `run' command (cmd_run in kernel/src/terminal/mod.rs) and   *)
(* the process loader behind it (kernel/src/process/mod.rs, pcb.rs and     *)
(* kernel/src/elf/mod.rs): launch_init_process builds page tables for the  *)
(* embedded program, with a return at each step that can fail, and         *)
(* enter_user_mode loads them.                                             *)
(*                                                                         *)
(* The kernel runs at its physical address, under the boot code's mapping. *)
(* An access outside it is a page fault, whose handler panics.             *)
(* create_user_page_tables leaves that mapping out of the new tables, so   *)
(* the instruction behind the write of CR3 cannot be fetched, nor can any  *)
(* handler: the processor resets.  What would run after the switch         *)
(* (system calls, exit_process) is therefore not part of the model; that   *)
(* nothing else can follow `entering' is checked as absence of deadlock.   *)
(*                                                                         *)
(* Addresses are in units, FrameSize of them to a page.  A frame is named  *)
(* by its number; the pid, which is 0 in every slot, the entry point,      *)
(* which is taken to be even, and the contents of pages are left out; what *)
(* the frame of a page table holds is not.                                 *)
(***************************************************************************)
EXTENDS PageTables, Sequences

CONSTANTS
  MaxProcesses,            \* MAX_PROCESSES
  KernelRW, UserRO, UserRW,\* the flags of the three kinds of pages
  UserStackTop, UserStackSize, KernelStackSize,
  ContextSize,             \* of the initial context on the kernel stack
  ContextEntries,          \* entries of a page table as long as it: 492 .. 511
  SelectorEntries,         \* those of its words that would be PRESENT: 508, 511
  KernelPages,             \* where the kernel's code lies
  Images,                  \* programs that a build may embed
  MemorySizes,             \* frames of RAM that a machine may have
  MaxFailed,               \* bound on failed launches between two boots
  MaxOthers                \* bound on frames held elsewhere

VARIABLES
  init_elf,        \* INIT_ELF: the program of this build
  ram,             \* frames of RAM of this machine
  table,           \* PROCESS_TABLE
  spaces,          \* the address spaces in memory, by the frame of the PML4
  frame_allocator, \* the PMM
  others,          \* frames that the rest of the kernel holds
  failed,          \* launches that failed since the boot
  control          \* "shell", "entering" (enter_user_mode) or "halted"

machine == <<init_elf, ram>>

vars == <<machine, table, spaces, frame_allocator, others, failed, control>>

Slots == 1 .. MaxProcesses

Segment ==
  [loadable: BOOLEAN, inside: BOOLEAN, vaddr: Nat, memsz: Nat, filesz: Nat,
   offset: Nat, writable: BOOLEAN]

ASSUME ProcessAssumption ==
  /\ MaxProcesses \in Nat \ {0} /\ ContextSize \in Nat \ {0}
  /\ {KernelRW, UserRO, UserRW} \subseteq Flags
  /\ UserStackTop \in Nat /\ UserStackSize \in 1 .. UserStackTop
  /\ (UserStackTop - UserStackSize) \div FrameSize \in Page
  /\ 0 \in StandardFrames
  /\ KernelStackSize \in Nat /\ ContextSize < KernelStackSize
  /\ SelectorEntries \subseteq ContextEntries
  /\ ContextEntries \subseteq 0 .. Fanout - 1
  /\ KernelPages \subseteq MappedPages(BootSpace)
  /\ \A image \in Images :
       /\ image.headers \in Seq(Segment)
       /\ \A h \in Range(image.headers) :
            (h.vaddr + h.memsz) \div FrameSize \in Page
  /\ MemorySizes \subseteq 1 .. TotalFrames
  /\ MaxFailed \in Nat /\ MaxOthers \in Nat

NoFrame == 0

EMPTY == [state |-> "Unused", kernel_rsp |-> 0, pml4_phys |-> NoFrame,
          kernel_stack_phys |-> NoFrame, user_stack_phys |-> NoFrame]

(* The kernel can access frame f at its physical address. *)
Accessible(f) == translate(BootSpace, f) # {}

(***************************************************************************)
(* parse_elf: which headers are loadable segments, none if the program is  *)
(* refused.                                                                *)
(***************************************************************************)
MaxHeaders == 4

parse_elf(image) ==
  IF \/ ~image.valid
     \/ Len(image.headers) > MaxHeaders
     \/ \E h \in Range(image.headers) : ~h.inside
    THEN {}
    ELSE {i \in DOMAIN image.headers : image.headers[i].loadable}

(***************************************************************************)
(* The loader's steps, on l = [space, allocator, frame, proc, error], of   *)
(* which frame is the last one obtained.  Once a step has failed the rest  *)
(* does nothing.                                                           *)
(***************************************************************************)
Obtain(l) ==
  LET got == allocate_frame(l.allocator)
  IN  IF l.error # "None" THEN l
      ELSE IF got.granted = {}
        THEN [l EXCEPT !.allocator = got.allocator, !.error = "OutOfMemory"]
      ELSE [l EXCEPT !.allocator = got.allocator, !.frame = Min(got.granted),
              !.error = IF Accessible(Min(got.granted)) THEN @ ELSE "panic"]

map_user_page(l, page, flags) ==
  LET m == map_to(l.space, l.allocator, page, l.frame, flags)
  IN  IF l.error # "None" THEN l
      ELSE [l EXCEPT !.space = m.space, !.allocator = m.allocator,
              !.error = IF \A f \in Range(m.space.tables) : Accessible(f)
                          THEN m.error ELSE "panic"]

(* copy_end falls behind copy_start in the last pages of a segment of      *)
(* several; a slice with such bounds panics, as one out of the image does. *)
CopyPanics(image, seg, i) ==
  LET copy_start == i * FrameSize
      copy_end   == Min({copy_start + FrameSize, seg.filesz - copy_start})
  IN  /\ copy_start < seg.filesz
      /\ copy_end < copy_start \/ seg.offset + copy_end > image.size

(* Mutant: the address is taken for the number of its page. *)
LoadPage_unscaled(l, image, seg, i) ==
  map_user_page(Obtain(l), seg.vaddr + i * FrameSize, UserRW)

LoadPage(l, image, seg, i) ==
  LET got == Obtain(l)
  IN  IF got.error = "None" /\ CopyPanics(image, seg, i)
        THEN [got EXCEPT !.error = "panic"]
        ELSE map_user_page(got, (seg.vaddr + i * FrameSize) \div FrameSize,
                           IF seg.writable THEN UserRW ELSE UserRO)

PageCount(seg) == (seg.memsz + FrameSize - 1) \div FrameSize

LoadSegment(l, image, seg) ==
  LET done[n \in 0 .. PageCount(seg)] ==
        IF n = 0 THEN l ELSE LoadPage(done[n - 1], image, seg, n - 1)
  IN  done[PageCount(seg)]

LoadSegments(l, image) ==
  LET done[n \in 0 .. Len(image.headers)] ==
        IF n = 0 THEN l
        ELSE IF n \in parse_elf(image)
          THEN LoadSegment(done[n - 1], image, image.headers[n])
        ELSE done[n - 1]
  IN  done[Len(image.headers)]

UserStackPage == (UserStackTop - UserStackSize) \div FrameSize

MapUserStack(l) ==
  LET m == map_user_page(Obtain(l), UserStackPage, UserRW)
  IN  IF m.error # "None" THEN m
      ELSE [m EXCEPT !.proc.user_stack_phys = m.frame]

(* Mutant: the result of map_user_page is dropped. *)
MapKernelStack_unchecked(l) ==
  LET got == Obtain(l)
      top == got.frame * FrameSize + KernelStackSize
      m   == map_user_page([got EXCEPT !.proc.kernel_stack_phys = got.frame,
                                       !.proc.kernel_rsp = top],
                           got.frame, KernelRW)
  IN  IF got.error # "None" THEN got ELSE [m EXCEPT !.error = "None"]

(* The slot names the kernel stack before the stack is mapped. *)
MapKernelStack(l) ==
  LET got == Obtain(l)
      top == got.frame * FrameSize + KernelStackSize
  IN  IF got.error # "None" THEN got
      ELSE map_user_page([got EXCEPT !.proc.kernel_stack_phys = got.frame,
                                     !.proc.kernel_rsp = top],
                         got.frame, KernelRW)

(***************************************************************************)
(* build_initial_kernel_stack writes the context below the top of a stack  *)
(* of KernelStackSize, into a frame behind the one that was allocated.  If *)
(* that is a page table, words of the context take the place of its last   *)
(* entries: most are not PRESENT, the selectors 0x2B and 0x23 are, and     *)
(* name frame 0.  The root of a space is its table <<4, 0>>, an entry of   *)
(* level 0 is a page; what frame 0 holds is left out.                      *)
(***************************************************************************)
Entry(n, j) == <<n[1] - 1, n[2] * Fanout + j>>

(* The pages that are reached through the entries of a table written over. *)
Spoilt(n) ==
  UNION {IF n[1] = 1 THEN {Entry(n, j)[2]} ELSE PagesBelow(Entry(n, j)) :
           j \in ContextEntries}

Struck(space, n) ==
  LET present == {Entry(n, j) : j \in SelectorEntries}
      tables  == IF n[1] = 1 THEN {} ELSE present
      pages   == IF n[1] = 1 THEN {e[2] : e \in present} ELSE {}
      spared  == {m \in DOMAIN space.tables :
                    m[1] >= n[1] \/ ~(PagesBelow(m) \subseteq Spoilt(n))}
  IN  [space EXCEPT
         !.tables = [m \in spared \cup tables |-> IF m \in tables THEN 0 ELSE @[m]],
         !.pages  = [p \in (DOMAIN @ \ Spoilt(n)) \cup pages |->
                       IF p \in pages THEN [frame |-> 0, flags |-> KernelRW]
                       ELSE @[p]]]

TablesIn(space, root, frame) ==
  {n \in DOMAIN space.tables : space.tables[n] = frame}
  \cup {n \in {<<4, 0>>} : root = frame}

(* What becomes of an address space when the context is written to frame.  *)
Overwritten(space, root, frame) ==
  LET hit == TablesIn(space, root, frame)
  IN  IF hit = {} THEN space ELSE Struck(space, CHOOSE n \in hit : TRUE)

ContextFrame(proc) == proc.kernel_rsp \div FrameSize

Start(l) ==
  LET proc == [l.proc EXCEPT !.kernel_rsp = @ - ContextSize, !.state = "Running"]
  IN  IF l.error # "None" THEN l
      ELSE IF ~Accessible(ContextFrame(proc)) THEN [l EXCEPT !.error = "panic"]
      ELSE [l EXCEPT !.proc = proc,
              !.space = Overwritten(@, proc.pml4_phys, ContextFrame(proc))]

(* The kernel's half of the PML4 is copied, which the boot code leaves     *)
(* empty: all it maps lies in the first entry.                             *)
create_user_page_tables(l) ==
  LET got == Obtain(l)
  IN  IF got.error # "None" THEN got
      ELSE [got EXCEPT !.space = EmptySpace, !.proc.pml4_phys = got.frame]

(* Mutant: a launch that fails gives the PML4 back, and nothing else. *)
Launch_freeing(l, image) ==
  LET done == Start(MapKernelStack(MapUserStack(LoadSegments(
                create_user_page_tables(l), image))))
  IN  IF done.error \in {"None", "panic"} THEN done
      ELSE [done EXCEPT !.allocator =
              free_frame(@, done.proc.pml4_phys * FrameSize).allocator]

Launch(l, image) ==
  Start(MapKernelStack(MapUserStack(LoadSegments(
    create_user_page_tables(l), image))))

-----------------------------------------------------------------------------
(* The kernel's own frames, and those behind RAM, which the code leaves    *)
(* out of total_frames instead: the allocator hands out neither.           *)
Reserved == StandardFrames \cup ram .. TotalFrames - 1

Boot == reserve_frames(new, Reserved)

Booted(t, s, a, o, n, c) ==
  /\ t = [slot \in Slots |-> EMPTY]
  /\ s = NoEntry /\ a = Boot /\ o = {} /\ n = 0 /\ c = "shell"

Init == /\ init_elf \in Images /\ ram \in MemorySizes
        /\ Booted(table, spaces, frame_allocator, others, failed, control)

(* The context may also strike a table that a failed launch left behind.   *)
Elsewhere(l) ==
  IF l.error # "None" THEN spaces
  ELSE [r \in DOMAIN spaces |-> Overwritten(spaces[r], r, ContextFrame(l.proc))]

(* A launch that fails after it has its PML4 leaves everything it took,    *)
(* and the slot unused with the fields it has set.                         *)
Ends(slot, l) ==
  /\ frame_allocator' = l.allocator
  /\ table' = [table EXCEPT ![slot] = l.proc]
  /\ spaces' = IF l.proc.pml4_phys \in {NoFrame, table[slot].pml4_phys}
                 THEN Elsewhere(l)
                 ELSE With(Elsewhere(l), l.proc.pml4_phys, l.space)
  /\ failed' = IF l.error = "None" THEN failed ELSE failed + 1
  /\ control' = CASE l.error = "None"  -> "entering"
                  [] l.error = "panic" -> "halted"
                  [] OTHER             -> "shell"

Attempt(slot) ==
  Ends(slot, Launch([space |-> EmptySpace, allocator |-> frame_allocator,
                     frame |-> NoFrame, proc |-> table[slot],
                     error |-> "None"], init_elf))

Unused == {slot \in Slots : table[slot].state = "Unused"}

CmdRun ==
  /\ control = "shell" /\ failed < MaxFailed
  /\ IF parse_elf(init_elf) = {} \/ Unused = {}
       THEN failed' = failed + 1
            /\ UNCHANGED <<table, spaces, frame_allocator, control>>
       ELSE Attempt(Min(Unused))
  /\ UNCHANGED <<machine, others>>

(* enter_user_mode takes the first running process. *)
Entering == Min({slot \in Slots : table[slot].state = "Running"})

(* The code behind the write of CR3 and the stack that it pops are where   *)
(* they were.                                                              *)
EntryMapped(proc) ==
  \A p \in KernelPages \cup {ContextFrame(proc)} :
    \E t \in translate(spaces[proc.pml4_phys], p) : t.frame = p

Reboot == /\ Booted(table', spaces', frame_allocator', others', failed', control')
          /\ UNCHANGED machine

TripleFault ==
  /\ control = "entering" /\ ~EntryMapped(table[Entering])
  /\ Reboot

(* The operator restarts the machine, after a panic or from the shell. *)
PowerCycle == control \in {"halted", "shell"} /\ Reboot

TakeElsewhere ==
  LET got == allocate_frame(frame_allocator)
  IN  /\ control = "shell" /\ Cardinality(others) < MaxOthers
      /\ got.granted # {}
      /\ frame_allocator' = got.allocator
      /\ others' = others \cup got.granted
      /\ UNCHANGED <<machine, table, spaces, failed, control>>

GiveElsewhere(f) ==
  /\ control = "shell"
  /\ frame_allocator' = free_frame(frame_allocator, f * FrameSize).allocator
  /\ others' = others \ {f}
  /\ UNCHANGED <<machine, table, spaces, failed, control>>

Next == \/ CmdRun
        \/ TripleFault
        \/ PowerCycle
        \/ TakeElsewhere
        \/ \E f \in others : GiveElsewhere(f)

Spec == Init /\ [][Next]_vars

-----------------------------------------------------------------------------
ProcessControlBlock ==
  [state: {"Unused", "Running"}, kernel_rsp: Nat, pml4_phys: Frames,
   kernel_stack_phys: Frames, user_stack_phys: Frames]

(* Slots, address spaces and the allocator have their types. *)
TypeOK ==
  /\ init_elf \in Images /\ ram \in MemorySizes
  /\ table \in [Slots -> ProcessControlBlock]
  /\ DOMAIN spaces \subseteq Frames
  /\ \A s \in Range(spaces) : WellFormed(s)
  /\ frame_allocator \in Allocator
  /\ others \subseteq Frames /\ failed \in 0 .. MaxFailed
  /\ control \in {"shell", "entering", "halted"}

LeafFrames(space) == [p \in DOMAIN space.pages |-> space.pages[p].frame]

Entries(space) == Range(space.tables) \cup Range(LeafFrames(space))

Owned(root, space) == {root} \cup (Entries(space) \ {NoFrame})

NamedOnce(f) == \A x, y \in DOMAIN f : f[x] = f[y] /\ f[x] # NoFrame => x = y

(* No two entries of an address space name the same frame but frame 0. *)
Distinct(root, space) ==
  /\ NamedOnce(space.tables) /\ NamedOnce(LeafFrames(space))
  /\ Range(space.tables) \cap Range(LeafFrames(space)) \subseteq {NoFrame}
  /\ root \notin Entries(space)

OwnedBySpaces == UNION {Owned(r, spaces[r]) : r \in DOMAIN spaces}

(* Every entry of every address space ever built since the boot, those of  *)
(* failed launches (process/mod.rs:154) included, has a frame of its own,  *)
(* which stays taken and which nobody else gets; and a failed launch loses *)
(* sight of at most one frame, the one it could not map.  Only the initial *)
(* context of a launch that is complete can make entries that name frame   *)
(* 0, or lose others.                                                      *)
FramesHaveOneOwner ==
  /\ \A r \in DOMAIN spaces :
       /\ Distinct(r, spaces[r])
       /\ \A q \in DOMAIN spaces \ {r} :
            Owned(r, spaces[r]) \cap Owned(q, spaces[q]) = {}
  /\ OwnedBySpaces \cap others = {} /\ (OwnedBySpaces \cup others) \cap Reserved = {}
  /\ OwnedBySpaces \cup others \cup Reserved \subseteq frame_allocator.bitmap
  /\ control # "entering" =>
       /\ \A r \in DOMAIN spaces : NoFrame \notin Entries(spaces[r])
       /\ Cardinality(frame_allocator.bitmap \ (OwnedBySpaces \cup others \cup Reserved))
            <= failed

SegmentPages ==
  UNION {{(init_elf.headers[n].vaddr + i * FrameSize) \div FrameSize :
            i \in 0 .. PageCount(init_elf.headers[n]) - 1} :
           n \in parse_elf(init_elf)}

(* A slot is Running only on the way to enter_user_mode, which takes the   *)
(* first one it finds (process/mod.rs:249).  All that launch was to map is *)
(* then mapped, to the frames the slot names, the program for the user and *)
(* the kernel stack for the kernel only, save where its own context has    *)
(* gone over the entries (pcb.rs:87); what stands there instead maps frame *)
(* 0, and that for the kernel only.                                        *)
RunningIsComplete ==
  /\ (control = "entering") <=> \E slot \in Slots : table[slot].state = "Running"
  /\ control = "entering" =>
       LET proc   == table[Entering]
           space  == spaces[proc.pml4_phys]
           pages  == space.pages
           spoilt == UNION {Spoilt(n) : n \in
                              TablesIn(space, proc.pml4_phys, ContextFrame(proc))}
       IN  /\ {slot \in Slots : table[slot].state = "Running"} = {Entering}
           /\ DOMAIN pages \ spoilt =
                (SegmentPages \cup {UserStackPage, proc.kernel_stack_phys}) \ spoilt
           /\ UserStackPage \notin spoilt =>
                pages[UserStackPage] =
                  [frame |-> proc.user_stack_phys, flags |-> UserRW]
           /\ proc.kernel_stack_phys \notin spoilt =>
                pages[proc.kernel_stack_phys] =
                  [frame |-> proc.kernel_stack_phys, flags |-> KernelRW]
           /\ \A p \in SegmentPages \ spoilt : pages[p].flags \in {UserRO, UserRW}
           /\ \A p \in DOMAIN pages \cap spoilt :
                pages[p] = [frame |-> NoFrame, flags |-> KernelRW]

(* "The kernel stack is accessible because it was identity-mapped in the   *)
(* user PML4" (process/mod.rs:242), and the kernel's upper half is copied  *)
(* "so kernel code/data remains accessible" (process/mod.rs:107): after    *)
(* the switch enter_user_mode finds its code and its stack.                *)
EntryIsMapped == control = "entering" => EntryMapped(table[Entering])

=============================================================================
