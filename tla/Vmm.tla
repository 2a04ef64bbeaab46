-------------------------------- MODULE Vmm ---------------------------------
(***************************************************************************)
(* The virtual memory manager of kernel/src/memory/vmm.rs: it takes over   *)
(* the tables of boot64.asm, maps and unmaps 4 KiB pages through the       *)
(* mapper of PageTables, and keeps beside them a list of regions and       *)
(* statistics that the shell shows and validate() compares with a walk.    *)
(*                                                                         *)
(* A virtual or physical address is a number of units, FrameSize of them   *)
(* to a page or frame.  total_mapped_bytes is total_mapped_pages in bytes  *)
(* and is left out, as is page_table_frames, which no code changes.        *)
(* `others' are the frames that the rest of the kernel holds.  The mapper  *)
(* reaches its tables through the boot code's mapping, so memory is taken  *)
(* to end there; above it, the first new table would be a page fault.      *)
(***************************************************************************)
EXTENDS PageTables, Sequences

CONSTANTS
  Virts, Phys,    \* addresses passed to the calls on single pages
  Ranges,         \* <<virt, phys, count>> passed to the bulk calls
  Given,          \* flags passed
  MaxOps,         \* bound on the pages mapped and unmapped before a call
  MaxOthers       \* bound on the frames held elsewhere and on refusals

VARIABLES
  initialized,      \* VMM_INIT
  vmm,              \* VMM
  frame_allocator,  \* the PMM, which the table frames come from
  others,
  reply             \* the last call: op, result, the pages it named and
                    \* the targets it wanted for them

vars == <<initialized, vmm, frame_allocator, others, reply>>

ASSUME VmmAssumption ==
  /\ Frames \subseteq MappedPages(BootSpace)
  /\ {1, 2, 3} \subseteq StandardFrames
  /\ Virts \subseteq Nat /\ Phys \subseteq Nat
  /\ Ranges \subseteq Nat \X Nat \X Nat
  /\ \A r \in Ranges : \A i \in 0 .. r[3] :
       {r[1] \div FrameSize + i, r[2] \div FrameSize + i} \subseteq Page
  /\ {v \div FrameSize : v \in Virts} \subseteq Page
  /\ Given \subseteq Flags
  /\ MaxOps \in Nat /\ MaxOthers \in Nat

VmmStatistics ==
  [total_mapped_pages: Nat, map_count: Nat, unmap_count: Nat,
   remap_count: Nat, tlb_flush_count: Nat]

MappedRegion ==
  [virtual_addr: Page, physical_addr: Nat, size: Nat, flags: Flags]

Region(p, leaf, size) ==
  [virtual_addr |-> p, physical_addr |-> leaf.frame, size |-> size,
   flags |-> leaf.flags]

HugeAt(space, k) == {n \in DOMAIN space.huge : n[1] = k}

(* The walk over all four levels: 4 KiB, 2 MiB and 1 GiB pages. *)
count_mapped_pages(space) ==
  Cardinality(DOMAIN space.pages) + Span(1) * Cardinality(HugeAt(space, 1))
                                  + Span(2) * Cardinality(HugeAt(space, 2))

(* Every present entry is a region. *)
Regions(space) ==
  {Region(n[2] * Span(n[1]), space.huge[n], Span(n[1])) : n \in DOMAIN space.huge}
  \cup {Region(p, space.pages[p], 1) : p \in DOMAIN space.pages}

(* In the order of the walk: the i-th region has i - 1 below it. *)
discover_existing_mappings(space) ==
  LET Below(r) == {s \in Regions(space) : s.virtual_addr < r.virtual_addr}
  IN  [i \in 1 .. Cardinality(Regions(space)) |->
         CHOOSE r \in Regions(space) : Cardinality(Below(r)) = i - 1]

(* Mutant: a huge page is counted as one page. *)
TakenOver_flat(space) ==
  [page_table |-> space, mapped_regions |-> discover_existing_mappings(space),
   stats |-> [total_mapped_pages |-> Len(discover_existing_mappings(space)),
              map_count |-> 0, unmap_count |-> 0, remap_count |-> 0,
              tlb_flush_count |-> 0],
   validation_enabled |-> TRUE]

TakenOver(space) ==
  [page_table |-> space, mapped_regions |-> discover_existing_mappings(space),
   stats |-> [total_mapped_pages |-> count_mapped_pages(space),
              map_count |-> 0, unmap_count |-> 0, remap_count |-> 0,
              tlb_flush_count |-> 0],
   validation_enabled |-> TRUE]

(***************************************************************************)
(* The calls, on r = [vmm, allocator, result].                             *)
(***************************************************************************)
is_aligned(addr) == addr % FrameSize = 0

PageOf(addr) == addr \div FrameSize

VmmErrorOf(e) ==
  CASE e = "FrameAllocationFailed" -> "OutOfMemory"
    [] e = "ParentEntryHugePage"   -> "ParentEntryHugePage"
    [] e = "PageAlreadyMapped"     -> "AlreadyMapped"
    [] e = "PageNotMapped"         -> "NotMapped"

(* A new 4 KiB mapping is listed and counted. *)
Track(v, p, leaf) ==
  [v EXCEPT !.mapped_regions = Append(@, Region(p, leaf, 1)),
            !.stats.total_mapped_pages = @ + 1,
            !.stats.map_count = @ + 1,
            !.stats.tlb_flush_count = @ + 1]

Mapped(r, p, frame, flags) ==
  LET m == map_to(r.vmm.page_table, r.allocator, p, frame, flags)
      v == [r.vmm EXCEPT !.page_table = m.space]
  IN  IF m.error # "None"
        THEN [vmm |-> v, allocator |-> m.allocator,
              result |-> VmmErrorOf(m.error)]
        ELSE [vmm |-> Track(v, p, [frame |-> frame, flags |-> flags]),
              allocator |-> m.allocator, result |-> "Ok"]

Fails(r, error) == [r EXCEPT !.result = error]

(* Mutant: the address is taken for the number of its page. *)
map_page_unscaled(r, virt, phys, flags) ==
  IF ~is_aligned(virt) \/ ~is_aligned(phys) THEN Fails(r, "InvalidAddress")
  ELSE Mapped(r, virt, PageOf(phys), flags)

(* Mutant: a failed call drops the tables it made without freeing them. *)
map_page_undone(r, virt, phys, flags) ==
  LET m == Mapped(r, PageOf(virt), PageOf(phys), flags)
  IN  IF ~is_aligned(virt) \/ ~is_aligned(phys) THEN Fails(r, "InvalidAddress")
      ELSE IF m.result = "Ok" THEN m ELSE [m EXCEPT !.vmm = r.vmm]

map_page(r, virt, phys, flags) ==
  IF ~is_aligned(virt) \/ ~is_aligned(phys) THEN Fails(r, "InvalidAddress")
  ELSE Mapped(r, PageOf(virt), PageOf(phys), flags)

Covers(region, p) ==
  region.virtual_addr <= p /\ p < region.virtual_addr + region.size

(* Mutant: the region stays listed. *)
unmap_page_listed(r, virt) ==
  LET u == unmap(r.vmm.page_table, PageOf(virt))
  IN  IF ~is_aligned(virt) THEN Fails(r, "InvalidAddress")
      ELSE IF u.error # "None" THEN Fails(r, VmmErrorOf(u.error))
      ELSE [r EXCEPT !.vmm.page_table = u.space,
              !.vmm.stats.total_mapped_pages = IF @ = 0 THEN 0 ELSE @ - 1,
              !.vmm.stats.unmap_count = @ + 1,
              !.vmm.stats.tlb_flush_count = @ + 1, !.result = "Ok"]

(* mapped_regions.retain: the regions that do not cover the page, in order. *)
retain(regions, p) ==
  LET kept[i \in 0 .. Len(regions)] ==
        IF i = 0 THEN <<>>
        ELSE IF Covers(regions[i], p) THEN kept[i - 1]
        ELSE Append(kept[i - 1], regions[i])
  IN  kept[Len(regions)]

(* The list drops every region that covers the page, whatever its size. *)
unmap_page(r, virt) ==
  LET u == unmap(r.vmm.page_table, PageOf(virt))
  IN  IF ~is_aligned(virt) THEN Fails(r, "InvalidAddress")
      ELSE IF u.error # "None" THEN Fails(r, VmmErrorOf(u.error))
      ELSE [r EXCEPT !.vmm.page_table = u.space,
              !.vmm.mapped_regions = retain(@, PageOf(virt)),
              !.vmm.stats.total_mapped_pages = IF @ = 0 THEN 0 ELSE @ - 1,
              !.vmm.stats.unmap_count = @ + 1,
              !.vmm.stats.tlb_flush_count = @ + 1, !.result = "Ok"]

(* When the second half fails the page stays unmapped. *)
remap_page(r, virt, new_phys, flags) ==
  LET u == unmap_page(r, virt)
      m == map_page(u, virt, new_phys, flags)
  IN  IF u.result # "Ok" THEN u
      ELSE IF m.result # "Ok" THEN m
      ELSE [m EXCEPT !.vmm.stats.remap_count = @ + 1]

(* Mutant: a page that is mapped elsewhere is moved to its own address. *)
BulkPage_moving(op, r, virt, phys, flags, i) ==
  LET v == virt + i * FrameSize
      p == PageOf(phys) + i
  IN  CASE op = "map_region"   -> map_page(r, v, phys + i * FrameSize, flags)
        [] op = "unmap_region" -> Fails(unmap_page(r, v), "Ok")
        [] op = "identity_map" ->
             Mapped(unmap_page(r, p * FrameSize), p, p, flags)

(* Page i of a bulk call.  unmap_region drops the result of each page, and *)
(* identity_map skips a page that has a translation, whatever it maps to,  *)
(* so that map_to never reports PageAlreadyMapped to it.                   *)
BulkPage(op, r, virt, phys, flags, i) ==
  LET v == virt + i * FrameSize
      p == PageOf(phys) + i
  IN  CASE op = "map_region"   -> map_page(r, v, phys + i * FrameSize, flags)
        [] op = "unmap_region" -> Fails(unmap_page(r, v), "Ok")
        [] op = "identity_map" ->
             IF translate(r.vmm.page_table, p) # {} THEN r
             ELSE Mapped(r, p, p, flags)

(* The pages of a bulk call, in order, until one of them fails. *)
EachPage(op, r, virt, phys, count, flags) ==
  LET done[i \in 0 .. count] ==
        IF i = 0 THEN r
        ELSE IF done[i - 1].result # "Ok" THEN done[i - 1]
        ELSE BulkPage(op, done[i - 1], virt, phys, flags, i - 1)
  IN  done[count]

map_region(r, virt, phys, count, flags) ==
  IF ~is_aligned(virt) \/ ~is_aligned(phys) THEN Fails(r, "InvalidAddress")
  ELSE EachPage("map_region", r, virt, phys, count, flags)

unmap_region(r, virt, count) ==
  IF ~is_aligned(virt) THEN Fails(r, "InvalidAddress")
  ELSE EachPage("unmap_region", r, virt, 0, count, BootFlags)

identity_map(r, phys, count, flags) ==
  IF ~is_aligned(phys) THEN Fails(r, "InvalidAddress")
  ELSE EachPage("identity_map", r, phys, phys, count, flags)

validate(v) == count_mapped_pages(v.page_table) = v.stats.total_mapped_pages

(* The first listed region that covers the page, {} for None. *)
get_mapping(v, p) ==
  LET hits == {i \in DOMAIN v.mapped_regions : Covers(v.mapped_regions[i], p)}
  IN  IF hits = {} THEN {} ELSE {v.mapped_regions[Min(hits)]}

-----------------------------------------------------------------------------
NoCall(op) == [op |-> op, result |-> "Ok", pages |-> {}, wanted |-> NoEntry]

Init == /\ initialized = FALSE
        /\ vmm = TakenOver(EmptySpace)
        /\ frame_allocator = init_standard_reservations(new)
        /\ others = {}
        /\ reply = NoCall("none")

(* vmm::init, once, after the PMM is up. *)
InitVmm == /\ ~initialized /\ initialized' = TRUE
           /\ vmm' = TakenOver(BootSpace)
           /\ reply' = NoCall("init")
           /\ UNCHANGED <<frame_allocator, others>>

Current == [vmm |-> vmm, allocator |-> frame_allocator, result |-> "Ok"]

(* Bounds: pages changed, explicit flushes, and refused allocations. *)
WithinBound ==
  /\ vmm.stats.map_count + vmm.stats.unmap_count <= MaxOps
  /\ vmm.stats.tlb_flush_count <= vmm.stats.map_count + vmm.stats.unmap_count
  /\ frame_allocator.stats.allocation_failures <= MaxOthers

Call(op, pages, wanted, r) ==
  /\ initialized /\ WithinBound
  /\ vmm' = r.vmm /\ frame_allocator' = r.allocator
  /\ reply' = [op |-> op, result |-> r.result, pages |-> pages, wanted |-> wanted]
  /\ UNCHANGED <<initialized, others>>

(* The pages that a call names, and the targets for them. *)
Named(virt, count) == {PageOf(virt) + i : i \in 0 .. count - 1}

Wanted(virt, phys, count, flags) ==
  [p \in Named(virt, count) |->
     [frame |-> PageOf(phys) + (p - PageOf(virt)), flags |-> flags]]

MapPage(v, ph, f) ==
  Call("map_page", Named(v, 1), Wanted(v, ph, 1, f), map_page(Current, v, ph, f))

UnmapPage(v) == Call("unmap_page", Named(v, 1), NoEntry, unmap_page(Current, v))

RemapPage(v, ph, f) ==
  Call("remap_page", Named(v, 1), Wanted(v, ph, 1, f), remap_page(Current, v, ph, f))

MapRegion(g, f) ==
  Call("map_region", Named(g[1], g[3]), Wanted(g[1], g[2], g[3], f),
       map_region(Current, g[1], g[2], g[3], f))

UnmapRegion(g) ==
  Call("unmap_region", Named(g[1], g[3]), NoEntry, unmap_region(Current, g[1], g[3]))

IdentityMap(g, f) ==
  Call("identity_map", Named(g[2], g[3]), Wanted(g[2], g[2], g[3], f),
       identity_map(Current, g[2], g[3], f))

(* What concerns no page in particular. *)
Setting(op, r) == Call(op, {}, NoEntry, r)

(* flush_tlb and flush_tlb_page only count. *)
FlushTlb == Setting("flush", [Current EXCEPT !.vmm.stats.tlb_flush_count = @ + 1])

SetValidation(enabled) ==
  Setting("set_validation", [Current EXCEPT !.vmm.validation_enabled = enabled])

(* Other parts of the kernel take frames and give them back. *)
TakeElsewhere ==
  LET got == allocate_frame(frame_allocator)
  IN  /\ initialized /\ Cardinality(others) < MaxOthers /\ got.granted # {}
      /\ frame_allocator' = got.allocator
      /\ others' = others \cup got.granted
      /\ UNCHANGED <<initialized, vmm, reply>>

GiveElsewhere(f) ==
  /\ frame_allocator' = free_frame(frame_allocator, f * FrameSize).allocator
  /\ others' = others \ {f}
  /\ UNCHANGED <<initialized, vmm, reply>>

Next ==
  \/ InitVmm
  \/ \E v \in Virts, f \in Given :
       \E ph \in Phys : MapPage(v, ph, f) \/ RemapPage(v, ph, f)
  \/ \E v \in Virts : UnmapPage(v)
  \/ \E g \in Ranges, f \in Given : MapRegion(g, f) \/ IdentityMap(g, f)
  \/ \E g \in Ranges : UnmapRegion(g)
  \/ FlushTlb
  \/ \E enabled \in BOOLEAN : SetValidation(enabled)
  \/ TakeElsewhere
  \/ \E f \in others : GiveElsewhere(f)

Spec == Init /\ [][Next]_vars

-----------------------------------------------------------------------------
(* The tables form a tree, and the list and the counters have their types. *)
TypeOK ==
  /\ initialized \in BOOLEAN
  /\ WellFormed(vmm.page_table)
  /\ vmm.mapped_regions \in Seq(MappedRegion)
  /\ vmm.stats \in VmmStatistics
  /\ vmm.validation_enabled \in BOOLEAN
  /\ frame_allocator \in Allocator
  /\ others \subseteq Frames

(* validate() (vmm.rs:652) is true after every sequence of calls, also     *)
(* after bulk calls that failed half way and remaps that lost their page.  *)
ValidateHolds == initialized => validate(vmm)

Listed ==
  UNION {g.virtual_addr .. g.virtual_addr + g.size - 1 :
           g \in Range(vmm.mapped_regions)}

(* The list that get_mapping searches (vmm.rs:732) and the tables that the *)
(* processor walks say the same of every page: the same pages are mapped,  *)
(* to the same frame, with the same flags, save that the list misses the   *)
(* flags a huge page of the boot code has gained from calls that were      *)
(* refused.                                                                *)
RegionsMatchTables ==
  \A p \in MappedPages(vmm.page_table) \cup Listed :
    \E t \in translate(vmm.page_table, p), g \in get_mapping(vmm, p) :
      /\ translate(vmm.page_table, p) = {t}
      /\ t.frame = g.physical_addr + p - g.virtual_addr
      /\ g.flags \subseteq t.flags
      /\ t.flags \ g.flags \subseteq ParentBits
      /\ p \notin MappedPages(BootSpace) => t.flags = g.flags

(* A call that fails after it has allocated tables (vmm.rs:370) leaks      *)
(* none: every frame that is taken belongs to the kernel's reservations,   *)
(* to one table of the tree, or to somebody else, and to only one of them. *)
TakenFramesAreOwned ==
  LET tables == vmm.page_table.tables
      made   == Range(tables) \ StandardFrames
  IN  /\ IsInjective(tables)
      /\ made \cap others = {}
      /\ frame_allocator.bitmap = StandardFrames \cup made \cup others

(* A page gets the translation that was asked for it and keeps it until it *)
(* is unmapped or remapped by name, whatever the calls around it do, and   *)
(* those of the boot code (vmm.rs:230) keep their frames for ever: the     *)
(* manager implements the page map.                                        *)
Translated ==
  LET space == vmm.page_table
  IN  [p \in MappedPages(space) |->
         CHOOSE t \in translate(space, p) : TRUE]

Abstract == INSTANCE PageMap WITH
  Page <- Page, Target <- Leaf,
  started <- initialized,
  boot <- IF initialized THEN MappedPages(BootSpace) ELSE {},
  mapping <- Translated, reply <- reply

ImplementsPageMap == Abstract!MapSpec

=============================================================================
