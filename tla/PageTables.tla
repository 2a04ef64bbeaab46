----------------------------- MODULE PageTables -----------------------------
(***************************************************************************)
(* The four-level page tables as the x86_64 crate's OffsetPageTable works  *)
(* on them for the virtual memory manager (kernel/src/memory/vmm.rs) and   *)
(* the process loader (kernel/src/process/mod.rs): map_to, unmap and       *)
(* translate on an address space, with table frames taken from the frame   *)
(* allocator one by one, and the tables that boot64.asm starts with.       *)
(*                                                                         *)
(* A node <<k, i>> is the position that the i-th table of level k has in   *)
(* the tree: level 1 is a page table, 3 a PDP; the root is not a node.     *)
(* The entry there leads to a table or maps a huge page as large as the    *)
(* part of the address space below it.  Every entry is PRESENT: the code   *)
(* passes that flag on every call.  The other flags are kept of the        *)
(* entries that map something.  Those of the entries that lead to tables   *)
(* never take a right away, because map_to gives the entries above a page  *)
(* what it gives the page, and are left out.                               *)
(***************************************************************************)
EXTENDS FrameAllocator, Functions

CONSTANTS
  Fanout,        \* entries of a table: 512
  FlagBits,      \* the page table flags used, besides PRESENT
  ParentBits,    \* WRITABLE and USER_ACCESSIBLE
  BootHugePages, \* huge pages that boot64.asm maps one to one
  BootFlags      \* their flags

ASSUME PageTablesAssumption ==
  /\ Fanout \in Nat \ {0, 1}
  /\ BootHugePages \in 1 .. Fanout
  /\ BootFlags \subseteq FlagBits /\ ParentBits \subseteq FlagBits

Flags == SUBSET FlagBits

(* The pages below one table of level k. *)
Span(k) == <<Fanout, Fanout * Fanout, Fanout * Fanout * Fanout>>[k]

Page == 0 .. Fanout * Span(3) - 1

Node == {n \in (1 .. 3) \X Nat : n[2] * Span(n[1]) \in Page}

NodeAbove(k, p) == <<k, p \div Span(k)>>

Above(p) == {NodeAbove(k, p) : k \in 1 .. 3}

Over(n) == {NodeAbove(k, n[2] * Span(n[1])) : k \in n[1] + 1 .. 3}

PagesBelow(n) == n[2] * Span(n[1]) .. (n[2] + 1) * Span(n[1]) - 1

NoEntry == [x \in {} |-> x]

Leaf == [frame: Nat, flags: Flags]

EmptySpace == [tables |-> NoEntry, huge |-> NoEntry, pages |-> NoEntry]

MappedPages(s) == DOMAIN s.pages \cup UNION {PagesBelow(n) : n \in DOMAIN s.huge}

(* PML4, PDP and PD in frames 1 to 3, and huge pages at their own address. *)
BootSpace ==
  [tables |-> [n \in {<<3, 0>>, <<2, 0>>} |-> 5 - n[1]],
   huge   |-> [n \in {1} \X (0 .. BootHugePages - 1) |->
                 [frame |-> n[2] * Fanout, flags |-> BootFlags]],
   pages  |-> NoEntry]

(* A table, a huge page or a page per entry, and no entry in thin air. *)
WellFormed(s) ==
  /\ DOMAIN s.tables \subseteq Node /\ Range(s.tables) \subseteq Frames
  /\ DOMAIN s.huge \subseteq Node /\ Range(s.huge) \subseteq Leaf
  /\ DOMAIN s.pages \subseteq Page /\ Range(s.pages) \subseteq Leaf
  /\ DOMAIN s.tables \cap DOMAIN s.huge = {}
  /\ \A p \in DOMAIN s.pages : Above(p) \subseteq DOMAIN s.tables
  /\ \A n \in DOMAIN s.tables \cup DOMAIN s.huge : Over(n) \subseteq DOMAIN s.tables

With(f, x, y) == [z \in DOMAIN f \cup {x} |-> IF z = x THEN y ELSE f[z]]

(***************************************************************************)
(* map_to on m = [space, allocator, error]: missing tables are allocated   *)
(* from the top down, and the ones obtained stay when a later one cannot   *)
(* be.  An entry that is there is given the page's WRITABLE and            *)
(* USER_ACCESSIBLE flags before the mapper looks where it leads: a huge    *)
(* page keeps them although the call is refused.                           *)
(***************************************************************************)
create_next_table(m, n, flags) ==
  LET got == allocate_frame(m.allocator)
  IN  IF m.error # "None" \/ n \in DOMAIN m.space.tables THEN m
      ELSE IF n \in DOMAIN m.space.huge
        THEN [m EXCEPT !.space.huge[n].flags = @ \cup (flags \cap ParentBits),
                       !.error = "ParentEntryHugePage"]
      ELSE IF got.granted = {}
        THEN [m EXCEPT !.allocator = got.allocator,
                       !.error = "FrameAllocationFailed"]
      ELSE [m EXCEPT !.allocator = got.allocator,
                     !.space.tables = With(@, n, Min(got.granted))]

map_to(space, allocator, p, frame, flags) ==
  LET m0 == [space |-> space, allocator |-> allocator, error |-> "None"]
      m  == create_next_table(create_next_table(create_next_table(m0,
              NodeAbove(3, p), flags), NodeAbove(2, p), flags), NodeAbove(1, p), flags)
  IN  IF m.error # "None" THEN m
      ELSE IF p \in DOMAIN m.space.pages
        THEN [m EXCEPT !.error = "PageAlreadyMapped"]
      ELSE [m EXCEPT !.space.pages =
                        With(@, p, [frame |-> frame, flags |-> flags])]

(* Tables that become empty stay. *)
unmap(space, p) ==
  IF Above(p) \cap DOMAIN space.huge # {}
    THEN [space |-> space, error |-> "ParentEntryHugePage"]
  ELSE IF p \notin DOMAIN space.pages
    THEN [space |-> space, error |-> "PageNotMapped"]
  ELSE [space |-> [space EXCEPT !.pages = Restrict(@, DOMAIN @ \ {p})],
        error |-> "None"]

(* What an access to page p reaches: {} or one frame with its flags. *)
translate(space, p) ==
  {space.pages[q] : q \in {p} \cap DOMAIN space.pages}
  \cup {[frame |-> space.huge[n].frame + (p % Span(n[1])),
         flags |-> space.huge[n].flags] : n \in Above(p) \cap DOMAIN space.huge}

=============================================================================
