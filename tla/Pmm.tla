-------------------------------- MODULE Pmm ---------------------------------
(***************************************************************************)
(* The physical memory manager of kernel/src/memory/physmem.rs: the boot   *)
(* paths init and init_from_memmap, then the calls of its clients.  The    *)
(* manager is a static mut reached from the single kernel thread, so a     *)
(* call is one step; the loop of init_from_memmap over the boot map is one *)
(* step per entry.                                                         *)
(*                                                                         *)
(* memory_map and reserved_regions are the sets of the regions in the two  *)
(* vectors (their order and their byte totals decide nothing).             *)
(***************************************************************************)
EXTENDS FrameAllocator, Sequences

CONSTANTS
  MemMaps,          \* the memory maps a boot loader may pass
  Addrs,            \* the addresses clients pass to free calls
  Counts,           \* the block sizes clients ask for
  LateRegions,      \* the regions clients reserve after boot
  ValidationModes,  \* the values clients pass to set_validation
  MaxCounter        \* bound on each failure counter

VARIABLES
  phase,            \* "off", "memmap" while the boot map is read, "ready"
  pending,          \* entries of the boot map still to be read
  frame_allocator,
  memory_map,
  reserved_regions,
  reply             \* what the last call returned to its caller

vars == <<phase, pending, frame_allocator, memory_map, reserved_regions, reply>>

(* A region is usable RAM or one of the reserved kinds (is_usable). *)
Region == [base: Nat, size: Nat, usable: BOOLEAN]

ASSUME PmmAssumption ==
  /\ MemMaps \subseteq Seq(Region) /\ <<>> \notin MemMaps
  /\ Addrs \subseteq Nat /\ Counts \subseteq Nat
  /\ LateRegions \subseteq Region
  /\ ValidationModes \subseteq BOOLEAN
  /\ MaxCounter \in Nat

FramesOf(r) == FramesTouched(r.base, r.base + r.size)

Reply == [op: {"boot", "allocate_frame", "allocate_frames", "free_frame",
               "free_frames", "reserve_region", "set_validation", "self_test"},
          frames: SUBSET Frames,
          result: {"Ok", "None", "Granted", "InvalidFree", "DoubleFree", "Failed"}]

(* frames are those a successful call handed out or took back. *)
Answer(op, frames, result) == [op |-> op, frames |-> frames, result |-> result]

(* The bound on the counters: a call that would pass it is not explored. *)
WithinBound(a) ==
  /\ a.stats.allocation_failures <= MaxCounter
  /\ a.stats.double_free_attempts <= MaxCounter
  /\ a.stats.invalid_free_attempts <= MaxCounter

-----------------------------------------------------------------------------
Init == /\ phase = "off"
        /\ pending = <<>>
        /\ frame_allocator = new
        /\ memory_map = {} /\ reserved_regions = {}
        /\ reply = Answer("boot", {}, "None")

(* No boot map: standard reservations, statistics, then the self-test.     *)
(* The memory map is built from the reserved regions, none at this point.  *)
InitFallback ==
  LET reserved == update_statistics(init_standard_reservations(new))
  IN  /\ phase = "off"
      /\ frame_allocator' = self_test(reserved).allocator
      /\ memory_map' = memory_map \cup reserved_regions
      /\ phase' = "ready"
      /\ reply' = Answer("boot", {}, "Ok")
      /\ UNCHANGED <<pending, reserved_regions>>

InitFromMemmap(entries) ==
  /\ phase = "off"
  /\ phase' = "memmap"
  /\ pending' = entries
  /\ frame_allocator' = new
  /\ UNCHANGED <<memory_map, reserved_regions, reply>>

(* A usable entry clears the bits of its frames, and only the bits. *)
ReadUsableEntry ==
  /\ phase = "memmap" /\ pending # <<>> /\ Head(pending).usable
  /\ frame_allocator' =
       mark_frames_free(frame_allocator,
                        FramesOf(Head(pending)) \cap frame_allocator.bitmap)
  /\ memory_map' = memory_map \cup {Head(pending)}
  /\ pending' = Tail(pending)
  /\ UNCHANGED <<phase, reserved_regions, reply>>

ReadReservedEntry ==
  /\ phase = "memmap" /\ pending # <<>> /\ ~Head(pending).usable
  /\ frame_allocator' = reserve_frames(frame_allocator, FramesOf(Head(pending)))
  /\ memory_map' = memory_map \cup {Head(pending)}
  /\ reserved_regions' = reserved_regions \cup {Head(pending)}
  /\ pending' = Tail(pending)
  /\ UNCHANGED <<phase, reply>>

(* Mutant: the kernel's own reservations are not applied on top. *)
FinishMemmap_unreserved ==
  /\ phase = "memmap" /\ pending = <<>>
  /\ frame_allocator' = update_statistics(recalculate_next_free(frame_allocator))
  /\ phase' = "ready"
  /\ reply' = Answer("boot", {}, "Ok")
  /\ UNCHANGED <<pending, memory_map, reserved_regions>>

FinishMemmap ==
  /\ phase = "memmap" /\ pending = <<>>
  /\ frame_allocator' =
       update_statistics(
         recalculate_next_free(init_standard_reservations(frame_allocator)))
  /\ phase' = "ready"
  /\ reply' = Answer("boot", {}, "Ok")
  /\ UNCHANGED <<pending, memory_map, reserved_regions>>

-----------------------------------------------------------------------------
(* Calls of the clients, once PMM_INIT is set (pmm() panics before).       *)
Called == phase = "ready" /\ UNCHANGED <<phase, pending, memory_map>>

Grants(op, res) ==
  /\ WithinBound(res.allocator)
  /\ frame_allocator' = res.allocator
  /\ reply' = Answer(op, res.granted,
                     IF res.granted = {} THEN "None" ELSE "Granted")
  /\ UNCHANGED reserved_regions

Frees(op, res) ==
  /\ WithinBound(res.allocator)
  /\ frame_allocator' = res.allocator
  /\ reply' = Answer(op, res.freed, res.result)
  /\ UNCHANGED reserved_regions

AllocateFrame ==
  Called /\ Grants("allocate_frame", allocate_frame(frame_allocator))

AllocateFrames(count) ==
  Called /\ Grants("allocate_frames", allocate_frames(frame_allocator, count))

FreeFrame(addr) ==
  Called /\ Frees("free_frame", free_frame(frame_allocator, addr))

FreeFrames(addr, count) ==
  Called /\ Frees("free_frames", free_frames(frame_allocator, addr, count))

ReserveRegion(r) ==
  /\ Called
  /\ frame_allocator' = reserve_frames(frame_allocator, FramesOf(r))
  /\ reserved_regions' = reserved_regions \cup {r}
  /\ reply' = Answer("reserve_region", {}, "Ok")

SetValidation(enabled) ==
  /\ Called
  /\ frame_allocator' = set_validation(frame_allocator, enabled)
  /\ reply' = Answer("set_validation", {}, "Ok")
  /\ UNCHANGED reserved_regions

SelfTest ==
  LET test == self_test(frame_allocator)
  IN  /\ Called
      /\ WithinBound(test.allocator)
      /\ frame_allocator' = test.allocator
      /\ reply' = Answer("self_test", {}, IF test.passed THEN "Ok" ELSE "Failed")
      /\ UNCHANGED reserved_regions

Boot == \/ InitFallback
        \/ \E entries \in MemMaps : InitFromMemmap(entries)
        \/ ReadUsableEntry
        \/ ReadReservedEntry
        \/ FinishMemmap

Call == \/ AllocateFrame
        \/ \E count \in Counts : AllocateFrames(count)
        \/ \E addr \in Addrs : FreeFrame(addr)
        \/ \E addr \in Addrs, count \in Counts : FreeFrames(addr, count)
        \/ \E r \in LateRegions : ReserveRegion(r)
        \/ \E enabled \in ValidationModes : SetValidation(enabled)
        \/ SelfTest

Next == Boot \/ Call

Spec == Init /\ [][Next]_vars

-----------------------------------------------------------------------------
(* No usable entry of a boot map touches a frame that an earlier reserved  *)
(* entry touches; overlapping or unaligned entries may break this.         *)
NonStraddling(m) ==
  \A i, j \in DOMAIN m :
    i < j /\ ~m[i].usable /\ m[j].usable => FramesOf(m[i]) \cap FramesOf(m[j]) = {}

(* Type correctness of the manager's state. *)
TypeOK ==
  /\ phase \in {"off", "memmap", "ready"}
  /\ pending \in Seq(Region)
  /\ frame_allocator \in Allocator
  /\ memory_map \subseteq Region
  /\ reserved_regions \subseteq Region
  /\ reply \in Reply

(* validate_bitmap holds in every state: whatever mix of boot entries,     *)
(* allocations, frees (refused ones included), late reservations and       *)
(* self-tests came before, allocated_frames is the number of set bits.     *)
CountMatches ==
  frame_allocator.allocated_frames = Cardinality(frame_allocator.bitmap)

(* next_free is a free frame, or total_frames: allocate_frame hands it out *)
(* without looking at the bitmap, so a stale hint would be a double        *)
(* allocation.                                                             *)
NextFreeIsFree ==
  frame_allocator.next_free = TotalFrames
    \/ frame_allocator.next_free \notin frame_allocator.bitmap

(* self_test allocates and frees on the live allocator: it must leave the  *)
(* bitmap and the count as it found them, and pass exactly when the hint   *)
(* points at a frame.                                                      *)
SelfTestIsNeutral ==
  [][reply'.op = "self_test" =>
       /\ frame_allocator'.bitmap = frame_allocator.bitmap
       /\ frame_allocator'.allocated_frames = frame_allocator.allocated_frames
       /\ reply'.result = "Ok" <=> frame_allocator.next_free < TotalFrames]_vars

(* Just after boot every frame of a standard reservation or of a reserved  *)
(* entry of the boot map is reserved ("Mark non-usable regions as          *)
(* reserved", init_from_memmap).                                           *)
BootReservesNonRam ==
  phase = "ready" /\ reply.op = "boot" =>
    /\ StandardFrames \subseteq frame_allocator.bitmap
    /\ \A r \in memory_map : ~r.usable => FramesOf(r) \subseteq frame_allocator.bitmap

(* Just after boot the largest_free_block of the statistics is exactly     *)
(* what allocate_frames can serve, although the self-test has moved the    *)
(* hint since the statistics were taken.                                   *)
LargestBlockIsAllocatable ==
  phase = "ready" /\ reply.op = "boot" =>
    \A n \in 1 .. TotalFrames :
      Fits(frame_allocator, n) # {}
        <=> n <= frame_allocator.stats.largest_free_block

(* The doc of allocate_frame: it returns None only if no free frame remains. *)
NoneOnlyWhenFull ==
  reply.op = "allocate_frame" /\ reply.result = "None" =>
    frame_allocator.bitmap = Frames

(* The manager implements the frame store: the frames not free are the set *)
(* bits once it is up, and every call is a grant, a release, a reservation *)
(* or a refusal of the store.                                              *)
Store == INSTANCE FrameStore WITH
  Frame <- Frames,
  up    <- phase = "ready",
  held  <- IF phase = "ready" THEN frame_allocator.bitmap ELSE {},
  reply <- [frames |-> reply.frames, result |-> reply.result]

ImplementsFrameStore == Store!StoreSpec

=============================================================================
