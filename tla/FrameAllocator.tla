--------------------------- MODULE FrameAllocator ---------------------------
(***************************************************************************)
(* The bitmap frame allocator of kernel/src/memory/physmem.rs (struct      *)
(* PhysicalFrameAllocator and the static BITMAP), as operators on an       *)
(* allocator record, so that the physical memory manager and the process   *)
(* loader, which make several calls in one step, can compose them.         *)
(*                                                                         *)
(* The bitmap is the set of frames whose bit is 1.  An address is a        *)
(* number of units, FrameSize of them to a frame, so that the rounding of  *)
(* unaligned addresses is visible.                                         *)
(***************************************************************************)
EXTENDS Integers, FiniteSets, FiniteSetsExt

CONSTANTS
  TotalFrames,     \* total_frames: frames tracked by the bitmap
  FrameSize,       \* FRAME_SIZE, in address units
  StandardRanges,  \* the <<start, end>> pairs of init_standard_reservations
  UsizeModulus     \* 2^w for the width w of usize

ASSUME FrameAllocatorAssumption ==
  /\ TotalFrames \in Nat \ {0}
  /\ FrameSize \in Nat \ {0}
  /\ UsizeModulus \in Nat /\ TotalFrames < UsizeModulus
  /\ StandardRanges \subseteq (Nat \X Nat)

Frames == 0 .. TotalFrames - 1

(***************************************************************************)
(* Address arithmetic: the frame holding an address, and the frames a      *)
(* range [start, end) touches, capped to the tracked ones.                 *)
(***************************************************************************)
address_to_frame(addr) == addr \div FrameSize

(* Mutant: the range is not capped to the tracked frames. *)
FramesTouched_uncapped(start, end) ==
  address_to_frame(start) .. (end + FrameSize - 1) \div FrameSize - 1

FramesTouched(start, end) ==
  LET end_frame == (end + FrameSize - 1) \div FrameSize
  IN  {f \in Frames : address_to_frame(start) <= f /\ f < end_frame}

StandardFrames == UNION {FramesTouched(r[1], r[2]) : r \in StandardRanges}

(***************************************************************************)
(* The allocator's state.                                                  *)
(***************************************************************************)
Usize == 0 .. UsizeModulus - 1

MemoryStatistics ==
  [allocated_frames: Usize, free_frames: Usize,
   allocation_failures: Nat, double_free_attempts: Nat,
   invalid_free_attempts: Nat,
   largest_free_block: Nat, free_block_count: Nat]

Allocator ==
  [bitmap: SUBSET Frames, allocated_frames: Usize,
   next_free: 0 .. TotalFrames, stats: MemoryStatistics,
   validation_enabled: BOOLEAN]

new ==
  [bitmap |-> {}, allocated_frames |-> 0, next_free |-> 0,
   stats |-> [allocated_frames |-> 0, free_frames |-> TotalFrames,
              allocation_failures |-> 0, double_free_attempts |-> 0,
              invalid_free_attempts |-> 0,
              largest_free_block |-> TotalFrames, free_block_count |-> 1],
   validation_enabled |-> TRUE]

(* usize arithmetic in a build without overflow checks. *)
WrappingAdd(x, y) == IF x + y < UsizeModulus THEN x + y ELSE x + y - UsizeModulus

WrappingSub(x, y) == IF y <= x THEN x - y ELSE x - y + UsizeModulus

is_frame_reserved(a, f) == f >= TotalFrames \/ f \in a.bitmap

(* Clearing the bits of S pulls next_free down to the lowest of them. *)
mark_frames_free(a, S) ==
  [a EXCEPT !.bitmap = @ \ S,
            !.next_free = Min({@} \cup S)]

(* The scan `while next_free < total_frames && reserved' started at from. *)
FirstFree(bitmap, from) ==
  Min({f \in from .. TotalFrames : f = TotalFrames \/ f \notin bitmap})

recalculate_next_free(a) == [a EXCEPT !.next_free = FirstFree(a.bitmap, 0)]

(* Mutant: a frame reserved before is counted again. *)
reserve_frames_recounting(a, S) ==
  recalculate_next_free(
    [a EXCEPT !.bitmap = @ \cup S,
              !.allocated_frames = WrappingAdd(@, Cardinality(S))])

(* reserve_range for the frames S of the range: a frame counts once. *)
reserve_frames(a, S) ==
  recalculate_next_free(
    [a EXCEPT !.bitmap = @ \cup S,
              !.allocated_frames = WrappingAdd(@, Cardinality(S \ a.bitmap))])

init_standard_reservations(a) == reserve_frames(a, StandardFrames)

set_validation(a, enabled) == [a EXCEPT !.validation_enabled = enabled]

(* A statistics counter moves only while validation is enabled. *)
CountIf(a, n) == IF a.validation_enabled THEN n + 1 ELSE n

AllocationFailed(a) ==
  [allocator |-> [a EXCEPT !.stats.allocation_failures = CountIf(a, @)],
   granted |-> {}]

(* Mutant: next_free is left right behind the taken frames. *)
Take_unscanned(a, S, from) ==
  [allocator |->
     [a EXCEPT !.bitmap = @ \cup S,
               !.allocated_frames = WrappingAdd(@, Cardinality(S)),
               !.next_free = Max(S) + 1],
   granted |-> S]

(* The frames S are taken and the scan resumes behind them at from. *)
Take(a, S, from) ==
  [allocator |->
     [a EXCEPT !.bitmap = @ \cup S,
               !.allocated_frames = WrappingAdd(@, Cardinality(S)),
               !.next_free = FirstFree(a.bitmap \cup S, from)],
   granted |-> S]

(***************************************************************************)
(* Allocation.  granted is the set of frames handed out, {} for None.      *)
(***************************************************************************)
allocate_frame(a) ==
  IF a.next_free >= TotalFrames
    THEN AllocationFailed(a)
    ELSE Take(a, {a.next_free}, a.next_free)

(* Where a block of count free frames starts, at or above next_free. *)
Fits(a, count) ==
  {s \in a.next_free .. TotalFrames - count :
     (s .. s + count - 1) \cap a.bitmap = {}}

allocate_frames(a, count) ==
  IF count = 0 THEN [allocator |-> a, granted |-> {}]
  ELSE IF count > TotalFrames \/ Fits(a, count) = {} THEN AllocationFailed(a)
  ELSE LET start == Min(Fits(a, count))
       IN  Take(a, start .. start + count - 1, start + count)

(***************************************************************************)
(* Deallocation.  freed is the set of frames given back.                   *)
(***************************************************************************)
InvalidFree(a) ==
  [allocator |-> [a EXCEPT !.stats.invalid_free_attempts = CountIf(a, @)],
   freed |-> {}, result |-> "InvalidFree"]

DoubleFree(a) ==
  [allocator |-> [a EXCEPT !.stats.double_free_attempts = CountIf(a, @)],
   freed |-> {}, result |-> "DoubleFree"]

Released(a, S, count) ==
  [allocator |->
     [mark_frames_free(a, S) EXCEPT
        !.allocated_frames = WrappingSub(@, count)],
   freed |-> S, result |-> "Ok"]

(* Mutant: a frame that is already free is freed again. *)
free_frame_unchecked(a, addr) ==
  LET frame == address_to_frame(addr)
  IN  IF frame >= TotalFrames THEN InvalidFree(a) ELSE Released(a, {frame}, 1)

free_frame(a, addr) ==
  LET frame == address_to_frame(addr)
  IN  IF frame >= TotalFrames THEN InvalidFree(a)
      ELSE IF ~is_frame_reserved(a, frame) THEN DoubleFree(a)
      ELSE Released(a, {frame}, 1)

(* With validation off nothing is checked and count is subtracted anyway. *)
free_frames(a, addr, count) ==
  LET start == address_to_frame(addr)
      S == start .. start + count - 1
  IN  IF start + count > TotalFrames THEN InvalidFree(a)
      ELSE IF a.validation_enabled /\ ~(S \subseteq a.bitmap)
        THEN DoubleFree(a)
      ELSE Released(a, S, count)

(***************************************************************************)
(* Statistics, validation and the self-test.                               *)
(***************************************************************************)
FreeBlockCount(bitmap) ==
  Cardinality({f \in Frames \ bitmap : f = 0 \/ f - 1 \in bitmap})

(* Mutant: the free block at the end of memory is forgotten. *)
LargestFreeBlock_untrailed(bitmap) ==
  Max({n \in 0 .. TotalFrames :
         \E s \in 0 .. TotalFrames - n :
           (s .. s + n - 1) \cap bitmap = {} /\ (n = 0 \/ s + n \in bitmap)})

LargestFreeBlock(bitmap) ==
  Max({n \in 0 .. TotalFrames :
         \E s \in 0 .. TotalFrames - n : (s .. s + n - 1) \cap bitmap = {}})

update_statistics(a) ==
  [a EXCEPT
     !.stats.free_frames = WrappingSub(TotalFrames, a.allocated_frames),
     !.stats.allocated_frames = a.allocated_frames,
     !.stats.free_block_count = FreeBlockCount(a.bitmap),
     !.stats.largest_free_block = LargestFreeBlock(a.bitmap)]

validate_bitmap(a) == Cardinality(a.bitmap) = a.allocated_frames

SelfTestBlock == 4

BeyondTracked == (TotalFrames + 1) * FrameSize

(* Mutant: the block of step 8 is not given back. *)
SelfTestTail_leaking(a, addr) ==
  LET invalid == free_frame(free_frame(a, addr).allocator, BeyondTracked)
      block   == allocate_frames(invalid.allocator, SelfTestBlock)
  IN  [allocator |-> block.allocator, passed |-> validate_bitmap(block.allocator)]

(* Steps 6 to 9 of self_test, on an allocator that passed the first five. *)
SelfTestTail(a, addr) ==
  LET double  == free_frame(a, addr)
      invalid == free_frame(double.allocator, BeyondTracked)
      block   == allocate_frames(invalid.allocator, SelfTestBlock)
      after   == IF block.granted = {} THEN block.allocator
                 ELSE free_frames(block.allocator,
                        Min(block.granted) * FrameSize, SelfTestBlock).allocator
  IN  IF double.result # "DoubleFree"
        THEN [allocator |-> double.allocator, passed |-> FALSE]
      ELSE IF invalid.result # "InvalidFree"
        THEN [allocator |-> invalid.allocator, passed |-> FALSE]
      ELSE [allocator |-> after, passed |-> validate_bitmap(after)]

self_test(a) ==
  LET one   == allocate_frame(a)
      addr  == Min(one.granted) * FrameSize
      freed == free_frame(one.allocator, addr)
  IN  IF ~validate_bitmap(a) THEN [allocator |-> a, passed |-> FALSE]
      ELSE IF one.granted = {}
        THEN [allocator |-> one.allocator, passed |-> FALSE]
      ELSE IF \/ ~validate_bitmap(one.allocator)
              \/ freed.result # "Ok"
              \/ ~validate_bitmap(freed.allocator)
        THEN [allocator |-> freed.allocator, passed |-> FALSE]
      ELSE SelfTestTail(freed.allocator, addr)

=============================================================================
