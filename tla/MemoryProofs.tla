---------------------------- MODULE MemoryProofs ----------------------------
(***************************************************************************)
(* Facts about the operators that the memory managers and the process      *)
(* loader share.  The bitmap frame allocator, for every number of frames   *)
(* and every bitmap.  The page tables, for every fan-out and every address *)
(* space: what map_to, unmap and translate leave alone, and which frames   *)
(* map_to takes on the way, also when it fails.                            *)
(***************************************************************************)
EXTENDS PageTables, FiniteSetTheorems, WellFoundedInduction, TLAPS

-----------------------------------------------------------------------------
(* A nonempty set of naturals has a least element, and Min is it. *)
LEMMA MinOfNats ==
  ASSUME NEW S, S \subseteq Nat, NEW z \in S
  PROVE  Min(S) \in S /\ \A y \in S : Min(S) <= y
<1>1. PICK x \in S : \A y \in S : ~(<<y, x>> \in OpToRel(<, Nat))
  BY WFMin, NatLessThanWellFounded
<1>2. \A y \in S : ~(y < x)
  BY <1>1, Zenon DEF OpToRel
<1>3. \A y \in S : x <= y
  BY <1>2
<1> QED BY <1>3 DEF Min

(* A nonempty set of numbers up to n has a greatest element, and Max is it. *)
LEMMA MaxOfBounded ==
  ASSUME NEW n \in Nat, NEW S, S \subseteq 0 .. n, S # {}
  PROVE  Max(S) \in S /\ \A y \in S : Max(S) >= y
<1> DEFINE T == {n - y : y \in S}
<1>0. PICK z \in S : TRUE
  OBVIOUS
<1>1. T \subseteq Nat /\ n - z \in T
  BY <1>0
<1>2. Min(T) \in T /\ \A t \in T : Min(T) <= t
  BY <1>1, MinOfNats
<1>3. PICK x \in S : Min(T) = n - x
  BY <1>2
<1>4. \A y \in S : n - x <= n - y
  BY <1>2, <1>3
<1>5. \A y \in S : x >= y
  BY <1>4
<1> QED BY <1>5 DEF Max

(* The frames are finitely many, and no set of them outnumbers them. *)
LEMMA FramesFinite ==
  /\ IsFiniteSet(Frames)
  /\ Cardinality(Frames) = TotalFrames
  /\ \A S \in SUBSET Frames :
       IsFiniteSet(S) /\ Cardinality(S) \in 0 .. TotalFrames
<1>1. IsFiniteSet(Frames) /\ Cardinality(Frames) = TotalFrames
  BY FS_Interval, FrameAllocatorAssumption DEF Frames
<1>2. \A S \in SUBSET Frames :
        IsFiniteSet(S) /\ Cardinality(S) <= TotalFrames /\ Cardinality(S) \in Nat
  BY <1>1, FS_Subset, FS_CardinalityType
<1> QED BY <1>1, <1>2, FrameAllocatorAssumption

(* The scan for a free frame stops at one, or at total_frames. *)
LEMMA FirstFreeIsFree ==
  ASSUME NEW bitmap, NEW from \in 0 .. TotalFrames
  PROVE  /\ FirstFree(bitmap, from) \in 0 .. TotalFrames
         /\ FirstFree(bitmap, from) = TotalFrames \/ FirstFree(bitmap, from) \notin bitmap
         /\ from <= FirstFree(bitmap, from)
         /\ \A f \in Frames \ bitmap : from <= f => FirstFree(bitmap, from) <= f
<1> DEFINE S == {f \in from .. TotalFrames : f = TotalFrames \/ f \notin bitmap}
<1>1. S \subseteq Nat /\ TotalFrames \in S
  BY FrameAllocatorAssumption
<1>2. Min(S) \in S /\ \A y \in S : Min(S) <= y
  BY <1>1, MinOfNats
<1>3. FirstFree(bitmap, from) = Min(S)
  BY DEF FirstFree
<1>4. \A f \in Frames \ bitmap : from <= f => f \in S
  BY FrameAllocatorAssumption DEF Frames
<1> HIDE DEF S
<1>5. Min(S) \in from .. TotalFrames /\ (Min(S) = TotalFrames \/ Min(S) \notin bitmap)
  BY <1>2 DEF S
<1> QED BY <1>2, <1>3, <1>4, <1>5, FrameAllocatorAssumption

-----------------------------------------------------------------------------
(* The two facts every call preserves, for an allocator on its own: it is  *)
(* well typed with a hint that is free, and its count is its bitmap's.     *)
Sound(a) ==
  a \in Allocator /\ (a.next_free = TotalFrames \/ a.next_free \notin a.bitmap)

Counted(a) == a.allocated_frames = Cardinality(a.bitmap)

(* After a scan from the first frame the hint is the lowest free frame. *)
HintIsLowest(a) == \A f \in Frames \ a.bitmap : a.next_free <= f

(* Wrapping arithmetic stays in usize, and is exact where it does not wrap. *)
LEMMA WrappingType ==
  ASSUME NEW x \in Usize, NEW y \in 0 .. TotalFrames
  PROVE  /\ WrappingAdd(x, y) \in Usize
         /\ WrappingSub(x, y) \in Usize
         /\ WrappingSub(y, x) \in Usize
BY FrameAllocatorAssumption DEF WrappingAdd, WrappingSub, Usize

(* Reserving a set of frames keeps the allocator sound and its count exact, *)
(* also when some of the frames were reserved before.                       *)
LEMMA ReserveSound ==
  ASSUME NEW a \in Allocator, NEW S \in SUBSET Frames
  PROVE  LET r == reserve_frames(a, S)
         IN  /\ Sound(r)
             /\ r.bitmap = a.bitmap \cup S
             /\ HintIsLowest(r)
             /\ r.validation_enabled = a.validation_enabled
             /\ Counted(a) => Counted(r)
<1> DEFINE b == a.bitmap \cup S
           n == Cardinality(S \ a.bitmap)
           r == reserve_frames(a, S)
<1>1. b \in SUBSET Frames /\ S \ a.bitmap \in SUBSET Frames /\ a.bitmap \in SUBSET Frames
  BY DEF Allocator
<1>2. n \in 0 .. TotalFrames
  BY <1>1, FramesFinite
<1>3. /\ FirstFree(b, 0) \in 0 .. TotalFrames
      /\ FirstFree(b, 0) = TotalFrames \/ FirstFree(b, 0) \notin b
      /\ \A f \in Frames \ b : FirstFree(b, 0) <= f
  <2>1. \A f \in Frames : 0 <= f
    BY DEF Frames
  <2> QED BY <2>1, FirstFreeIsFree, FrameAllocatorAssumption
<1>4. r = [a EXCEPT !.bitmap = b,
                    !.allocated_frames = WrappingAdd(a.allocated_frames, n),
                    !.next_free = FirstFree(b, 0)]
  BY DEF reserve_frames, recalculate_next_free, Allocator
<1>5. WrappingAdd(a.allocated_frames, n) \in Usize
  BY <1>2, WrappingType DEF Allocator
<1>6. r \in Allocator
  BY <1>1, <1>3, <1>4, <1>5 DEF Allocator
<1>7. ASSUME Counted(a) PROVE Counted(r)
  <2>1. Cardinality(b) = Cardinality(a.bitmap) + n
    <3>1. IsFiniteSet(a.bitmap) /\ IsFiniteSet(S \ a.bitmap)
      BY <1>1, FramesFinite
    <3>2. a.bitmap \cap (S \ a.bitmap) = {} /\ b = a.bitmap \cup (S \ a.bitmap)
      OBVIOUS
    <3>3. /\ Cardinality(b) = Cardinality(a.bitmap) + n
                               - Cardinality(a.bitmap \cap (S \ a.bitmap))
      BY <3>1, <3>2, FS_Union
    <3>4. Cardinality(a.bitmap) \in Nat
      BY <1>1, FramesFinite
    <3>5. Cardinality(a.bitmap \cap (S \ a.bitmap)) = 0
      BY <3>2, FS_EmptySet
    <3> HIDE DEF n, b
    <3> QED BY <3>3, <3>4, <3>5, <1>2
  <2>2. Cardinality(b) \in 0 .. TotalFrames /\ Cardinality(a.bitmap) \in 0 .. TotalFrames
    BY <1>1, FramesFinite
  <2>3. WrappingAdd(Cardinality(a.bitmap), n) = Cardinality(b)
    <3> HIDE DEF n, b
    <3> QED BY <1>2, <2>1, <2>2, FrameAllocatorAssumption DEF WrappingAdd
  <2> QED BY <1>4, <1>7, <2>3, <1>6 DEF Counted, Allocator
<1>8. HintIsLowest(r)
  BY <1>3, <1>4 DEF HintIsLowest, Allocator
<1> QED BY <1>3, <1>4, <1>6, <1>7, <1>8 DEF Sound, Allocator

(* Clearing bits keeps the hint free: it moves only to a cleared frame. *)
LEMMA MarkFreeSound ==
  ASSUME NEW a, Sound(a), NEW S \in SUBSET Frames
  PROVE  LET m == mark_frames_free(a, S)
         IN  /\ Sound(m)
             /\ m.bitmap = a.bitmap \ S
             /\ m.allocated_frames = a.allocated_frames
             /\ m.validation_enabled = a.validation_enabled
<1> DEFINE m == mark_frames_free(a, S)
           low == Min({a.next_free} \cup S)
<1>1. a \in Allocator /\ a.next_free \in 0 .. TotalFrames /\ S \subseteq 0 .. TotalFrames
  BY FrameAllocatorAssumption DEF Sound, Allocator, Frames
<1>2. low \in {a.next_free} \cup S
  <2>1. \A k \in 0 .. TotalFrames : {k} \cup S \subseteq Nat /\ k \in {k} \cup S
    BY <1>1, FrameAllocatorAssumption
  <2> QED BY <1>1, <2>1, MinOfNats
<1>3. m = [a EXCEPT !.bitmap = a.bitmap \ S, !.next_free = low]
  BY <1>1 DEF mark_frames_free, Allocator
<1>4. m \in Allocator
  BY <1>1, <1>2, <1>3 DEF Allocator
<1> QED BY <1>1, <1>2, <1>3, <1>4 DEF Sound, Allocator

(* Taking free frames keeps the allocator sound and its count exact. *)
LEMMA TakeSound ==
  ASSUME NEW a \in Allocator, NEW S \in SUBSET Frames, S \cap a.bitmap = {},
         NEW from \in 0 .. TotalFrames
  PROVE  LET t == Take(a, S, from).allocator
         IN  /\ Sound(t)
             /\ t.bitmap = a.bitmap \cup S
             /\ t.validation_enabled = a.validation_enabled
             /\ Counted(a) => Counted(t)
<1> DEFINE b == a.bitmap \cup S
           n == Cardinality(S)
           t == Take(a, S, from).allocator
<1>1. b \in SUBSET Frames /\ a.bitmap \in SUBSET Frames
  BY DEF Allocator
<1>2. n \in 0 .. TotalFrames
  BY FramesFinite
<1>3. /\ FirstFree(b, from) \in 0 .. TotalFrames
      /\ FirstFree(b, from) = TotalFrames \/ FirstFree(b, from) \notin b
  BY FirstFreeIsFree
<1>4. t = [a EXCEPT !.bitmap = b,
                    !.allocated_frames = WrappingAdd(a.allocated_frames, n),
                    !.next_free = FirstFree(b, from)]
  BY DEF Take, Allocator
<1>5. WrappingAdd(a.allocated_frames, n) \in Usize
  BY <1>2, WrappingType DEF Allocator
<1>6. t \in Allocator
  BY <1>1, <1>3, <1>4, <1>5 DEF Allocator
<1>7. ASSUME Counted(a) PROVE Counted(t)
  <2>1. Cardinality(b) = Cardinality(a.bitmap) + n
    <3>1. IsFiniteSet(a.bitmap) /\ IsFiniteSet(S) /\ Cardinality(a.bitmap) \in Nat
      BY <1>1, FramesFinite
    <3>2. Cardinality(b) = Cardinality(a.bitmap) + n - Cardinality(a.bitmap \cap S)
      BY <3>1, FS_Union
    <3>3. a.bitmap \cap S = {}
      OBVIOUS
    <3>4. Cardinality(a.bitmap \cap S) = 0
      BY <3>3, FS_EmptySet
    <3> HIDE DEF n, b
    <3> QED BY <3>1, <3>2, <3>4, <1>2
  <2>2. Cardinality(b) \in 0 .. TotalFrames /\ Cardinality(a.bitmap) \in 0 .. TotalFrames
    BY <1>1, FramesFinite
  <2>3. WrappingAdd(Cardinality(a.bitmap), n) = Cardinality(b)
    <3> HIDE DEF n, b
    <3> QED BY <1>2, <2>1, <2>2, FrameAllocatorAssumption DEF WrappingAdd
  <2> QED BY <1>4, <1>7, <2>3, <1>6 DEF Counted, Allocator
<1> QED BY <1>3, <1>4, <1>6, <1>7 DEF Sound, Allocator

(* A refused call moves a statistics counter and nothing else. *)
LEMMA RefusalSound ==
  ASSUME NEW a, Sound(a),
         NEW f \in {AllocationFailed(a).allocator, InvalidFree(a).allocator,
                    DoubleFree(a).allocator}
  PROVE  /\ Sound(f)
         /\ f.bitmap = a.bitmap
         /\ f.allocated_frames = a.allocated_frames
         /\ f.next_free = a.next_free
         /\ f.validation_enabled = a.validation_enabled
         /\ f.stats.largest_free_block = a.stats.largest_free_block
<1>1. a \in Allocator
  BY DEF Sound
<1>2. PICK s \in MemoryStatistics : /\ f = [a EXCEPT !.stats = s]
                                    /\ s.largest_free_block = a.stats.largest_free_block
  <2>1. CASE f = AllocationFailed(a).allocator
    <3> DEFINE s == [a.stats EXCEPT !.allocation_failures =
                       CountIf(a, a.stats.allocation_failures)]
    <3>1. s \in MemoryStatistics /\ s.largest_free_block = a.stats.largest_free_block
      BY <1>1 DEF Allocator, MemoryStatistics, CountIf
    <3>2. f = [a EXCEPT !.stats = s]
      BY <2>1, <1>1 DEF AllocationFailed, Allocator
    <3> QED BY <3>1, <3>2
  <2>2. CASE f = InvalidFree(a).allocator
    <3> DEFINE s == [a.stats EXCEPT !.invalid_free_attempts =
                       CountIf(a, a.stats.invalid_free_attempts)]
    <3>1. s \in MemoryStatistics /\ s.largest_free_block = a.stats.largest_free_block
      BY <1>1 DEF Allocator, MemoryStatistics, CountIf
    <3>2. f = [a EXCEPT !.stats = s]
      BY <2>2, <1>1 DEF InvalidFree, Allocator
    <3> QED BY <3>1, <3>2
  <2>3. CASE f = DoubleFree(a).allocator
    <3> DEFINE s == [a.stats EXCEPT !.double_free_attempts =
                       CountIf(a, a.stats.double_free_attempts)]
    <3>1. s \in MemoryStatistics /\ s.largest_free_block = a.stats.largest_free_block
      BY <1>1 DEF Allocator, MemoryStatistics, CountIf
    <3>2. f = [a EXCEPT !.stats = s]
      BY <2>3, <1>1 DEF DoubleFree, Allocator
    <3> QED BY <3>1, <3>2
  <2> QED BY <2>1, <2>2, <2>3
<1>3. f \in Allocator
  BY <1>1, <1>2 DEF Allocator
<1> QED BY <1>1, <1>2, <1>3 DEF Sound, Allocator

-----------------------------------------------------------------------------
(* What an allocation call guarantees about its outcome r. *)
GrantOK(a, r) ==
  /\ Sound(r.allocator)
  /\ r.granted \in SUBSET Frames
  /\ r.granted \cap a.bitmap = {}
  /\ \A x, y \in r.granted : \A f \in Frames : x <= f /\ f <= y => f \in r.granted
  /\ r.allocator.bitmap = a.bitmap \cup r.granted
  /\ r.allocator.validation_enabled = a.validation_enabled
  /\ Counted(a) => Counted(r.allocator)

(* What a free call guarantees about its outcome r. *)
FreeOK(a, r) ==
  /\ Sound(r.allocator)
  /\ r.freed \in SUBSET Frames
  /\ r.allocator.bitmap = a.bitmap \ r.freed
  /\ r.result \in {"Ok", "InvalidFree", "DoubleFree"}
  /\ r.result # "Ok" => r.freed = {}
  /\ r.allocator.validation_enabled = a.validation_enabled
  /\ a.validation_enabled => /\ r.freed \subseteq a.bitmap
                             /\ Counted(a) => Counted(r.allocator)

(* A failed allocation grants nothing and changes no frame. *)
LEMMA AllocationFailedOK ==
  ASSUME NEW a, Sound(a)
  PROVE  GrantOK(a, AllocationFailed(a))
<1> DEFINE f == AllocationFailed(a).allocator
<1>1. /\ Sound(f) /\ f.bitmap = a.bitmap /\ f.allocated_frames = a.allocated_frames
      /\ f.validation_enabled = a.validation_enabled
  BY RefusalSound
<1>2. AllocationFailed(a).granted = {}
  BY DEF AllocationFailed
<1> HIDE DEF f
<1>3. Counted(a) => Counted(f)
  BY <1>1 DEF Counted
<1> QED BY <1>1, <1>2, <1>3 DEF GrantOK, f

(* Taking free, adjacent frames is a grant. *)
LEMMA TakeOK ==
  ASSUME NEW a, Sound(a), NEW lo \in Frames, NEW hi \in Frames,
         (lo .. hi) \cap a.bitmap = {}, NEW from \in 0 .. TotalFrames
  PROVE  GrantOK(a, Take(a, lo .. hi, from))
<1> DEFINE S == lo .. hi
           t == Take(a, S, from).allocator
<1>1. S \in SUBSET Frames /\ a \in Allocator
  BY FrameAllocatorAssumption DEF Frames, Sound
<1>a. S \cap a.bitmap = {}
  OBVIOUS
<1>2. /\ Sound(t) /\ t.bitmap = a.bitmap \cup S
      /\ t.validation_enabled = a.validation_enabled
      /\ Counted(a) => Counted(t)
  <2> HIDE DEF S
  <2> QED BY <1>1, <1>a, TakeSound
<1>3. Take(a, S, from).granted = S
  BY DEF Take
<1>4. \A x, y \in S : \A f \in Frames : x <= f /\ f <= y => f \in S
  BY FrameAllocatorAssumption DEF Frames
<1> HIDE DEF S, t
<1> QED BY <1>1, <1>2, <1>3, <1>4 DEF GrantOK, t, S

(* allocate_frame hands out one free frame, or nothing. *)
LEMMA AllocateFrameOK ==
  ASSUME NEW a, Sound(a)
  PROVE  /\ GrantOK(a, allocate_frame(a))
         /\ a.next_free = TotalFrames => allocate_frame(a).granted = {}
         /\ a.next_free # TotalFrames => allocate_frame(a).granted = {a.next_free}
<1>1. a.next_free \in 0 .. TotalFrames
  BY DEF Sound, Allocator
<1>2. CASE a.next_free = TotalFrames
  <2>1. allocate_frame(a) = AllocationFailed(a)
    BY <1>2, FrameAllocatorAssumption DEF allocate_frame
  <2> QED BY <1>2, <2>1, AllocationFailedOK DEF AllocationFailed
<1>3. CASE a.next_free # TotalFrames
  <2> DEFINE n == a.next_free
  <2>1. n \in Frames /\ n .. n = {n} /\ n \notin a.bitmap
    BY <1>1, <1>3, FrameAllocatorAssumption DEF Frames, Sound
  <2>2. allocate_frame(a) = Take(a, n .. n, n)
    BY <1>1, <1>3, <2>1, FrameAllocatorAssumption DEF allocate_frame
  <2>3. (n .. n) \cap a.bitmap = {}
    BY <2>1
  <2>4. GrantOK(a, allocate_frame(a))
    <3>1. n \in Frames /\ n \in 0 .. TotalFrames
      BY <1>1, <2>1
    <3> HIDE DEF n
    <3>2. GrantOK(a, Take(a, n .. n, n))
      BY <2>3, <3>1, TakeOK, Zenon
    <3> QED BY <2>2, <3>2
  <2>5. allocate_frame(a).granted = {n}
    BY <2>1, <2>2 DEF Take
  <2> QED BY <1>3, <2>4, <2>5
<1> QED BY <1>2, <1>3

(* allocate_frames hands out a block of adjacent free frames, or nothing. *)
LEMMA AllocateFramesOK ==
  ASSUME NEW a, Sound(a), NEW count \in Nat
  PROVE  /\ GrantOK(a, allocate_frames(a, count))
         /\ allocate_frames(a, count).granted # {} =>
              \E s \in Frames : /\ s + count <= TotalFrames /\ count > 0
                               /\ allocate_frames(a, count).granted = s .. s + count - 1
<1> DEFINE r == allocate_frames(a, count)
<1>0. a.next_free \in 0 .. TotalFrames
  BY DEF Sound, Allocator
<1>1. CASE count = 0
  <2>1. r.allocator = a /\ r.granted = {}
    BY <1>1 DEF allocate_frames
  <2> HIDE DEF r
  <2> QED BY <2>1 DEF GrantOK, r
<1>2. CASE count # 0 /\ (count > TotalFrames \/ Fits(a, count) = {})
  <2>1. r = AllocationFailed(a)
    BY <1>2 DEF allocate_frames
  <2> QED BY <2>1, AllocationFailedOK DEF AllocationFailed
<1>3. CASE count # 0 /\ ~(count > TotalFrames \/ Fits(a, count) = {})
  <2> DEFINE F == Fits(a, count)
             start == Min(F)
  <2>1. F \subseteq Nat /\ F # {}
    BY <1>0, <1>3, FrameAllocatorAssumption DEF Fits
  <2>2. start \in F
    BY <2>1, MinOfNats
  <2>3. /\ start \in a.next_free .. TotalFrames - count
        /\ (start .. start + count - 1) \cap a.bitmap = {}
    BY <2>2 DEF Fits
  <2>4. r = Take(a, start .. start + count - 1, start + count)
    BY <1>3 DEF allocate_frames
  <2> HIDE DEF F, start
  <2>5. /\ start \in Frames /\ start + count - 1 \in Frames
        /\ start + count \in 0 .. TotalFrames
    BY <1>0, <1>3, <2>3, FrameAllocatorAssumption DEF Frames
  <2>6. GrantOK(a, r)
    BY <2>3, <2>4, <2>5, TakeOK
  <2>7. r.granted = start .. start + count - 1
    BY <2>4 DEF Take
  <2> QED BY <1>3, <2>5, <2>6, <2>7, FrameAllocatorAssumption
<1> QED BY <1>1, <1>2, <1>3

(* Releasing a block within the tracked frames, checked when validation is on. *)
LEMMA ReleasedOK ==
  ASSUME NEW a, Sound(a), NEW lo \in Nat, NEW count \in Nat,
         lo + count <= TotalFrames,
         a.validation_enabled => lo .. lo + count - 1 \subseteq a.bitmap
  PROVE  FreeOK(a, Released(a, lo .. lo + count - 1, count))
<1> DEFINE S == lo .. lo + count - 1
           m == mark_frames_free(a, S)
           r == Released(a, S, count)
           n == WrappingSub(a.allocated_frames, count)
<1>1. S \in SUBSET Frames /\ count \in 0 .. TotalFrames
  BY FrameAllocatorAssumption DEF Frames
<1>2. /\ Sound(m) /\ m.bitmap = a.bitmap \ S
      /\ m.allocated_frames = a.allocated_frames
      /\ m.validation_enabled = a.validation_enabled
  BY <1>1, MarkFreeSound
<1>3. m \in Allocator /\ a \in Allocator
  BY <1>2 DEF Sound
<1>4. n \in Usize
  BY <1>1, <1>3, WrappingType DEF Allocator
<1> HIDE DEF m
<1>5. r.allocator = [m EXCEPT !.allocated_frames = n] /\ r.freed = S /\ r.result = "Ok"
  BY <1>2, <1>3 DEF Released, m
<1>6. r.allocator \in Allocator
  BY <1>3, <1>4, <1>5 DEF Allocator
<1>7. Sound(r.allocator)
  <2> HIDE DEF n, r
  <2> QED BY <1>2, <1>3, <1>5, <1>6 DEF Sound, Allocator
<1>8. ASSUME a.validation_enabled, Counted(a) PROVE Counted(r.allocator)
  <2>1. a.bitmap \in SUBSET Frames /\ a.bitmap \cap S = S
    BY <1>3, <1>8 DEF Allocator
  <2>2. IsFiniteSet(a.bitmap) /\ Cardinality(a.bitmap) \in 0 .. TotalFrames
    BY <2>1, FramesFinite
  <2>3. Cardinality(S) = count
    BY FS_Interval
  <2>4. Cardinality(a.bitmap \ S) = Cardinality(a.bitmap) - count
    <3>1. Cardinality(a.bitmap \ S) = Cardinality(a.bitmap) - Cardinality(a.bitmap \cap S)
      BY <2>2, FS_Difference
    <3>2. Cardinality(a.bitmap \cap S) = Cardinality(S)
      BY <2>1
    <3> QED BY <2>3, <3>1, <3>2
  <2>5. count <= Cardinality(a.bitmap)
    BY <1>8, <2>2, <2>3, FS_Subset
  <2>6. n = Cardinality(a.bitmap \ S)
    BY <1>8, <2>2, <2>4, <2>5 DEF WrappingSub, Counted
  <2> HIDE DEF n, r, S
  <2>7. r.allocator.allocated_frames = n /\ r.allocator.bitmap = a.bitmap \ S
    BY <1>2, <1>3, <1>5 DEF Allocator
  <2> QED BY <2>6, <2>7 DEF Counted
<1> HIDE DEF n, S, r
<1>9. r.allocator.bitmap = a.bitmap \ S /\ r.allocator.validation_enabled = a.validation_enabled
  BY <1>2, <1>3, <1>5 DEF Allocator
<1> QED BY <1>1, <1>5, <1>7, <1>8, <1>9 DEF FreeOK, S, r

(* A refused free gives nothing back. *)
LEMMA FreeRefusedOK ==
  ASSUME NEW a, Sound(a)
  PROVE  FreeOK(a, InvalidFree(a)) /\ FreeOK(a, DoubleFree(a))
<1>1. ASSUME NEW r \in {InvalidFree(a), DoubleFree(a)}
      PROVE  FreeOK(a, r)
  <2>1. /\ Sound(r.allocator) /\ r.allocator.bitmap = a.bitmap
        /\ r.allocator.allocated_frames = a.allocated_frames
        /\ r.allocator.validation_enabled = a.validation_enabled
    <3>1. r.allocator \in {AllocationFailed(a).allocator, InvalidFree(a).allocator,
                            DoubleFree(a).allocator}
      OBVIOUS
    <3> QED BY <3>1, RefusalSound, Zenon
  <2>2. r.freed = {} /\ r.result \in {"InvalidFree", "DoubleFree"}
    BY DEF InvalidFree, DoubleFree
  <2>3. Counted(a) => Counted(r.allocator)
    BY <2>1 DEF Counted
  <2>4. a.bitmap \ {} = a.bitmap /\ {} \in SUBSET Frames /\ {} \subseteq a.bitmap
    OBVIOUS
  <2> QED BY <2>1, <2>2, <2>3, <2>4 DEF FreeOK
<1> QED BY <1>1

(* free_frame frees the frame of an address if it is reserved. *)
LEMMA FreeFrameOK ==
  ASSUME NEW a, Sound(a), NEW addr \in Nat
  PROVE  FreeOK(a, free_frame(a, addr))
<1> DEFINE f == address_to_frame(addr)
<1>1. f \in Nat
  BY FrameAllocatorAssumption DEF address_to_frame
<1>2. CASE f >= TotalFrames
  BY <1>2, FreeRefusedOK DEF free_frame
<1>3. CASE ~(f >= TotalFrames) /\ ~is_frame_reserved(a, f)
  BY <1>3, FreeRefusedOK DEF free_frame
<1>4. CASE ~(f >= TotalFrames) /\ is_frame_reserved(a, f)
  <2> HIDE DEF f
  <2>1. f + 1 <= TotalFrames /\ f .. f + 1 - 1 = {f} /\ f \in a.bitmap
    BY <1>1, <1>4, FrameAllocatorAssumption DEF is_frame_reserved
  <2>2. FreeOK(a, Released(a, f .. f + 1 - 1, 1))
    <3>1. f .. f + 1 - 1 \subseteq a.bitmap
      BY <2>1
    <3> QED BY <1>1, <2>1, <3>1, ReleasedOK
  <2>3. free_frame(a, addr) = Released(a, {f}, 1)
    BY <1>4 DEF free_frame, f
  <2> QED BY <2>1, <2>2, <2>3
<1> QED BY <1>2, <1>3, <1>4

(* free_frames frees the whole block or nothing. *)
LEMMA FreeFramesOK ==
  ASSUME NEW a, Sound(a), NEW addr \in Nat, NEW count \in Nat
  PROVE  FreeOK(a, free_frames(a, addr, count))
<1> DEFINE start == address_to_frame(addr)
           S == start .. start + count - 1
<1>1. start \in Nat
  BY FrameAllocatorAssumption DEF address_to_frame
<1>2. CASE start + count > TotalFrames
  BY <1>2, FreeRefusedOK DEF free_frames
<1>3. CASE ~(start + count > TotalFrames) /\ a.validation_enabled /\ ~(S \subseteq a.bitmap)
  BY <1>3, FreeRefusedOK DEF free_frames
<1>4. CASE ~(start + count > TotalFrames) /\ ~(a.validation_enabled /\ ~(S \subseteq a.bitmap))
  <2>1. free_frames(a, addr, count) = Released(a, S, count)
    BY <1>4 DEF free_frames
  <2> HIDE DEF start
  <2>2. start + count <= TotalFrames
    BY <1>1, <1>4, FrameAllocatorAssumption
  <2> QED BY <1>1, <1>4, <2>1, <2>2, ReleasedOK
<1> QED BY <1>2, <1>3, <1>4

(* Taking the statistics changes only the statistics. *)
LEMMA StatisticsOK ==
  ASSUME NEW a, Sound(a)
  PROVE  LET u == update_statistics(a)
         IN  /\ Sound(u) /\ u.bitmap = a.bitmap /\ u.next_free = a.next_free
             /\ u.stats.largest_free_block = LargestFreeBlock(a.bitmap)
             /\ u.validation_enabled = a.validation_enabled
             /\ Counted(a) => Counted(u)
<1> DEFINE u == update_statistics(a)
           st == [a.stats EXCEPT
                    !.free_frames = WrappingSub(TotalFrames, a.allocated_frames),
                    !.allocated_frames = a.allocated_frames,
                    !.free_block_count = FreeBlockCount(a.bitmap),
                    !.largest_free_block = LargestFreeBlock(a.bitmap)]
<1>1. a \in Allocator
  BY DEF Sound
<1>2. FreeBlockCount(a.bitmap) \in Nat
  BY FramesFinite DEF FreeBlockCount
<1>3. LargestFreeBlock(a.bitmap) \in Nat
  <2> DEFINE B == {n \in 0 .. TotalFrames :
                     \E s \in 0 .. TotalFrames - n : (s .. s + n - 1) \cap a.bitmap = {}}
  <2>1. 0 \in B /\ B \subseteq 0 .. TotalFrames
    <3>1. 0 .. 0 + 0 - 1 = {}
      OBVIOUS
    <3>2. 0 \in 0 .. TotalFrames - 0 /\ 0 \in 0 .. TotalFrames
      BY FrameAllocatorAssumption
    <3> QED BY <3>1, <3>2
  <2>2. Max(B) \in B
    BY <2>1, MaxOfBounded, FrameAllocatorAssumption
  <2> QED BY <2>1, <2>2 DEF LargestFreeBlock
<1>4. WrappingSub(TotalFrames, a.allocated_frames) \in Usize
  BY <1>1, WrappingType, FrameAllocatorAssumption DEF Allocator
<1>5. st \in MemoryStatistics
  BY <1>1, <1>2, <1>3, <1>4 DEF Allocator, MemoryStatistics
<1>6. u = [a EXCEPT !.stats = st]
  BY <1>1 DEF update_statistics, Allocator, MemoryStatistics
<1>a. st.largest_free_block = LargestFreeBlock(a.bitmap)
  BY <1>1 DEF Allocator, MemoryStatistics
<1> HIDE DEF st
<1>7. u \in Allocator
  BY <1>1, <1>5, <1>6 DEF Allocator
<1> QED BY <1>1, <1>6, <1>7, <1>a DEF Sound, Counted, Allocator

-----------------------------------------------------------------------------
(* The frame of a frame's first address is that frame. *)
LEMMA FrameOfAddress ==
  ASSUME NEW f \in Nat
  PROVE  f * FrameSize \in Nat /\ address_to_frame(f * FrameSize) = f
BY FrameAllocatorAssumption DEF address_to_frame

(* The second half of the self-test, from a sound allocator and a free     *)
(* test frame, leaves the bitmap alone and passes.                         *)
LEMMA SelfTestTailOK ==
  ASSUME NEW a, Sound(a), NEW addr \in Nat
  PROVE  LET t == SelfTestTail(a, addr)
         IN  /\ Sound(t.allocator) /\ t.passed \in BOOLEAN
             /\ t.allocator.validation_enabled = a.validation_enabled
             /\ /\ Counted(a) /\ a.validation_enabled
                /\ address_to_frame(addr) < TotalFrames
                /\ address_to_frame(addr) \notin a.bitmap
                => /\ t.passed /\ t.allocator.bitmap = a.bitmap
                   /\ Counted(t.allocator)
<1> DEFINE double  == free_frame(a, addr)
           invalid == free_frame(double.allocator, BeyondTracked)
           block   == allocate_frames(invalid.allocator, SelfTestBlock)
           back    == free_frames(block.allocator, Min(block.granted) * FrameSize, SelfTestBlock)
           after   == IF block.granted = {} THEN block.allocator ELSE back.allocator
           t       == SelfTestTail(a, addr)
<1>1. FreeOK(a, double)
  BY FreeFrameOK
<1>2. BeyondTracked \in Nat /\ address_to_frame(BeyondTracked) = TotalFrames + 1
  BY FrameOfAddress, FrameAllocatorAssumption DEF BeyondTracked
<1> HIDE DEF double
<1>3. FreeOK(double.allocator, invalid)
  BY <1>1, <1>2, FreeFrameOK DEF FreeOK
<1>4. invalid = InvalidFree(double.allocator)
  BY <1>2, FrameAllocatorAssumption DEF free_frame
<1> HIDE DEF invalid
<1>5. /\ GrantOK(invalid.allocator, block)
      /\ block.granted # {} =>
           \E s \in Frames : block.granted = s .. s + SelfTestBlock - 1
  BY <1>3, AllocateFramesOK DEF FreeOK, SelfTestBlock
<1> HIDE DEF block
<1>6. ASSUME block.granted # {}
      PROVE  \E s \in Frames : /\ block.granted = s .. s + SelfTestBlock - 1
                               /\ Min(block.granted) = s
                               /\ s * FrameSize \in Nat
                               /\ address_to_frame(s * FrameSize) = s
  <2>1. PICK s \in Frames : block.granted = s .. s + SelfTestBlock - 1
    BY <1>5, <1>6
  <2>2. s \in Nat /\ s \in block.granted /\ block.granted \subseteq Nat
    BY <2>1, FrameAllocatorAssumption DEF Frames, SelfTestBlock
  <2>3. Min(block.granted) \in block.granted /\ Min(block.granted) <= s
    BY <2>2, MinOfNats
  <2>4. Min(block.granted) = s
    BY <2>1, <2>2, <2>3 DEF SelfTestBlock
  <2> QED BY <2>1, <2>2, <2>4, FrameOfAddress
<1>7. block.granted # {} => FreeOK(block.allocator, back)
  BY <1>5, <1>6, FreeFramesOK DEF GrantOK, SelfTestBlock
<1>8. t = IF double.result # "DoubleFree"
            THEN [allocator |-> double.allocator, passed |-> FALSE]
          ELSE IF invalid.result # "InvalidFree"
            THEN [allocator |-> invalid.allocator, passed |-> FALSE]
          ELSE [allocator |-> after, passed |-> validate_bitmap(after)]
  BY DEF SelfTestTail, double, invalid, block
<1>9. Sound(after) /\ after.validation_enabled = a.validation_enabled
  <2> HIDE DEF back
  <2> QED BY <1>1, <1>3, <1>5, <1>7 DEF FreeOK, GrantOK
<1>10. ASSUME Counted(a), a.validation_enabled,
              address_to_frame(addr) < TotalFrames,
              address_to_frame(addr) \notin a.bitmap
       PROVE  t.passed /\ t.allocator.bitmap = a.bitmap /\ Counted(t.allocator)
  <2>1. double = DoubleFree(a) /\ double.result = "DoubleFree" /\ double.allocator.bitmap = a.bitmap
    <3>1. address_to_frame(addr) \in Nat
      BY FrameAllocatorAssumption DEF address_to_frame
    <3>2. double = DoubleFree(a)
      BY <1>10, <3>1, FrameAllocatorAssumption DEF double, free_frame, is_frame_reserved
    <3>3. DoubleFree(a).result = "DoubleFree"
      BY DEF DoubleFree
    <3>4. double.freed = {}
      BY <1>1, <3>2, <3>3 DEF FreeOK
    <3> QED BY <1>1, <3>2, <3>3, <3>4 DEF FreeOK
  <2>2. invalid.result = "InvalidFree" /\ invalid.allocator.bitmap = a.bitmap
    <3>1. invalid.result = "InvalidFree"
      BY <1>4 DEF InvalidFree
    <3> QED BY <1>3, <2>1, <3>1 DEF FreeOK
  <2>3. /\ Counted(invalid.allocator) /\ invalid.allocator.validation_enabled
    BY <1>1, <1>3, <1>10 DEF FreeOK
  <2>4. /\ Counted(block.allocator) /\ block.allocator.validation_enabled
        /\ block.allocator.bitmap = a.bitmap \cup block.granted
        /\ block.granted \cap a.bitmap = {}
    BY <1>5, <2>2, <2>3 DEF GrantOK
  <2>5. Counted(after) /\ after.bitmap = a.bitmap
    <3>1. CASE block.granted = {}
      BY <2>4, <3>1
    <3>2. CASE block.granted # {}
      <4>1. PICK s \in Frames : /\ block.granted = s .. s + SelfTestBlock - 1
                                /\ Min(block.granted) = s
                                /\ address_to_frame(s * FrameSize) = s
        BY <1>6, <3>2
      <4>2. block.granted \in SUBSET Frames
        BY <1>5 DEF GrantOK
      <4>3. s + SelfTestBlock <= TotalFrames
        BY <4>1, <4>2, FrameAllocatorAssumption DEF Frames, SelfTestBlock
      <4>4. back = Released(block.allocator, block.granted, SelfTestBlock)
        BY <2>4, <4>1, <4>3, FrameAllocatorAssumption DEF free_frames, Frames, SelfTestBlock
      <4>5. back.freed = block.granted
        BY <4>4 DEF Released
      <4> HIDE DEF back
      <4>6. Counted(back.allocator) /\ back.allocator.bitmap = (a.bitmap \cup block.granted) \ block.granted
        BY <1>7, <2>4, <3>2, <4>5 DEF FreeOK
      <4> QED BY <2>4, <3>2, <4>6
    <3> QED BY <3>1, <3>2
  <2> HIDE DEF after
  <2>6. validate_bitmap(after)
    BY <2>5 DEF validate_bitmap, Counted
  <2> HIDE DEF t
  <2> QED BY <1>8, <2>1, <2>2, <2>5, <2>6
<1> HIDE DEF after, t
<1>11. Sound(t.allocator) /\ t.passed \in BOOLEAN /\ t.allocator.validation_enabled = a.validation_enabled
  BY <1>1, <1>3, <1>8, <1>9 DEF FreeOK, validate_bitmap
<1> QED BY <1>10, <1>11 DEF t

(* The whole self-test: neutral on a counted, validated allocator, and it  *)
(* passes exactly when the hint points at a frame.                         *)
LEMMA SelfTestOK ==
  ASSUME NEW a, Sound(a)
  PROVE  /\ Sound(self_test(a).allocator) /\ self_test(a).passed \in BOOLEAN
         /\ self_test(a).allocator.validation_enabled = a.validation_enabled
         /\ Counted(a) /\ a.validation_enabled =>
              /\ self_test(a).allocator.bitmap = a.bitmap
              /\ Counted(self_test(a).allocator)
              /\ self_test(a).passed <=> a.next_free < TotalFrames
<1> DEFINE one   == allocate_frame(a)
           addr  == Min(one.granted) * FrameSize
           freed == free_frame(one.allocator, addr)
           tail  == SelfTestTail(freed.allocator, addr)
           t     == self_test(a)
<1>0. a.next_free \in 0 .. TotalFrames /\ a.validation_enabled \in BOOLEAN
  BY DEF Sound, Allocator
<1>1. /\ GrantOK(a, one)
      /\ a.next_free = TotalFrames => one.granted = {}
      /\ a.next_free # TotalFrames => one.granted = {a.next_free}
  BY AllocateFrameOK
<1>2. t = IF ~validate_bitmap(a) THEN [allocator |-> a, passed |-> FALSE]
          ELSE IF one.granted = {} THEN [allocator |-> one.allocator, passed |-> FALSE]
          ELSE IF \/ ~validate_bitmap(one.allocator)
                  \/ freed.result # "Ok"
                  \/ ~validate_bitmap(freed.allocator)
            THEN [allocator |-> freed.allocator, passed |-> FALSE]
          ELSE tail
  BY DEF self_test
<1> HIDE DEF one
<1>3. CASE ~validate_bitmap(a)
  <2>1. t = [allocator |-> a, passed |-> FALSE] /\ ~Counted(a)
    BY <1>2, <1>3 DEF validate_bitmap, Counted
  <2> HIDE DEF t
  <2> QED BY <2>1 DEF t
<1>4. CASE validate_bitmap(a) /\ one.granted = {}
  <2>1. t = [allocator |-> one.allocator, passed |-> FALSE]
    BY <1>2, <1>4
  <2>2. a.next_free = TotalFrames
    BY <1>1, <1>4
  <2>3. one.allocator.bitmap = a.bitmap
    BY <1>1, <1>4 DEF GrantOK
  <2> HIDE DEF t
  <2> QED BY <1>1, <2>1, <2>2, <2>3, FrameAllocatorAssumption DEF t, GrantOK
<1>5. CASE validate_bitmap(a) /\ one.granted # {}
  <2> DEFINE n == a.next_free
  <2>1. n \in Frames /\ one.granted = {n} /\ n < TotalFrames /\ n \in Nat
    BY <1>0, <1>1, <1>5, FrameAllocatorAssumption DEF Frames
  <2>2. Min(one.granted) = n
    <3>1. {n} \subseteq Nat
      BY <2>1
    <3> QED BY <2>1, <3>1, MinOfNats
  <2>3. addr \in Nat /\ address_to_frame(addr) = n
    BY <2>1, <2>2, FrameOfAddress
  <2> HIDE DEF n, addr
  <2>4. FreeOK(one.allocator, freed)
    BY <1>1, <2>3, FreeFrameOK DEF GrantOK
  <2>5. freed = Released(one.allocator, {n}, 1)
    <3>1. n \in one.allocator.bitmap
      BY <1>1, <2>1 DEF GrantOK
    <3> QED BY <2>1, <2>3, <3>1, FrameAllocatorAssumption
             DEF free_frame, is_frame_reserved
  <2>6. freed.freed = {n} /\ freed.result = "Ok"
    BY <2>5 DEF Released
  <2> HIDE DEF freed
  <2>7. /\ Sound(tail.allocator) /\ tail.passed \in BOOLEAN
        /\ tail.allocator.validation_enabled = freed.allocator.validation_enabled
        /\ Counted(freed.allocator) /\ freed.allocator.validation_enabled
           /\ n \notin freed.allocator.bitmap
           => /\ tail.passed /\ tail.allocator.bitmap = freed.allocator.bitmap
              /\ Counted(tail.allocator)
    BY <2>1, <2>3, <2>4, SelfTestTailOK DEF FreeOK
  <2> HIDE DEF tail
  <2>8. freed.allocator.bitmap = a.bitmap /\ n \notin freed.allocator.bitmap
    <3>1. n \notin a.bitmap
      BY <1>1, <2>1 DEF GrantOK
    <3> QED BY <1>1, <2>1, <2>4, <2>6, <3>1 DEF GrantOK, FreeOK
  <2>9. /\ freed.allocator.validation_enabled = a.validation_enabled
        /\ Counted(a) /\ a.validation_enabled =>
             Counted(one.allocator) /\ Counted(freed.allocator)
    BY <1>1, <2>4 DEF GrantOK, FreeOK
  <2> HIDE DEF t
  <2>10. CASE Counted(a) /\ a.validation_enabled
    <3>1. t = tail
      BY <1>2, <1>5, <2>6, <2>9, <2>10 DEF validate_bitmap, Counted
    <3>2. a.next_free < TotalFrames
      BY <2>1 DEF n
    <3>3. /\ tail.passed /\ tail.allocator.bitmap = a.bitmap
          /\ Counted(tail.allocator) /\ Sound(tail.allocator)
          /\ tail.allocator.validation_enabled = a.validation_enabled
      BY <2>7, <2>8, <2>9, <2>10
    <3>4. t.passed <=> a.next_free < TotalFrames
      BY <3>1, <3>2, <3>3, Zenon
    <3>5. /\ Sound(t.allocator) /\ t.passed \in BOOLEAN
          /\ t.allocator.validation_enabled = a.validation_enabled
          /\ t.allocator.bitmap = a.bitmap /\ Counted(t.allocator)
      BY <2>7, <3>1, <3>3
    <3> QED BY <3>4, <3>5, Zenon DEF t
  <2>11. CASE ~(Counted(a) /\ a.validation_enabled)
    <3>1. t = tail \/ t = [allocator |-> freed.allocator, passed |-> FALSE]
      BY <1>2, <1>5
    <3>2. /\ Sound(t.allocator) /\ t.passed \in BOOLEAN
          /\ t.allocator.validation_enabled = a.validation_enabled
      <4>1. CASE t = tail
        BY <4>1, <2>7, <2>9
      <4>2. CASE t = [allocator |-> freed.allocator, passed |-> FALSE]
        BY <4>2, <2>4, <2>9 DEF FreeOK
      <4> QED BY <3>1, <4>1, <4>2
    <3> QED BY <2>11, <3>2, Zenon DEF t
  <2> QED BY <2>10, <2>11
<1> QED BY <1>3, <1>4, <1>5

-----------------------------------------------------------------------------
(* A fresh allocator is sound and counted. *)
LEMMA NewOK == Sound(new) /\ Counted(new) /\ new.validation_enabled /\ new.bitmap = {}
<1>1. new \in Allocator
  BY FrameAllocatorAssumption DEF new, Allocator, MemoryStatistics, Usize
<1> QED BY <1>1, FS_EmptySet DEF Sound, Counted, new

-----------------------------------------------------------------------------
(* The self-test starts from the lowest free frame and leaves the hint at  *)
(* the first block of SelfTestBlock frames, which may lie behind free      *)
(* frames: allocate_frames can still serve every size it could before.     *)
Servable(a) ==
  \A n \in 1 .. TotalFrames : Fits(a, n) # {} <=> n <= LargestFreeBlock(a.bitmap)

(* The largest free block is the longest run of free frames. *)
LEMMA LargestIsLongest ==
  ASSUME NEW bitmap, NEW n \in 1 .. TotalFrames
  PROVE  n <= LargestFreeBlock(bitmap)
           <=> \E s \in 0 .. TotalFrames - n : (s .. s + n - 1) \cap bitmap = {}
<1> DEFINE B == {k \in 0 .. TotalFrames :
                   \E s \in 0 .. TotalFrames - k : (s .. s + k - 1) \cap bitmap = {}}
           L == Max(B)
<1>1. 0 \in B /\ B \subseteq 0 .. TotalFrames
  <2>1. 0 .. 0 + 0 - 1 = {}
    OBVIOUS
  <2>2. 0 \in 0 .. TotalFrames - 0 /\ 0 \in 0 .. TotalFrames
    BY FrameAllocatorAssumption
  <2> QED BY <2>1, <2>2
<1>2. L \in B /\ \A k \in B : L >= k
  <2> HIDE DEF B
  <2> QED BY <1>1, MaxOfBounded, FrameAllocatorAssumption
<1>3. LargestFreeBlock(bitmap) = L
  BY DEF LargestFreeBlock
<1>4. n \in 0 .. TotalFrames
  BY FrameAllocatorAssumption
<1>5. ASSUME NEW s \in 0 .. TotalFrames - n, (s .. s + n - 1) \cap bitmap = {}
      PROVE  n <= L
  <2>1. n \in B
    BY <1>4, <1>5
  <2>2. L \in 0 .. TotalFrames
    BY <1>1, <1>2
  <2> HIDE DEF L, B
  <2> QED BY <1>2, <1>4, <2>1, <2>2
<1>6. ASSUME n <= L
      PROVE  \E s \in 0 .. TotalFrames - n : (s .. s + n - 1) \cap bitmap = {}
  <2>0. L \in 0 .. TotalFrames
    BY <1>1, <1>2
  <2>1. PICK s \in 0 .. TotalFrames - L : (s .. s + L - 1) \cap bitmap = {}
    BY <1>2
  <2> HIDE DEF L, B
  <2>2. s \in 0 .. TotalFrames - n /\ s .. s + n - 1 \subseteq s .. s + L - 1
    BY <1>6, <2>0, FrameAllocatorAssumption
  <2> QED BY <2>1, <2>2
<1> QED BY <1>3, <1>5, <1>6

(* A hint at or below every free frame misses no block. *)
LEMMA LowestServes ==
  ASSUME NEW a \in Allocator, HintIsLowest(a)
  PROVE  Servable(a)
<1> SUFFICES ASSUME NEW n \in 1 .. TotalFrames
             PROVE  Fits(a, n) # {} <=> n <= LargestFreeBlock(a.bitmap)
  BY DEF Servable
<1>1. a.next_free \in 0 .. TotalFrames
  BY DEF Allocator
<1>2. ASSUME NEW s \in 0 .. TotalFrames - n, (s .. s + n - 1) \cap a.bitmap = {}
      PROVE  s \in Fits(a, n)
  <2>1. s \in Frames /\ s \in s .. s + n - 1
    BY FrameAllocatorAssumption DEF Frames
  <2>2. a.next_free <= s
    BY <1>2, <2>1 DEF HintIsLowest
  <2>3. s \in a.next_free .. TotalFrames - n
    BY <1>1, <2>2, FrameAllocatorAssumption
  <2> QED BY <1>2, <2>3 DEF Fits
<1>3. \A s \in Fits(a, n) : s \in 0 .. TotalFrames - n /\ (s .. s + n - 1) \cap a.bitmap = {}
  BY <1>1, FrameAllocatorAssumption DEF Fits
<1> QED BY <1>2, <1>3, LargestIsLongest

(* Neither does a hint at the first run of k free frames. *)
LEMMA FirstRunServes ==
  ASSUME NEW a \in Allocator, NEW k \in 1 .. TotalFrames,
         a.next_free + k <= TotalFrames,
         (a.next_free .. a.next_free + k - 1) \cap a.bitmap = {},
         \A s \in 0 .. TotalFrames - k :
           (s .. s + k - 1) \cap a.bitmap = {} => a.next_free <= s
  PROVE  Servable(a)
<1> SUFFICES ASSUME NEW n \in 1 .. TotalFrames
             PROVE  Fits(a, n) # {} <=> n <= LargestFreeBlock(a.bitmap)
  BY DEF Servable
<1>1. a.next_free \in 0 .. TotalFrames
  BY DEF Allocator
<1>2. ASSUME NEW s \in 0 .. TotalFrames - n, (s .. s + n - 1) \cap a.bitmap = {}
      PROVE  Fits(a, n) # {}
  <2>1. CASE n <= k
    <3> DEFINE h == a.next_free
    <3>1. h \in h .. TotalFrames - n
      BY <1>1, <2>1, FrameAllocatorAssumption
    <3>2. h .. h + n - 1 \subseteq h .. h + k - 1
      BY <1>1, <2>1, FrameAllocatorAssumption
    <3>3. (h .. h + n - 1) \cap a.bitmap = {}
      BY <3>2
    <3>4. h \in Fits(a, n)
      BY <3>1, <3>3 DEF Fits
    <3> QED BY <3>4
  <2>2. CASE ~(n <= k)
    <3>1. s \in 0 .. TotalFrames - k /\ s .. s + k - 1 \subseteq s .. s + n - 1
      BY <2>2, FrameAllocatorAssumption
    <3>2. (s .. s + k - 1) \cap a.bitmap = {}
      BY <1>2, <3>1
    <3>3. s \in a.next_free .. TotalFrames - n
      BY <1>1, <3>1, <3>2, FrameAllocatorAssumption
    <3>4. s \in Fits(a, n)
      BY <1>2, <3>3 DEF Fits
    <3> QED BY <3>4
  <2> QED BY <2>1, <2>2
<1>3. \A s \in Fits(a, n) : s \in 0 .. TotalFrames - n /\ (s .. s + n - 1) \cap a.bitmap = {}
  BY <1>1, FrameAllocatorAssumption DEF Fits
<1> QED BY <1>2, <1>3, LargestIsLongest

(* A block that is taken and given back leaves the hint at its start. *)
LEMMA BlockReturned ==
  ASSUME NEW a \in Allocator, NEW lo \in Frames, NEW k \in 1 .. TotalFrames,
         lo + k <= TotalFrames, NEW from \in lo .. TotalFrames,
         (lo .. lo + k - 1) \cap a.bitmap = {}
  PROVE  LET S == lo .. lo + k - 1
             r == Released(Take(a, S, from).allocator, S, k).allocator
         IN  r.bitmap = a.bitmap /\ r.next_free = lo /\ r.stats = a.stats
<1> DEFINE S == lo .. lo + k - 1
           t == Take(a, S, from).allocator
           h == FirstFree(a.bitmap \cup S, from)
           r == Released(t, S, k).allocator
<1>1. lo \in Nat /\ lo \in S /\ S \subseteq Nat /\ \A y \in S : lo <= y
  BY FrameAllocatorAssumption DEF Frames
<1>2. h \in 0 .. TotalFrames /\ lo <= h
  <2>1. from \in 0 .. TotalFrames /\ from \in Nat /\ lo <= from
    BY <1>1, FrameAllocatorAssumption
  <2>2. h \in 0 .. TotalFrames /\ from <= h
    <3> HIDE DEF S
    <3> QED BY <2>1, FirstFreeIsFree
  <2> HIDE DEF h
  <2> QED BY <1>1, <2>1, <2>2, FrameAllocatorAssumption
<1>3. t = [a EXCEPT !.bitmap = a.bitmap \cup S,
                    !.allocated_frames = WrappingAdd(a.allocated_frames, Cardinality(S)),
                    !.next_free = h]
  BY DEF Take, Allocator
<1> HIDE DEF S
<1>4. t.bitmap = a.bitmap \cup S /\ t.next_free = h /\ t.stats = a.stats
  BY <1>3 DEF Allocator
<1>5. /\ DOMAIN t = {"bitmap", "allocated_frames", "next_free", "stats", "validation_enabled"}
  BY <1>3 DEF Allocator
<1> HIDE DEF t, h
<1>6. Min({h} \cup S) = lo
  <2>1. {h} \cup S \subseteq Nat /\ lo \in {h} \cup S
    BY <1>1, <1>2, FrameAllocatorAssumption
  <2>2. Min({h} \cup S) \in {h} \cup S /\ Min({h} \cup S) <= lo
    BY <2>1, MinOfNats
  <2>3. \A y \in {h} \cup S : y <= lo => y = lo
    BY <1>1, <1>2, FrameAllocatorAssumption
  <2> QED BY <2>2, <2>3
<1>7. r.bitmap = t.bitmap \ S /\ r.next_free = Min({t.next_free} \cup S) /\ r.stats = t.stats
  BY <1>5 DEF Released, mark_frames_free
<1>8. (a.bitmap \cup S) \ S = a.bitmap
  BY DEF S
<1> HIDE DEF r
<1> QED BY <1>4, <1>6, <1>7, <1>8 DEF r, t, S

(* The second half of the self-test keeps every block size servable and    *)
(* the largest block that the statistics hold.                             *)
LEMMA SelfTestTailServes ==
  ASSUME NEW a, Sound(a), a.validation_enabled, HintIsLowest(a), NEW addr \in Nat,
         address_to_frame(addr) < TotalFrames, address_to_frame(addr) \notin a.bitmap
  PROVE  LET t == SelfTestTail(a, addr).allocator
         IN  /\ Servable(t) /\ t.bitmap = a.bitmap
             /\ t.stats.largest_free_block = a.stats.largest_free_block
<1> DEFINE double  == free_frame(a, addr)
           invalid == free_frame(double.allocator, BeyondTracked)
           i       == invalid.allocator
           block   == allocate_frames(i, SelfTestBlock)
           back    == free_frames(block.allocator, Min(block.granted) * FrameSize, SelfTestBlock)
           after   == IF block.granted = {} THEN block.allocator ELSE back.allocator
           t       == SelfTestTail(a, addr)
<1>1. double = DoubleFree(a) /\ double.result = "DoubleFree"
  <2>1. address_to_frame(addr) \in Nat
    BY FrameAllocatorAssumption DEF address_to_frame
  <2> QED BY <2>1, FrameAllocatorAssumption DEF free_frame, is_frame_reserved, DoubleFree
<1>2. /\ Sound(double.allocator) /\ double.allocator.bitmap = a.bitmap
      /\ double.allocator.next_free = a.next_free
      /\ double.allocator.validation_enabled
      /\ double.allocator.stats.largest_free_block = a.stats.largest_free_block
  <2> HIDE DEF double
  <2> QED BY <1>1, RefusalSound
<1> HIDE DEF double
<1>3. invalid = InvalidFree(double.allocator) /\ invalid.result = "InvalidFree"
  BY FrameOfAddress, FrameAllocatorAssumption DEF BeyondTracked, free_frame, InvalidFree
<1>4. /\ Sound(i) /\ i.bitmap = a.bitmap /\ i.next_free = a.next_free
      /\ i.validation_enabled
      /\ i.stats.largest_free_block = a.stats.largest_free_block
  <2> HIDE DEF invalid
  <2> QED BY <1>2, <1>3, RefusalSound
<1>5. t.allocator = after
  <2> HIDE DEF after, invalid
  <2>1. t = [allocator |-> after, passed |-> validate_bitmap(after)]
    BY <1>1, <1>3 DEF SelfTestTail, after, double, invalid
  <2> QED BY <2>1
<1> HIDE DEF invalid, t, i
<1>6. HintIsLowest(i) /\ i \in Allocator
  BY <1>4 DEF HintIsLowest, Sound
<1>7. CASE SelfTestBlock > TotalFrames \/ Fits(i, SelfTestBlock) = {}
  <2>1. block = AllocationFailed(i) /\ block.granted = {}
    BY <1>7 DEF allocate_frames, SelfTestBlock, AllocationFailed
  <2>2. /\ Sound(block.allocator) /\ block.allocator.bitmap = a.bitmap
        /\ block.allocator.next_free = a.next_free
        /\ block.allocator.stats.largest_free_block = a.stats.largest_free_block
    <3> HIDE DEF block
    <3> QED BY <1>4, <2>1, RefusalSound
  <2> HIDE DEF block
  <2>3. after = block.allocator
    BY <2>1
  <2>4. HintIsLowest(after) /\ after \in Allocator
    BY <2>2, <2>3 DEF HintIsLowest, Sound
  <2> QED BY <1>5, <2>2, <2>3, <2>4, LowestServes DEF t
<1>8. CASE ~(SelfTestBlock > TotalFrames \/ Fits(i, SelfTestBlock) = {})
  <2> DEFINE F == Fits(i, SelfTestBlock)
             lo == Min(F)
             S == lo .. lo + SelfTestBlock - 1
  <2>0. i.next_free \in 0 .. TotalFrames
    BY <1>6 DEF Allocator
  <2>1. F \subseteq Nat /\ F # {}
    BY <1>8, <2>0, FrameAllocatorAssumption DEF Fits
  <2>2. lo \in F /\ \A y \in F : lo <= y
    BY <2>1, MinOfNats
  <2>3. lo \in i.next_free .. TotalFrames - SelfTestBlock /\ S \cap i.bitmap = {}
    BY <2>2 DEF Fits
  <2>4. block = Take(i, S, lo + SelfTestBlock)
    BY <1>8 DEF allocate_frames, SelfTestBlock
  <2> HIDE DEF F, lo
  <2>5. /\ lo \in Frames /\ lo + SelfTestBlock <= TotalFrames
        /\ lo + SelfTestBlock \in lo .. TotalFrames
        /\ SelfTestBlock \in 1 .. TotalFrames /\ lo \in Nat
    BY <1>8, <2>0, <2>3, FrameAllocatorAssumption DEF Frames, SelfTestBlock
  <2>6. block.granted = S /\ block.allocator = Take(i, S, lo + SelfTestBlock).allocator
    BY <2>4 DEF Take
  <2>7. lo \in S /\ S \subseteq Nat /\ \A y \in S : lo <= y
    BY <2>5 DEF SelfTestBlock
  <2>8. Min(S) = lo /\ address_to_frame(lo * FrameSize) = lo
    <3>1. Min(S) \in S /\ Min(S) <= lo
      <4> HIDE DEF S
      <4> QED BY <2>7, MinOfNats
    <3> HIDE DEF S
    <3>a. \A y \in S : y <= lo => y = lo
      BY <2>5, <2>7
    <3>2. Min(S) = lo
      BY <3>1, <3>a
    <3> QED BY <2>5, <3>2, FrameOfAddress
  <2>9. block.allocator.validation_enabled /\ S \subseteq block.allocator.bitmap
    <3>1. S \in SUBSET Frames /\ lo + SelfTestBlock \in 0 .. TotalFrames
      BY <2>5, FrameAllocatorAssumption DEF Frames, SelfTestBlock
    <3> HIDE DEF S
    <3> QED BY <1>4, <1>6, <2>3, <2>6, <3>1, TakeSound
  <2>10. back = Released(block.allocator, S, SelfTestBlock)
    BY <2>5, <2>6, <2>8, <2>9, FrameAllocatorAssumption DEF free_frames
  <2>11. after = back.allocator
    BY <2>6, <2>7
  <2>12. /\ back.allocator.bitmap = i.bitmap /\ back.allocator.next_free = lo
         /\ back.allocator.stats = i.stats
    BY <1>6, <2>3, <2>5, <2>6, <2>10, BlockReturned
  <2>13. back.allocator \in Allocator
    <3>1. Sound(block.allocator)
      <4>1. S \in SUBSET Frames /\ lo + SelfTestBlock \in 0 .. TotalFrames
        BY <2>5, FrameAllocatorAssumption DEF Frames, SelfTestBlock
      <4> QED BY <1>6, <2>3, <2>6, <4>1, TakeSound
    <3>2. FreeOK(block.allocator, back)
      BY <2>5, <2>9, <2>10, <3>1, ReleasedOK DEF SelfTestBlock
    <3> QED BY <3>2 DEF FreeOK, Sound
  <2> HIDE DEF block, back, S
  <2>14. \A s \in 0 .. TotalFrames - SelfTestBlock :
           (s .. s + SelfTestBlock - 1) \cap i.bitmap = {} => lo <= s
    <3> SUFFICES ASSUME NEW s \in 0 .. TotalFrames - SelfTestBlock,
                        (s .. s + SelfTestBlock - 1) \cap i.bitmap = {}
                 PROVE  lo <= s
      OBVIOUS
    <3>1. s \in Frames /\ s \in s .. s + SelfTestBlock - 1
      BY FrameAllocatorAssumption DEF Frames, SelfTestBlock
    <3>2. i.next_free <= s
      BY <1>6, <3>1 DEF HintIsLowest
    <3>3. s \in i.next_free .. TotalFrames - SelfTestBlock
      BY <2>0, <3>2, FrameAllocatorAssumption DEF SelfTestBlock
    <3>4. s \in F
      BY <3>3 DEF F, Fits
    <3> QED BY <2>2, <3>4
  <2>15. Servable(back.allocator)
    BY <2>3, <2>5, <2>12, <2>13, <2>14, FirstRunServes DEF S
  <2> QED BY <1>4, <1>5, <2>11, <2>12, <2>15 DEF t
<1> QED BY <1>7, <1>8

(* So does the whole self-test of an allocator whose hint is its lowest    *)
(* free frame.                                                             *)
LEMMA SelfTestServes ==
  ASSUME NEW a, Sound(a), Counted(a), a.validation_enabled, HintIsLowest(a)
  PROVE  LET t == self_test(a).allocator
         IN  /\ Servable(t) /\ t.bitmap = a.bitmap
             /\ t.stats.largest_free_block = a.stats.largest_free_block
<1> DEFINE n     == a.next_free
           one   == allocate_frame(a)
           addr  == Min(one.granted) * FrameSize
           freed == free_frame(one.allocator, addr)
           t     == self_test(a)
<1>0. n \in 0 .. TotalFrames /\ a \in Allocator /\ validate_bitmap(a)
  BY DEF Sound, Allocator, Counted, validate_bitmap
<1>1. CASE n = TotalFrames
  <2>1. one = AllocationFailed(a) /\ one.granted = {}
    BY <1>1, FrameAllocatorAssumption DEF allocate_frame, AllocationFailed
  <2>2. t.allocator = one.allocator
    BY <1>0, <2>1 DEF self_test
  <2> HIDE DEF one, t
  <2>3. /\ Sound(one.allocator) /\ one.allocator.bitmap = a.bitmap
        /\ one.allocator.next_free = a.next_free
        /\ one.allocator.stats.largest_free_block = a.stats.largest_free_block
    BY <2>1, RefusalSound
  <2>4. HintIsLowest(one.allocator) /\ one.allocator \in Allocator
    BY <2>3 DEF HintIsLowest, Sound
  <2> QED BY <2>2, <2>3, <2>4, LowestServes DEF t
<1>2. CASE n # TotalFrames
  <2>1. /\ n \in Frames /\ n \in Nat /\ n < TotalFrames /\ n \notin a.bitmap
        /\ n .. n + 1 - 1 = {n} /\ n \in n .. TotalFrames /\ n + 1 <= TotalFrames
        /\ 1 \in 1 .. TotalFrames /\ 1 \in Nat
    BY <1>0, <1>2, FrameAllocatorAssumption DEF Frames, Sound
  <2>2. one = Take(a, {n}, n)
    BY <1>0, <2>1, FrameAllocatorAssumption DEF allocate_frame
  <2>3. GrantOK(a, one) /\ one.granted = {n}
    BY <1>2, AllocateFrameOK
  <2>4. Min({n}) = n
    BY <2>1, MinOfNats
  <2>5. addr \in Nat /\ address_to_frame(addr) = n
    BY <2>1, <2>3, <2>4, FrameOfAddress
  <2> HIDE DEF n, addr, one
  <2>6. freed = Released(one.allocator, {n}, 1)
    <3>1. n \in one.allocator.bitmap
      BY <2>3 DEF GrantOK
    <3> QED BY <2>1, <2>5, <3>1, FrameAllocatorAssumption
             DEF free_frame, is_frame_reserved
  <2>7. /\ freed.allocator.bitmap = a.bitmap /\ freed.allocator.next_free = n
        /\ freed.allocator.stats = a.stats
    <3>1. PICK k \in 1 .. TotalFrames : k = 1
      BY <2>1
    <3>2. n .. n + k - 1 = {n} /\ n + k <= TotalFrames
      BY <2>1, <3>1
    <3>3. (n .. n + k - 1) \cap a.bitmap = {}
      BY <2>1, <3>2
    <3>4. LET S == n .. n + k - 1
              r == Released(Take(a, S, n).allocator, S, k).allocator
          IN  r.bitmap = a.bitmap /\ r.next_free = n /\ r.stats = a.stats
      BY <1>0, <2>1, <3>2, <3>3, BlockReturned
    <3> HIDE DEF freed
    <3> QED BY <2>2, <2>6, <3>1, <3>2, <3>4
  <2>8. FreeOK(one.allocator, freed)
    BY <2>3, <2>5, FreeFrameOK DEF GrantOK
  <2>9. /\ Sound(freed.allocator) /\ freed.allocator.validation_enabled
        /\ Counted(one.allocator) /\ Counted(freed.allocator)
    BY <2>3, <2>8 DEF GrantOK, FreeOK
  <2>10. freed.result = "Ok"
    BY <2>6 DEF Released
  <2>11. t = SelfTestTail(freed.allocator, addr)
    <3>1. validate_bitmap(one.allocator) /\ validate_bitmap(freed.allocator)
      BY <2>9 DEF validate_bitmap, Counted
    <3> HIDE DEF freed
    <3> QED BY <1>0, <2>3, <2>10, <3>1 DEF self_test, one, addr, freed
  <2> HIDE DEF freed
  <2>12. HintIsLowest(freed.allocator)
    BY <2>7 DEF HintIsLowest, n
  <2>13. LET x == SelfTestTail(freed.allocator, addr).allocator
         IN  /\ Servable(x) /\ x.bitmap = freed.allocator.bitmap
             /\ x.stats.largest_free_block = freed.allocator.stats.largest_free_block
    BY <2>1, <2>5, <2>7, <2>9, <2>12, SelfTestTailServes
  <2> HIDE DEF t
  <2> QED BY <2>7, <2>11, <2>13 DEF t
<1> QED BY <1>1, <1>2

-----------------------------------------------------------------------------
(* The part of the address space below a table is not empty. *)
LEMMA SpanType ==
  /\ Span(1) = Fanout /\ Span(2) = Fanout * Fanout /\ Span(3) = Fanout * Fanout * Fanout
  /\ \A k \in 1 .. 3 : Span(k) \in Nat \ {0}
<1>1. Span(1) = Fanout /\ Span(2) = Fanout * Fanout /\ Span(3) = Fanout * Fanout * Fanout
  BY DEF Span
<1>2. /\ Fanout \in Nat \ {0} /\ Fanout * Fanout \in Nat \ {0}
      /\ Fanout * Fanout * Fanout \in Nat \ {0}
  BY PageTablesAssumption
<1>3. \A k \in 1 .. 3 : k = 1 \/ k = 2 \/ k = 3
  OBVIOUS
<1> QED BY <1>1, <1>2, <1>3

(* Division by a span. *)
LEMMA DivideSpan ==
  ASSUME NEW p \in Nat, NEW s \in Nat \ {0}
  PROVE  /\ p \div s \in Nat /\ p % s \in Nat
         /\ (p \div s) * s <= p /\ p < (p \div s) * s + s
         /\ p = (p \div s) * s + (p % s)
OBVIOUS

(* A page number within a span of a multiple of it divides to that multiple. *)
LEMMA QuotientOfSpan ==
  ASSUME NEW p \in Nat, NEW s \in Nat \ {0}, NEW q \in Nat, q * s <= p, p < q * s + s
  PROVE  p \div s = q
OBVIOUS

(* The tables above a page are positions of the tree. *)
LEMMA AboveIsNode ==
  ASSUME NEW p \in Page, NEW k \in 1 .. 3
  PROVE  /\ p \in Nat
         /\ NodeAbove(k, p) \in Node /\ NodeAbove(k, p) \in Above(p)
         /\ NodeAbove(k, p)[1] = k /\ NodeAbove(k, p)[2] = p \div Span(k)
         /\ p \in PagesBelow(NodeAbove(k, p))
<1>1. p \in Nat /\ Span(k) \in Nat \ {0}
  BY SpanType DEF Page
<1> DEFINE q == p \div Span(k)
<1>2. /\ q \in Nat /\ q * Span(k) <= p /\ p < q * Span(k) + Span(k)
      /\ q * Span(k) \in Nat
  BY <1>1, DivideSpan
<1>3. q * Span(k) \in Page
  <2> HIDE DEF q
  <2>1. Fanout * Span(3) \in Nat
    BY SpanType, PageTablesAssumption
  <2> QED BY <1>2, <2>1 DEF Page
<1>4. <<k, q>> \in Node
  <2> HIDE DEF q
  <2>1. <<k, q>> \in (1 .. 3) \X Nat /\ <<k, q>>[1] = k /\ <<k, q>>[2] = q
    BY <1>2
  <2> QED BY <1>3, <2>1 DEF Node
<1>5. p \in q * Span(k) .. (q + 1) * Span(k) - 1
  <2> HIDE DEF q
  <2>1. (q + 1) * Span(k) = q * Span(k) + Span(k)
    BY <1>1, <1>2
  <2> QED BY <1>1, <1>2, <2>1
<1>6. NodeAbove(k, p) = <<k, q>>
  BY DEF NodeAbove
<1> QED BY <1>1, <1>4, <1>5, <1>6 DEF PagesBelow, Above

(* A page lies below a node exactly when the node is above it. *)
LEMMA BelowIsAbove ==
  ASSUME NEW p \in Nat, NEW n \in Node
  PROVE  p \in PagesBelow(n) <=> n \in Above(p)
<1>1. n \in (1 .. 3) \X Nat
  BY DEF Node
<1>2. PICK k \in 1 .. 3, i \in Nat : n = <<k, i>> /\ n[1] = k /\ n[2] = i
  BY <1>1
<1>3. Span(k) \in Nat \ {0}
  BY SpanType
<1> DEFINE q == p \div Span(k)
<1>4. q \in Nat /\ q * Span(k) <= p /\ p < q * Span(k) + Span(k)
  BY <1>3, DivideSpan
<1>5. (i + 1) * Span(k) = i * Span(k) + Span(k) /\ i * Span(k) \in Nat
  BY <1>2, <1>3
<1>6. ASSUME p \in PagesBelow(n) PROVE n \in Above(p)
  <2>1. i * Span(k) <= p /\ p < i * Span(k) + Span(k)
    BY <1>2, <1>3, <1>5, <1>6 DEF PagesBelow
  <2>2. i = q
    BY <1>2, <1>3, <2>1, QuotientOfSpan
  <2> QED BY <1>2, <2>2 DEF Above, NodeAbove
<1>7. ASSUME n \in Above(p) PROVE p \in PagesBelow(n)
  <2>1. PICK j \in 1 .. 3 : n = <<j, p \div Span(j)>>
    BY <1>7 DEF Above, NodeAbove
  <2>2. j = k /\ i = q
    BY <1>2, <2>1
  <2> HIDE DEF q
  <2>3. p \in i * Span(k) .. (i + 1) * Span(k) - 1
    BY <1>3, <1>4, <1>5, <2>2
  <2> QED BY <1>2, <2>3 DEF PagesBelow
<1> QED BY <1>6, <1>7

(* Dividing twice is dividing by the product. *)
LEMMA QuotientTwice ==
  ASSUME NEW a \in Nat, NEW b \in Nat \ {0}, NEW c \in Nat \ {0}
  PROVE  a \div (b * c) = (a \div b) \div c
<1> DEFINE x == a \div b
           y == x \div c
<1>1. x \in Nat /\ x * b <= a /\ a < x * b + b
  BY DivideSpan
<1>2. y \in Nat /\ y * c <= x /\ x < y * c + c
  <2> HIDE DEF x
  <2> QED BY <1>1, DivideSpan DEF y
<1> HIDE DEF x, y
<1>3. y * c \in Nat /\ x + 1 <= y * c + c /\ b * c \in Nat \ {0}
  BY <1>1, <1>2
<1> DEFINE z == y * c
<1>4. z * b <= x * b /\ (x + 1) * b <= (z + c) * b
  <2> HIDE DEF z
  <2>1. z \in Nat /\ z <= x /\ x + 1 <= z + c
    BY <1>2, <1>3 DEF z
  <2> QED BY <1>1, <2>1
<1>5. z * b = y * (b * c) /\ (z + c) * b = y * (b * c) + b * c
  BY <1>2
<1>6. (x + 1) * b = x * b + b
  BY <1>1
<1>7. z * b \in Nat /\ x * b \in Nat /\ (z + c) * b \in Nat
  BY <1>1, <1>3
<1> HIDE DEF z
<1>8. z * b <= a /\ a < (z + c) * b
  BY <1>1, <1>4, <1>6, <1>7
<1>9. y * (b * c) <= a /\ a < y * (b * c) + b * c
  BY <1>5, <1>8
<1>10. a \div (b * c) = y
  <2> DEFINE w == b * c
  <2>1. w \in Nat \ {0} /\ y * w <= a /\ a < y * w + w
    BY <1>3, <1>9
  <2> HIDE DEF w
  <2>2. a \div w = y
    BY <1>2, <2>1, QuotientOfSpan
  <2> QED BY <2>2 DEF w
<1> QED BY <1>10 DEF y, x

(* Pages below one table are below one table on all levels above, too. *)
LEMMA SameAbove ==
  ASSUME NEW p \in Nat, NEW q \in Nat, NEW j \in 1 .. 3, NEW k \in j .. 3,
         p \div Span(j) = q \div Span(j)
  PROVE  NodeAbove(k, p) = NodeAbove(k, q)
<1>1. Fanout \in Nat \ {0} /\ Span(j) \in Nat \ {0} /\ k \in 1 .. 3
  BY SpanType, PageTablesAssumption
<1>2. \A c \in Nat \ {0} : p \div (Span(j) * c) = q \div (Span(j) * c)
  BY <1>1, QuotientTwice
<1>3. \E c \in Nat \ {0} : Span(k) = Span(j) * c
  <2>1. CASE k = j
    <3>1. Span(k) = Span(j) * 1
      BY <1>1, <2>1
    <3> QED BY <3>1
  <2>2. CASE k = j + 1
    <3>1. Span(k) = Span(j) * Fanout
      <4>1. j = 1 \/ j = 2
        BY <2>2
      <4> QED BY <2>2, <4>1, SpanType
    <3> QED BY <1>1, <3>1
  <2>3. CASE k = j + 2
    <3>1. Span(k) = Span(j) * (Fanout * Fanout)
      <4>1. j = 1 /\ k = 3
        BY <2>3
      <4>2. Fanout * Fanout * Fanout = Fanout * (Fanout * Fanout)
        BY <1>1
      <4> QED BY <4>1, <4>2, SpanType
    <3>2. Fanout * Fanout \in Nat \ {0}
      BY <1>1
    <3> QED BY <3>1, <3>2
  <2> QED BY <2>1, <2>2, <2>3
<1>4. p \div Span(k) = q \div Span(k)
  BY <1>2, <1>3
<1> QED BY <1>4 DEF NodeAbove

(* The nodes over the one above a page are above the page. *)
LEMMA OverAbove ==
  ASSUME NEW p \in Nat, NEW j \in 1 .. 3
  PROVE  Over(NodeAbove(j, p)) = {NodeAbove(k, p) : k \in j + 1 .. 3}
<1> DEFINE i == p \div Span(j)
           b == i * Span(j)
<1>1. Span(j) \in Nat \ {0} /\ i \in Nat
  BY SpanType, DivideSpan
<1>2. NodeAbove(j, p)[1] = j /\ NodeAbove(j, p)[2] = i
  BY DEF NodeAbove
<1>3. b \in Nat /\ b \div Span(j) = i
  <2> HIDE DEF i
  <2>1. b \in Nat /\ i * Span(j) <= b /\ b < i * Span(j) + Span(j)
    BY <1>1
  <2> HIDE DEF b
  <2> QED BY <1>1, <2>1, QuotientOfSpan
<1>4. \A k \in j .. 3 : NodeAbove(k, b) = NodeAbove(k, p)
  <2> HIDE DEF b
  <2> QED BY <1>3, SameAbove
<1>5. \A k \in j + 1 .. 3 : k \in j .. 3
  OBVIOUS
<1>6. Over(NodeAbove(j, p)) = {NodeAbove(k, b) : k \in j + 1 .. 3}
  BY <1>2 DEF Over
<1> HIDE DEF b
<1> QED BY <1>4, <1>5, <1>6

-----------------------------------------------------------------------------
(* An address space is a record of three maps, and its mapper state one of *)
(* space, allocator and error.                                             *)
IsSpace(s) == DOMAIN s = {"tables", "huge", "pages"}

IsMapper(m) == DOMAIN m = {"space", "allocator", "error"} /\ IsSpace(m.space)

(* Huge pages g have become h: at most they have gained flags. *)
Broader(g, h, flags) ==
  /\ DOMAIN h = DOMAIN g
  /\ \A n \in DOMAIN g : /\ h[n] \in Leaf /\ h[n].frame = g[n].frame
                         /\ g[n].flags \subseteq h[n].flags
                         /\ h[n].flags \subseteq g[n].flags \cup (flags \cap ParentBits)

(* What the mapper may have done to a space s and an allocator a for a     *)
(* page with some flags: new tables stand at free positions, each in a     *)
(* frame of its own that was free before, and those frames are all that    *)
(* was taken.                                                              *)
Grown(s, a, t, b, flags) ==
  /\ Broader(s.huge, t.huge, flags)
  /\ \A n \in DOMAIN t.tables \cup DOMAIN t.huge : Over(n) \subseteq DOMAIN t.tables
  /\ DOMAIN s.tables \subseteq DOMAIN t.tables /\ DOMAIN t.tables \subseteq Node
  /\ \A n \in DOMAIN s.tables : t.tables[n] = s.tables[n]
  /\ DOMAIN t.tables \cap DOMAIN t.huge = {}
  /\ IsInjective(t.tables)
  /\ Range(t.tables) \subseteq b.bitmap
  /\ (Range(t.tables) \ Range(s.tables)) \cap a.bitmap = {}
  /\ b.bitmap = a.bitmap \cup Range(t.tables)
  /\ Sound(b)
  /\ b.validation_enabled = a.validation_enabled
  /\ Counted(a) => Counted(b)

(* A space whose tables are taken, before anything is done to it. *)
LEMMA GrownStart ==
  ASSUME NEW s, NEW a, NEW flags, WellFormed(s), IsInjective(s.tables), Sound(a),
         Range(s.tables) \subseteq a.bitmap
  PROVE  Grown(s, a, s, a, flags)
<1>1. Broader(s.huge, s.huge, flags)
  <2>1. \A n \in DOMAIN s.huge : s.huge[n] \in Leaf
    BY DEF WellFormed, Range
  <2> QED BY <2>1 DEF Broader
<1> QED BY <1>1 DEF Grown, WellFormed

(* The map with one more entry. *)
LEMMA WithDomain ==
  ASSUME NEW f, NEW x, NEW y
  PROVE  DOMAIN With(f, x, y) = DOMAIN f \cup {x}
BY DEF With

LEMMA WithNew ==
  ASSUME NEW f, NEW x, NEW y
  PROVE  With(f, x, y)[x] = y
BY DEF With

LEMMA WithOld ==
  ASSUME NEW f, NEW x, NEW y, NEW z \in DOMAIN f, z # x
  PROVE  With(f, x, y)[z] = f[z]
BY DEF With

LEMMA WithRange ==
  ASSUME NEW f, NEW x, NEW y, x \notin DOMAIN f
  PROVE  Range(With(f, x, y)) = Range(f) \cup {y}
BY DEF With, Range

(* One level of map_to keeps what the levels above it did, and leaves a    *)
(* table at its position unless it fails.                                  *)
NextOK(s, a, m, n, flags, c) ==
  /\ IsMapper(c) /\ Grown(s, a, c.space, c.allocator, flags)
  /\ c.error \in {m.error, "FrameAllocationFailed"} => c.space.huge = m.space.huge
  /\ n \notin DOMAIN m.space.huge => c.space.huge = m.space.huge
  /\ c.space.pages = m.space.pages
  /\ DOMAIN m.space.tables \subseteq DOMAIN c.space.tables
  /\ c.error = "None" => m.error = "None" /\ n \in DOMAIN c.space.tables
  /\ m.error # "None" => c.error = m.error
  /\ \/ c.error = m.error
     \/ c.error \in {"ParentEntryHugePage", "FrameAllocationFailed"}

LEMMA NextTable ==
  ASSUME NEW s, NEW a, NEW m, NEW n \in Node, IsMapper(m), NEW flags \in Flags,
         Grown(s, a, m.space, m.allocator, flags),
         m.error = "None" => Over(n) \subseteq DOMAIN m.space.tables
  PROVE  NextOK(s, a, m, n, flags, create_next_table(m, n, flags))
<1> DEFINE got == allocate_frame(m.allocator)
           b == m.allocator
           t == m.space.tables
           c == create_next_table(m, n, flags)
<1>0. Sound(b)
  BY DEF Grown
<1>1. /\ GrantOK(b, got)
      /\ b.next_free = TotalFrames => got.granted = {}
      /\ b.next_free # TotalFrames => got.granted = {b.next_free}
  BY <1>0, AllocateFrameOK
<1>2. CASE m.error # "None" \/ n \in DOMAIN t
  <2>1. c = m
    BY <1>2 DEF create_next_table
  <2> HIDE DEF c
  <2> QED BY <1>2, <2>1 DEF c, NextOK
<1>3. CASE m.error = "None" /\ n \notin DOMAIN t /\ n \in DOMAIN m.space.huge
  <2> DEFINE g == m.space.huge
             w == [g[n] EXCEPT !.flags = @ \cup (flags \cap ParentBits)]
             h == [g EXCEPT ![n] = w]
  <2>1. c = [m EXCEPT !.space.huge = h, !.error = "ParentEntryHugePage"]
    BY <1>3 DEF create_next_table
  <2>2. Broader(s.huge, g, flags) /\ n \in DOMAIN g
    BY <1>3 DEF Grown
  <2>3. Broader(s.huge, h, flags)
    <3>1. g[n] \in Leaf /\ flags \cap ParentBits \in Flags
      BY <2>2, PageTablesAssumption DEF Broader, Flags
    <3>2. /\ w \in Leaf /\ w.frame = g[n].frame
          /\ w.flags = g[n].flags \cup (flags \cap ParentBits)
      BY <3>1 DEF Leaf, Flags
    <3> HIDE DEF g, w
    <3>3. /\ DOMAIN h = DOMAIN g /\ h[n] = w
          /\ \A x \in DOMAIN g \ {n} : h[x] = g[x]
      BY <2>2
    <3> HIDE DEF h
    <3>4. ASSUME NEW x \in DOMAIN s.huge
          PROVE  /\ h[x] \in Leaf /\ h[x].frame = s.huge[x].frame
                 /\ s.huge[x].flags \subseteq h[x].flags
                 /\ h[x].flags \subseteq s.huge[x].flags \cup (flags \cap ParentBits)
      <4>1. CASE x = n
        BY <2>2, <3>2, <3>3, <4>1 DEF Broader
      <4>2. CASE x # n
        BY <2>2, <3>3, <4>2 DEF Broader
      <4> QED BY <4>1, <4>2
    <3> QED BY <2>2, <3>3, <3>4 DEF Broader
  <2> HIDE DEF h
  <2>4. /\ DOMAIN c = DOMAIN m /\ DOMAIN c.space = DOMAIN m.space
        /\ c.space.tables = t /\ c.space.pages = m.space.pages /\ c.space.huge = h
        /\ c.allocator = m.allocator /\ c.error = "ParentEntryHugePage"
    BY <2>1 DEF IsMapper, IsSpace
  <2> HIDE DEF c
  <2>5. DOMAIN h = DOMAIN g
    BY <2>2, <2>3 DEF Broader
  <2>6. Grown(s, a, c.space, c.allocator, flags)
    BY <2>3, <2>4, <2>5 DEF Grown
  <2> QED BY <1>3, <2>4, <2>6 DEF c, NextOK, IsMapper, IsSpace
<1>4. CASE /\ m.error = "None" /\ n \notin DOMAIN t /\ n \notin DOMAIN m.space.huge
           /\ got.granted = {}
  <2>1. c = [m EXCEPT !.allocator = got.allocator, !.error = "FrameAllocationFailed"]
    BY <1>4 DEF create_next_table
  <2> HIDE DEF got
  <2>2. /\ c.space = m.space /\ c.allocator = got.allocator
        /\ c.error = "FrameAllocationFailed" /\ DOMAIN c = DOMAIN m
    BY <2>1 DEF IsMapper
  <2>3. /\ got.allocator.bitmap = b.bitmap /\ Sound(got.allocator)
        /\ got.allocator.validation_enabled = b.validation_enabled
        /\ Counted(b) => Counted(got.allocator)
    BY <1>1, <1>4 DEF GrantOK
  <2>4. Grown(s, a, m.space, got.allocator, flags)
    BY <2>3 DEF Grown
  <2> HIDE DEF c
  <2> QED BY <1>4, <2>2, <2>4 DEF c, NextOK, IsMapper
<1>5. CASE /\ m.error = "None" /\ n \notin DOMAIN t /\ n \notin DOMAIN m.space.huge
           /\ got.granted # {}
  <2> DEFINE f == b.next_free
             u == With(t, n, f)
  <2>1. /\ got.granted = {f} /\ f \in Frames /\ f \notin b.bitmap /\ Min({f}) = f
    <3>1. got.granted = {f}
      BY <1>1, <1>5
    <3>2. f \in Frames /\ f \notin b.bitmap
      BY <1>1, <3>1 DEF GrantOK
    <3>3. f \in Nat
      BY <3>2, FrameAllocatorAssumption DEF Frames
    <3>4. {f} \subseteq Nat /\ f \in {f}
      BY <3>3
    <3>5. Min({f}) \in {f}
      BY <3>4, MinOfNats
    <3> QED BY <3>1, <3>2, <3>5
  <2>2. c = [m EXCEPT !.allocator = got.allocator, !.space.tables = u]
    <3>1. Min(got.granted) = f
      BY <2>1
    <3> HIDE DEF f
    <3>2. c = [m EXCEPT !.allocator = got.allocator,
                        !.space.tables = With(m.space.tables, n, Min(got.granted))]
      BY <1>5, Zenon DEF create_next_table
    <3> QED BY <3>1, <3>2
  <2>3. /\ got.allocator.bitmap = b.bitmap \cup {f} /\ Sound(got.allocator)
        /\ got.allocator.validation_enabled = b.validation_enabled
        /\ Counted(b) => Counted(got.allocator)
    BY <1>1, <2>1 DEF GrantOK
  <2> HIDE DEF got
  <2>4. /\ DOMAIN u = DOMAIN t \cup {n} /\ u[n] = f
        /\ \A z \in DOMAIN t : u[z] = t[z]
        /\ Range(u) = Range(t) \cup {f}
    <3> HIDE DEF f
    <3> HIDE DEF t
    <3>0. DOMAIN u = DOMAIN t \cup {n}
      BY WithDomain
    <3>1. u[n] = f
      BY WithNew
    <3>2. \A z \in DOMAIN t : u[z] = t[z]
      BY <1>5, WithOld
    <3>3. Range(u) = Range(t) \cup {f}
      BY <1>5, WithRange
    <3> QED BY <3>0, <3>1, <3>2, <3>3
  <2> HIDE DEF u, f
  <2>5. /\ DOMAIN c = DOMAIN m /\ DOMAIN c.space = DOMAIN m.space
        /\ c.allocator = got.allocator /\ c.error = "None"
        /\ c.space.tables = u /\ c.space.huge = m.space.huge /\ c.space.pages = m.space.pages
    BY <1>5, <2>2 DEF IsMapper, IsSpace
  <2> HIDE DEF c
  <2>6. IsInjective(u)
    <3>1. Range(t) \subseteq b.bitmap /\ IsInjective(t)
      BY DEF Grown
    <3>2. \A z \in DOMAIN t : t[z] \in b.bitmap
      BY <3>1 DEF Range
    <3>3. \A z \in DOMAIN t : u[z] # u[n]
      BY <2>1, <2>4, <3>2
    <3> QED BY <1>5, <2>4, <3>1, <3>3 DEF IsInjective
  <2>7. /\ Range(t) \subseteq b.bitmap /\ b.bitmap = a.bitmap \cup Range(t)
        /\ (Range(t) \ Range(s.tables)) \cap a.bitmap = {}
    BY DEF Grown
  <2>8. Grown(s, a, c.space, c.allocator, flags)
    <3>0. \A z \in DOMAIN c.space.tables \cup DOMAIN c.space.huge :
            Over(z) \subseteq DOMAIN c.space.tables
      BY <1>5, <2>4, <2>5 DEF Grown
    <3>1. /\ Broader(s.huge, c.space.huge, flags)
          /\ DOMAIN s.tables \subseteq DOMAIN c.space.tables
          /\ DOMAIN c.space.tables \subseteq Node
          /\ \A z \in DOMAIN s.tables : c.space.tables[z] = s.tables[z]
          /\ DOMAIN c.space.tables \cap DOMAIN c.space.huge = {}
      BY <1>5, <2>4, <2>5 DEF Grown
    <3>2. /\ Range(u) \subseteq got.allocator.bitmap
          /\ (Range(u) \ Range(s.tables)) \cap a.bitmap = {}
          /\ got.allocator.bitmap = a.bitmap \cup Range(u)
      BY <2>1, <2>3, <2>4, <2>7
    <3>3. got.allocator.validation_enabled = a.validation_enabled
      BY <2>3 DEF Grown
    <3>4. Counted(a) => Counted(got.allocator)
      BY <2>3 DEF Grown
    <3> QED BY <2>3, <2>5, <2>6, <3>0, <3>1, <3>2, <3>3, <3>4 DEF Grown
  <2> QED BY <1>5, <2>4, <2>5, <2>8 DEF c, NextOK, IsMapper, IsSpace
<1> HIDE DEF c
<1> QED BY <1>2, <1>3, <1>4, <1>5

(* map_to either maps the page, with all its tables present and no huge    *)
(* page above it, or leaves the pages alone; tables it made on the way     *)
(* stay and are accounted for in both cases.  Only a call that meets a     *)
(* huge page changes one.                                                  *)
MapToOK(s, a, p, leaf, m) ==
  /\ IsMapper(m) /\ Grown(s, a, m.space, m.allocator, leaf.flags) /\ WellFormed(m.space)
  /\ m.error # "ParentEntryHugePage" => m.space.huge = s.huge
  /\ Above(p) \cap DOMAIN s.huge = {} => m.space.huge = s.huge
  /\ m.error \in {"None", "ParentEntryHugePage", "FrameAllocationFailed", "PageAlreadyMapped"}
  /\ m.error # "None" => m.space.pages = s.pages
  /\ m.error = "None" => /\ p \notin DOMAIN s.pages
                         /\ Above(p) \cap DOMAIN s.huge = {}
                         /\ m.space.pages = With(s.pages, p, leaf)

LEMMA MapToCorrect ==
  ASSUME NEW s, NEW a, NEW p \in Page, NEW frame \in Nat, NEW flags \in Flags,
         IsSpace(s), WellFormed(s), IsInjective(s.tables), Sound(a),
         Range(s.tables) \subseteq a.bitmap
  PROVE  MapToOK(s, a, p, [frame |-> frame, flags |-> flags], map_to(s, a, p, frame, flags))
<1> DEFINE leaf == [frame |-> frame, flags |-> flags]
           m0 == [space |-> s, allocator |-> a, error |-> "None"]
           m3 == create_next_table(m0, NodeAbove(3, p), flags)
           m2 == create_next_table(m3, NodeAbove(2, p), flags)
           m1 == create_next_table(m2, NodeAbove(1, p), flags)
           m == map_to(s, a, p, frame, flags)
<1>1. /\ \A k \in 1 .. 3 : NodeAbove(k, p) \in Node
      /\ Over(NodeAbove(3, p)) = {}
      /\ Over(NodeAbove(2, p)) = {NodeAbove(3, p)}
      /\ Over(NodeAbove(1, p)) = {NodeAbove(2, p), NodeAbove(3, p)}
  <2>1. p \in Nat
    BY DEF Page
  <2>2. /\ Over(NodeAbove(3, p)) = {NodeAbove(k, p) : k \in 4 .. 3}
        /\ Over(NodeAbove(2, p)) = {NodeAbove(k, p) : k \in 3 .. 3}
        /\ Over(NodeAbove(1, p)) = {NodeAbove(k, p) : k \in 2 .. 3}
    BY <2>1, OverAbove
  <2>3. 4 .. 3 = {} /\ 3 .. 3 = {3} /\ 2 .. 3 = {2, 3}
    OBVIOUS
  <2> QED BY <2>2, <2>3, AboveIsNode
<1>2. /\ IsMapper(m0) /\ m0.space = s /\ m0.allocator = a /\ m0.error = "None"
      /\ Grown(s, a, m0.space, m0.allocator, flags)
  BY GrownStart DEF IsMapper
<1>3. leaf \in Leaf /\ leaf.flags = flags
  BY DEF Leaf
<1> HIDE DEF m0
<1>4. NextOK(s, a, m0, NodeAbove(3, p), flags, m3)
  <2>1. NodeAbove(3, p) \in Node
    BY <1>1
  <2>2. m0.error = "None" => Over(NodeAbove(3, p)) \subseteq DOMAIN m0.space.tables
    BY <1>1, Zenon
  <2> QED BY <1>2, <2>1, <2>2, NextTable, Zenon
<1> HIDE DEF m3
<1>5. NextOK(s, a, m3, NodeAbove(2, p), flags, m2)
  <2>0. IsMapper(m3) /\ Grown(s, a, m3.space, m3.allocator, flags)
    BY <1>4 DEF NextOK
  <2>1. /\ NodeAbove(2, p) \in Node
        /\ m3.error = "None" => Over(NodeAbove(2, p)) \subseteq DOMAIN m3.space.tables
    BY <1>1, <1>4 DEF NextOK
  <2> QED BY <2>0, <2>1, NextTable, Zenon
<1> HIDE DEF m2
<1>6. NextOK(s, a, m2, NodeAbove(1, p), flags, m1)
  <2>1. /\ NodeAbove(1, p) \in Node
        /\ m2.error = "None" => Over(NodeAbove(1, p)) \subseteq DOMAIN m2.space.tables
    BY <1>1, <1>4, <1>5 DEF NextOK
  <2>0. IsMapper(m2) /\ Grown(s, a, m2.space, m2.allocator, flags)
    BY <1>5 DEF NextOK
  <2> QED BY <2>0, <2>1, NextTable, Zenon
<1>7. m = IF m1.error # "None" THEN m1
          ELSE IF p \in DOMAIN m1.space.pages
            THEN [m1 EXCEPT !.error = "PageAlreadyMapped"]
          ELSE [m1 EXCEPT !.space.pages = With(m1.space.pages, p, leaf)]
  BY DEF map_to, m0, m3, m2
<1> HIDE DEF m1, m
<1>8. /\ IsMapper(m1) /\ Grown(s, a, m1.space, m1.allocator, flags)
      /\ m1.space.pages = s.pages
      /\ m1.error # "ParentEntryHugePage" => m1.space.huge = s.huge
      /\ Above(p) \cap DOMAIN s.huge = {} => m1.space.huge = s.huge
      /\ m1.error \in {"None", "ParentEntryHugePage", "FrameAllocationFailed"}
  <2>1. /\ m3.error \in {"None", "ParentEntryHugePage", "FrameAllocationFailed"}
        /\ m3.space.pages = s.pages
        /\ m3.error # "ParentEntryHugePage" => m3.space.huge = s.huge
        /\ NodeAbove(3, p) \notin DOMAIN s.huge => m3.space.huge = s.huge
    BY <1>2, <1>4 DEF NextOK
  <2>2. /\ m2.error \in {"None", "ParentEntryHugePage", "FrameAllocationFailed"}
        /\ m2.space.pages = s.pages
        /\ m2.error # "ParentEntryHugePage" => m2.space.huge = s.huge
        /\ NodeAbove(3, p) \notin DOMAIN s.huge /\ NodeAbove(2, p) \notin DOMAIN s.huge
             => m2.space.huge = s.huge
    BY <1>5, <2>1 DEF NextOK
  <2>3. Above(p) \cap DOMAIN s.huge = {} =>
          \A k \in 1 .. 3 : NodeAbove(k, p) \notin DOMAIN s.huge
    BY DEF Above
  <2> QED BY <1>6, <2>2, <2>3 DEF NextOK
<1>9. m1.error = "None" => Above(p) \subseteq DOMAIN m1.space.tables
  <2> SUFFICES ASSUME m1.error = "None"
               PROVE  \A k \in 1 .. 3 : NodeAbove(k, p) \in DOMAIN m1.space.tables
    BY DEF Above
  <2>1. /\ NodeAbove(3, p) \in DOMAIN m1.space.tables
        /\ NodeAbove(2, p) \in DOMAIN m1.space.tables
        /\ NodeAbove(1, p) \in DOMAIN m1.space.tables
    BY <1>4, <1>5, <1>6 DEF NextOK
  <2>2. \A k \in 1 .. 3 : k = 1 \/ k = 2 \/ k = 3
    OBVIOUS
  <2> QED BY <2>1, <2>2
<1>10. ASSUME NEW t, NEW b, Grown(s, a, t, b, flags), t.pages = s.pages PROVE WellFormed(t)
  <2>1. Range(t.tables) \subseteq Frames
    BY <1>10 DEF Grown, Sound, Allocator
  <2>2. DOMAIN t.huge \subseteq Node /\ Range(t.huge) \subseteq Leaf
    BY <1>10 DEF Grown, WellFormed, Broader, Range
  <2>3. \A q \in DOMAIN t.pages : Above(q) \subseteq DOMAIN t.tables
    BY <1>10 DEF Grown, WellFormed
  <2> QED BY <1>10, <2>1, <2>2, <2>3 DEF Grown, WellFormed
<1>11. CASE m1.error # "None"
  <2>1. m = m1
    BY <1>7, <1>11
  <2> QED BY <1>3, <1>8, <1>10, <1>11, <2>1 DEF MapToOK, m
<1>12. CASE m1.error = "None" /\ p \in DOMAIN m1.space.pages
  <2>1. m = [m1 EXCEPT !.error = "PageAlreadyMapped"]
    BY <1>7, <1>12
  <2>2. /\ DOMAIN m = DOMAIN m1 /\ m.space = m1.space /\ m.allocator = m1.allocator
        /\ m.error = "PageAlreadyMapped"
    BY <1>8, <2>1 DEF IsMapper
  <2> QED BY <1>3, <1>8, <1>10, <1>12, <2>2 DEF MapToOK, m, IsMapper
<1>13. CASE m1.error = "None" /\ p \notin DOMAIN m1.space.pages
  <2> DEFINE u == With(s.pages, p, leaf)
  <2>1. m = [m1 EXCEPT !.space.pages = u]
    BY <1>7, <1>8, <1>13
  <2> HIDE DEF u
  <2>2. /\ DOMAIN m = DOMAIN m1 /\ DOMAIN m.space = DOMAIN m1.space
        /\ m.allocator = m1.allocator /\ m.error = "None"
        /\ m.space.tables = m1.space.tables /\ m.space.huge = m1.space.huge
        /\ m.space.pages = u
    BY <1>8, <1>13, <2>1 DEF IsMapper, IsSpace
  <2>3. Grown(s, a, m.space, m.allocator, flags)
    BY <1>8, <2>2 DEF Grown
  <2>4. Above(p) \subseteq DOMAIN m.space.tables
    BY <1>9, <1>13, <2>2
  <2>5. /\ DOMAIN u = DOMAIN s.pages \cup {p} /\ Range(u) = Range(s.pages) \cup {leaf}
    <3> HIDE DEF leaf
    <3>1. p \notin DOMAIN s.pages
      BY <1>8, <1>13
    <3>2. DOMAIN u = DOMAIN s.pages \cup {p}
      BY WithDomain, Zenon DEF u
    <3>3. Range(u) = Range(s.pages) \cup {leaf}
      BY <3>1, WithRange, Zenon DEF u
    <3> QED BY <3>2, <3>3
  <2>6. WellFormed(m1.space)
    BY <1>8, <1>10
  <2>7. WellFormed(m.space)
    <3> HIDE DEF leaf
    <3>1. DOMAIN u \subseteq Page /\ Range(u) \subseteq Leaf
      BY <1>3, <1>8, <2>5, <2>6 DEF WellFormed
    <3>2. \A q \in DOMAIN u : Above(q) \subseteq DOMAIN m.space.tables
      BY <1>8, <2>2, <2>4, <2>5, <2>6 DEF WellFormed
    <3> QED BY <2>2, <2>6, <3>1, <3>2 DEF WellFormed
  <2>8. Above(p) \cap DOMAIN s.huge = {}
    BY <2>3, <2>4 DEF Grown, Broader
  <2> HIDE DEF leaf
  <2> QED BY <1>3, <1>8, <1>13, <2>2, <2>3, <2>7, <2>8 DEF MapToOK, m, u, leaf, IsMapper, IsSpace
<1> QED BY <1>8, <1>11, <1>12, <1>13

(* unmap removes the page from the pages, or changes nothing. *)
LEMMA UnmapCorrect ==
  ASSUME NEW s, NEW p, IsSpace(s), WellFormed(s)
  PROVE  LET u == unmap(s, p)
         IN  /\ u.error \in {"None", "ParentEntryHugePage", "PageNotMapped"}
             /\ u.error # "None" => u.space = s /\ p \notin DOMAIN s.pages
             /\ u.error = "None" =>
                  /\ p \in DOMAIN s.pages /\ IsSpace(u.space) /\ WellFormed(u.space)
                  /\ u.space.tables = s.tables /\ u.space.huge = s.huge
                  /\ DOMAIN u.space.pages = DOMAIN s.pages \ {p}
                  /\ \A q \in DOMAIN s.pages \ {p} : u.space.pages[q] = s.pages[q]
<1> DEFINE u == unmap(s, p)
<1>1. CASE Above(p) \cap DOMAIN s.huge # {}
  <2>1. p \notin DOMAIN s.pages
    BY <1>1 DEF WellFormed
  <2> QED BY <1>1, <2>1 DEF unmap
<1>2. CASE Above(p) \cap DOMAIN s.huge = {} /\ p \notin DOMAIN s.pages
  BY <1>2 DEF unmap
<1>3. CASE Above(p) \cap DOMAIN s.huge = {} /\ p \in DOMAIN s.pages
  <2> DEFINE r == Restrict(s.pages, DOMAIN s.pages \ {p})
  <2>1. /\ u.space = [s EXCEPT !.pages = r] /\ u.error = "None"
    BY <1>3 DEF unmap, IsSpace
  <2>2. /\ DOMAIN r = DOMAIN s.pages \ {p}
        /\ \A q \in DOMAIN s.pages \ {p} : r[q] = s.pages[q]
    BY DEF Restrict
  <2> HIDE DEF r, u
  <2>3. /\ DOMAIN u.space = DOMAIN s /\ u.space.tables = s.tables
        /\ u.space.huge = s.huge /\ u.space.pages = r
    BY <2>1 DEF IsSpace
  <2>4. Range(r) \subseteq Range(s.pages)
    BY <2>2 DEF Range
  <2>5. WellFormed(u.space)
    BY <2>2, <2>3, <2>4 DEF WellFormed
  <2> QED BY <1>3, <2>1, <2>2, <2>3, <2>5 DEF u, IsSpace
<1> HIDE DEF u
<1> QED BY <1>1, <1>2, <1>3 DEF u

-----------------------------------------------------------------------------
(* The address space that boot64.asm leaves. *)
LEMMA BootSpaceFields ==
  /\ IsSpace(BootSpace)
  /\ DOMAIN BootSpace.tables = {<<3, 0>>, <<2, 0>>}
  /\ BootSpace.tables[<<3, 0>>] = 2 /\ BootSpace.tables[<<2, 0>>] = 3
  /\ DOMAIN BootSpace.huge = {1} \X (0 .. BootHugePages - 1)
  /\ BootSpace.pages = NoEntry /\ DOMAIN NoEntry = {}
<1>1. IsSpace(BootSpace) /\ BootSpace.pages = NoEntry
  BY DEF BootSpace, IsSpace
<1>2. BootSpace.tables = [n \in {<<3, 0>>, <<2, 0>>} |-> 5 - n[1]]
  BY DEF BootSpace
<1>3. BootSpace.huge = [n \in {1} \X (0 .. BootHugePages - 1) |->
                         [frame |-> n[2] * Fanout, flags |-> BootFlags]]
  BY DEF BootSpace
<1>4. DOMAIN NoEntry = {}
  BY DEF NoEntry
<1> QED BY <1>1, <1>2, <1>3, <1>4

(* Its huge pages: number i maps the pages from i * Span(1) on. *)
LEMMA BootHuge ==
  ASSUME NEW n \in DOMAIN BootSpace.huge
  PROVE  /\ n \in Node /\ n[1] = 1 /\ n[2] \in 0 .. BootHugePages - 1
         /\ n = <<1, n[2]>>
         /\ n[2] * Span(1) \in Page
         /\ BootSpace.huge[n] = [frame |-> n[2] * Fanout, flags |-> BootFlags]
         /\ BootSpace.huge[n] \in Leaf
<1>1. n \in {1} \X (0 .. BootHugePages - 1)
  BY BootSpaceFields
<1>2. n[1] = 1 /\ n[2] \in 0 .. BootHugePages - 1 /\ n = <<1, n[2]>>
  BY <1>1
<1>3. n[2] * Span(1) \in Page
  <2> DEFINE i == n[2]
  <2>1. i \in Nat /\ i + 1 <= Fanout /\ Fanout \in Nat \ {0, 1}
    BY <1>2, PageTablesAssumption
  <2> HIDE DEF i
  <2>2. i * Fanout \in Nat /\ i * Fanout < Fanout * Fanout
    BY <2>1
  <2>3. Fanout * Fanout \in Nat /\ Fanout * Fanout >= 1
    BY <2>1
  <2>4. Fanout * Fanout <= Fanout * (Fanout * Fanout * Fanout)
    <3> DEFINE q == Fanout * Fanout
    <3>1. q \in Nat /\ q >= 1 /\ Fanout * (Fanout * Fanout * Fanout) = q * q
      BY <2>1, <2>3
    <3> HIDE DEF q
    <3>2. q <= q * q
      BY <3>1
    <3> QED BY <3>1, <3>2 DEF q
  <2>5. Fanout * (Fanout * Fanout * Fanout) \in Nat
    BY <2>1
  <2>6. i * Fanout \in 0 .. Fanout * (Fanout * Fanout * Fanout) - 1
    BY <2>2, <2>3, <2>4, <2>5
  <2> QED BY <2>6, SpanType DEF Page, i
<1>4. n \in Node
  BY <1>2, <1>3 DEF Node
<1>5. BootSpace.huge[n] = [frame |-> n[2] * Fanout, flags |-> BootFlags]
  BY <1>1 DEF BootSpace
<1>6. BootSpace.huge[n] \in Leaf
  <2>1. n[2] * Fanout \in Nat
    BY <1>2, PageTablesAssumption
  <2> QED BY <1>5, <2>1, PageTablesAssumption DEF Leaf, Flags
<1> QED BY <1>2, <1>3, <1>4, <1>5, <1>6

(* What the kernel can reach at its own address lies in the address space. *)
LEMMA BootReaches ==
  ASSUME NEW f \in Nat, translate(BootSpace, f) # {}
  PROVE  f \in Page
<1>1. PICK n \in Above(f) \cap DOMAIN BootSpace.huge : TRUE
  BY BootSpaceFields DEF translate
<1>2. n \in Node /\ n[1] = 1 /\ n[2] \in 0 .. BootHugePages - 1
  BY <1>1, BootHuge
<1>3. f \in PagesBelow(n)
  BY <1>1, <1>2, BelowIsAbove
<1> DEFINE i == n[2]
<1>4. i \in Nat /\ i + 1 <= Fanout /\ Fanout \in Nat \ {0, 1}
  BY <1>2, PageTablesAssumption
<1>5. f < (i + 1) * Fanout
  BY <1>2, <1>3, <1>4, SpanType DEF PagesBelow
<1> HIDE DEF i
<1>6. (i + 1) * Fanout <= Fanout * Fanout
  BY <1>4
<1>7. Fanout * Fanout <= Fanout * (Fanout * Fanout * Fanout)
  <2> DEFINE q == Fanout * Fanout
  <2>1. q \in Nat /\ q >= 1 /\ Fanout * (Fanout * Fanout * Fanout) = q * q
    BY <1>4
  <2> HIDE DEF q
  <2>2. q <= q * q
    BY <2>1
  <2> QED BY <2>1, <2>2 DEF q
<1>8. /\ Fanout * Fanout \in Nat /\ (i + 1) * Fanout \in Nat
      /\ Fanout * (Fanout * Fanout * Fanout) \in Nat
  BY <1>4
<1>9. f < Fanout * (Fanout * Fanout * Fanout)
  BY <1>5, <1>6, <1>7, <1>8
<1> QED BY <1>8, <1>9, SpanType DEF Page

=============================================================================
