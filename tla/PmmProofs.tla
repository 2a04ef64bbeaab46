----------------------------- MODULE PmmProofs ------------------------------
(***************************************************************************)
(* Proofs about the physical memory manager for every number of frames,    *)
(* every boot map and every sequence of calls.                             *)
(***************************************************************************)
EXTENDS Pmm, MemoryProofs

-----------------------------------------------------------------------------
(* The sets of frames the manager reserves or clears are tracked frames. *)
LEMMA RegionFrames ==
  /\ StandardFrames \in SUBSET Frames
  /\ \A r : FramesOf(r) \in SUBSET Frames
BY DEF StandardFrames, FramesOf, FramesTouched

(* The first inductive invariant: types, and a hint that is free. *)
IInv == TypeOK /\ Sound(frame_allocator)

(* Every boot step takes a sound allocator to a sound one. *)
LEMMA BootStepsSound ==
  ASSUME IInv, Boot
  PROVE  Sound(frame_allocator')
<1> USE DEF IInv
<1>1. CASE InitFallback
  <2> DEFINE r == init_standard_reservations(new)
             u == update_statistics(r)
  <2>1. Sound(r)
    BY NewOK, ReserveSound, RegionFrames DEF init_standard_reservations, Sound
  <2>2. Sound(u)
    BY <2>1, StatisticsOK
  <2> HIDE DEF r
  <2>3. Sound(self_test(u).allocator)
    BY <2>2, SelfTestOK
  <2> QED BY <1>1, <2>3 DEF InitFallback, r
<1>2. CASE \E entries \in MemMaps : InitFromMemmap(entries)
  BY <1>2, NewOK DEF InitFromMemmap
<1>3. CASE ReadUsableEntry
  <2> DEFINE S == FramesOf(Head(pending)) \cap frame_allocator.bitmap
  <2>1. S \in SUBSET Frames
    BY RegionFrames
  <2> HIDE DEF S
  <2>2. Sound(mark_frames_free(frame_allocator, S))
    BY <2>1, MarkFreeSound
  <2> QED BY <1>3, <2>2 DEF ReadUsableEntry, S
<1>4. CASE ReadReservedEntry
  BY <1>4, ReserveSound, RegionFrames DEF ReadReservedEntry, Sound
<1>5. CASE FinishMemmap
  <2> DEFINE r == init_standard_reservations(frame_allocator)
  <2>1. Sound(r)
    BY ReserveSound, RegionFrames DEF init_standard_reservations, Sound
  <2> HIDE DEF r
  <2>2. recalculate_next_free(r) = [r EXCEPT !.next_free = FirstFree(r.bitmap, 0)]
    BY DEF recalculate_next_free
  <2>3. /\ FirstFree(r.bitmap, 0) \in 0 .. TotalFrames
        /\ FirstFree(r.bitmap, 0) = TotalFrames \/ FirstFree(r.bitmap, 0) \notin r.bitmap
    BY FirstFreeIsFree, FrameAllocatorAssumption
  <2>4. Sound(recalculate_next_free(r))
    BY <2>1, <2>2, <2>3 DEF Sound, Allocator
  <2>5. Sound(update_statistics(recalculate_next_free(r)))
    BY <2>4, StatisticsOK
  <2> QED BY <1>5, <2>5 DEF FinishMemmap, r
<1> QED BY <1>1, <1>2, <1>3, <1>4, <1>5 DEF Boot

(* So does every call of a client, refused ones included. *)
LEMMA CallStepsSound ==
  ASSUME IInv, Call
  PROVE  Sound(frame_allocator')
<1> USE DEF IInv
<1>1. CASE AllocateFrame
  BY <1>1, AllocateFrameOK DEF AllocateFrame, Grants, GrantOK
<1>2. CASE \E count \in Counts : AllocateFrames(count)
  BY <1>2, AllocateFramesOK, PmmAssumption DEF AllocateFrames, Grants, GrantOK
<1>3. CASE \E addr \in Addrs : FreeFrame(addr)
  BY <1>3, FreeFrameOK, PmmAssumption DEF FreeFrame, Frees, FreeOK
<1>4. CASE \E addr \in Addrs, count \in Counts : FreeFrames(addr, count)
  BY <1>4, FreeFramesOK, PmmAssumption DEF FreeFrames, Frees, FreeOK
<1>5. CASE \E r \in LateRegions : ReserveRegion(r)
  BY <1>5, ReserveSound, RegionFrames DEF ReserveRegion, Sound
<1>6. CASE \E enabled \in ValidationModes : SetValidation(enabled)
  BY <1>6, PmmAssumption DEF SetValidation, set_validation, Sound, Allocator
<1>7. CASE SelfTest
  BY <1>7, SelfTestOK DEF SelfTest
<1> QED BY <1>1, <1>2, <1>3, <1>4, <1>5, <1>6, <1>7 DEF Call

(* The first invariant is inductive: one step per action. *)
LEMMA IInvInductive == IInv /\ [Next]_vars => IInv'
<1> SUFFICES ASSUME IInv, [Next]_vars PROVE IInv'
  OBVIOUS
<1>0. TypeOK /\ Sound(frame_allocator)
  BY DEF IInv
<1>1. CASE UNCHANGED vars
  BY <1>0, <1>1 DEF vars, IInv, TypeOK
<1>2. CASE Boot
  <2>1. Sound(frame_allocator') /\ frame_allocator' \in Allocator
    BY <1>2, BootStepsSound DEF Sound
  <2>2. Answer("boot", {}, "Ok") \in Reply
    BY DEF Answer, Reply
  <2>3. CASE InitFallback
    BY <1>0, <2>1, <2>2, <2>3 DEF IInv, TypeOK, InitFallback
  <2>4. CASE \E entries \in MemMaps : InitFromMemmap(entries)
    BY <1>0, <2>1, <2>4, PmmAssumption DEF IInv, TypeOK, InitFromMemmap
  <2>5. ASSUME phase = "memmap", pending # <<>>
        PROVE  Head(pending) \in Region /\ Tail(pending) \in Seq(Region)
    BY <1>0, <2>5 DEF TypeOK
  <2>6. CASE ReadUsableEntry
    BY <1>0, <2>1, <2>5, <2>6 DEF IInv, TypeOK, ReadUsableEntry
  <2>7. CASE ReadReservedEntry
    BY <1>0, <2>1, <2>5, <2>7 DEF IInv, TypeOK, ReadReservedEntry
  <2>8. CASE FinishMemmap
    BY <1>0, <2>1, <2>2, <2>8 DEF IInv, TypeOK, FinishMemmap
  <2> QED BY <1>2, <2>3, <2>4, <2>6, <2>7, <2>8 DEF Boot
<1>3. CASE Call
  <2>1. Sound(frame_allocator') /\ frame_allocator' \in Allocator
    BY <1>3, CallStepsSound DEF Sound
  <2>2. ASSUME Called PROVE UNCHANGED <<phase, pending, memory_map>>
    BY <2>2 DEF Called
  <2>3. CASE AllocateFrame
    <3>1. reply' \in Reply /\ UNCHANGED reserved_regions
      BY <1>0, <2>3, AllocateFrameOK DEF AllocateFrame, Grants, GrantOK, Answer, Reply
    <3> QED BY <1>0, <2>1, <2>2, <2>3, <3>1 DEF AllocateFrame, IInv, TypeOK
  <2>4. CASE \E count \in Counts : AllocateFrames(count)
    <3>1. PICK count \in Counts : AllocateFrames(count)
      BY <2>4
    <3>2. reply' \in Reply /\ UNCHANGED reserved_regions
      BY <1>0, <3>1, AllocateFramesOK, PmmAssumption
         DEF AllocateFrames, Grants, GrantOK, Answer, Reply
    <3> QED BY <1>0, <2>1, <2>2, <3>1, <3>2 DEF AllocateFrames, IInv, TypeOK
  <2>5. CASE \E addr \in Addrs : FreeFrame(addr)
    <3>1. PICK addr \in Addrs : FreeFrame(addr)
      BY <2>5
    <3>2. reply' \in Reply /\ UNCHANGED reserved_regions
      BY <1>0, <3>1, FreeFrameOK, PmmAssumption
         DEF FreeFrame, Frees, FreeOK, Answer, Reply
    <3> QED BY <1>0, <2>1, <2>2, <3>1, <3>2 DEF FreeFrame, IInv, TypeOK
  <2>6. CASE \E addr \in Addrs, count \in Counts : FreeFrames(addr, count)
    <3>1. PICK addr \in Addrs, count \in Counts : FreeFrames(addr, count)
      BY <2>6
    <3>2. reply' \in Reply /\ UNCHANGED reserved_regions
      <4>1. FreeOK(frame_allocator, free_frames(frame_allocator, addr, count))
        BY <1>0, FreeFramesOK, PmmAssumption
      <4> QED BY <3>1, <4>1 DEF FreeFrames, Frees, FreeOK, Answer, Reply
    <3> QED BY <1>0, <2>1, <2>2, <3>1, <3>2 DEF FreeFrames, IInv, TypeOK
  <2>7. CASE \E r \in LateRegions : ReserveRegion(r)
    BY <1>0, <2>1, <2>2, <2>7, PmmAssumption
       DEF ReserveRegion, IInv, TypeOK, Answer, Reply
  <2>8. CASE \E enabled \in ValidationModes : SetValidation(enabled)
    BY <1>0, <2>1, <2>2, <2>8 DEF SetValidation, IInv, TypeOK, Answer, Reply
  <2>9. CASE SelfTest
    BY <1>0, <2>1, <2>2, <2>9 DEF SelfTest, IInv, TypeOK, Answer, Reply
  <2> QED BY <1>3, <2>3, <2>4, <2>5, <2>6, <2>7, <2>8, <2>9 DEF Call
<1> QED BY <1>1, <1>2, <1>3 DEF Next

(* The initial state satisfies the first invariant. *)
LEMMA IInvInit == Init => IInv
BY NewOK DEF Init, IInv, TypeOK, Sound, Answer, Reply

(* Types hold in every reachable state, for every boot map and every       *)
(* sequence of calls.                                                      *)
THEOREM TypeCorrect == Spec => []TypeOK
<1>1. IInv => TypeOK
  BY DEF IInv
<1> QED BY <1>1, IInvInit, IInvInductive, PTL DEF Spec

(* The hint of the allocator is always a free frame or total_frames, so    *)
(* allocate_frame, which does not look at the bitmap, never hands out a    *)
(* frame twice.                                                            *)
THEOREM HintIsFree == Spec => []NextFreeIsFree
<1>1. IInv => NextFreeIsFree
  BY DEF IInv, Sound, NextFreeIsFree
<1> QED BY <1>1, IInvInit, IInvInductive, PTL DEF Spec

-----------------------------------------------------------------------------
(***************************************************************************)
(* The count.  It is exact as long as validation is never switched off     *)
(* (nothing in the kernel does) and no usable entry of the boot map shares *)
(* a frame with an earlier reserved entry: a usable entry clears bits      *)
(* without counting them.  The invariant says that the usable entries      *)
(* still to be read find no bit to clear.                                  *)
(***************************************************************************)
Disciplined ==
  ValidationModes \subseteq {TRUE} /\ \A m \in MemMaps : NonStraddling(m)

BootMapClear ==
  phase = "memmap" =>
    /\ NonStraddling(pending)
    /\ \A i \in DOMAIN pending :
         pending[i].usable => FramesOf(pending[i]) \cap frame_allocator.bitmap = {}

CInv == /\ Counted(frame_allocator)
        /\ frame_allocator.validation_enabled
        /\ BootMapClear
        /\ phase # "ready" => reply.op = "boot"

(* Reading the first entry of a map that does not straddle leaves a map    *)
(* that does not, and whose usable entries avoid a reserved first entry.   *)
LEMMA TailOfMap ==
  ASSUME NEW m \in Seq(Region), m # <<>>, NonStraddling(m)
  PROVE  /\ NonStraddling(Tail(m))
         /\ \A i \in DOMAIN Tail(m) :
              /\ i + 1 \in DOMAIN m /\ Tail(m)[i] = m[i + 1]
              /\ ~Head(m).usable /\ Tail(m)[i].usable =>
                   FramesOf(Head(m)) \cap FramesOf(Tail(m)[i]) = {}
<1>1. \A i \in DOMAIN Tail(m) : i \in Nat \ {0} /\ i + 1 \in DOMAIN m /\ Tail(m)[i] = m[i + 1]
  OBVIOUS
<1>2. Head(m) = m[1] /\ 1 \in DOMAIN m
  OBVIOUS
<1>3. \A i, j \in DOMAIN Tail(m) :
        i < j /\ ~Tail(m)[i].usable /\ Tail(m)[j].usable =>
          FramesOf(Tail(m)[i]) \cap FramesOf(Tail(m)[j]) = {}
  <2> SUFFICES ASSUME NEW i \in DOMAIN Tail(m), NEW j \in DOMAIN Tail(m),
                      i < j, ~Tail(m)[i].usable, Tail(m)[j].usable
               PROVE  FramesOf(Tail(m)[i]) \cap FramesOf(Tail(m)[j]) = {}
    OBVIOUS
  <2>1. i + 1 < j + 1 /\ i + 1 \in DOMAIN m /\ j + 1 \in DOMAIN m
    BY <1>1
  <2>2. ~m[i + 1].usable /\ m[j + 1].usable
    BY <1>1
  <2>3. FramesOf(m[i + 1]) \cap FramesOf(m[j + 1]) = {}
    BY <2>1, <2>2 DEF NonStraddling
  <2> QED BY <1>1, <2>3
<1>4. ASSUME NEW i \in DOMAIN Tail(m), ~Head(m).usable, Tail(m)[i].usable
      PROVE  FramesOf(Head(m)) \cap FramesOf(Tail(m)[i]) = {}
  <2>1. 1 < i + 1 /\ i + 1 \in DOMAIN m /\ m[i + 1].usable /\ ~m[1].usable
    BY <1>1, <1>2, <1>4
  <2>2. FramesOf(m[1]) \cap FramesOf(m[i + 1]) = {}
    BY <1>2, <2>1 DEF NonStraddling
  <2> QED BY <1>1, <1>2, <2>2
<1> QED BY <1>1, <1>3, <1>4 DEF NonStraddling

(* The boot steps keep the count exact. *)
LEMMA BootStepsCounted ==
  ASSUME Disciplined, IInv, CInv, Boot
  PROVE  CInv'
<1>0. Sound(frame_allocator) /\ frame_allocator \in Allocator /\ pending \in Seq(Region)
  BY DEF IInv, TypeOK, Sound
<1>1. CASE InitFallback
  <2> DEFINE r == init_standard_reservations(new)
             u == update_statistics(r)
  <2>1. Sound(r) /\ Counted(r) /\ r.validation_enabled
    BY NewOK, ReserveSound, RegionFrames DEF init_standard_reservations, Sound
  <2> HIDE DEF r
  <2>2. Sound(u) /\ Counted(u) /\ u.validation_enabled
    BY <2>1, StatisticsOK
  <2> HIDE DEF u
  <2>3. Counted(self_test(u).allocator) /\ self_test(u).allocator.validation_enabled
    BY <2>2, SelfTestOK
  <2> QED BY <1>1, <2>3 DEF InitFallback, u, r, CInv, BootMapClear
<1>2. CASE \E entries \in MemMaps : InitFromMemmap(entries)
  BY <1>2, NewOK DEF InitFromMemmap, CInv, BootMapClear, Disciplined
<1>3. CASE ReadUsableEntry
  <2> DEFINE S == FramesOf(Head(pending)) \cap frame_allocator.bitmap
             f == mark_frames_free(frame_allocator, S)
  <2>1. phase = "memmap" /\ pending # <<>> /\ Head(pending).usable
    BY <1>3 DEF ReadUsableEntry
  <2>2. S = {} /\ S \in SUBSET Frames
    <3>1. Head(pending) = pending[1] /\ 1 \in DOMAIN pending
      BY <1>0, <2>1
    <3> QED BY <2>1, <3>1 DEF CInv, BootMapClear
  <2> HIDE DEF S
  <2>3. /\ f.bitmap = frame_allocator.bitmap \ S
        /\ f.allocated_frames = frame_allocator.allocated_frames
        /\ f.validation_enabled = frame_allocator.validation_enabled
    BY <1>0, <2>2, MarkFreeSound
  <2>4. frame_allocator' = f /\ pending' = Tail(pending) /\ phase' = phase /\ reply' = reply
    BY <1>3 DEF ReadUsableEntry, S
  <2> HIDE DEF f
  <2>5. frame_allocator'.bitmap = frame_allocator.bitmap
    BY <2>2, <2>3, <2>4
  <2>6. BootMapClear'
    <3>1. NonStraddling(pending)
      BY <2>1 DEF CInv, BootMapClear
    <3>2. /\ NonStraddling(Tail(pending))
          /\ \A i \in DOMAIN Tail(pending) :
               i + 1 \in DOMAIN pending /\ Tail(pending)[i] = pending[i + 1]
      BY <1>0, <2>1, <3>1, TailOfMap
    <3>3. \A i \in DOMAIN pending :
            pending[i].usable => FramesOf(pending[i]) \cap frame_allocator.bitmap = {}
      BY <2>1 DEF CInv, BootMapClear
    <3>4. NonStraddling(pending)'
      BY <2>4, <3>2 DEF NonStraddling, FramesOf
    <3> QED BY <2>4, <2>5, <3>2, <3>3, <3>4 DEF BootMapClear, FramesOf
  <2> QED BY <2>3, <2>4, <2>5, <2>6 DEF CInv, Counted
<1>4. CASE ReadReservedEntry
  <2> DEFINE S == FramesOf(Head(pending))
             f == reserve_frames(frame_allocator, S)
  <2>1. phase = "memmap" /\ pending # <<>> /\ ~Head(pending).usable
    BY <1>4 DEF ReadReservedEntry
  <2>2. /\ f.bitmap = frame_allocator.bitmap \cup S
        /\ f.validation_enabled = frame_allocator.validation_enabled
        /\ Counted(frame_allocator) => Counted(f)
    BY <1>0, RegionFrames, ReserveSound
  <2>3. frame_allocator' = f /\ pending' = Tail(pending) /\ phase' = phase /\ reply' = reply
    BY <1>4 DEF ReadReservedEntry
  <2> HIDE DEF f
  <2>4. BootMapClear'
    <3>1. NonStraddling(pending)
      BY <2>1 DEF CInv, BootMapClear
    <3>2. /\ NonStraddling(Tail(pending))
          /\ \A i \in DOMAIN Tail(pending) :
               /\ i + 1 \in DOMAIN pending /\ Tail(pending)[i] = pending[i + 1]
               /\ ~Head(pending).usable /\ Tail(pending)[i].usable =>
                    S \cap FramesOf(Tail(pending)[i]) = {}
      BY <1>0, <2>1, <3>1, TailOfMap
    <3>3. \A i \in DOMAIN pending :
            pending[i].usable => FramesOf(pending[i]) \cap frame_allocator.bitmap = {}
      BY <2>1 DEF CInv, BootMapClear
    <3>4. NonStraddling(pending)'
      BY <2>3, <3>2 DEF NonStraddling, FramesOf
    <3> HIDE DEF S
    <3>5. \A i \in DOMAIN Tail(pending) : Tail(pending)[i].usable =>
            FramesOf(Tail(pending)[i]) \cap (frame_allocator.bitmap \cup S) = {}
      BY <2>1, <3>2, <3>3
    <3> QED BY <2>2, <2>3, <3>4, <3>5 DEF BootMapClear, FramesOf
  <2> QED BY <2>2, <2>3, <2>4 DEF CInv, Counted
<1>5. CASE FinishMemmap
  <2> DEFINE r == init_standard_reservations(frame_allocator)
             h == recalculate_next_free(r)
  <2>1. Sound(r) /\ Counted(r) /\ r.validation_enabled
    BY <1>0, ReserveSound, RegionFrames DEF init_standard_reservations, CInv
  <2> HIDE DEF r
  <2>2. /\ FirstFree(r.bitmap, 0) \in 0 .. TotalFrames
        /\ FirstFree(r.bitmap, 0) = TotalFrames \/ FirstFree(r.bitmap, 0) \notin r.bitmap
    BY FirstFreeIsFree, FrameAllocatorAssumption
  <2>3. Sound(h) /\ Counted(h) /\ h.validation_enabled
    BY <2>1, <2>2 DEF recalculate_next_free, Sound, Counted, Allocator
  <2> HIDE DEF h
  <2>4. Counted(update_statistics(h)) /\ update_statistics(h).validation_enabled
    BY <2>3, StatisticsOK
  <2> QED BY <1>5, <2>4 DEF FinishMemmap, h, r, CInv, BootMapClear
<1> QED BY <1>1, <1>2, <1>3, <1>4, <1>5 DEF Boot

(* So do the calls of the clients. *)
LEMMA CallStepsCounted ==
  ASSUME Disciplined, IInv, CInv, Call
  PROVE  CInv'
<1>0. /\ Sound(frame_allocator) /\ Counted(frame_allocator)
      /\ frame_allocator \in Allocator /\ frame_allocator.validation_enabled
  BY DEF IInv, CInv, Sound
<1>1. phase = "ready" /\ phase' = "ready"
  BY DEF Call, AllocateFrame, AllocateFrames, FreeFrame, FreeFrames,
         ReserveRegion, SetValidation, SelfTest, Called
<1>2. SUFFICES Counted(frame_allocator') /\ frame_allocator'.validation_enabled
  BY <1>1 DEF CInv, BootMapClear, Counted
<1>3. CASE AllocateFrame
  BY <1>0, <1>3, AllocateFrameOK DEF AllocateFrame, Grants, GrantOK
<1>4. CASE \E count \in Counts : AllocateFrames(count)
  <2>1. PICK count \in Counts : AllocateFrames(count)
    BY <1>4
  <2> DEFINE r == allocate_frames(frame_allocator, count)
  <2>2. GrantOK(frame_allocator, r)
    BY <1>0, AllocateFramesOK, PmmAssumption
  <2>3. frame_allocator' = r.allocator
    BY <2>1 DEF AllocateFrames, Grants
  <2> HIDE DEF r
  <2> QED BY <1>0, <2>2, <2>3 DEF GrantOK
<1>5. CASE \E addr \in Addrs : FreeFrame(addr)
  <2>1. PICK addr \in Addrs : FreeFrame(addr)
    BY <1>5
  <2> DEFINE r == free_frame(frame_allocator, addr)
  <2>2. FreeOK(frame_allocator, r)
    BY <1>0, FreeFrameOK, PmmAssumption
  <2>3. frame_allocator' = r.allocator
    BY <2>1 DEF FreeFrame, Frees
  <2> HIDE DEF r
  <2> QED BY <1>0, <2>2, <2>3 DEF FreeOK
<1>6. CASE \E addr \in Addrs, count \in Counts : FreeFrames(addr, count)
  <2>1. PICK addr \in Addrs, count \in Counts : FreeFrames(addr, count)
    BY <1>6
  <2>2. FreeOK(frame_allocator, free_frames(frame_allocator, addr, count))
    BY <1>0, FreeFramesOK, PmmAssumption
  <2> QED BY <1>0, <2>1, <2>2 DEF FreeFrames, Frees, FreeOK
<1>7. CASE \E r \in LateRegions : ReserveRegion(r)
  BY <1>0, <1>7, ReserveSound, RegionFrames DEF ReserveRegion
<1>8. CASE \E enabled \in ValidationModes : SetValidation(enabled)
  BY <1>0, <1>8 DEF SetValidation, set_validation, Disciplined, Counted, Allocator
<1>9. CASE SelfTest
  BY <1>0, <1>9, SelfTestOK DEF SelfTest
<1> QED BY <1>3, <1>4, <1>5, <1>6, <1>7, <1>8, <1>9 DEF Call

(* The second invariant holds initially and is inductive next to the first. *)
LEMMA CInvInit == Init => CInv
BY NewOK DEF Init, CInv, BootMapClear, Answer

LEMMA CInvInductive ==
  ASSUME Disciplined
  PROVE  IInv /\ CInv /\ [Next]_vars => CInv'
<1>1. ASSUME IInv, CInv, UNCHANGED vars PROVE CInv'
  BY <1>1 DEF vars, CInv, BootMapClear, Counted, NonStraddling
<1> QED BY <1>1, BootStepsCounted, CallStepsCounted DEF Next

(* validate_bitmap never fails: allocated_frames is the number of set bits *)
(* in every reachable state, wrapping usize arithmetic included, provided  *)
(* validation stays on and the boot map does not straddle.                 *)
THEOREM CountCorrect ==
  ASSUME Disciplined
  PROVE  Spec => []CountMatches
<1>1. CInv => CountMatches
  BY DEF CInv, Counted, CountMatches
<1>2. IInv /\ CInv /\ [Next]_vars => IInv' /\ CInv'
  BY IInvInductive, CInvInductive
<1>3. Init => IInv /\ CInv
  BY IInvInit, CInvInit
<1> QED BY <1>1, <1>2, <1>3, PTL DEF Spec

-----------------------------------------------------------------------------
(* The self-test of a running kernel changes no frame and no count, and    *)
(* passes exactly when the hint points at a frame.                         *)
THEOREM SelfTestNeutral ==
  ASSUME Disciplined
  PROVE  Spec => SelfTestIsNeutral
<1> DEFINE A == reply'.op = "self_test" =>
                  /\ frame_allocator'.bitmap = frame_allocator.bitmap
                  /\ frame_allocator'.allocated_frames = frame_allocator.allocated_frames
                  /\ reply'.result = "Ok" <=> frame_allocator.next_free < TotalFrames
<1>1. ASSUME IInv, CInv, Next PROVE A
  <2>0. Sound(frame_allocator) /\ Counted(frame_allocator) /\ frame_allocator.validation_enabled
    BY <1>1 DEF IInv, CInv
  <2>1. CASE Boot
    <3>1. reply'.op = "boot"
      BY <1>1, <2>1 DEF Boot, InitFallback, InitFromMemmap, ReadUsableEntry,
                 ReadReservedEntry, FinishMemmap, Answer, CInv
    <3> QED BY <3>1
  <2>2. CASE SelfTest
    <3> DEFINE t == self_test(frame_allocator)
    <3>1. /\ t.allocator.bitmap = frame_allocator.bitmap
          /\ Counted(t.allocator)
          /\ t.passed <=> frame_allocator.next_free < TotalFrames
      BY <2>0, SelfTestOK
    <3>2. /\ frame_allocator' = t.allocator
          /\ reply' = Answer("self_test", {}, IF t.passed THEN "Ok" ELSE "Failed")
      BY <2>2 DEF SelfTest
    <3> HIDE DEF t
    <3> QED BY <2>0, <3>1, <3>2 DEF Counted, Answer
  <2>3. CASE Call /\ ~SelfTest
    <3>1. reply'.op # "self_test"
      BY <2>3 DEF Call, AllocateFrame, AllocateFrames, FreeFrame, FreeFrames,
                  ReserveRegion, SetValidation, Grants, Frees, Answer
    <3> QED BY <3>1
  <2> QED BY <1>1, <2>1, <2>2, <2>3 DEF Next
<1> HIDE DEF A
<1>2. IInv /\ CInv /\ [Next]_vars => [A]_vars
  BY <1>1
<1>3. IInv /\ CInv /\ [Next]_vars => IInv' /\ CInv'
  BY IInvInductive, CInvInductive
<1>4. Init => IInv /\ CInv
  BY IInvInit, CInvInit
<1>5. Spec => [][A]_vars
  BY <1>2, <1>3, <1>4, PTL DEF Spec
<1> QED BY <1>5 DEF A, SelfTestIsNeutral

-----------------------------------------------------------------------------
(***************************************************************************)
(* The state in which the boot leaves the manager.                         *)
(***************************************************************************)
JustBooted == phase = "ready" /\ reply.op = "boot"

(* No call of a client answers as the boot does. *)
LEMMA CallsEndBoot == Call => reply'.op # "boot"
BY DEF Call, AllocateFrame, AllocateFrames, FreeFrame, FreeFrames, ReserveRegion,
       SetValidation, SelfTest, Grants, Frees, Answer

(* Finishing the boot map scans for the hint and takes the statistics of   *)
(* the bitmap with the standard reservations on top.                       *)
LEMMA FinishedMap ==
  ASSUME NEW a, Sound(a)
  PROVE  LET u == update_statistics(recalculate_next_free(init_standard_reservations(a)))
         IN  /\ Sound(u) /\ HintIsLowest(u)
             /\ u.bitmap = a.bitmap \cup StandardFrames
             /\ u.stats.largest_free_block = LargestFreeBlock(u.bitmap)
<1> DEFINE r == init_standard_reservations(a)
           h == recalculate_next_free(r)
           u == update_statistics(h)
<1>1. /\ Sound(r) /\ r \in Allocator /\ HintIsLowest(r)
      /\ r.bitmap = a.bitmap \cup StandardFrames
  BY ReserveSound, RegionFrames DEF init_standard_reservations, Sound
<1> HIDE DEF r
<1>2. /\ FirstFree(r.bitmap, 0) \in 0 .. TotalFrames
      /\ FirstFree(r.bitmap, 0) = TotalFrames \/ FirstFree(r.bitmap, 0) \notin r.bitmap
      /\ \A f \in Frames \ r.bitmap : FirstFree(r.bitmap, 0) <= f
  <2>1. \A f \in Frames : 0 <= f
    BY DEF Frames
  <2> QED BY <2>1, FirstFreeIsFree, FrameAllocatorAssumption
<1>3. /\ Sound(h) /\ h.bitmap = r.bitmap
      /\ h.next_free = FirstFree(r.bitmap, 0)
  BY <1>1, <1>2 DEF recalculate_next_free, Sound, Allocator
<1> HIDE DEF h
<1>4. /\ Sound(u) /\ u.bitmap = r.bitmap /\ u.next_free = FirstFree(r.bitmap, 0)
      /\ u.stats.largest_free_block = LargestFreeBlock(u.bitmap)
  BY <1>3, StatisticsOK
<1> HIDE DEF u
<1>5. HintIsLowest(u)
  BY <1>2, <1>4 DEF HintIsLowest
<1> QED BY <1>1, <1>4, <1>5 DEF u, h, r

(* The fallback boot takes the statistics and then runs the self-test. *)
LEMMA FallbackBoot ==
  LET t == self_test(update_statistics(init_standard_reservations(new))).allocator
  IN  /\ Servable(t) /\ t.bitmap = StandardFrames
      /\ t.stats.largest_free_block = LargestFreeBlock(t.bitmap)
<1> DEFINE r == init_standard_reservations(new)
           u == update_statistics(r)
           t == self_test(u).allocator
<1>1. /\ Sound(r) /\ Counted(r) /\ r.validation_enabled /\ HintIsLowest(r)
      /\ r.bitmap = StandardFrames
  <2>1. /\ Sound(r) /\ Counted(r) /\ r.validation_enabled /\ HintIsLowest(r)
        /\ r.bitmap = new.bitmap \cup StandardFrames
    BY NewOK, ReserveSound, RegionFrames DEF init_standard_reservations, Sound
  <2> QED BY <2>1, NewOK
<1> HIDE DEF r
<1>2. /\ Sound(u) /\ Counted(u) /\ u.validation_enabled /\ u.bitmap = StandardFrames
      /\ u.next_free = r.next_free
      /\ u.stats.largest_free_block = LargestFreeBlock(u.bitmap)
  BY <1>1, StatisticsOK
<1> HIDE DEF u
<1>3. HintIsLowest(u)
  BY <1>1, <1>2 DEF HintIsLowest
<1>4. /\ Servable(t) /\ t.bitmap = u.bitmap
      /\ t.stats.largest_free_block = u.stats.largest_free_block
  BY <1>2, <1>3, SelfTestServes
<1> HIDE DEF t
<1> QED BY <1>2, <1>4 DEF t, u, r

(* The third invariant: the statistics of the boot describe its bitmap,    *)
(* and the hint hides no block of it.                                      *)
LInv == JustBooted =>
          /\ Servable(frame_allocator)
          /\ frame_allocator.stats.largest_free_block
               = LargestFreeBlock(frame_allocator.bitmap)

LEMMA LInvInductive == IInv /\ LInv /\ [Next]_vars => LInv'
<1> SUFFICES ASSUME IInv, LInv, [Next]_vars PROVE LInv'
  OBVIOUS
<1>1. CASE UNCHANGED vars
  <2>1. phase' = phase /\ reply' = reply /\ frame_allocator' = frame_allocator
    BY <1>1 DEF vars
  <2> QED BY <2>1 DEF LInv, JustBooted
<1>2. CASE Call
  BY <1>2, CallsEndBoot DEF LInv, JustBooted
<1>3. CASE InitFallback
  <2>1. frame_allocator' = self_test(update_statistics(init_standard_reservations(new))).allocator
    BY <1>3 DEF InitFallback
  <2> QED BY <2>1, FallbackBoot DEF LInv
<1>4. CASE FinishMemmap
  <2>1. frame_allocator' =
          update_statistics(recalculate_next_free(init_standard_reservations(frame_allocator)))
    BY <1>4 DEF FinishMemmap
  <2>2. /\ Sound(frame_allocator') /\ HintIsLowest(frame_allocator')
        /\ frame_allocator'.stats.largest_free_block = LargestFreeBlock(frame_allocator'.bitmap)
    BY <2>1, FinishedMap DEF IInv
  <2>3. Servable(frame_allocator')
    BY <2>2, LowestServes DEF Sound
  <2> QED BY <2>2, <2>3 DEF LInv
<1>5. CASE (\E entries \in MemMaps : InitFromMemmap(entries)) \/ ReadUsableEntry \/ ReadReservedEntry
  <2>1. phase' # "ready"
    BY <1>5 DEF InitFromMemmap, ReadUsableEntry, ReadReservedEntry
  <2> QED BY <2>1 DEF LInv, JustBooted
<1> QED BY <1>1, <1>2, <1>3, <1>4, <1>5 DEF Next, Boot

(* Whatever boot map was read, and although the self-test of the fallback  *)
(* moves the hint past free frames, allocate_frames can serve exactly the  *)
(* sizes up to the largest_free_block that the boot reports.               *)
THEOREM LargestBlockServed == Spec => []LargestBlockIsAllocatable
<1>1. LInv => LargestBlockIsAllocatable
  <2> SUFFICES ASSUME LInv, JustBooted, NEW n \in 1 .. TotalFrames
               PROVE  Fits(frame_allocator, n) # {}
                        <=> n <= frame_allocator.stats.largest_free_block
    BY DEF LargestBlockIsAllocatable, JustBooted
  <2>1. /\ Fits(frame_allocator, n) # {} <=> n <= LargestFreeBlock(frame_allocator.bitmap)
        /\ frame_allocator.stats.largest_free_block = LargestFreeBlock(frame_allocator.bitmap)
    BY DEF LInv, Servable
  <2> QED BY <2>1
<1>2. Init => LInv
  BY DEF Init, LInv, JustBooted
<1> QED BY <1>1, <1>2, IInvInit, IInvInductive, LInvInductive, PTL DEF Spec

(* The fourth invariant: while the map is read, the reserved entries seen  *)
(* so far hold their frames.  A usable entry behind them would clear some  *)
(* if it shared a frame, which is why the map must not straddle.           *)
ReservedHeld ==
  \A r \in memory_map : ~r.usable => FramesOf(r) \subseteq frame_allocator.bitmap

BInv == /\ phase = "off" => memory_map = {} /\ reserved_regions = {}
        /\ phase = "memmap" \/ JustBooted => ReservedHeld
        /\ JustBooted => StandardFrames \subseteq frame_allocator.bitmap

LEMMA BInvInductive ==
  ASSUME Disciplined
  PROVE  IInv /\ CInv /\ BInv /\ [Next]_vars => BInv'
<1> SUFFICES ASSUME IInv, CInv, BInv, [Next]_vars PROVE BInv'
  OBVIOUS
<1>0. Sound(frame_allocator) /\ frame_allocator \in Allocator /\ pending \in Seq(Region)
  BY DEF IInv, TypeOK, Sound
<1>1. CASE UNCHANGED vars
  BY <1>1 DEF vars, BInv, JustBooted, ReservedHeld, FramesOf
<1>2. CASE Call
  <2>1. phase' = "ready"
    BY <1>2 DEF Call, AllocateFrame, AllocateFrames, FreeFrame, FreeFrames,
                ReserveRegion, SetValidation, SelfTest, Called
  <2> QED BY <1>2, <2>1, CallsEndBoot DEF BInv, JustBooted
<1>3. CASE InitFallback
  <2>1. /\ phase' = "ready" /\ memory_map' = {}
        /\ frame_allocator' = self_test(update_statistics(init_standard_reservations(new))).allocator
    BY <1>3 DEF InitFallback, BInv
  <2>2. frame_allocator'.bitmap = StandardFrames
    BY <2>1, FallbackBoot
  <2> QED BY <2>1, <2>2 DEF BInv, ReservedHeld
<1>4. CASE \E entries \in MemMaps : InitFromMemmap(entries)
  <2>1. phase' = "memmap" /\ memory_map' = {}
    BY <1>4 DEF InitFromMemmap, BInv
  <2> QED BY <2>1 DEF BInv, ReservedHeld, JustBooted
<1>5. CASE ReadUsableEntry
  <2> DEFINE S == FramesOf(Head(pending)) \cap frame_allocator.bitmap
  <2>1. /\ phase = "memmap" /\ pending # <<>> /\ Head(pending).usable
        /\ phase' = "memmap" /\ memory_map' = memory_map \cup {Head(pending)}
        /\ frame_allocator' = mark_frames_free(frame_allocator, S)
    BY <1>5 DEF ReadUsableEntry
  <2>2. S = {} /\ S \in SUBSET Frames
    <3>1. Head(pending) = pending[1] /\ 1 \in DOMAIN pending
      BY <1>0, <2>1
    <3> QED BY <2>1, <3>1 DEF CInv, BootMapClear
  <2> HIDE DEF S
  <2>3. frame_allocator'.bitmap = frame_allocator.bitmap
    <3>1. frame_allocator'.bitmap = frame_allocator.bitmap \ S
      BY <1>0, <2>1, <2>2, MarkFreeSound
    <3> QED BY <2>2, <3>1
  <2>4. \A r \in memory_map' : ~r.usable => FramesOf(r) \subseteq frame_allocator.bitmap
    BY <2>1 DEF BInv, ReservedHeld
  <2>5. ReservedHeld'
    BY <2>3, <2>4 DEF ReservedHeld, FramesOf
  <2> QED BY <2>1, <2>5 DEF BInv, JustBooted
<1>6. CASE ReadReservedEntry
  <2> DEFINE S == FramesOf(Head(pending))
  <2>1. /\ phase = "memmap" /\ pending # <<>>
        /\ phase' = "memmap" /\ memory_map' = memory_map \cup {Head(pending)}
        /\ frame_allocator' = reserve_frames(frame_allocator, S)
    BY <1>6 DEF ReadReservedEntry
  <2>2. frame_allocator'.bitmap = frame_allocator.bitmap \cup S
    BY <1>0, <2>1, RegionFrames, ReserveSound
  <2>3. \A r \in memory_map' : ~r.usable => FramesOf(r) \subseteq frame_allocator.bitmap \cup S
    BY <2>1 DEF BInv, ReservedHeld
  <2>4. ReservedHeld'
    BY <2>2, <2>3 DEF ReservedHeld, FramesOf
  <2> QED BY <2>1, <2>4 DEF BInv, JustBooted
<1>7. CASE FinishMemmap
  <2>1. /\ phase = "memmap" /\ phase' = "ready" /\ memory_map' = memory_map
        /\ frame_allocator' =
             update_statistics(recalculate_next_free(init_standard_reservations(frame_allocator)))
    BY <1>7 DEF FinishMemmap
  <2>2. frame_allocator'.bitmap = frame_allocator.bitmap \cup StandardFrames
    BY <1>0, <2>1, FinishedMap
  <2>3. \A r \in memory_map : ~r.usable => FramesOf(r) \subseteq frame_allocator.bitmap
    BY <2>1 DEF BInv, ReservedHeld
  <2>4. ReservedHeld'
    BY <2>1, <2>2, <2>3 DEF ReservedHeld, FramesOf
  <2> QED BY <2>1, <2>2, <2>4 DEF BInv
<1> QED BY <1>1, <1>2, <1>3, <1>4, <1>5, <1>6, <1>7 DEF Next, Boot

(* Just after the boot no frame of the kernel's own reservations or of a   *)
(* reserved entry of the map is free, whatever the order of the entries,   *)
(* provided no usable entry shares a frame with an earlier reserved one.   *)
THEOREM BootReserves ==
  ASSUME Disciplined
  PROVE  Spec => []BootReservesNonRam
<1>1. BInv => BootReservesNonRam
  BY DEF BInv, JustBooted, ReservedHeld, BootReservesNonRam
<1>2. Init => IInv /\ CInv /\ BInv
  BY IInvInit, CInvInit DEF Init, BInv, JustBooted
<1>3. IInv /\ CInv /\ BInv /\ [Next]_vars => IInv' /\ CInv' /\ BInv'
  BY IInvInductive, CInvInductive, BInvInductive
<1> QED BY <1>1, <1>2, <1>3, PTL DEF Spec

-----------------------------------------------------------------------------
(***************************************************************************)
(* The manager implements the frame store.                                 *)
(***************************************************************************)

(* Every boot step starts the store or is invisible to it. *)
LEMMA BootRefines ==
  ASSUME IInv, CInv, Boot, IInv'
  PROVE  Store!Start \/ UNCHANGED Store!storeVars
<1>1. frame_allocator'.bitmap \in SUBSET Frames
  BY DEF IInv, TypeOK, Allocator
<1>2. CASE InitFallback
  BY <1>1, <1>2 DEF InitFallback, Store!Start, Answer
<1>3. CASE FinishMemmap
  BY <1>1, <1>3 DEF FinishMemmap, Store!Start, Answer
<1>4. CASE (\E entries \in MemMaps : InitFromMemmap(entries)) \/ ReadUsableEntry \/ ReadReservedEntry
  <2>1. phase # "ready" /\ phase' # "ready" /\ reply' = reply
    BY <1>4 DEF InitFromMemmap, ReadUsableEntry, ReadReservedEntry
  <2> QED BY <2>1 DEF Store!storeVars
<1> QED BY <1>2, <1>3, <1>4 DEF Boot

(* A grant of the manager is a grant of the store, and a free a release. *)
LEMMA GrantRefines ==
  ASSUME Called, NEW op, NEW res, GrantOK(frame_allocator, res), Grants(op, res)
  PROVE  Store!StoreNext
<1>1. phase = "ready" /\ phase' = "ready"
  BY DEF Called
<1>2. frame_allocator'.bitmap = frame_allocator.bitmap \cup res.granted
  BY DEF Grants, GrantOK
<1>3. CASE res.granted = {}
  <2>1. reply'.frames = {} /\ reply'.result = "None"
    BY <1>3 DEF Grants, Answer
  <2>2. Store!Refuse
    BY <1>1, <1>2, <1>3, <2>1 DEF Store!Refuse
  <2> QED BY <2>2 DEF Store!StoreNext
<1>4. CASE res.granted # {}
  <2>1. reply'.frames = res.granted /\ reply'.result = "Granted"
    BY <1>4 DEF Grants, Answer
  <2>2. /\ res.granted \in SUBSET Frames
        /\ res.granted \cap frame_allocator.bitmap = {}
        /\ Store!Adjacent(res.granted)
    BY DEF GrantOK, Store!Adjacent
  <2>3. Store!Grant(res.granted)
    BY <1>1, <1>2, <1>4, <2>1, <2>2 DEF Store!Grant
  <2> QED BY <2>2, <2>3 DEF Store!StoreNext
<1> QED BY <1>3, <1>4

LEMMA FreeRefines ==
  ASSUME Called, NEW op, NEW res, FreeOK(frame_allocator, res), Frees(op, res),
         frame_allocator.validation_enabled
  PROVE  Store!StoreNext
<1>1. phase = "ready" /\ phase' = "ready"
  BY DEF Called
<1>2. /\ frame_allocator'.bitmap = frame_allocator.bitmap \ res.freed
      /\ reply'.frames = res.freed /\ reply'.result = res.result
      /\ res.freed \in SUBSET Frames /\ res.freed \subseteq frame_allocator.bitmap
  BY DEF Frees, FreeOK, Answer
<1>3. CASE res.result = "Ok"
  <2>1. Store!Release(res.freed)
    BY <1>1, <1>2, <1>3 DEF Store!Release
  <2> QED BY <1>2, <2>1 DEF Store!StoreNext
<1>4. CASE res.result # "Ok"
  <2>1. res.freed = {} /\ res.result \in {"InvalidFree", "DoubleFree"}
    BY <1>4 DEF FreeOK
  <2>2. Store!Refuse
    BY <1>1, <1>2, <2>1 DEF Store!Refuse
  <2> QED BY <2>2 DEF Store!StoreNext
<1> QED BY <1>3, <1>4

(* Every call of a client is a step of the store. *)
LEMMA CallRefines ==
  ASSUME IInv, CInv, Call
  PROVE  Store!StoreNext
<1>0. Sound(frame_allocator) /\ Counted(frame_allocator) /\ frame_allocator.validation_enabled
  BY DEF IInv, CInv
<1>1. CASE AllocateFrame
  BY <1>0, <1>1, AllocateFrameOK, GrantRefines DEF AllocateFrame
<1>2. CASE \E count \in Counts : AllocateFrames(count)
  BY <1>0, <1>2, AllocateFramesOK, GrantRefines, PmmAssumption DEF AllocateFrames
<1>3. CASE \E addr \in Addrs : FreeFrame(addr)
  BY <1>0, <1>3, FreeFrameOK, FreeRefines, PmmAssumption DEF FreeFrame
<1>4. CASE \E addr \in Addrs, count \in Counts : FreeFrames(addr, count)
  BY <1>0, <1>4, FreeFramesOK, FreeRefines, PmmAssumption DEF FreeFrames
<1>5. CASE \E r \in LateRegions : ReserveRegion(r)
  <2>1. PICK r \in LateRegions : ReserveRegion(r)
    BY <1>5
  <2>2. /\ frame_allocator'.bitmap = frame_allocator.bitmap \cup FramesOf(r)
        /\ FramesOf(r) \in SUBSET Frames
    BY <1>0, <2>1, ReserveSound, RegionFrames DEF ReserveRegion, Sound
  <2>3. Store!Reserve(FramesOf(r))
    BY <2>1, <2>2 DEF ReserveRegion, Called, Answer, Store!Reserve
  <2> QED BY <2>2, <2>3 DEF Store!StoreNext
<1>6. CASE \E enabled \in ValidationModes : SetValidation(enabled)
  <2>1. frame_allocator'.bitmap = frame_allocator.bitmap
    BY <1>0, <1>6 DEF SetValidation, set_validation, Sound, Allocator
  <2>2. Store!Refuse
    BY <1>6, <2>1 DEF SetValidation, Called, Answer, Store!Refuse
  <2> QED BY <2>2 DEF Store!StoreNext
<1>7. CASE SelfTest
  <2>1. frame_allocator'.bitmap = frame_allocator.bitmap
    BY <1>0, <1>7, SelfTestOK DEF SelfTest
  <2>2. Store!Refuse
    BY <1>7, <2>1 DEF SelfTest, Called, Answer, Store!Refuse
  <2> QED BY <2>2 DEF Store!StoreNext
<1> QED BY <1>1, <1>2, <1>3, <1>4, <1>5, <1>6, <1>7 DEF Call

(* The manager implements the frame store: no frame is granted twice, no   *)
(* refused call changes a frame, and no free gives back a frame that was   *)
(* not taken, whatever the hint and the search order.                      *)
THEOREM Refinement ==
  ASSUME Disciplined
  PROVE  Spec => ImplementsFrameStore
<1>1. Init => Store!StoreInit
  BY DEF Init, Store!StoreInit, Answer
<1>2. ASSUME IInv, CInv, IInv', [Next]_vars
      PROVE  [Store!StoreNext]_(Store!storeVars)
  <2>1. CASE UNCHANGED vars
    BY <2>1 DEF vars, Store!storeVars
  <2>2. CASE Boot
    BY <1>2, <2>2, BootRefines DEF Store!StoreNext
  <2>3. CASE Call
    BY <1>2, <2>3, CallRefines
  <2> QED BY <1>2, <2>1, <2>2, <2>3 DEF Next
<1>3. IInv /\ CInv /\ [Next]_vars => IInv' /\ CInv'
  BY IInvInductive, CInvInductive
<1>4. Init => IInv /\ CInv
  BY IInvInit, CInvInit
<1> QED BY <1>1, <1>2, <1>3, <1>4, PTL DEF Spec, ImplementsFrameStore, Store!StoreSpec
=============================================================================
