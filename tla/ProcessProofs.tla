--------------------------- MODULE ProcessProofs ----------------------------
(***************************************************************************)
(* Type correctness of the process loader, the ownership of every frame    *)
(* that a launch takes, and that a process which is entered is complete,   *)
(* for every program, size of memory and number of slots.                  *)
(***************************************************************************)
EXTENDS Process, MemoryProofs

-----------------------------------------------------------------------------
(***************************************************************************)
(* The loader's steps.  base are the frames taken before the launch.       *)
(***************************************************************************)
IsLoader(l) ==
  /\ DOMAIN l = {"space", "allocator", "frame", "proc", "error"}
  /\ IsSpace(l.space) /\ WellFormed(l.space) /\ Sound(l.allocator)
  /\ DOMAIN l.space.huge = {}
  /\ l.frame \in Frames /\ l.proc \in ProcessControlBlock

(* Before the context is written all entries name frames, each its own. *)
Whole(root, space) == {root} \cup Entries(space)

Apart(root, space) ==
  /\ IsInjective(space.tables) /\ IsInjective(LeafFrames(space))
  /\ Range(space.tables) \cap Range(LeafFrames(space)) = {}
  /\ root \notin Entries(space)

Held(l) == Whole(l.proc.pml4_phys, l.space)

(* The new address space owns its frames alone, and at most one frame was  *)
(* taken besides them.                                                     *)
Accounted(l, base) ==
  /\ IsLoader(l) /\ Apart(l.proc.pml4_phys, l.space)
  /\ Held(l) \cap base = {}
  /\ base \cup Held(l) \subseteq l.allocator.bitmap
  /\ \E x : l.allocator.bitmap \subseteq base \cup Held(l) \cup {x}

(* Between two pages nothing is left over. *)
Building(l, base) ==
  /\ Accounted(l, base)
  /\ l.error = "None" => l.allocator.bitmap = base \cup Held(l)

(* A frame has been obtained and is not mapped yet. *)
Obtained(l, base) ==
  /\ Accounted(l, base)
  /\ l.error = "None" => /\ l.frame \notin base \cup Held(l)
                         /\ l.allocator.bitmap = base \cup Held(l) \cup {l.frame}
                         /\ l.frame \in Page

(* What Obtain does to any state of the loader. *)
ObtainPost(l, o) ==
  /\ DOMAIN o = DOMAIN l /\ o.space = l.space /\ o.proc = l.proc
  /\ Sound(o.allocator) /\ o.frame \in Frames
  /\ l.error # "None" => o = l
  /\ l.allocator.bitmap \subseteq o.allocator.bitmap
  /\ \E x \in Frames : o.allocator.bitmap \subseteq l.allocator.bitmap \cup {x}
  /\ o.error = "None" =>
       /\ l.error = "None" /\ o.frame \notin l.allocator.bitmap /\ o.frame \in Page
       /\ o.allocator.bitmap = l.allocator.bitmap \cup {o.frame}

LEMMA ObtainDoes ==
  ASSUME NEW l, DOMAIN l = {"space", "allocator", "frame", "proc", "error"},
         Sound(l.allocator), l.frame \in Frames
  PROVE  ObtainPost(l, Obtain(l))
<1> DEFINE o == Obtain(l)
           a == l.allocator
           got == allocate_frame(a)
<1>1. /\ GrantOK(a, got)
      /\ a.next_free = TotalFrames => got.granted = {}
      /\ a.next_free # TotalFrames => got.granted = {a.next_free}
  BY AllocateFrameOK
<1>2. 0 \in Frames
  BY FrameAllocatorAssumption DEF Frames
<1>3. CASE l.error # "None"
  <2>1. o = l
    BY <1>3 DEF Obtain
  <2> QED BY <1>3, <2>1 DEF ObtainPost
<1>4. CASE l.error = "None" /\ got.granted = {}
  <2>1. o = [l EXCEPT !.allocator = got.allocator, !.error = "OutOfMemory"]
    BY <1>4 DEF Obtain
  <2>2. Sound(got.allocator) /\ got.allocator.bitmap = a.bitmap
    BY <1>1, <1>4 DEF GrantOK
  <2> HIDE DEF got
  <2>3. /\ DOMAIN o = DOMAIN l /\ o.space = l.space /\ o.proc = l.proc
        /\ o.frame = l.frame /\ o.allocator = got.allocator /\ o.error = "OutOfMemory"
    BY <2>1
  <2> HIDE DEF o
  <2> QED BY <1>2, <1>4, <2>2, <2>3 DEF ObtainPost, o
<1>5. CASE l.error = "None" /\ got.granted # {}
  <2> DEFINE f == Min(got.granted)
  <2>1. got.granted = {f} /\ f \in Frames /\ f \notin a.bitmap /\ f \in Nat
    <3> DEFINE g == a.next_free
    <3>1. got.granted = {g}
      BY <1>1, <1>5
    <3>2. g \in Frames /\ g \notin a.bitmap
      BY <1>1, <3>1 DEF GrantOK
    <3>3. g \in Nat
      BY <3>2, FrameAllocatorAssumption DEF Frames
    <3> HIDE DEF g
    <3>4. {g} \subseteq Nat /\ g \in {g}
      BY <3>3
    <3>5. Min({g}) \in {g}
      BY <3>4, MinOfNats
    <3> QED BY <3>1, <3>2, <3>3, <3>5
  <2>2. Sound(got.allocator) /\ got.allocator.bitmap = a.bitmap \cup {f}
    BY <1>1, <2>1 DEF GrantOK
  <2>3. o = [l EXCEPT !.allocator = got.allocator, !.frame = f,
                      !.error = IF Accessible(f) THEN "None" ELSE "panic"]
    BY <1>5 DEF Obtain
  <2>4. Accessible(f) => f \in Page
    BY <2>1, BootReaches DEF Accessible
  <2> HIDE DEF got, f
  <2>5. /\ DOMAIN o = DOMAIN l /\ o.space = l.space /\ o.proc = l.proc
        /\ o.frame = f /\ o.allocator = got.allocator
        /\ o.error = IF Accessible(f) THEN "None" ELSE "panic"
    BY <2>3
  <2> HIDE DEF o
  <2>6. o.error = "None" => f \in Page
    BY <2>4, <2>5
  <2> QED BY <1>5, <2>1, <2>2, <2>5, <2>6 DEF ObtainPost, o
<1> QED BY <1>3, <1>4, <1>5

(* A frame is obtained for the next page. *)
LEMMA ObtainOK ==
  ASSUME NEW l, NEW base, Building(l, base)
  PROVE  LET o == Obtain(l)
         IN  /\ Obtained(o, base) /\ o.space = l.space /\ o.proc = l.proc
             /\ o.error = "None" => l.error = "None"
             /\ l.error # "None" => o = l
<1> DEFINE o == Obtain(l)
<1>1. IsLoader(l) /\ Accounted(l, base)
  BY DEF Building, Accounted
<1>2. ObtainPost(l, o)
  BY <1>1, ObtainDoes DEF IsLoader
<1> HIDE DEF o
<1>3. IsLoader(o) /\ Held(o) = Held(l) /\ Apart(o.proc.pml4_phys, o.space)
  BY <1>1, <1>2 DEF ObtainPost, IsLoader, Held, Accounted
<1>4. Obtained(o, base)
  <2>1. CASE l.error # "None"
    BY <1>1, <1>2, <2>1 DEF ObtainPost, Obtained
  <2>2. CASE l.error = "None"
    <3>1. l.allocator.bitmap = base \cup Held(l)
      BY <2>2 DEF Building
    <3>2. Accounted(o, base)
      BY <1>1, <1>2, <1>3, <3>1 DEF ObtainPost, Accounted
    <3> QED BY <1>2, <1>3, <2>2, <3>1, <3>2 DEF ObtainPost, Obtained
  <2> QED BY <2>1, <2>2
<1> QED BY <1>2, <1>4 DEF o, ObtainPost

(* The obtained frame is mapped, or an error is reported and it is the one *)
(* frame that is lost.                                                     *)
MapPost(l, m, page, flags, base) ==
  /\ Building(m, base) /\ m.proc = l.proc /\ m.frame = l.frame
  /\ m.error = "None" =>
       /\ l.error = "None" /\ page \notin DOMAIN l.space.pages
       /\ m.space.pages = With(l.space.pages, page, [frame |-> l.frame, flags |-> flags])

LEMMA MapUserPageOK ==
  ASSUME NEW l, NEW base, NEW page, NEW flags \in Flags, Obtained(l, base),
         l.error = "None" => page \in Page
  PROVE  /\ l.error # "None" => map_user_page(l, page, flags) = l
         /\ l.error = "None" => MapPost(l, map_user_page(l, page, flags), page, flags, base)
<1>1. l.error # "None" => map_user_page(l, page, flags) = l
  BY DEF map_user_page
<1>2. ASSUME l.error = "None"
      PROVE  MapPost(l, map_user_page(l, page, flags), page, flags, base)
  <2> DEFINE r == map_user_page(l, page, flags)
             s == l.space
             a == l.allocator
             leaf == [frame |-> l.frame, flags |-> flags]
             m == map_to(s, a, page, l.frame, flags)
             e == IF \A f \in Range(m.space.tables) : Accessible(f)
                    THEN m.error ELSE "panic"
             root == l.proc.pml4_phys
  <2>1. /\ IsLoader(l) /\ IsSpace(s) /\ WellFormed(s) /\ Sound(a)
        /\ l.frame \in Frames /\ l.frame \in Nat /\ page \in Page
        /\ Apart(root, s) /\ IsInjective(s.tables)
        /\ l.frame \notin base \cup Held(l)
        /\ a.bitmap = base \cup Held(l) \cup {l.frame}
        /\ Held(l) \cap base = {}
        /\ Range(s.tables) \subseteq Held(l)
    BY <1>2, FrameAllocatorAssumption
       DEF Obtained, Accounted, IsLoader, Frames, Apart, Held, Whole, Entries
  <2>2. MapToOK(s, a, page, leaf, m)
    <3>1. Range(s.tables) \subseteq a.bitmap
      BY <2>1
    <3> QED BY <2>1, <3>1, MapToCorrect
  <2>3. r = [l EXCEPT !.space = m.space, !.allocator = m.allocator, !.error = e]
    BY <1>2 DEF map_user_page
  <2>4. e = "None" => m.error = "None"
    OBVIOUS
  <2> HIDE DEF m, e
  <2>5. /\ DOMAIN r = DOMAIN l /\ r.space = m.space /\ r.allocator = m.allocator
        /\ r.error = e /\ r.proc = l.proc /\ r.frame = l.frame
    BY <2>1, <2>3 DEF IsLoader
  <2> HIDE DEF r
  <2> DEFINE T == Range(m.space.tables)
             T0 == Range(s.tables)
             L == Range(LeafFrames(m.space))
             L0 == Range(LeafFrames(s))
  <2>6. /\ T0 \subseteq T /\ (T \ T0) \cap a.bitmap = {}
        /\ r.allocator.bitmap = a.bitmap \cup T
        /\ IsInjective(m.space.tables)
    <3>1. /\ DOMAIN s.tables \subseteq DOMAIN m.space.tables
          /\ \A n \in DOMAIN s.tables : m.space.tables[n] = s.tables[n]
      BY <2>2 DEF MapToOK, Grown
    <3>2. T0 \subseteq T
      BY <3>1 DEF Range
    <3> QED BY <2>2, <2>5, <3>2 DEF MapToOK, Grown
  <2>7. IsLoader(r)
    <3>1. DOMAIN m.space.huge = {}
      BY <2>1, <2>2 DEF IsLoader, MapToOK, Grown, Broader
    <3> QED BY <2>1, <2>2, <2>5, <3>1 DEF IsLoader, MapToOK, IsMapper, Grown
  <2>8. Held(l) = {root} \cup T0 \cup L0 /\ Held(r) = {root} \cup T \cup L
    BY <2>5 DEF Held, Whole, Entries
  <2>9. /\ IsInjective(LeafFrames(s)) /\ T0 \cap L0 = {} /\ root \notin T0 \cup L0
    BY <2>1 DEF Apart, Entries
  <2>10. \/ L = L0 /\ IsInjective(LeafFrames(m.space)) /\ m.error # "None"
         \/ L = L0 \cup {l.frame} /\ IsInjective(LeafFrames(m.space))
    <3>1. CASE m.error # "None"
      <4>1. LeafFrames(m.space) = LeafFrames(s)
        BY <2>2, <3>1 DEF MapToOK, LeafFrames
      <4> QED BY <2>9, <3>1, <4>1
    <3>2. CASE m.error = "None"
      <4>1. page \notin DOMAIN s.pages /\ m.space.pages = With(s.pages, page, leaf)
        BY <2>2, <3>2 DEF MapToOK
      <4> DEFINE F == LeafFrames(s)
                 G == LeafFrames(m.space)
      <4>0. leaf.frame = l.frame
        OBVIOUS
      <4> HIDE DEF leaf, s
      <4>2. /\ DOMAIN G = DOMAIN s.pages \cup {page} /\ G[page] = leaf.frame
            /\ \A q \in DOMAIN s.pages : G[q] = F[q]
            /\ Range(G) = Range(F) \cup {leaf.frame}
        <5> DEFINE t == m.space
        <5>1. /\ DOMAIN t.pages = DOMAIN s.pages \cup {page} /\ t.pages[page] = leaf
              /\ \A q \in DOMAIN s.pages : t.pages[q] = s.pages[q]
          BY <4>1 DEF With
        <5>2. /\ DOMAIN F = DOMAIN s.pages /\ DOMAIN G = DOMAIN t.pages
              /\ \A q \in DOMAIN s.pages : F[q] = s.pages[q].frame
              /\ \A q \in DOMAIN t.pages : G[q] = t.pages[q].frame
          BY DEF LeafFrames
        <5> HIDE DEF t, F, G
        <5>3. /\ G[page] = leaf.frame /\ \A q \in DOMAIN s.pages : G[q] = F[q]
          BY <5>1, <5>2
        <5>4. Range(G) = Range(F) \cup {leaf.frame}
          BY <5>1, <5>2, <5>3 DEF Range
        <5> QED BY <5>1, <5>2, <5>3, <5>4
      <4>3. DOMAIN F = DOMAIN s.pages
        BY DEF LeafFrames
      <4>4. l.frame \notin Range(F)
        BY <2>1, <2>8
      <4>5. \A q \in DOMAIN s.pages : F[q] # l.frame
        BY <4>3, <4>4 DEF Range
      <4>6. IsInjective(F)
        BY <2>9
      <4> HIDE DEF F, G
      <4>7. IsInjective(G)
        BY <4>0, <4>1, <4>2, <4>3, <4>5, <4>6 DEF IsInjective
      <4> QED BY <4>0, <4>2, <4>7 DEF F, G
    <3> QED BY <3>1, <3>2
  <2> HIDE DEF T, T0, L, L0, s, a, root
  <2>11. Apart(root, m.space)
    <3>1. T \cap L = {} /\ root \notin T \cup L
      BY <2>1, <2>6, <2>8, <2>9, <2>10
    <3> QED BY <2>6, <2>10, <3>1 DEF Apart, Entries, T, L
  <2>12. Accounted(r, base)
    <3>1. /\ Held(r) \cap base = {} /\ base \cup Held(r) \subseteq r.allocator.bitmap
          /\ r.allocator.bitmap \subseteq base \cup Held(r) \cup {l.frame}
      BY <2>1, <2>6, <2>8, <2>10
    <3> QED BY <2>5, <2>7, <2>11, <3>1 DEF Accounted, root
  <2>13. r.error = "None" => r.allocator.bitmap = base \cup Held(r)
    BY <2>1, <2>4, <2>5, <2>6, <2>8, <2>10
  <2>14. r.error = "None" => /\ page \notin DOMAIN s.pages
                             /\ r.space.pages = With(s.pages, page, leaf)
    BY <2>2, <2>4, <2>5 DEF MapToOK
  <2> QED BY <1>2, <2>5, <2>12, <2>13, <2>14 DEF MapPost, Building, r, s
<1> QED BY <1>1, <1>2

-----------------------------------------------------------------------------
(***************************************************************************)
(* Segments.  PagesUpTo(seg, n) are the first n pages of a segment.        *)
(***************************************************************************)
PageAt(seg, i) == (seg.vaddr + i * FrameSize) \div FrameSize

PagesUpTo(seg, n) == {PageAt(seg, i) : i \in 0 .. n - 1}

LEMMA DivideMonotone ==
  ASSUME NEW x \in Nat, NEW y \in Nat, x <= y, NEW s \in Nat \ {0}
  PROVE  x \div s \in Nat /\ x \div s <= y \div s
<1> DEFINE p == x \div s
           q == y \div s
<1>1. p \in Nat /\ q \in Nat /\ p * s <= x /\ y < q * s + s
  BY DivideSpan
<1> HIDE DEF p, q
<1>2. p * s < (q + 1) * s
  BY <1>1
<1>3. p < q + 1
  BY <1>1, <1>2
<1> QED BY <1>1, <1>3 DEF p, q

(* A segment's pages lie in the address space if its end does. *)
LEMMA SegmentInside ==
  ASSUME NEW seg \in Segment, (seg.vaddr + seg.memsz) \div FrameSize \in Page
  PROVE  /\ PageCount(seg) \in Nat
         /\ \A i \in 0 .. PageCount(seg) - 1 : PageAt(seg, i) \in Page
<1>1. seg.vaddr \in Nat /\ seg.memsz \in Nat /\ FrameSize \in Nat \ {0}
  BY FrameAllocatorAssumption DEF Segment
<1> DEFINE c == PageCount(seg)
           end == seg.memsz + FrameSize - 1
<1>2. end \in Nat /\ c = end \div FrameSize
  BY <1>1 DEF PageCount
<1>3. c \in Nat /\ c * FrameSize <= end
  <2> HIDE DEF end, c
  <2> QED BY <1>1, <1>2, DivideSpan
<1>4. ASSUME NEW i \in 0 .. c - 1 PROVE PageAt(seg, i) \in Page
  <2> HIDE DEF c
  <2>1. i \in Nat /\ i + 1 <= c
    BY <1>3
  <2>2. (i + 1) * FrameSize <= c * FrameSize
    BY <1>1, <1>3, <2>1
  <2>3. (i + 1) * FrameSize = i * FrameSize + FrameSize /\ i * FrameSize \in Nat
    BY <1>1, <2>1
  <2>4. c * FrameSize \in Nat
    BY <1>1, <1>3
  <2>5. i * FrameSize <= seg.memsz
    BY <1>1, <1>3, <2>2, <2>3, <2>4
  <2> DEFINE x == seg.vaddr + i * FrameSize
             y == seg.vaddr + seg.memsz
  <2>6. x \in Nat /\ y \in Nat /\ x <= y
    BY <1>1, <2>3, <2>5
  <2> HIDE DEF x, y
  <2>7. x \div FrameSize \in Nat /\ x \div FrameSize <= y \div FrameSize
    BY <1>1, <2>6, DivideMonotone
  <2>8. y \div FrameSize \in Page
    BY DEF y
  <2>9. Fanout * Span(3) \in Nat
    BY SpanType, PageTablesAssumption
  <2>10. x \div FrameSize \in Page
    BY <2>7, <2>8, <2>9 DEF Page
  <2> QED BY <2>10 DEF PageAt, x
<1> QED BY <1>3, <1>4

(* What loading does to a loader l without an error: m has the pages S     *)
(* more, all for the user, or an error.  A loader with an error stays.     *)
Loads(l, m, base, S) ==
  /\ l.error # "None" => m = l
  /\ l.error = "None" =>
       /\ Building(m, base) /\ m.proc = l.proc
       /\ m.error = "None" =>
            /\ DOMAIN m.space.pages = DOMAIN l.space.pages \cup S
            /\ \A p \in DOMAIN m.space.pages :
                 \/ m.space.pages[p].flags \in {UserRO, UserRW}
                 \/ p \in DOMAIN l.space.pages /\ m.space.pages[p] = l.space.pages[p]

Sane(l, base) == l.error = "None" => Building(l, base)

LEMMA LoadsStart ==
  ASSUME NEW l, NEW base, Sane(l, base)
  PROVE  Loads(l, l, base, {})
BY DEF Loads, Sane

LEMMA LoadsSane ==
  ASSUME NEW l, NEW m, NEW base, NEW S, Loads(l, m, base, S)
  PROVE  Sane(m, base)
BY DEF Loads, Sane

LEMMA LoadsTrans ==
  ASSUME NEW l, NEW m, NEW k, NEW base, NEW S, NEW T,
         Loads(l, m, base, S), Loads(m, k, base, T)
  PROVE  Loads(l, k, base, S \cup T)
<1>1. CASE l.error # "None"
  BY <1>1 DEF Loads
<1>2. CASE l.error = "None" /\ m.error # "None"
  BY <1>2 DEF Loads
<1>3. CASE l.error = "None" /\ m.error = "None"
  BY <1>3 DEF Loads
<1> QED BY <1>1, <1>2, <1>3

LEMMA LoadPageOK ==
  ASSUME NEW l, NEW base, NEW image, NEW seg, NEW i, Sane(l, base),
         PageAt(seg, i) \in Page
  PROVE  Loads(l, LoadPage(l, image, seg, i), base, {PageAt(seg, i)})
<1> DEFINE got == Obtain(l)
           page == PageAt(seg, i)
           flags == IF seg.writable THEN UserRW ELSE UserRO
           m == map_user_page(got, page, flags)
           r == LoadPage(l, image, seg, i)
<1>1. r = IF got.error = "None" /\ CopyPanics(image, seg, i)
            THEN [got EXCEPT !.error = "panic"] ELSE m
  BY DEF LoadPage, PageAt
<1>2. flags \in Flags /\ flags \in {UserRO, UserRW}
  BY ProcessAssumption
<1>3. CASE l.error # "None"
  <2>1. got = l
    BY <1>3 DEF Obtain
  <2>2. m = got
    BY <1>3, <2>1 DEF map_user_page
  <2> HIDE DEF m, got, r
  <2>3. r = l
    BY <1>1, <1>3, <2>1, <2>2
  <2> QED BY <1>3, <2>3 DEF Loads, r
<1>4. CASE l.error = "None"
  <2>1. Building(l, base)
    BY <1>4 DEF Sane
  <2>2. /\ Obtained(got, base) /\ got.space = l.space /\ got.proc = l.proc
    BY <2>1, ObtainOK
  <2> HIDE DEF got
  <2>3. /\ got.error # "None" => m = got
        /\ got.error = "None" => MapPost(got, m, page, flags, base)
    <3> HIDE DEF page, flags
    <3>1. page \in Page
      BY DEF page
    <3> QED BY <1>2, <2>2, <3>1, MapUserPageOK
  <2> HIDE DEF m, r
  <2>4. CASE got.error # "None"
    <3>1. r = got /\ Accounted(r, base)
      BY <1>1, <2>2, <2>3, <2>4 DEF Obtained
    <3> QED BY <1>4, <2>2, <2>4, <3>1 DEF Loads, Building, r
  <2>5. CASE got.error = "None" /\ CopyPanics(image, seg, i)
    <3>1. r = [got EXCEPT !.error = "panic"]
      BY <1>1, <2>5
    <3>2. IsLoader(got)
      BY <2>2 DEF Obtained, Accounted
    <3>3. /\ DOMAIN r = DOMAIN got /\ r.error = "panic" /\ r.space = got.space
          /\ r.allocator = got.allocator /\ r.proc = got.proc /\ r.frame = got.frame
      BY <3>1, <3>2 DEF IsLoader
    <3>4. Accounted(r, base)
      BY <2>2, <3>3 DEF Obtained, Accounted, IsLoader, Held
    <3> QED BY <1>4, <2>2, <3>3, <3>4 DEF Loads, Building, r
  <2>6. CASE got.error = "None" /\ ~CopyPanics(image, seg, i)
    <3>1. r = m /\ MapPost(got, m, page, flags, base)
      BY <1>1, <2>3, <2>6
    <3> DEFINE leaf == [frame |-> got.frame, flags |-> flags]
    <3>2. leaf.flags \in {UserRO, UserRW}
      BY <1>2
    <3>3. r.error = "None" => r.space.pages = With(l.space.pages, page, leaf)
      BY <2>2, <3>1 DEF MapPost
    <3>4. Building(r, base) /\ r.proc = l.proc
      BY <2>2, <3>1 DEF MapPost
    <3> HIDE DEF leaf, flags, page
    <3>5. r.error = "None" =>
            /\ DOMAIN r.space.pages = DOMAIN l.space.pages \cup {page}
            /\ r.space.pages[page] = leaf
            /\ \A p \in DOMAIN l.space.pages : p # page => r.space.pages[p] = l.space.pages[p]
      BY <3>3 DEF With
    <3> QED BY <1>4, <3>2, <3>4, <3>5 DEF Loads, r, page
  <2> QED BY <2>4, <2>5, <2>6
<1> QED BY <1>3, <1>4

-----------------------------------------------------------------------------
(***************************************************************************)
(* The recursive functions of the two loops exist: take the least bound    *)
(* for which one does not.                                                 *)
(***************************************************************************)
SegmentRun(f, l, image, seg, n) ==
  f = [i \in 0 .. n |-> IF i = 0 THEN l ELSE LoadPage(f[i - 1], image, seg, i - 1)]

LEMMA SegmentRunExists ==
  ASSUME NEW l, NEW image, NEW seg, NEW n \in Nat
  PROVE  \E f : SegmentRun(f, l, image, seg, n)
<1> DEFINE Bad == {m \in Nat : ~ \E f : SegmentRun(f, l, image, seg, m)}
<1> SUFFICES ASSUME Bad # {} PROVE FALSE
  OBVIOUS
<1>1. PICK m \in Bad : \A y \in Bad : m <= y
  BY MinOfNats
<1>2. CASE m = 0
  <2> DEFINE f == [i \in 0 .. 0 |-> l]
  <2>1. \A i \in 0 .. 0 : i = 0
    OBVIOUS
  <2>2. SegmentRun(f, l, image, seg, 0)
    BY <2>1 DEF SegmentRun
  <2> QED BY <1>1, <1>2, <2>2, Zenon
<1>3. CASE m # 0
  <2>0. m \in Nat /\ m - 1 \in Nat /\ m - 1 \notin Bad
    BY <1>1, <1>3
  <2>1. PICK f : SegmentRun(f, l, image, seg, m - 1)
    BY <2>0
  <2> DEFINE Step(x, i) == LoadPage(x, image, seg, i - 1)
             g == [i \in 0 .. m |-> IF i = m THEN Step(f[m - 1], m) ELSE f[i]]
  <2>2. \A i \in 0 .. m - 1 : f[i] = IF i = 0 THEN l ELSE Step(f[i - 1], i)
    <3> HIDE DEF Step
    <3> QED BY <2>1 DEF SegmentRun, Step
  <2>3. \A i \in 0 .. m : i # m => i \in 0 .. m - 1
    BY <2>0
  <2>4. \A i \in 0 .. m : i # 0 => i - 1 \in 0 .. m /\ i - 1 # m
    BY <2>0
  <2>5. \A i \in 0 .. m : g[i] = IF i = m THEN Step(f[m - 1], m) ELSE f[i]
    <3> HIDE DEF Step
    <3> QED OBVIOUS
  <2>6. \A i \in 0 .. m : g[i] = IF i = 0 THEN l ELSE Step(g[i - 1], i)
    <3> HIDE DEF Step, g
    <3> QED BY <1>3, <2>2, <2>3, <2>4, <2>5
  <2>7. g = [i \in 0 .. m |-> IF i = 0 THEN l ELSE Step(g[i - 1], i)]
    <3>1. g = [i \in 0 .. m |-> g[i]]
      <4> HIDE DEF Step
      <4> QED OBVIOUS
    <3> HIDE DEF Step, g
    <3> QED BY <2>6, <3>1
  <2>8. SegmentRun(g, l, image, seg, m)
    <3> HIDE DEF g
    <3> QED BY <2>7 DEF SegmentRun
  <2> QED BY <1>1, <2>8, Zenon
<1> QED BY <1>2, <1>3

(* One page more. *)
LEMMA PagesUpToNext ==
  ASSUME NEW seg, NEW n \in Nat \ {0}
  PROVE  PagesUpTo(seg, n) = PagesUpTo(seg, n - 1) \cup {PageAt(seg, n - 1)}
<1>1. 0 .. n - 1 = (0 .. (n - 1) - 1) \cup {n - 1}
  OBVIOUS
<1> QED BY <1>1, Zenon DEF PagesUpTo

LEMMA LoadSegmentOK ==
  ASSUME NEW l, NEW base, NEW image, NEW seg \in Segment, Sane(l, base),
         (seg.vaddr + seg.memsz) \div FrameSize \in Page
  PROVE  Loads(l, LoadSegment(l, image, seg), base, PagesUpTo(seg, PageCount(seg)))
<1> DEFINE c == PageCount(seg)
           D == CHOOSE f : SegmentRun(f, l, image, seg, c)
           Bad == {i \in 0 .. c : ~ Loads(l, D[i], base, PagesUpTo(seg, i))}
<1>0. c \in Nat /\ \A i \in 0 .. c - 1 : PageAt(seg, i) \in Page
  BY SegmentInside
<1>1. LoadSegment(l, image, seg) = D[c]
  BY Zenon DEF LoadSegment, SegmentRun
<1> HIDE DEF c
<1>2. SegmentRun(D, l, image, seg, c)
  <2>1. \E f : SegmentRun(f, l, image, seg, c)
    BY <1>0, SegmentRunExists
  <2> QED BY <2>1, Zenon
<1> HIDE DEF D
<1>3. \A i \in 0 .. c : D[i] = IF i = 0 THEN l ELSE LoadPage(D[i - 1], image, seg, i - 1)
  BY <1>2, Zenon DEF SegmentRun
<1>4. Bad = {}
  <2> SUFFICES ASSUME Bad # {} PROVE FALSE
    OBVIOUS
  <2>0. Bad \subseteq Nat
    BY <1>0
  <2>1. PICK m \in Bad : \A y \in Bad : m <= y
    BY <2>0, MinOfNats
  <2>2. m # 0
    <3>1. D[0] = l
      BY <1>0, <1>3
    <3>2. PagesUpTo(seg, 0) = {}
      BY DEF PagesUpTo
    <3> QED BY <2>1, <3>1, <3>2, LoadsStart
  <2>3. /\ m \in 0 .. c /\ m - 1 \in 0 .. c /\ m - 1 \in 0 .. c - 1
        /\ m \in Nat \ {0} /\ m - 1 \notin Bad
    BY <1>0, <2>1, <2>2
  <2>4. Loads(l, D[m - 1], base, PagesUpTo(seg, m - 1))
    BY <2>3
  <2>5. D[m] = LoadPage(D[m - 1], image, seg, m - 1)
    BY <1>3, <2>2, <2>3
  <2>6. Loads(D[m - 1], D[m], base, {PageAt(seg, m - 1)})
    <3> DEFINE x == D[m - 1]
               i == m - 1
    <3>1. Sane(x, base)
      BY <2>4, LoadsSane
    <3>2. PageAt(seg, i) \in Page
      BY <1>0, <2>3
    <3> HIDE DEF x, i
    <3>3. Loads(x, LoadPage(x, image, seg, i), base, {PageAt(seg, i)})
      BY <3>1, <3>2, LoadPageOK
    <3> QED BY <2>5, <3>3 DEF x, i
  <2>7. Loads(l, D[m], base, PagesUpTo(seg, m - 1) \cup {PageAt(seg, m - 1)})
    BY <2>4, <2>6, LoadsTrans
  <2>8. Loads(l, D[m], base, PagesUpTo(seg, m))
    BY <2>3, <2>7, PagesUpToNext
  <2> QED BY <2>1, <2>8
<1>5. c \in 0 .. c
  BY <1>0
<1>6. Loads(l, D[c], base, PagesUpTo(seg, c))
  BY <1>4, <1>5
<1> QED BY <1>1, <1>6 DEF c

ImageRun(f, l, image, n) ==
  f = [i \in 0 .. n |->
         IF i = 0 THEN l
         ELSE IF i \in parse_elf(image)
           THEN LoadSegment(f[i - 1], image, image.headers[i])
         ELSE f[i - 1]]

LEMMA ImageRunExists ==
  ASSUME NEW l, NEW image, NEW n \in Nat
  PROVE  \E f : ImageRun(f, l, image, n)
<1> DEFINE Bad == {m \in Nat : ~ \E f : ImageRun(f, l, image, m)}
<1> SUFFICES ASSUME Bad # {} PROVE FALSE
  OBVIOUS
<1>1. PICK m \in Bad : \A y \in Bad : m <= y
  BY MinOfNats
<1>2. CASE m = 0
  <2> DEFINE f == [i \in 0 .. 0 |-> l]
  <2>1. \A i \in 0 .. 0 : i = 0
    OBVIOUS
  <2>2. ImageRun(f, l, image, 0)
    BY <2>1 DEF ImageRun
  <2> QED BY <1>1, <1>2, <2>2, Zenon
<1>3. CASE m # 0
  <2>0. m \in Nat /\ m - 1 \in Nat /\ m - 1 \notin Bad
    BY <1>1, <1>3
  <2>1. PICK f : ImageRun(f, l, image, m - 1)
    BY <2>0
  <2> DEFINE Step(x, i) == IF i \in parse_elf(image)
                             THEN LoadSegment(x, image, image.headers[i]) ELSE x
             g == [i \in 0 .. m |-> IF i = m THEN Step(f[m - 1], m) ELSE f[i]]
  <2>2. \A i \in 0 .. m - 1 : f[i] = IF i = 0 THEN l ELSE Step(f[i - 1], i)
    <3> HIDE DEF Step
    <3> QED BY <2>1 DEF ImageRun, Step
  <2>3. \A i \in 0 .. m : i # m => i \in 0 .. m - 1
    BY <2>0
  <2>4. \A i \in 0 .. m : i # 0 => i - 1 \in 0 .. m /\ i - 1 # m
    BY <2>0
  <2>5. \A i \in 0 .. m : g[i] = IF i = m THEN Step(f[m - 1], m) ELSE f[i]
    <3> HIDE DEF Step
    <3> QED OBVIOUS
  <2>6. \A i \in 0 .. m : g[i] = IF i = 0 THEN l ELSE Step(g[i - 1], i)
    <3> HIDE DEF Step, g
    <3> QED BY <1>3, <2>2, <2>3, <2>4, <2>5
  <2>7. g = [i \in 0 .. m |-> IF i = 0 THEN l ELSE Step(g[i - 1], i)]
    <3>1. g = [i \in 0 .. m |-> g[i]]
      <4> HIDE DEF Step
      <4> QED OBVIOUS
    <3> HIDE DEF Step, g
    <3> QED BY <2>6, <3>1
  <2>8. ImageRun(g, l, image, m)
    <3> HIDE DEF g
    <3> QED BY <2>7 DEF ImageRun
  <2> QED BY <1>1, <2>8, Zenon
<1> QED BY <1>2, <1>3

(* The pages of the loadable ones of the first n headers. *)
ImagePages(image, n) ==
  UNION {PagesUpTo(image.headers[k], PageCount(image.headers[k])) :
           k \in parse_elf(image) \cap (1 .. n)}

LEMMA HeadersOf ==
  ASSUME NEW image \in Images
  PROVE  /\ Len(image.headers) \in Nat
         /\ parse_elf(image) \subseteq 1 .. Len(image.headers)
         /\ \A k \in 1 .. Len(image.headers) :
              LET seg == image.headers[k]
              IN  /\ seg \in Segment
                  /\ (seg.vaddr + seg.memsz) \div FrameSize \in Page
<1>1. /\ image.headers \in Seq(Segment)
      /\ \A h \in Range(image.headers) : (h.vaddr + h.memsz) \div FrameSize \in Page
  BY ProcessAssumption
<1> DEFINE s == image.headers
<1> HIDE DEF s
<1>2. s \in Seq(Segment)
  BY <1>1 DEF s
<1>3. Len(s) \in Nat /\ DOMAIN s = 1 .. Len(s) /\ \A k \in 1 .. Len(s) : s[k] \in Segment
  BY <1>2
<1>4. \A k \in 1 .. Len(s) : s[k] \in Range(s)
  BY <1>3 DEF Range
<1>5. \A k \in 1 .. Len(s) : (s[k].vaddr + s[k].memsz) \div FrameSize \in Page
  BY <1>1, <1>4 DEF s
<1>6. parse_elf(image) \subseteq DOMAIN s
  BY DEF parse_elf, s
<1> QED BY <1>3, <1>5, <1>6 DEF s

LEMMA LoadSegmentsOK ==
  ASSUME NEW l, NEW base, NEW image \in Images, Sane(l, base)
  PROVE  Loads(l, LoadSegments(l, image), base, ImagePages(image, Len(image.headers)))
<1> DEFINE c == Len(image.headers)
           D == CHOOSE f : ImageRun(f, l, image, c)
           Bad == {i \in 0 .. c : ~ Loads(l, D[i], base, ImagePages(image, i))}
<1>0. c \in Nat /\ parse_elf(image) \subseteq 1 .. c
  BY HeadersOf
<1>1. LoadSegments(l, image) = D[c]
  BY Zenon DEF LoadSegments, ImageRun
<1> HIDE DEF c
<1>2. ImageRun(D, l, image, c)
  <2>1. \E f : ImageRun(f, l, image, c)
    BY <1>0, ImageRunExists
  <2> QED BY <2>1, Zenon
<1> HIDE DEF D
<1>3. \A i \in 0 .. c :
        D[i] = IF i = 0 THEN l
               ELSE IF i \in parse_elf(image)
                 THEN LoadSegment(D[i - 1], image, image.headers[i])
               ELSE D[i - 1]
  BY <1>2, Zenon DEF ImageRun
<1>4. Bad = {}
  <2> SUFFICES ASSUME Bad # {} PROVE FALSE
    OBVIOUS
  <2>0. Bad \subseteq Nat
    BY <1>0
  <2>1. PICK m \in Bad : \A y \in Bad : m <= y
    BY <2>0, MinOfNats
  <2>2. m # 0
    <3>1. D[0] = l
      BY <1>0, <1>3
    <3>2. ImagePages(image, 0) = {}
      <4>1. parse_elf(image) \cap (1 .. 0) = {}
        OBVIOUS
      <4> QED BY <4>1, Zenon DEF ImagePages
    <3> QED BY <2>1, <3>1, <3>2, LoadsStart
  <2>3. m \in 0 .. c /\ m - 1 \in 0 .. c /\ m \in 1 .. c /\ m - 1 \notin Bad
    BY <1>0, <2>1, <2>2
  <2> DEFINE x == D[m - 1]
             seg == image.headers[m]
  <2>4. Loads(l, x, base, ImagePages(image, m - 1))
    BY <2>3
  <2>5. 1 .. m = (1 .. m - 1) \cup {m}
    BY <2>3
  <2>6. CASE m \in parse_elf(image)
    <3>1. D[m] = LoadSegment(x, image, seg)
      BY <1>3, <2>2, <2>3, <2>6
    <3>2. Sane(x, base)
      BY <2>4, LoadsSane
    <3>3. seg \in Segment /\ (seg.vaddr + seg.memsz) \div FrameSize \in Page
      BY <2>3, HeadersOf DEF c
    <3> DEFINE S == PagesUpTo(seg, PageCount(seg))
    <3>4. ImagePages(image, m) = ImagePages(image, m - 1) \cup S
      <4>1. parse_elf(image) \cap (1 .. m) = (parse_elf(image) \cap (1 .. m - 1)) \cup {m}
        BY <2>5, <2>6
      <4> QED BY <4>1, Zenon DEF ImagePages
    <3> HIDE DEF x, seg
    <3>5. Loads(x, D[m], base, S)
      BY <3>1, <3>2, <3>3, LoadSegmentOK
    <3> HIDE DEF S
    <3>6. Loads(l, D[m], base, ImagePages(image, m))
      BY <2>4, <3>4, <3>5, LoadsTrans
    <3> QED BY <2>1, <3>6
  <2>7. CASE m \notin parse_elf(image)
    <3>1. D[m] = x
      BY <1>3, <2>2, <2>3, <2>7
    <3>2. ImagePages(image, m) = ImagePages(image, m - 1)
      <4>1. parse_elf(image) \cap (1 .. m) = parse_elf(image) \cap (1 .. m - 1)
        BY <2>5, <2>7
      <4> QED BY <4>1, Zenon DEF ImagePages
    <3> QED BY <2>1, <2>4, <3>1, <3>2
  <2> QED BY <2>6, <2>7
<1>5. c \in 0 .. c
  BY <1>0
<1>6. Loads(l, D[c], base, ImagePages(image, c))
  BY <1>4, <1>5
<1> QED BY <1>1, <1>6 DEF c

-----------------------------------------------------------------------------
(***************************************************************************)
(* The stacks.                                                             *)
(***************************************************************************)
LEMMA MapUserStackOK ==
  ASSUME NEW l, NEW base, Sane(l, base)
  PROVE  LET m == MapUserStack(l)
         IN  /\ l.error # "None" => m = l
             /\ l.error = "None" =>
                  /\ Building(m, base) /\ m.proc.pml4_phys = l.proc.pml4_phys
                  /\ m.proc.state = l.proc.state
                  /\ m.error = "None" =>
                       /\ UserStackPage \notin DOMAIN l.space.pages
                       /\ m.space.pages =
                            With(l.space.pages, UserStackPage,
                                 [frame |-> m.proc.user_stack_phys, flags |-> UserRW])
<1> DEFINE got == Obtain(l)
           u == map_user_page(got, UserStackPage, UserRW)
           m == MapUserStack(l)
<1>1. m = IF u.error # "None" THEN u ELSE [u EXCEPT !.proc.user_stack_phys = u.frame]
  BY DEF MapUserStack
<1>2. UserRW \in Flags /\ UserStackPage \in Page
  BY ProcessAssumption DEF UserStackPage
<1>3. CASE l.error # "None"
  <2>1. got = l
    BY <1>3 DEF Obtain
  <2>2. u = got
    BY <1>3, <2>1 DEF map_user_page
  <2> HIDE DEF m, got, u
  <2>3. m = l
    BY <1>1, <1>3, <2>1, <2>2
  <2> QED BY <1>3, <2>3 DEF m
<1>4. CASE l.error = "None"
  <2>1. Building(l, base)
    BY <1>4 DEF Sane
  <2>2. /\ Obtained(got, base) /\ got.space = l.space /\ got.proc = l.proc
    BY <2>1, ObtainOK
  <2> HIDE DEF got
  <2>3. /\ got.error # "None" => u = got
        /\ got.error = "None" => MapPost(got, u, UserStackPage, UserRW, base)
    BY <1>2, <2>2, MapUserPageOK
  <2> HIDE DEF u, m
  <2>4. Accounted(u, base) /\ IsLoader(u) /\ u.proc = l.proc
    BY <2>2, <2>3 DEF Obtained, MapPost, Building, Accounted
  <2>5. CASE u.error # "None"
    <3>1. m = u
      BY <1>1, <2>5
    <3> QED BY <1>4, <2>4, <2>5, <3>1 DEF Building, m
  <2>6. CASE u.error = "None"
    <3>1. got.error = "None"
      BY <2>3, <2>6
    <3>2. MapPost(got, u, UserStackPage, UserRW, base)
      BY <2>3, <3>1
    <3> DEFINE q == [u.proc EXCEPT !.user_stack_phys = u.frame]
    <3>3. m = [u EXCEPT !.proc = q]
      BY <1>1, <2>4, <2>6 DEF IsLoader
    <3>4. /\ q \in ProcessControlBlock /\ q.pml4_phys = u.proc.pml4_phys
          /\ q.user_stack_phys = u.frame /\ q.state = u.proc.state
      BY <2>4 DEF IsLoader, ProcessControlBlock
    <3> HIDE DEF q
    <3>5. /\ DOMAIN m = DOMAIN u /\ m.space = u.space /\ m.allocator = u.allocator
          /\ m.frame = u.frame /\ m.proc = q /\ m.error = "None"
      BY <2>4, <2>6, <3>3 DEF IsLoader
    <3>6. Building(m, base)
      <4>1. Held(m) = Held(u)
        BY <3>4, <3>5 DEF Held
      <4> QED BY <2>4, <2>6, <3>2, <3>4, <3>5, <4>1
              DEF MapPost, Building, Accounted, IsLoader
    <3>7. /\ UserStackPage \notin DOMAIN l.space.pages
          /\ u.space.pages = With(l.space.pages, UserStackPage,
                                  [frame |-> u.frame, flags |-> UserRW])
      BY <2>2, <2>6, <3>2 DEF MapPost
    <3> QED BY <1>4, <2>4, <3>4, <3>5, <3>6, <3>7 DEF m
  <2> QED BY <2>5, <2>6
<1> QED BY <1>3, <1>4

LEMMA MapKernelStackOK ==
  ASSUME NEW l, NEW base, Sane(l, base)
  PROVE  LET m == MapKernelStack(l)
             stack == m.proc.kernel_stack_phys
         IN  /\ l.error # "None" => m = l
             /\ l.error = "None" =>
                  /\ Building(m, base) /\ m.proc.pml4_phys = l.proc.pml4_phys
                  /\ m.proc.state = l.proc.state
                  /\ m.error = "None" =>
                       /\ m.proc.user_stack_phys = l.proc.user_stack_phys
                       /\ m.proc.kernel_rsp - ContextSize \in Nat
                       /\ stack \notin DOMAIN l.space.pages
                       /\ m.space.pages = With(l.space.pages, stack,
                                               [frame |-> stack, flags |-> KernelRW])
<1> DEFINE got == Obtain(l)
           f == got.frame
           top == f * FrameSize + KernelStackSize
           q == [got.proc EXCEPT !.kernel_stack_phys = f, !.kernel_rsp = top]
           g == [got EXCEPT !.proc = q]
           m == MapKernelStack(l)
<1>1. CASE l.error # "None"
  <2>1. got = l
    BY <1>1 DEF Obtain
  <2>2. m = got
    BY <1>1, <2>1 DEF MapKernelStack
  <2> HIDE DEF m, got
  <2> QED BY <1>1, <2>1, <2>2 DEF m
<1>2. CASE l.error = "None"
  <2>1. Building(l, base)
    BY <1>2 DEF Sane
  <2>2. /\ Obtained(got, base) /\ got.space = l.space /\ got.proc = l.proc
    BY <2>1, ObtainOK
  <2>3. Accounted(got, base) /\ IsLoader(got)
    BY <2>2 DEF Obtained, Accounted
  <2>4. m = IF got.error # "None" THEN got ELSE map_user_page(g, f, KernelRW)
    <3>1. g = [got EXCEPT !.proc.kernel_stack_phys = f, !.proc.kernel_rsp = top]
      <4> HIDE DEF f, top, got
      <4> QED BY <2>3 DEF IsLoader
    <3> QED BY <3>1 DEF MapKernelStack
  <2> HIDE DEF got
  <2>5. CASE got.error # "None"
    <3>1. m = got
      BY <2>4, <2>5
    <3> HIDE DEF m
    <3> QED BY <1>2, <2>2, <2>3, <2>5, <3>1 DEF Building, m
  <2>6. CASE got.error = "None"
    <3>0. f \in Frames /\ f \in Nat /\ FrameSize \in Nat /\ f \in Page
      BY <2>2, <2>3, <2>6, FrameAllocatorAssumption DEF IsLoader, Frames, Obtained
    <3>1. top \in Nat /\ top - ContextSize \in Nat
      <4>1. f * FrameSize \in Nat
        BY <3>0
      <4> QED BY <4>1, ProcessAssumption
    <3> HIDE DEF f, top
    <3>2. /\ q \in ProcessControlBlock /\ q.pml4_phys = got.proc.pml4_phys
          /\ q.kernel_stack_phys = f /\ q.kernel_rsp = top /\ q.state = got.proc.state
          /\ q.user_stack_phys = got.proc.user_stack_phys
      BY <2>3, <3>0, <3>1 DEF IsLoader, ProcessControlBlock
    <3> HIDE DEF q
    <3>3. /\ DOMAIN g = DOMAIN got /\ g.space = got.space /\ g.allocator = got.allocator
          /\ g.frame = got.frame /\ g.proc = q /\ g.error = got.error
      BY <2>3 DEF IsLoader
    <3> HIDE DEF g
    <3>4. Obtained(g, base)
      <4>1. Held(g) = Held(got)
        BY <3>2, <3>3 DEF Held
      <4> QED BY <2>2, <3>2, <3>3, <4>1 DEF Obtained, Accounted, IsLoader
    <3>5. m = map_user_page(g, f, KernelRW)
      BY <2>4, <2>6
    <3>6. MapPost(g, m, f, KernelRW, base)
      <4>1. KernelRW \in Flags
        BY ProcessAssumption
      <4>2. g.error = "None"
        BY <2>6, <3>3
      <4>3. MapPost(g, map_user_page(g, f, KernelRW), f, KernelRW, base)
        BY <3>0, <3>4, <4>1, <4>2, MapUserPageOK
      <4> QED BY <3>5, <4>3
    <3> HIDE DEF m
    <3>7. g.frame = f
      BY <3>3 DEF f
    <3>8. Building(m, base) /\ m.proc = q
      BY <3>3, <3>6 DEF MapPost
    <3>9. m.error = "None" =>
            /\ f \notin DOMAIN l.space.pages
            /\ m.space.pages = With(l.space.pages, f, [frame |-> f, flags |-> KernelRW])
      BY <2>2, <3>3, <3>6, <3>7 DEF MapPost
    <3> QED BY <1>2, <2>2, <3>1, <3>2, <3>8, <3>9 DEF m
  <2> QED BY <2>5, <2>6
<1> QED BY <1>1, <1>2

-----------------------------------------------------------------------------
(***************************************************************************)
(* The initial context over a page table.  An entry of a table leads to a  *)
(* page or a table in its place of the tree, under that table.             *)
(***************************************************************************)
LEMMA EntryBelow ==
  ASSUME NEW n \in Node, NEW j \in 0 .. Fanout - 1
  PROVE  /\ n[1] = 1 => /\ Entry(n, j)[2] \in Page
                        /\ Above(Entry(n, j)[2]) = {n} \cup Over(n)
         /\ n[1] # 1 => /\ Entry(n, j) \in Node /\ Entry(n, j)[1] = n[1] - 1
                        /\ Over(Entry(n, j)) = {n} \cup Over(n)
<1>1. PICK k \in 1 .. 3, i \in Nat : n = <<k, i>> /\ n[1] = k /\ n[2] = i
  BY DEF Node
<1>2. Fanout \in Nat \ {0} /\ j \in Nat /\ j < Fanout /\ \A q \in 1 .. 3 : Span(q) \in Nat \ {0}
  BY SpanType, PageTablesAssumption
<1>3. PICK c \in Nat \ {0} : /\ Span(k) = Fanout * c
                             /\ k = 1 => c = 1
                             /\ k # 1 => c = Span(k - 1)
  <2>1. CASE k = 1
    <3>1. Span(k) = Fanout * 1
      BY <1>2, <2>1, SpanType
    <3> QED BY <2>1, <3>1
  <2>2. CASE k = 2
    <3>1. Span(k) = Fanout * Fanout /\ Fanout = Span(k - 1)
      BY <2>2, SpanType
    <3> QED BY <1>2, <2>2, <3>1
  <2>3. CASE k = 3
    <3>1. Span(k) = Fanout * (Fanout * Fanout) /\ Fanout * Fanout = Span(k - 1)
      BY <1>2, <2>3, SpanType
    <3> QED BY <1>2, <2>3, <3>1
  <2> QED BY <2>1, <2>2, <2>3
<1>4. PICK w \in Nat : Fanout * Span(3) = w * Span(k)
  <2>1. CASE k = 1
    <3>1. Fanout * Span(3) = (Fanout * Fanout * Fanout) * Span(k) /\ Fanout * Fanout * Fanout \in Nat
      BY <1>2, <2>1, SpanType
    <3> QED BY <3>1
  <2>2. CASE k = 2
    <3>1. Fanout * Span(3) = (Fanout * Fanout) * Span(k) /\ Fanout * Fanout \in Nat
      BY <1>2, <2>2, SpanType
    <3> QED BY <3>1
  <2>3. CASE k = 3
    BY <1>2, <2>3
  <2> QED BY <2>1, <2>2, <2>3
<1> DEFINE S == Span(k)
           e == i * Fanout + j
           p == e * c
<1>5. S \in Nat \ {0} /\ e \in Nat /\ p \in Nat
  BY <1>2, <1>3
<1>6. i * S <= p /\ p < i * S + S
  <2>1. p = i * (Fanout * c) + j * c
    BY <1>2, <1>3
  <2>2. j * c < Fanout * c /\ j * c \in Nat /\ i * S \in Nat
    BY <1>2, <1>3, <1>5
  <2> QED BY <1>3, <1>5, <2>1, <2>2
<1>7. p \in Page
  <2>1. i * S \in Page
    BY <1>1 DEF Node
  <2>2. i * S < w * S /\ w * S = Fanout * Span(3)
    BY <1>4, <1>5, <2>1 DEF Page
  <2> HIDE DEF S, p
  <2>3. i < w
    BY <1>5, <2>2
  <2>4. (i + 1) * S <= w * S /\ (i + 1) * S = i * S + S
    BY <1>5, <2>3
  <2>5. p < w * S
    BY <1>5, <1>6, <2>4
  <2> QED BY <1>5, <2>2, <2>5 DEF Page
<1> HIDE DEF e
<1>8. p \div S = i
  <2> HIDE DEF S, p
  <2> QED BY <1>5, <1>6, QuotientOfSpan
<1>9. p \div c = e
  <2>1. e * c <= p /\ p < e * c + c
    BY <1>3, <1>5
  <2> HIDE DEF p
  <2> QED BY <1>3, <1>5, <2>1, QuotientOfSpan
<1>10. NodeAbove(k, p) = n
  BY <1>1, <1>8 DEF NodeAbove
<1>11. Entry(n, j) = <<k - 1, e>>
  BY <1>1 DEF Entry, e
<1>12. {NodeAbove(q, p) : q \in k .. 3} = {n} \cup Over(n)
  <2> HIDE DEF p
  <2>1. Over(n) = {NodeAbove(q, p) : q \in k + 1 .. 3}
    BY <1>5, <1>10, OverAbove
  <2>2. k .. 3 = {k} \cup (k + 1 .. 3)
    OBVIOUS
  <2> QED BY <1>10, <2>1, <2>2
<1>13. CASE k = 1
  <2>1. p = e
    BY <1>3, <1>5, <1>13
  <2> HIDE DEF p
  <2>2. Above(p) = {n} \cup Over(n)
    BY <1>12, <1>13 DEF Above
  <2> QED BY <1>1, <1>7, <1>11, <1>13, <2>1, <2>2
<1>14. CASE k # 1
  <2> HIDE DEF p
  <2>1. k - 1 \in 1 .. 3 /\ (k - 1) + 1 = k
    BY <1>14
  <2>2. NodeAbove(k - 1, p) = Entry(n, j)
    BY <1>3, <1>9, <1>11, <1>14 DEF NodeAbove
  <2>3. Entry(n, j) \in Node /\ Entry(n, j)[1] = k - 1
    BY <1>7, <2>1, <2>2, AboveIsNode
  <2> DEFINE h == k - 1
  <2>4. Over(NodeAbove(h, p)) = {NodeAbove(q, p) : q \in h + 1 .. 3}
    <3> HIDE DEF h
    <3>1. h \in 1 .. 3
      BY <2>1 DEF h
    <3> QED BY <1>5, <3>1, OverAbove
  <2>5. Over(Entry(n, j)) = {n} \cup Over(n)
    BY <1>12, <2>1, <2>2, <2>4
  <2> QED BY <1>1, <1>14, <2>3, <2>5
<1> QED BY <1>13, <1>14

LEMMA RootEntryBelow ==
  ASSUME NEW j \in 0 .. Fanout - 1
  PROVE  /\ Entry(<<4, 0>>, j) \in Node /\ Entry(<<4, 0>>, j)[1] = 3
         /\ Over(Entry(<<4, 0>>, j)) = {}
<1> DEFINE S == Span(3)
           p == j * S
<1>1. Fanout \in Nat \ {0} /\ j \in Nat /\ j < Fanout /\ S \in Nat \ {0}
  BY SpanType, PageTablesAssumption
<1> HIDE DEF S
<1>2. p \in Nat /\ p < Fanout * S /\ Fanout * S \in Nat /\ j * S <= p /\ p < j * S + S
  BY <1>1
<1>3. p \in Page
  <2> HIDE DEF p
  <2> QED BY <1>2 DEF Page, S
<1> HIDE DEF p
<1>4. p \div S = j
  BY <1>1, <1>2, QuotientOfSpan
<1>5. Entry(<<4, 0>>, j) = <<3, j>>
  BY <1>1 DEF Entry
<1>6. NodeAbove(3, p) = Entry(<<4, 0>>, j)
  BY <1>4, <1>5 DEF NodeAbove, S
<1>7. Entry(<<4, 0>>, j) \in Node /\ Entry(<<4, 0>>, j)[1] = 3
  BY <1>3, <1>6, AboveIsNode
<1>8. Over(Entry(<<4, 0>>, j)) = {}
  <2>1. Over(Entry(<<4, 0>>, j)) = {NodeAbove(k, p) : k \in 3 + 1 .. 3}
    BY <1>2, <1>6, OverAbove
  <2>2. 3 + 1 .. 3 = {}
    OBVIOUS
  <2> QED BY <2>1, <2>2
<1> QED BY <1>7, <1>8

(* What lies below a table lies below those over it. *)
LEMMA BelowOver ==
  ASSUME NEW m \in Node, NEW o \in Over(m), o \in Node, NEW p \in PagesBelow(m)
  PROVE  p \in PagesBelow(o)
<1>1. PICK k \in 1 .. 3, i \in Nat : m = <<k, i>> /\ m[1] = k /\ m[2] = i
  BY DEF Node
<1>2. p \in Nat
  <2>1. Span(k) \in Nat
    BY SpanType
  <2>2. i * Span(k) \in Nat /\ (i + 1) * Span(k) \in Nat
    BY <2>1
  <2> QED BY <1>1, <2>2 DEF PagesBelow
<1>3. m \in Above(p)
  BY <1>2, BelowIsAbove
<1>4. PICK h \in 1 .. 3 : m = NodeAbove(h, p)
  BY <1>3 DEF Above
<1>5. Over(m) = {NodeAbove(q, p) : q \in h + 1 .. 3}
  BY <1>2, <1>4, OverAbove
<1>6. \A q \in h + 1 .. 3 : q \in 1 .. 3
  OBVIOUS
<1>7. o \in Above(p)
  BY <1>5, <1>6 DEF Above
<1> QED BY <1>2, <1>7, BelowIsAbove

(* The tables over a node are of higher levels. *)
LEMMA OverHigher ==
  ASSUME NEW m, m[1] \in 1 .. 3, NEW o \in Over(m)
  PROVE  o[1] \in 1 .. 3 /\ o[1] > m[1]
<1>1. PICK k \in m[1] + 1 .. 3 : o = NodeAbove(k, m[2] * Span(m[1]))
  BY DEF Over
<1>2. o[1] = k
  BY <1>1 DEF NodeAbove
<1> QED BY <1>1, <1>2

(* The space t that a strike at the table n makes of s. *)
StruckOK(s, t, n) ==
  /\ IsSpace(t) /\ WellFormed(t) /\ DOMAIN t.huge = {}
  /\ DOMAIN t.pages \ Spoilt(n) = DOMAIN s.pages \ Spoilt(n)
  /\ \A p \in DOMAIN t.pages \cap Spoilt(n) :
       t.pages[p] = [frame |-> NoFrame, flags |-> KernelRW]
  /\ \A p \in DOMAIN t.pages \ Spoilt(n) : t.pages[p] = s.pages[p]
  /\ \A m \in DOMAIN t.tables :
       t.tables[m] # NoFrame => m \in DOMAIN s.tables /\ t.tables[m] = s.tables[m]
  /\ n \in DOMAIN s.tables => n \in DOMAIN t.tables /\ t.tables[n] = s.tables[n]

LEMMA StruckIs ==
  ASSUME NEW s, NEW n, IsSpace(s), WellFormed(s), DOMAIN s.huge = {},
         n \in DOMAIN s.tables \/ n = <<4, 0>>
  PROVE  StruckOK(s, Struck(s, n), n)
<1> DEFINE t == Struck(s, n)
           present == {Entry(n, j) : j \in SelectorEntries}
           tables == IF n[1] = 1 THEN {} ELSE present
           pages == IF n[1] = 1 THEN {e[2] : e \in present} ELSE {}
           spared == {m \in DOMAIN s.tables :
                        m[1] >= n[1] \/ ~(PagesBelow(m) \subseteq Spoilt(n))}
           T == [m \in spared \cup tables |-> IF m \in tables THEN 0 ELSE s.tables[m]]
           leaf == [frame |-> 0, flags |-> KernelRW]
           P == [p \in (DOMAIN s.pages \ Spoilt(n)) \cup pages |->
                   IF p \in pages THEN leaf ELSE s.pages[p]]
<1>1. t = [s EXCEPT !.tables = T, !.pages = P]
  BY DEF Struck
<1>2. IsSpace(t) /\ t.tables = T /\ t.pages = P /\ t.huge = s.huge
  <2> HIDE DEF T, P, t
  <2> QED BY <1>1 DEF IsSpace
<1> HIDE DEF t
<1>3. /\ DOMAIN s.tables \subseteq Node /\ Range(s.tables) \subseteq Frames
      /\ Range(s.pages) \subseteq Leaf /\ DOMAIN s.pages \subseteq Page
      /\ \A p \in DOMAIN s.pages : Above(p) \subseteq DOMAIN s.tables
      /\ \A m \in DOMAIN s.tables : Over(m) \subseteq DOMAIN s.tables
  BY DEF WellFormed
<1>4. /\ \A m \in Node : m[1] \in 1 .. 3
      /\ n[1] \in 1 .. 4 /\ (n[1] # 4 => n \in DOMAIN s.tables) /\ (n[1] = 4 => n = <<4, 0>>)
  <2>1. \A m \in Node : m[1] \in 1 .. 3
    BY DEF Node
  <2>2. CASE n = <<4, 0>>
    BY <2>1, <2>2
  <2>3. CASE n \in DOMAIN s.tables
    <3>1. n[1] \in 1 .. 3
      BY <1>3, <2>1, <2>3
    <3> QED BY <2>1, <2>3, <3>1
  <2> QED BY <2>2, <2>3
<1>5. SelectorEntries \subseteq ContextEntries /\ SelectorEntries \subseteq 0 .. Fanout - 1
  BY ProcessAssumption
<1>6. ASSUME NEW m \in tables
      PROVE  /\ m \in Node /\ m[1] = n[1] - 1
             /\ \A o \in Over(m) : o \in DOMAIN s.tables /\ o[1] >= n[1]
  <2>1. PICK j \in SelectorEntries : m = Entry(n, j) /\ n[1] # 1
    BY <1>6
  <2>2. CASE n[1] = 4
    BY <1>4, <1>5, <2>1, <2>2, RootEntryBelow
  <2>3. CASE n[1] # 4
    <3>1. n \in Node /\ n \in DOMAIN s.tables
      BY <1>3, <1>4, <2>3
    <3>2. m \in Node /\ m[1] = n[1] - 1 /\ Over(m) = {n} \cup Over(n)
      BY <1>5, <2>1, <3>1, EntryBelow
    <3>3. \A o \in Over(n) : o \in DOMAIN s.tables /\ o[1] >= n[1]
      <4>1. n[1] \in 1 .. 3
        BY <1>4, <3>1
      <4>2. \A o \in Over(n) : o[1] \in 1 .. 3 /\ o[1] > n[1]
        BY <4>1, OverHigher
      <4> QED BY <1>3, <3>1, <4>1, <4>2
    <3>4. n[1] >= n[1]
      BY <1>4
    <3> QED BY <3>1, <3>2, <3>3, <3>4
  <2> QED BY <2>2, <2>3
<1>7. ASSUME NEW p \in pages
      PROVE  /\ p \in Page /\ p \in Spoilt(n)
             /\ \A o \in Above(p) : o \in DOMAIN s.tables /\ o[1] >= n[1]
  <2>1. PICK j \in SelectorEntries : p = Entry(n, j)[2] /\ n[1] = 1
    BY <1>7
  <2>2. n \in Node /\ n \in DOMAIN s.tables
    BY <1>3, <1>4, <2>1
  <2>3. p \in Page /\ Above(p) = {n} \cup Over(n)
    BY <1>5, <2>1, <2>2, EntryBelow
  <2>4. p \in Spoilt(n)
    BY <1>5, <2>1 DEF Spoilt
  <2>5. Above(p) \subseteq DOMAIN s.tables
    BY <1>3, <2>2, <2>3
  <2>6. \A o \in DOMAIN s.tables : o[1] >= n[1]
    BY <1>3, <1>4, <2>1
  <2> QED BY <2>3, <2>4, <2>5, <2>6
<1>8. pages \subseteq Spoilt(n) /\ DOMAIN T = spared \cup tables
      /\ DOMAIN P = (DOMAIN s.pages \ Spoilt(n)) \cup pages
      /\ (\A m \in DOMAIN T : T[m] = IF m \in tables THEN 0 ELSE s.tables[m])
      /\ (\A p \in DOMAIN P : P[p] = IF p \in pages THEN leaf ELSE s.pages[p])
  <2>1. pages \subseteq Spoilt(n)
    BY <1>7
  <2> HIDE DEF pages, tables, spared, leaf
  <2> QED BY <2>1
<1>9. /\ DOMAIN T \subseteq Node /\ DOMAIN P \subseteq Page
      /\ Range(T) \subseteq Frames /\ Range(P) \subseteq Leaf
  <2>1. 0 \in Frames
    BY FrameAllocatorAssumption DEF Frames
  <2>2. leaf \in Leaf
    BY ProcessAssumption DEF Leaf
  <2>3. \A m \in DOMAIN s.tables : s.tables[m] \in Frames
    BY <1>3 DEF Range
  <2>4. \A p \in DOMAIN s.pages : s.pages[p] \in Leaf
    BY <1>3 DEF Range
  <2>5. spared \subseteq DOMAIN s.tables
    OBVIOUS
  <2> HIDE DEF T, P, leaf, spared, tables, pages
  <2>6. \A m \in DOMAIN T : T[m] \in Frames
    BY <1>8, <2>1, <2>3, <2>5
  <2>7. \A p \in DOMAIN P : P[p] \in Leaf
    BY <1>8, <2>2, <2>4
  <2>8. DOMAIN T \subseteq Node
    BY <1>3, <1>6, <1>8, <2>5
  <2>9. DOMAIN P \subseteq Page
    BY <1>3, <1>7, <1>8
  <2> QED BY <2>6, <2>7, <2>8, <2>9 DEF Range
<1>10. ASSUME NEW p \in DOMAIN P PROVE Above(p) \subseteq DOMAIN T
  <2>1. CASE p \in pages
    <3>1. \A o \in Above(p) : o \in spared
      BY <1>7, <2>1
    <3> HIDE DEF spared, T
    <3> QED BY <1>8, <3>1
  <2>2. CASE p \notin pages
    <3>1. p \in DOMAIN s.pages /\ p \notin Spoilt(n) /\ p \in Nat
      BY <1>3, <1>8, <2>2 DEF Page
    <3>2. \A o \in Above(p) : o \in DOMAIN s.tables /\ o \in Node
      BY <1>3, <3>1
    <3>3. \A o \in Above(p) : p \in PagesBelow(o)
      BY <3>1, <3>2, BelowIsAbove
    <3>4. \A o \in Above(p) : o \in spared
      BY <3>1, <3>2, <3>3
    <3> HIDE DEF spared, T
    <3> QED BY <1>8, <3>4
  <2> QED BY <2>1, <2>2
<1>11. ASSUME NEW m \in DOMAIN T PROVE Over(m) \subseteq DOMAIN T
  <2>1. CASE m \in tables
    <3>1. \A o \in Over(m) : o \in spared
      BY <1>6, <2>1
    <3> HIDE DEF spared, T
    <3> QED BY <1>8, <3>1
  <2>2. CASE m \notin tables
    <3>1. m \in DOMAIN s.tables /\ m \in Node /\ m \in spared
      BY <1>3, <1>8, <2>2
    <3>2. m[1] \in 1 .. 3 /\ n[1] \in 1 .. 4
      BY <1>4, <3>1
    <3>3. ASSUME NEW o \in Over(m) PROVE o \in spared
      <4>1. o \in DOMAIN s.tables /\ o \in Node
        BY <1>3, <3>1
      <4>2. CASE m[1] >= n[1]
        <5>1. o[1] \in 1 .. 3 /\ o[1] > m[1]
          BY <3>2, OverHigher
        <5>2. o[1] >= n[1]
          BY <3>2, <4>2, <5>1
        <5> QED BY <4>1, <5>2
      <4>3. CASE ~(m[1] >= n[1])
        <5>1. PICK p \in PagesBelow(m) : p \notin Spoilt(n)
          BY <3>1, <4>3
        <5>2. p \in PagesBelow(o)
          BY <3>1, <4>1, BelowOver
        <5> QED BY <4>1, <5>1, <5>2
      <4> QED BY <4>2, <4>3
    <3> HIDE DEF spared, T
    <3> QED BY <1>8, <3>3
  <2> QED BY <2>1, <2>2
<1>12. n \in DOMAIN s.tables => n \in DOMAIN T /\ T[n] = s.tables[n]
  <2> SUFFICES ASSUME n \in DOMAIN s.tables PROVE n \in DOMAIN T /\ T[n] = s.tables[n]
    OBVIOUS
  <2>1. n[1] >= n[1] /\ n[1] # n[1] - 1
    BY <1>4
  <2>2. n \in spared /\ n \notin tables
    BY <1>6, <2>1
  <2> HIDE DEF spared, tables, T
  <2> QED BY <1>8, <2>2
<1>13. \A m \in DOMAIN T : T[m] # 0 => m \in DOMAIN s.tables /\ T[m] = s.tables[m]
  <2>1. spared \subseteq DOMAIN s.tables
    OBVIOUS
  <2> HIDE DEF spared, tables, T
  <2> QED BY <1>8, <2>1
<1>14. /\ DOMAIN P \ Spoilt(n) = DOMAIN s.pages \ Spoilt(n)
       /\ \A p \in DOMAIN P \cap Spoilt(n) : P[p] = leaf
       /\ \A p \in DOMAIN P \ Spoilt(n) : P[p] = s.pages[p]
  <2> HIDE DEF pages, P, leaf
  <2> QED BY <1>8
<1> HIDE DEF T, P, tables, spared, pages
<1>15. WellFormed(t)
  <2>1. DOMAIN t.huge = {} /\ Range(t.huge) = {}
    BY <1>2 DEF Range
  <2> QED BY <1>2, <1>9, <1>10, <1>11, <2>1 DEF WellFormed
<1> QED BY <1>2, <1>12, <1>13, <1>14, <1>15 DEF StruckOK, NoFrame, t

(***************************************************************************)
(* The context at frame f: a space s, all of whose entries name frames,    *)
(* loses entries or gets some that name frame 0.                           *)
(***************************************************************************)
SpoiltIn(s, root, f) == UNION {Spoilt(n) : n \in TablesIn(s, root, f)}

OverwrittenOK(s, root, f, t) ==
  /\ IsSpace(t) /\ WellFormed(t) /\ DOMAIN t.huge = {}
  /\ Distinct(root, t) /\ Owned(root, t) \subseteq Whole(root, s)
  /\ TablesIn(t, root, f) = TablesIn(s, root, f)
  /\ DOMAIN t.pages \ SpoiltIn(s, root, f) = DOMAIN s.pages \ SpoiltIn(s, root, f)
  /\ \A p \in DOMAIN t.pages \cap SpoiltIn(s, root, f) :
       t.pages[p] = [frame |-> NoFrame, flags |-> KernelRW]
  /\ \A p \in DOMAIN t.pages \ SpoiltIn(s, root, f) : t.pages[p] = s.pages[p]

LEMMA OverwrittenIs ==
  ASSUME NEW s, NEW root, NEW f, IsSpace(s), WellFormed(s), DOMAIN s.huge = {},
         Apart(root, s), NoFrame \notin Whole(root, s)
  PROVE  OverwrittenOK(s, root, f, Overwritten(s, root, f))
<1> DEFINE hit == TablesIn(s, root, f)
           t == Overwritten(s, root, f)
           spoilt == SpoiltIn(s, root, f)
<1>1. /\ IsInjective(s.tables) /\ IsInjective(LeafFrames(s))
      /\ Range(s.tables) \cap Range(LeafFrames(s)) = {}
      /\ root \notin Range(s.tables) /\ root \notin Range(LeafFrames(s)) /\ root # NoFrame
  BY DEF Apart, Entries, Whole
<1>2. \A x : x \in hit <=> \/ x \in DOMAIN s.tables /\ s.tables[x] = f
                           \/ x = <<4, 0>> /\ root = f
  BY DEF TablesIn
<1>3. CASE hit = {}
  <2>1. t = s /\ spoilt = {}
    BY <1>3 DEF Overwritten, SpoiltIn
  <2>2. Distinct(root, s) /\ Owned(root, s) \subseteq Whole(root, s)
    <3>1. NamedOnce(s.tables) /\ NamedOnce(LeafFrames(s))
      BY <1>1 DEF IsInjective, NamedOnce
    <3> QED BY <1>1, <3>1 DEF Distinct, Owned, Whole, Entries
  <2> HIDE DEF t, spoilt
  <2> QED BY <2>1, <2>2 DEF OverwrittenOK, t, spoilt
<1>4. CASE hit # {}
  <2> DEFINE n == CHOOSE x \in hit : TRUE
  <2>1. t = Struck(s, n)
    BY <1>4 DEF Overwritten
  <2>2. n \in hit
    BY <1>4
  <2> HIDE DEF n, hit
  <2>3. n \in DOMAIN s.tables \/ n = <<4, 0>>
    BY <1>2, <2>2
  <2>4. StruckOK(s, t, n)
    BY <2>1, <2>3, StruckIs
  <2> HIDE DEF t
  <2>5. \A x \in hit : x = n
    <3>1. \A x \in DOMAIN s.tables : s.tables[x] # root
      BY <1>1 DEF Range
    <3>2. \A x, y \in DOMAIN s.tables : s.tables[x] = s.tables[y] => x = y
      BY <1>1 DEF IsInjective
    <3> QED BY <1>2, <2>2, <3>1, <3>2
  <2>6. hit = {n}
    BY <2>2, <2>5
  <2>7. spoilt = Spoilt(n)
    BY <2>6 DEF SpoiltIn, hit
  <2>8. f # NoFrame
    <3>1. \A x \in DOMAIN s.tables : s.tables[x] # NoFrame
      BY DEF Whole, Entries, Range
    <3> QED BY <1>1, <1>2, <2>2, <3>1
  <2>9. TablesIn(t, root, f) = hit
    <3>1. \A x : x \in TablesIn(t, root, f) <=> \/ x \in DOMAIN t.tables /\ t.tables[x] = f
                                                \/ x = <<4, 0>> /\ root = f
      BY DEF TablesIn
    <3>2. \A x \in DOMAIN t.tables : t.tables[x] = f => x \in hit
      BY <1>2, <2>4, <2>8 DEF StruckOK
    <3>3. n \in TablesIn(t, root, f)
      BY <1>2, <2>2, <2>4, <3>1 DEF StruckOK
    <3> QED BY <1>2, <2>6, <3>1, <3>2, <3>3
  <2> DEFINE F == LeafFrames(s)
             G == LeafFrames(t)
  <2>10. /\ DOMAIN G = DOMAIN t.pages /\ DOMAIN F = DOMAIN s.pages
         /\ \A p \in DOMAIN G : G[p] # NoFrame => p \in DOMAIN F /\ G[p] = F[p]
    <3>1. /\ DOMAIN F = DOMAIN s.pages /\ DOMAIN G = DOMAIN t.pages
          /\ \A q \in DOMAIN s.pages : F[q] = s.pages[q].frame
          /\ \A q \in DOMAIN t.pages : G[q] = t.pages[q].frame
      BY DEF LeafFrames
    <3>2. \A q \in DOMAIN t.pages \cap Spoilt(n) : t.pages[q].frame = NoFrame
      BY <2>4 DEF StruckOK
    <3> HIDE DEF F, G
    <3>3. \A q \in DOMAIN t.pages \ Spoilt(n) : q \in DOMAIN s.pages /\ t.pages[q] = s.pages[q]
      BY <2>4 DEF StruckOK
    <3> QED BY <3>1, <3>2, <3>3
  <2>11. \A x \in DOMAIN t.tables :
           t.tables[x] # NoFrame => x \in DOMAIN s.tables /\ t.tables[x] = s.tables[x]
    BY <2>4 DEF StruckOK
  <2>12. NamedOnce(t.tables)
    BY <1>1, <2>11 DEF NamedOnce, IsInjective
  <2>13. NamedOnce(G)
    <3>1. IsInjective(F)
      BY <1>1
    <3> HIDE DEF F, G
    <3> QED BY <2>10, <3>1 DEF NamedOnce, IsInjective
  <2>14. \A x \in Range(t.tables) : x # NoFrame => x \in Range(s.tables)
    BY <2>11 DEF Range
  <2>15. \A x \in Range(G) : x # NoFrame => x \in Range(F)
    <3> HIDE DEF F, G
    <3> QED BY <2>10 DEF Range
  <2>16. Distinct(root, t)
    BY <1>1, <2>12, <2>13, <2>14, <2>15 DEF Distinct, Entries
  <2>17. Owned(root, t) \subseteq Whole(root, s)
    BY <2>14, <2>15 DEF Owned, Whole, Entries
  <2> QED BY <2>4, <2>7, <2>9, <2>16, <2>17 DEF OverwrittenOK, StruckOK, t, hit
<1> QED BY <1>3, <1>4

(* The last step makes the process Running and writes its context, or      *)
(* panics.                                                                 *)
LEMMA StartOK ==
  ASSUME NEW l, NEW base, l.error = "None" => /\ Building(l, base)
                                              /\ l.proc.kernel_rsp - ContextSize \in Nat
  PROVE  LET m == Start(l)
             root == l.proc.pml4_phys
         IN  /\ l.error # "None" => m = l
             /\ l.error = "None" =>
                  /\ m.proc \in ProcessControlBlock /\ m.proc.pml4_phys = root
                  /\ m.allocator = l.allocator
                  /\ m.error # "None" => Building(m, base) /\ m.proc = l.proc
                  /\ m.error = "None" =>
                       /\ m.proc.state = "Running"
                       /\ m.proc.user_stack_phys = l.proc.user_stack_phys
                       /\ m.proc.kernel_stack_phys = l.proc.kernel_stack_phys
                       /\ m.space = Overwritten(l.space, root, ContextFrame(m.proc))
<1> DEFINE rsp == l.proc.kernel_rsp - ContextSize
           m == Start(l)
           q == [l.proc EXCEPT !.kernel_rsp = rsp, !.state = "Running"]
           sp == Overwritten(l.space, q.pml4_phys, ContextFrame(q))
<1>1. CASE l.error # "None"
  BY <1>1 DEF Start
<1>2. CASE l.error = "None" /\ ~Accessible(ContextFrame(q))
  <2>1. m = [l EXCEPT !.error = "panic"]
    BY <1>2 DEF Start
  <2>2. IsLoader(l) /\ Accounted(l, base)
    BY <1>2 DEF Building, Accounted
  <2>3. /\ DOMAIN m = DOMAIN l /\ m.space = l.space /\ m.allocator = l.allocator
        /\ m.frame = l.frame /\ m.proc = l.proc /\ m.error = "panic"
    BY <2>1, <2>2 DEF IsLoader
  <2> HIDE DEF m
  <2>4. Building(m, base) /\ l.proc \in ProcessControlBlock
    BY <2>2, <2>3 DEF Building, Accounted, IsLoader, Held
  <2> QED BY <1>2, <2>3, <2>4 DEF m
<1>3. CASE l.error = "None" /\ Accessible(ContextFrame(q))
  <2>1. IsLoader(l)
    BY <1>3 DEF Building, Accounted
  <2>2. rsp \in Nat
    BY <1>3
  <2>3. m = [l EXCEPT !.proc = q, !.space = sp]
    BY <1>3 DEF Start
  <2> HIDE DEF rsp, sp
  <2>4. /\ q \in ProcessControlBlock /\ q.pml4_phys = l.proc.pml4_phys
        /\ q.state = "Running" /\ q.user_stack_phys = l.proc.user_stack_phys
        /\ q.kernel_stack_phys = l.proc.kernel_stack_phys
    BY <2>1, <2>2 DEF IsLoader, ProcessControlBlock
  <2> HIDE DEF q
  <2>5. /\ m.space = sp /\ m.allocator = l.allocator /\ m.proc = q /\ m.error = "None"
    BY <1>3, <2>1, <2>3 DEF IsLoader
  <2> HIDE DEF m
  <2>6. m.space = Overwritten(l.space, l.proc.pml4_phys, ContextFrame(m.proc))
    BY <2>4, <2>5 DEF sp
  <2> QED BY <1>3, <2>4, <2>5, <2>6 DEF m
<1> QED BY <1>1, <1>2, <1>3

-----------------------------------------------------------------------------
(***************************************************************************)
(* A launch as a whole.                                                    *)
(***************************************************************************)
Starting(l, base) ==
  /\ DOMAIN l = {"space", "allocator", "frame", "proc", "error"}
  /\ l.space = EmptySpace /\ l.frame \in Frames /\ l.error = "None"
  /\ Sound(l.allocator) /\ l.allocator.bitmap = base
  /\ l.proc \in ProcessControlBlock

(* It fails before it has its PML4, and one frame may be lost. *)
NotBegun(l, r, base) ==
  /\ r.error # "None" /\ r.proc = l.proc /\ Sound(r.allocator)
  /\ base \subseteq r.allocator.bitmap
  /\ \E x : r.allocator.bitmap \subseteq base \cup {x}

LEMMA EmptySpaceIs ==
  /\ IsSpace(EmptySpace) /\ WellFormed(EmptySpace) /\ DOMAIN EmptySpace.pages = {}
  /\ \A root : Apart(root, EmptySpace) /\ Whole(root, EmptySpace) = {root}
  /\ DOMAIN EmptySpace.huge = {}
<1>1. /\ EmptySpace.tables = NoEntry /\ EmptySpace.huge = NoEntry
      /\ EmptySpace.pages = NoEntry /\ IsSpace(EmptySpace)
  BY DEF EmptySpace, IsSpace
<1>2. DOMAIN NoEntry = {} /\ Range(NoEntry) = {} /\ IsInjective(NoEntry)
  BY DEF NoEntry, Range, IsInjective
<1>3. DOMAIN LeafFrames(EmptySpace) = {}
  BY <1>1, <1>2 DEF LeafFrames
<1>4. Range(LeafFrames(EmptySpace)) = {} /\ IsInjective(LeafFrames(EmptySpace))
  BY <1>3 DEF Range, IsInjective
<1>5. WellFormed(EmptySpace)
  BY <1>1, <1>2 DEF WellFormed
<1> QED BY <1>1, <1>2, <1>4, <1>5 DEF Apart, Whole, Entries

LEMMA CreateOK ==
  ASSUME NEW l, NEW base, Starting(l, base)
  PROVE  LET c == create_user_page_tables(l)
         IN  \/ NotBegun(l, c, base)
             \/ /\ c.error = "None" /\ Building(c, base) /\ DOMAIN c.space.pages = {}
                /\ c.proc.pml4_phys \notin base /\ c.proc.state = l.proc.state
<1> DEFINE got == Obtain(l)
           c == create_user_page_tables(l)
           q == [got.proc EXCEPT !.pml4_phys = got.frame]
<1>1. ObtainPost(l, got)
  BY ObtainDoes DEF Starting
<1>2. CASE got.error # "None"
  <2>1. c = got
    BY <1>2 DEF create_user_page_tables
  <2> HIDE DEF c, got
  <2>2. NotBegun(l, c, base)
    BY <1>1, <1>2, <2>1 DEF NotBegun, ObtainPost, Starting
  <2> QED BY <2>2 DEF c
<1>3. CASE got.error = "None"
  <2>1. c = [got EXCEPT !.space = EmptySpace, !.proc.pml4_phys = got.frame]
    BY <1>3 DEF create_user_page_tables
  <2> HIDE DEF c, got
  <2>2. c = [got EXCEPT !.space = EmptySpace, !.proc = q]
    BY <1>1, <2>1 DEF ObtainPost, Starting
  <2>3. /\ q \in ProcessControlBlock /\ q.pml4_phys = got.frame /\ q.state = l.proc.state
    BY <1>1 DEF ObtainPost, Starting, ProcessControlBlock
  <2> HIDE DEF q
  <2>4. /\ DOMAIN c = DOMAIN l /\ c.space = EmptySpace /\ c.proc = q
        /\ c.frame = got.frame /\ c.error = "None" /\ c.allocator = got.allocator
    BY <1>1, <1>3, <2>2 DEF ObtainPost, Starting
  <2>5. Held(c) = {got.frame} /\ Apart(c.proc.pml4_phys, c.space)
    BY <2>3, <2>4, EmptySpaceIs DEF Held
  <2>6. IsLoader(c)
    BY <1>1, <2>3, <2>4, EmptySpaceIs DEF IsLoader, ObtainPost, Starting
  <2>7. got.frame \notin base /\ got.allocator.bitmap = base \cup {got.frame}
    BY <1>1, <1>3 DEF ObtainPost, Starting
  <2>8. Building(c, base)
    BY <2>4, <2>5, <2>6, <2>7 DEF Building, Accounted
  <2> QED BY <2>3, <2>4, <2>7, <2>8, EmptySpaceIs DEF c
<1> QED BY <1>2, <1>3

(* All that a launch is to map is mapped. *)
Complete(proc, pages, S) ==
  /\ DOMAIN pages = S \cup {UserStackPage, proc.kernel_stack_phys}
  /\ pages[UserStackPage] = [frame |-> proc.user_stack_phys, flags |-> UserRW]
  /\ pages[proc.kernel_stack_phys] =
       [frame |-> proc.kernel_stack_phys, flags |-> KernelRW]
  /\ \A p \in S : pages[p].flags \in {UserRO, UserRW}

(* A launch that ends well has built k and then written its context. *)
Entered(k, r, base, S) ==
  /\ Building(k, base) /\ k.error = "None" /\ k.allocator = r.allocator
  /\ k.proc.pml4_phys = r.proc.pml4_phys
  /\ r.space = Overwritten(k.space, r.proc.pml4_phys, ContextFrame(r.proc))
  /\ Complete(r.proc, k.space.pages, S)

Launched(l, r, base, S) ==
  /\ r.proc \in ProcessControlBlock /\ Sound(r.allocator)
  /\ r.proc.pml4_phys \notin base
  /\ r.error # "None" => Building(r, base) /\ r.proc.state = l.proc.state
  /\ r.error = "None" => r.proc.state = "Running" /\ \E k : Entered(k, r, base, S)

LEMMA LaunchOK ==
  ASSUME NEW l, NEW base, NEW image \in Images, Starting(l, base)
  PROVE  LET r == Launch(l, image)
         IN  \/ NotBegun(l, r, base)
             \/ Launched(l, r, base, ImagePages(image, Len(image.headers)))
<1> DEFINE c == create_user_page_tables(l)
           s == LoadSegments(c, image)
           u == MapUserStack(s)
           k == MapKernelStack(u)
           r == Start(k)
           S == ImagePages(image, Len(image.headers))
<1>0. r = Launch(l, image)
  BY DEF Launch
<1>1. \/ NotBegun(l, c, base)
      \/ /\ c.error = "None" /\ Building(c, base) /\ DOMAIN c.space.pages = {}
         /\ c.proc.pml4_phys \notin base /\ c.proc.state = l.proc.state
  BY CreateOK
<1> HIDE DEF c
<1>2. Sane(c, base)
  BY <1>1 DEF Sane, NotBegun
<1>3. Loads(c, s, base, S)
  BY <1>2, LoadSegmentsOK
<1> HIDE DEF S, s
<1>4. Sane(s, base)
  BY <1>3, LoadsSane
<1>5. /\ s.error # "None" => u = s
      /\ s.error = "None" =>
           /\ Building(u, base) /\ u.proc.pml4_phys = s.proc.pml4_phys
           /\ u.proc.state = s.proc.state
           /\ u.error = "None" =>
                /\ UserStackPage \notin DOMAIN s.space.pages
                /\ u.space.pages = With(s.space.pages, UserStackPage,
                                        [frame |-> u.proc.user_stack_phys, flags |-> UserRW])
  BY <1>4, MapUserStackOK
<1> HIDE DEF u
<1>6. Sane(u, base)
  BY <1>4, <1>5 DEF Sane
<1> DEFINE stack == k.proc.kernel_stack_phys
<1>7. /\ u.error # "None" => k = u
      /\ u.error = "None" =>
           /\ Building(k, base) /\ k.proc.pml4_phys = u.proc.pml4_phys
           /\ k.proc.state = u.proc.state
           /\ k.error = "None" =>
                /\ k.proc.user_stack_phys = u.proc.user_stack_phys
                /\ k.proc.kernel_rsp - ContextSize \in Nat
                /\ stack \notin DOMAIN u.space.pages
                /\ k.space.pages = With(u.space.pages, stack,
                                        [frame |-> stack, flags |-> KernelRW])
  BY <1>6, MapKernelStackOK
<1> HIDE DEF k
<1>8. k.error = "None" => u.error = "None" /\ s.error = "None" /\ c.error = "None"
  BY <1>3, <1>5, <1>7 DEF Loads
<1>9. /\ k.error # "None" => r = k
      /\ k.error = "None" =>
           /\ r.proc \in ProcessControlBlock /\ r.proc.pml4_phys = k.proc.pml4_phys
           /\ r.allocator = k.allocator
           /\ r.error # "None" => Building(r, base) /\ r.proc = k.proc
           /\ r.error = "None" =>
                /\ r.proc.state = "Running"
                /\ r.proc.user_stack_phys = k.proc.user_stack_phys
                /\ r.proc.kernel_stack_phys = stack
                /\ r.space = Overwritten(k.space, k.proc.pml4_phys, ContextFrame(r.proc))
  BY <1>7, <1>8, StartOK
<1> HIDE DEF r
<1>10. CASE c.error # "None"
  <2>1. s = c
    BY <1>3, <1>10 DEF Loads
  <2>2. r = c
    BY <1>5, <1>7, <1>9, <1>10, <2>1
  <2> QED BY <1>0, <1>1, <1>10, <2>2
<1>11. CASE c.error = "None"
  <2>1. /\ Building(c, base) /\ DOMAIN c.space.pages = {}
        /\ c.proc.pml4_phys \notin base /\ c.proc.state = l.proc.state
    BY <1>1, <1>11 DEF NotBegun
  <2>2. Building(s, base) /\ s.proc = c.proc
    BY <1>3, <1>11 DEF Loads
  <2>3. /\ Building(u, base) /\ u.proc.pml4_phys = c.proc.pml4_phys
        /\ u.proc.state = c.proc.state
    BY <1>5, <2>2
  <2>4. /\ Building(k, base) /\ k.proc.pml4_phys = c.proc.pml4_phys
        /\ k.proc.state = c.proc.state
    BY <1>7, <2>3
  <2>5. /\ r.proc.pml4_phys = c.proc.pml4_phys
        /\ r.proc \in ProcessControlBlock /\ Sound(r.allocator)
        /\ r.error # "None" => Building(r, base) /\ r.proc.state = c.proc.state
    <3>1. k.proc \in ProcessControlBlock /\ Sound(k.allocator)
      BY <2>4 DEF Building, Accounted, IsLoader
    <3> QED BY <1>9, <2>4, <3>1
  <2>6. ASSUME r.error = "None"
        PROVE  r.proc.state = "Running" /\ Entered(k, r, base, S)
    <3>0. k.error = "None" /\ u.error = "None" /\ s.error = "None"
      BY <1>8, <1>9, <2>6
    <3>1. /\ DOMAIN s.space.pages = S
          /\ \A p \in S : s.space.pages[p].flags \in {UserRO, UserRW}
      BY <1>3, <1>11, <2>1, <3>0 DEF Loads
    <3> DEFINE ul == [frame |-> u.proc.user_stack_phys, flags |-> UserRW]
               kl == [frame |-> stack, flags |-> KernelRW]
    <3>2. /\ UserStackPage \notin S
          /\ u.space.pages = With(s.space.pages, UserStackPage, ul)
      BY <1>5, <3>0, <3>1
    <3>3. /\ stack \notin DOMAIN u.space.pages
          /\ k.space.pages = With(u.space.pages, stack, kl)
          /\ k.proc.user_stack_phys = u.proc.user_stack_phys
      BY <1>7, <3>0
    <3>4. /\ r.proc.state = "Running"
          /\ r.proc.user_stack_phys = u.proc.user_stack_phys
          /\ r.proc.kernel_stack_phys = stack
      BY <1>9, <2>6, <3>0, <3>3
    <3> HIDE DEF ul, kl, stack
    <3>5. /\ DOMAIN u.space.pages = S \cup {UserStackPage}
          /\ u.space.pages[UserStackPage] = ul
          /\ \A p \in S : u.space.pages[p] = s.space.pages[p]
      BY <3>1, <3>2 DEF With
    <3>6. /\ DOMAIN k.space.pages = S \cup {UserStackPage, stack}
          /\ k.space.pages[UserStackPage] = ul /\ k.space.pages[stack] = kl
          /\ \A p \in S : k.space.pages[p] = s.space.pages[p]
      BY <3>3, <3>5 DEF With
    <3>7. Complete(r.proc, k.space.pages, S)
      BY <3>1, <3>4, <3>6 DEF Complete, ul, kl
    <3>8. Entered(k, r, base, S)
      BY <1>9, <2>4, <2>6, <3>0, <3>7 DEF Entered
    <3> QED BY <3>4, <3>8
  <2>7. Launched(l, r, base, S)
    BY <2>1, <2>5, <2>6 DEF Launched
  <2> QED BY <1>0, <2>7 DEF S
<1> QED BY <1>10, <1>11

-----------------------------------------------------------------------------
(***************************************************************************)
(* The inductive invariant.  A slot names the root of an address space     *)
(* that exists, or none, so that a launch in a slot with an old root can   *)
(* tell whether it got a new one.  No address space has huge pages, which  *)
(* the entries that a context makes would collide with.                    *)
(***************************************************************************)
ProcInv ==
  /\ TypeOK /\ FramesHaveOneOwner /\ RunningIsComplete
  /\ Sound(frame_allocator)
  /\ \A slot \in Slots : table[slot].pml4_phys \in {NoFrame} \cup DOMAIN spaces
  /\ \A r \in DOMAIN spaces : IsSpace(spaces[r]) /\ DOMAIN spaces[r].huge = {}

Lost == frame_allocator.bitmap \ (OwnedBySpaces \cup others \cup Reserved)

(* A set of frames that grows by one element at most. *)
LEMMA OneMore ==
  ASSUME NEW S \in SUBSET Frames, NEW T \in SUBSET Frames
  PROVE  /\ T \subseteq S => Cardinality(T) <= Cardinality(S)
         /\ \A x : T \subseteq S \cup {x} => Cardinality(T) <= Cardinality(S) + 1
         /\ Cardinality(S) \in Nat
<1>1. /\ IsFiniteSet(S) /\ IsFiniteSet(T)
      /\ Cardinality(S) \in Nat /\ Cardinality(T) \in Nat
  BY FramesFinite
<1>2. T \subseteq S => Cardinality(T) <= Cardinality(S)
  BY <1>1, FS_Subset
<1>3. ASSUME NEW x, T \subseteq S \cup {x} PROVE Cardinality(T) <= Cardinality(S) + 1
  <2>1. /\ IsFiniteSet(S \cup {x})
        /\ Cardinality(S \cup {x}) = IF x \in S THEN Cardinality(S) ELSE Cardinality(S) + 1
    BY <1>1, FS_AddElement
  <2>2. Cardinality(T) <= Cardinality(S \cup {x})
    BY <1>3, <2>1, FS_Subset
  <2> QED BY <1>1, <2>1, <2>2
<1> QED BY <1>1, <1>2, <1>3

LEMMA ReservedIs ==
  ASSUME ram \in MemorySizes
  PROVE  Reserved \in SUBSET Frames /\ NoFrame \in Reserved /\ NoFrame \in Frames
<1>1. StandardFrames \subseteq Frames
  BY DEF StandardFrames, FramesTouched
<1>2. ram \in 1 .. TotalFrames
  BY ProcessAssumption
<1>3. ram .. TotalFrames - 1 \subseteq Frames
  BY <1>2, FrameAllocatorAssumption DEF Frames
<1>4. 0 \in StandardFrames
  BY ProcessAssumption
<1> QED BY <1>1, <1>3, <1>4 DEF Reserved, NoFrame

LEMMA ProcInit == Init => ProcInv
<1> SUFFICES ASSUME Init PROVE ProcInv
  OBVIOUS
<1>1. /\ init_elf \in Images /\ ram \in MemorySizes
      /\ table = [slot \in Slots |-> EMPTY]
      /\ spaces = NoEntry /\ frame_allocator = Boot /\ others = {}
      /\ failed = 0 /\ control = "shell"
  BY DEF Init, Booted
<1>2. Reserved \in SUBSET Frames /\ NoFrame \in Frames
  BY <1>1, ReservedIs
<1>3. Sound(frame_allocator) /\ frame_allocator.bitmap = Reserved
  <2>1. new \in Allocator /\ new.bitmap = {}
    BY NewOK DEF Sound
  <2>2. Sound(Boot) /\ Boot.bitmap = new.bitmap \cup Reserved
    BY <1>2, <2>1, ReserveSound DEF Boot
  <2> QED BY <1>1, <2>1, <2>2
<1>4. EMPTY \in ProcessControlBlock /\ EMPTY.state = "Unused" /\ EMPTY.pml4_phys = NoFrame
  BY <1>2 DEF EMPTY, ProcessControlBlock
<1>5. table \in [Slots -> ProcessControlBlock] /\ \A slot \in Slots : table[slot] = EMPTY
  BY <1>1, <1>4
<1>6. DOMAIN spaces = {}
  BY <1>1 DEF NoEntry
<1>7. Range(spaces) = {} /\ OwnedBySpaces = {}
  BY <1>6 DEF Range, OwnedBySpaces
<1>8. TypeOK
  BY <1>1, <1>3, <1>5, <1>6, <1>7, ProcessAssumption DEF TypeOK, Sound
<1>9. FramesHaveOneOwner
  <2>1. frame_allocator.bitmap \ (OwnedBySpaces \cup others \cup Reserved) = {}
    BY <1>1, <1>3, <1>7
  <2>2. Cardinality({}) = 0
    BY FS_EmptySet
  <2>3. Cardinality(frame_allocator.bitmap \ (OwnedBySpaces \cup others \cup Reserved))
          <= failed
    BY <1>1, <2>1, <2>2
  <2>4. /\ OwnedBySpaces \cap others = {} /\ (OwnedBySpaces \cup others) \cap Reserved = {}
        /\ OwnedBySpaces \cup others \cup Reserved \subseteq frame_allocator.bitmap
    BY <1>1, <1>3, <1>7
  <2>5. \A r : r \notin DOMAIN spaces
    BY <1>6
  <2> QED BY <2>3, <2>4, <2>5, Zenon DEF FramesHaveOneOwner
<1>10. RunningIsComplete
  <2>1. control # "entering" /\ \A slot \in Slots : table[slot].state # "Running"
    BY <1>1, <1>4, <1>5
  <2> QED BY <2>1, Zenon DEF RunningIsComplete
<1> QED BY <1>3, <1>4, <1>5, <1>6, <1>8, <1>9, <1>10 DEF ProcInv

(* A reset makes everything as at the boot. *)
LEMMA RebootKeeps ==
  ASSUME ProcInv, Reboot
  PROVE  ProcInv'
<1>1. Init'
  <2>1. init_elf' = init_elf /\ ram' = ram
    BY DEF Reboot, machine
  <2>2. Boot' = Boot
    BY <2>1 DEF Boot, Reserved
  <2> QED BY <2>1, <2>2 DEF Reboot, Booted, Init, ProcInv, TypeOK
<1> QED BY <1>1, ProcInit, PTL

LEMMA RunningKept ==
  ASSUME RunningIsComplete, table' = table, spaces' = spaces, control' = control,
         SegmentPages' = SegmentPages
  PROVE  RunningIsComplete'
<1>1. Entering' = Entering
  BY DEF Entering
<1> QED BY <1>1, Zenon DEF RunningIsComplete

(* A change of the allocator and of others that loses nothing. *)
LEMMA ElsewhereKeeps ==
  ASSUME ProcInv, TakeElsewhere \/ \E f \in others : GiveElsewhere(f)
  PROVE  ProcInv'
<1>1. /\ init_elf' = init_elf /\ ram' = ram /\ table' = table /\ spaces' = spaces
      /\ failed' = failed /\ control' = control
  BY DEF TakeElsewhere, GiveElsewhere, machine
<1>2. Sound(frame_allocator) /\ frame_allocator.bitmap \in SUBSET Frames /\ TypeOK
  BY DEF ProcInv, Sound, Allocator
<1>3. /\ Reserved' = Reserved /\ OwnedBySpaces' = OwnedBySpaces
      /\ SegmentPages' = SegmentPages
  BY <1>1 DEF Reserved, OwnedBySpaces, SegmentPages
<1>4. RunningIsComplete'
  BY <1>1, <1>3, RunningKept DEF ProcInv
<1>5. FramesHaveOneOwner /\ control # "entering"
  BY DEF ProcInv, TakeElsewhere, GiveElsewhere
<1> DEFINE ok(a, o) ==
      /\ Sound(a) /\ o \subseteq Frames
      /\ OwnedBySpaces \cap o = {} /\ (OwnedBySpaces \cup o) \cap Reserved = {}
      /\ OwnedBySpaces \cup o \cup Reserved \subseteq a.bitmap
      /\ a.bitmap \ (OwnedBySpaces \cup o \cup Reserved) \subseteq Lost
<1>6. ok(frame_allocator, others)
  BY <1>2, <1>5 DEF FramesHaveOneOwner, TypeOK, Lost
<1>7. ASSUME ok(frame_allocator', others') PROVE ProcInv'
  <2>1. frame_allocator' \in Allocator /\ frame_allocator'.bitmap \in SUBSET Frames
    BY <1>7 DEF Sound, Allocator
  <2>2. TypeOK'
    BY <1>1, <1>2, <1>7, <2>1 DEF TypeOK
  <2> DEFINE lost == frame_allocator'.bitmap \ (OwnedBySpaces \cup others' \cup Reserved)
  <2>3. lost \in SUBSET Frames /\ Lost \in SUBSET Frames /\ lost \subseteq Lost
    BY <1>2, <1>7, <2>1 DEF Lost
  <2>4. Cardinality(lost) <= Cardinality(Lost) /\ Cardinality(lost) \in Nat
        /\ Cardinality(Lost) \in Nat
    <3> HIDE DEF lost
    <3> QED BY <2>3, OneMore
  <2>5. Cardinality(Lost) <= failed /\ failed \in Nat
    BY <1>2, <1>5, ProcessAssumption DEF FramesHaveOneOwner, Lost, TypeOK
  <2>6. Cardinality(lost) <= failed
    <3> HIDE DEF lost
    <3> QED BY <2>4, <2>5
  <2>7. FramesHaveOneOwner'
    BY <1>1, <1>3, <1>5, <1>7, <2>6 DEF FramesHaveOneOwner
  <2> QED BY <1>1, <1>4, <1>7, <2>2, <2>7 DEF ProcInv
<1>8. CASE TakeElsewhere
  <2> DEFINE got == allocate_frame(frame_allocator)
  <2>1. frame_allocator' = got.allocator /\ others' = others \cup got.granted
    BY <1>8 DEF TakeElsewhere
  <2>2. GrantOK(frame_allocator, got)
    BY <1>2, AllocateFrameOK
  <2> HIDE DEF got
  <2>3. ok(frame_allocator', others')
    BY <1>6, <2>1, <2>2 DEF GrantOK
  <2> QED BY <1>7, <2>3
<1>9. ASSUME NEW f \in others, GiveElsewhere(f) PROVE ProcInv'
  <2> DEFINE a == frame_allocator
             x == free_frame(a, f * FrameSize)
  <2>1. frame_allocator' = x.allocator /\ others' = others \ {f}
    BY <1>9 DEF GiveElsewhere
  <2>2. f \in Frames /\ f \in a.bitmap /\ f \in Nat /\ f < TotalFrames
    BY <1>2, <1>6, FrameAllocatorAssumption DEF Frames
  <2>3. f * FrameSize \in Nat /\ address_to_frame(f * FrameSize) = f
    <3>1. FrameSize \in Nat \ {0}
      BY FrameAllocatorAssumption
    <3>2. f * FrameSize \in Nat /\ (f * FrameSize) \div FrameSize = f
      BY <2>2, <3>1
    <3> QED BY <3>2 DEF address_to_frame
  <2>4. x.freed = {f}
    <3>1. ~(f >= TotalFrames) /\ is_frame_reserved(a, f)
      BY <2>2, FrameAllocatorAssumption DEF is_frame_reserved
    <3>2. x = Released(a, {f}, 1)
      BY <2>3, <3>1 DEF free_frame
    <3> QED BY <3>2 DEF Released
  <2>5. FreeOK(a, x)
    BY <1>2, <2>3, FreeFrameOK
  <2> HIDE DEF x
  <2>6. ok(frame_allocator', others')
    BY <1>6, <2>1, <2>4, <2>5 DEF FreeOK
  <2> QED BY <1>7, <2>6
<1> QED BY <1>8, <1>9

(* The least unused slot is one of them. *)
LEMMA SlotChosen ==
  ASSUME Unused # {}
  PROVE  Min(Unused) \in Slots /\ table[Min(Unused)].state = "Unused"
<1>1. PICK s \in Unused : TRUE
  OBVIOUS
<1>2. Unused \subseteq Nat
  BY ProcessAssumption DEF Unused, Slots
<1>3. Min(Unused) \in Unused
  BY <1>1, <1>2, MinOfNats
<1> QED BY <1>3 DEF Unused

LEMMA EnteringOnly ==
  ASSUME NEW s \in Slots, NEW t, {x \in Slots : t[x].state = "Running"} = {s}
  PROVE  Min({x \in Slots : t[x].state = "Running"}) = s
<1>1. s \in Nat
  BY ProcessAssumption DEF Slots
<1>2. {s} \subseteq Nat /\ s \in {s}
  BY <1>1
<1>3. Min({s}) \in {s}
  BY <1>2, MinOfNats
<1> QED BY <1>3

LEMMA SegmentPagesAre ==
  ASSUME init_elf \in Images
  PROVE  SegmentPages = ImagePages(init_elf, Len(init_elf.headers))
<1> DEFINE P == parse_elf(init_elf)
<1>1. P \cap (1 .. Len(init_elf.headers)) = P
  BY HeadersOf
<1>2. \A n : PagesUpTo(init_elf.headers[n], PageCount(init_elf.headers[n])) =
               {(init_elf.headers[n].vaddr + i * FrameSize) \div FrameSize :
                  i \in 0 .. PageCount(init_elf.headers[n]) - 1}
  BY DEF PagesUpTo, PageAt
<1>3. \A x : x \in SegmentPages <=>
               \E n \in P : x \in PagesUpTo(init_elf.headers[n], PageCount(init_elf.headers[n]))
  <2> DEFINE Q(n) == {(init_elf.headers[n].vaddr + i * FrameSize) \div FrameSize :
                        i \in 0 .. PageCount(init_elf.headers[n]) - 1}
  <2>1. SegmentPages = UNION {Q(n) : n \in P}
    BY DEF SegmentPages
  <2>2. \A n : PagesUpTo(init_elf.headers[n], PageCount(init_elf.headers[n])) = Q(n)
    BY <1>2
  <2> HIDE DEF Q, P
  <2>3. \A x : x \in SegmentPages <=> \E n \in P : x \in Q(n)
    BY <2>1, Zenon
  <2> QED BY <2>2, <2>3
<1>4. \A x : x \in ImagePages(init_elf, Len(init_elf.headers)) <=>
               \E n \in P : x \in PagesUpTo(init_elf.headers[n], PageCount(init_elf.headers[n]))
  BY <1>1, Zenon DEF ImagePages
<1> QED BY <1>3, <1>4

(* An address space more: its root was in no other, and what the spaces    *)
(* own grows by what it owns.                                              *)
LEMMA SpaceAdded ==
  ASSUME NEW root, NEW space, root \notin DOMAIN spaces,
         spaces' = With(spaces, root, space)
  PROVE  /\ DOMAIN spaces' = DOMAIN spaces \cup {root} /\ spaces'[root] = space
         /\ \A r \in DOMAIN spaces : spaces'[r] = spaces[r]
         /\ OwnedBySpaces' = OwnedBySpaces \cup Owned(root, space)
<1>1. /\ DOMAIN spaces' = DOMAIN spaces \cup {root} /\ spaces'[root] = space
      /\ \A r \in DOMAIN spaces : spaces'[r] = spaces[r]
  BY DEF With
<1>2. \A x : x \in OwnedBySpaces' <=> x \in OwnedBySpaces \cup Owned(root, space)
  <2>1. \A x : x \in OwnedBySpaces' <=> \E r \in DOMAIN spaces' : x \in Owned(r, spaces'[r])
    BY DEF OwnedBySpaces
  <2>2. \A x : x \in OwnedBySpaces <=> \E r \in DOMAIN spaces : x \in Owned(r, spaces[r])
    BY DEF OwnedBySpaces
  <2> QED BY <1>1, <2>1, <2>2
<1> QED BY <1>1, <1>2

(* Where no entry names frame 0 every entry names a frame of its own. *)
LEMMA OwnedIsWhole ==
  ASSUME NEW r, NEW s, NoFrame \notin Entries(s)
  PROVE  Owned(r, s) = Whole(r, s) /\ (Distinct(r, s) <=> Apart(r, s))
<1>1. Owned(r, s) = Whole(r, s)
  BY DEF Owned, Whole
<1>2. ASSUME NEW f, NoFrame \notin Range(f) PROVE NamedOnce(f) <=> IsInjective(f)
  BY <1>2 DEF NamedOnce, IsInjective, Range
<1>3. /\ NamedOnce(s.tables) <=> IsInjective(s.tables)
      /\ NamedOnce(LeafFrames(s)) <=> IsInjective(LeafFrames(s))
  BY <1>2 DEF Entries
<1>4. Range(s.tables) \cap Range(LeafFrames(s)) \subseteq {NoFrame} <=>
        Range(s.tables) \cap Range(LeafFrames(s)) = {}
  BY DEF Entries
<1> QED BY <1>1, <1>3, <1>4 DEF Distinct, Apart

(* The lost frames are as many as the failures, if a launch that succeeds  *)
(* loses none and one that fails loses one at most.                        *)
LEMMA LossBound ==
  ASSUME ProcInv, control # "entering", failed < MaxFailed, NEW T \in SUBSET Frames,
         \/ T \subseteq Lost /\ failed' \in {failed, failed + 1}
         \/ (\E x : T \subseteq Lost \cup {x}) /\ failed' = failed + 1
  PROVE  Cardinality(T) <= failed' /\ failed' \in 0 .. MaxFailed
<1>1. Lost \in SUBSET Frames /\ failed \in Nat /\ MaxFailed \in Nat
  BY ProcessAssumption DEF ProcInv, TypeOK, Lost, Allocator
<1>2. Cardinality(Lost) <= failed
  BY DEF ProcInv, FramesHaveOneOwner, Lost
<1>3. /\ T \subseteq Lost => Cardinality(T) <= Cardinality(Lost)
      /\ \A x : T \subseteq Lost \cup {x} => Cardinality(T) <= Cardinality(Lost) + 1
      /\ Cardinality(Lost) \in Nat /\ Cardinality(T) \in Nat
  <2> HIDE DEF Lost
  <2> QED BY <1>1, OneMore
<1> DEFINE t == Cardinality(T)
           n == Cardinality(Lost)
<1> HIDE DEF Lost, t, n
<1>4. t \in Nat /\ n \in Nat /\ n <= failed
  BY <1>2, <1>3 DEF t, n
<1>5. CASE T \subseteq Lost /\ failed' \in {failed, failed + 1}
  <2>1. t <= n
    BY <1>3, <1>5 DEF t, n
  <2> QED BY <1>1, <1>4, <1>5, <2>1 DEF t
<1>6. CASE (\E x : T \subseteq Lost \cup {x}) /\ failed' = failed + 1
  <2>1. t <= n + 1
    BY <1>3, <1>6 DEF t, n
  <2> QED BY <1>1, <1>4, <1>6, <2>1 DEF t
<1> QED BY <1>5, <1>6

LEMMA AttemptKeeps ==
  ASSUME ProcInv, NEW slot \in Slots, table[slot].state = "Unused", Attempt(slot),
         control = "shell", failed < MaxFailed, UNCHANGED <<machine, others>>
  PROVE  ProcInv'
<1> DEFINE l0 == [space |-> EmptySpace, allocator |-> frame_allocator,
                  frame |-> NoFrame, proc |-> table[slot], error |-> "None"]
           l == Launch(l0, init_elf)
           base == frame_allocator.bitmap
           S == ImagePages(init_elf, Len(init_elf.headers))
           root == l.proc.pml4_phys
<1>1. /\ init_elf' = init_elf /\ ram' = ram /\ others' = others
  BY DEF machine
<1>2. /\ frame_allocator' = l.allocator
      /\ table' = [table EXCEPT ![slot] = l.proc]
      /\ spaces' = IF root \in {NoFrame, table[slot].pml4_phys}
                     THEN Elsewhere(l) ELSE With(Elsewhere(l), root, l.space)
      /\ failed' = IF l.error = "None" THEN failed ELSE failed + 1
      /\ control' = CASE l.error = "None"  -> "entering"
                      [] l.error = "panic" -> "halted"
                      [] OTHER             -> "shell"
  BY DEF Attempt, Ends
<1>3. /\ TypeOK /\ FramesHaveOneOwner /\ RunningIsComplete /\ Sound(frame_allocator)
      /\ init_elf \in Images /\ ram \in MemorySizes
      /\ table \in [Slots -> ProcessControlBlock]
      /\ table[slot].pml4_phys \in {NoFrame} \cup DOMAIN spaces
      /\ \A r \in DOMAIN spaces : IsSpace(spaces[r]) /\ DOMAIN spaces[r].huge = {}
  BY DEF ProcInv, TypeOK
<1>4. Reserved \in SUBSET Frames /\ NoFrame \in Reserved /\ NoFrame \in Frames
  BY <1>3, ReservedIs
<1>5. Starting(l0, base)
  BY <1>3, <1>4 DEF Starting
<1>6. NotBegun(l0, l, base) \/ Launched(l0, l, base, S)
  <2> HIDE DEF l0, base
  <2> QED BY <1>3, <1>5, LaunchOK
<1>7. l0.proc = table[slot]
  OBVIOUS
<1> HIDE DEF l, l0
<1>8. /\ Reserved' = Reserved /\ SegmentPages' = SegmentPages /\ SegmentPages = S
  <2>1. SegmentPages = S
    BY <1>3, SegmentPagesAre
  <2> QED BY <1>1, <2>1 DEF Reserved, SegmentPages
<1> HIDE DEF S
<1>9. /\ OwnedBySpaces \cap others = {} /\ (OwnedBySpaces \cup others) \cap Reserved = {}
      /\ OwnedBySpaces \cup others \cup Reserved \subseteq base
      /\ DOMAIN spaces \subseteq OwnedBySpaces /\ base \in SUBSET Frames
  BY <1>3 DEF FramesHaveOneOwner, OwnedBySpaces, Owned, Sound, Allocator
<1>10. \A s \in Slots : table[s].state # "Running"
  BY <1>3 DEF RunningIsComplete
<1>11. /\ control' \in {"shell", "entering", "halted"}
       /\ control' = "entering" <=> l.error = "None"
  BY <1>2
<1>12. l.proc \in ProcessControlBlock /\ Sound(l.allocator) /\ l.allocator \in Allocator
  <2>1. l.proc \in ProcessControlBlock /\ Sound(l.allocator)
    BY <1>3, <1>6, <1>7 DEF NotBegun, Launched
  <2> QED BY <2>1 DEF Sound
<1>13. /\ table' \in [Slots -> ProcessControlBlock] /\ table'[slot] = l.proc
       /\ \A s \in Slots : s # slot => table'[s] = table[s]
  BY <1>2, <1>3, <1>12
<1>14. l.allocator.bitmap \in SUBSET Frames
  BY <1>12 DEF Allocator
<1>15. CASE NotBegun(l0, l, base)
  <2>1. l.error # "None" /\ l.proc = table[slot] /\ spaces' = spaces
    <3>1. l.error # "None" /\ l.proc = table[slot]
      BY <1>7, <1>15 DEF NotBegun
    <3>2. Elsewhere(l) = spaces
      BY <3>1 DEF Elsewhere
    <3> QED BY <1>2, <1>3, <3>1, <3>2
  <2>2. table' = table /\ failed' = failed + 1 /\ OwnedBySpaces' = OwnedBySpaces
    BY <1>2, <1>3, <2>1 DEF OwnedBySpaces
  <2>3. /\ base \subseteq l.allocator.bitmap
        /\ \E x : l.allocator.bitmap \subseteq base \cup {x}
    BY <1>15 DEF NotBegun
  <2> DEFINE T == l.allocator.bitmap \ (OwnedBySpaces \cup others \cup Reserved)
  <2>4. T \in SUBSET Frames /\ \E x : T \subseteq Lost \cup {x}
    BY <1>14, <2>3 DEF Lost
  <2>5. Cardinality(T) <= failed' /\ failed' \in 0 .. MaxFailed
    <3> HIDE DEF T
    <3> QED BY <2>2, <2>4, LossBound
  <2>6. TypeOK'
    BY <1>1, <1>2, <1>3, <1>11, <1>12, <2>1, <2>2, <2>5 DEF TypeOK
  <2>7. FramesHaveOneOwner'
    BY <1>1, <1>2, <1>3, <1>8, <1>9, <2>1, <2>2, <2>3, <2>5 DEF FramesHaveOneOwner
  <2>8. RunningIsComplete'
    <3>1. control' # "entering" /\ \A s \in Slots : table'[s].state # "Running"
      BY <1>10, <1>11, <2>1, <2>2
    <3> QED BY <3>1, Zenon DEF RunningIsComplete
  <2> QED BY <1>2, <1>3, <1>12, <2>1, <2>2, <2>6, <2>7, <2>8 DEF ProcInv
<1> DEFINE settled(r) == /\ NoFrame \notin Entries(spaces[r]) /\ Apart(r, spaces[r])
                         /\ Owned(r, spaces[r]) = Whole(r, spaces[r])
<1>16. \A r \in DOMAIN spaces : settled(r)
  <2> SUFFICES ASSUME NEW r \in DOMAIN spaces PROVE settled(r)
    OBVIOUS
  <2>1. NoFrame \notin Entries(spaces[r]) /\ Distinct(r, spaces[r])
    BY <1>3 DEF FramesHaveOneOwner
  <2> QED BY <2>1, OwnedIsWhole
<1> HIDE DEF settled
<1>17. \A s \in Slots : table'[s].pml4_phys \in {NoFrame, root} \cup DOMAIN spaces
  BY <1>13 DEF ProcInv
<1>18. ASSUME Launched(l0, l, base, S)
       PROVE  root \notin base /\ root \in Frames /\ root # NoFrame
              /\ root # table[slot].pml4_phys /\ root \notin DOMAIN spaces
  <2>1. root \notin base /\ root \in Frames
    BY <1>12, <1>18 DEF Launched, ProcessControlBlock
  <2> QED BY <1>3, <1>4, <1>9, <2>1
<1>19. CASE Launched(l0, l, base, S) /\ l.error # "None"
  <2>1. Building(l, base) /\ Accounted(l, base) /\ IsLoader(l)
    BY <1>19 DEF Launched, Building, Accounted
  <2>2. root # NoFrame /\ root \notin DOMAIN spaces /\ root \in Frames
    BY <1>18, <1>19
  <2>3. spaces' = With(spaces, root, l.space)
    BY <1>2, <1>18, <1>19 DEF Elsewhere
  <2> DEFINE space == l.space
             H == Owned(root, space)
  <2>4. /\ H \cap base = {} /\ Distinct(root, space) /\ root \in H
        /\ base \cup H \subseteq l.allocator.bitmap
        /\ \E x : l.allocator.bitmap \subseteq base \cup H \cup {x}
        /\ NoFrame \notin Entries(space)
    <3>1. /\ Whole(root, space) \cap base = {} /\ Apart(root, space)
          /\ base \cup Whole(root, space) \subseteq l.allocator.bitmap
          /\ \E x : l.allocator.bitmap \subseteq base \cup Whole(root, space) \cup {x}
      BY <2>1 DEF Accounted, Held
    <3>2. NoFrame \notin Whole(root, space)
      BY <1>4, <1>9, <3>1
    <3>3. NoFrame \notin Entries(space)
      BY <3>2 DEF Whole
    <3>4. H = Whole(root, space) /\ Distinct(root, space)
      BY <3>1, <3>3, OwnedIsWhole
    <3>5. root \in H
      BY DEF Owned
    <3> HIDE DEF H
    <3> QED BY <3>1, <3>3, <3>4, <3>5
  <2> HIDE DEF root, space
  <2>5. /\ DOMAIN spaces' = DOMAIN spaces \cup {root} /\ spaces'[root] = space
        /\ \A r \in DOMAIN spaces : spaces'[r] = spaces[r]
        /\ OwnedBySpaces' = OwnedBySpaces \cup H
    <3>1. spaces' = With(spaces, root, space)
      BY <2>3 DEF space
    <3> QED BY <2>2, <3>1, SpaceAdded
  <2> DEFINE T == l.allocator.bitmap \ (OwnedBySpaces' \cup others \cup Reserved)
  <2>6. Cardinality(T) <= failed' /\ failed' \in 0 .. MaxFailed
    <3>1. T \in SUBSET Frames
      BY <1>14
    <3>2. (\E x : T \subseteq Lost \cup {x}) /\ failed' = failed + 1
      BY <1>2, <1>19, <2>4, <2>5 DEF Lost
    <3> HIDE DEF T
    <3> QED BY <3>1, <3>2, LossBound
  <2>7. TypeOK'
    <3>1. \A s \in Range(spaces') : WellFormed(s)
      <4>1. WellFormed(space)
        BY <2>1 DEF space, IsLoader
      <4>2. \A r \in DOMAIN spaces : WellFormed(spaces[r])
        BY <1>3 DEF TypeOK, Range
      <4> QED BY <2>5, <4>1, <4>2 DEF Range
    <3>2. DOMAIN spaces' \subseteq Frames
      BY <1>3, <2>2, <2>5 DEF TypeOK
    <3>3. frame_allocator' \in Allocator /\ others' \subseteq Frames
      BY <1>1, <1>2, <1>3, <1>12 DEF TypeOK
    <3> QED BY <1>1, <1>3, <1>11, <1>13, <2>6, <3>1, <3>2, <3>3 DEF TypeOK
  <2>8. FramesHaveOneOwner'
    <3>1. ASSUME NEW r \in DOMAIN spaces'
          PROVE  /\ Distinct(r, spaces'[r]) /\ NoFrame \notin Entries(spaces'[r])
                 /\ \A q \in DOMAIN spaces' \ {r} :
                      Owned(r, spaces'[r]) \cap Owned(q, spaces'[q]) = {}
      <4>1. \A q \in DOMAIN spaces : Owned(q, spaces[q]) \subseteq base
        BY <1>9 DEF OwnedBySpaces
      <4>2. \A q \in DOMAIN spaces : Owned(q, spaces[q]) \cap H = {}
        BY <2>4, <4>1
      <4>3. CASE r = root
        BY <2>2, <2>4, <2>5, <4>2, <4>3
      <4>4. CASE r # root
        <5>1. r \in DOMAIN spaces /\ spaces'[r] = spaces[r]
          BY <2>5, <4>4
        <5>2. \A q \in DOMAIN spaces \ {r} :
                Owned(r, spaces[r]) \cap Owned(q, spaces[q]) = {}
          BY <1>3, <5>1 DEF FramesHaveOneOwner
        <5>3. Distinct(r, spaces[r]) /\ NoFrame \notin Entries(spaces[r])
          BY <1>3, <5>1 DEF FramesHaveOneOwner
        <5> QED BY <2>5, <4>2, <5>1, <5>2, <5>3
      <4> QED BY <4>3, <4>4
    <3>2. /\ OwnedBySpaces' \cap others' = {}
          /\ (OwnedBySpaces' \cup others') \cap Reserved' = {}
          /\ OwnedBySpaces' \cup others' \cup Reserved' \subseteq frame_allocator'.bitmap
      BY <1>1, <1>2, <1>8, <1>9, <1>4, <2>4, <2>5
    <3>3. Cardinality(frame_allocator'.bitmap \ (OwnedBySpaces' \cup others' \cup Reserved'))
            <= failed'
      BY <1>1, <1>2, <1>8, <2>6
    <3> QED BY <3>1, <3>2, <3>3 DEF FramesHaveOneOwner
  <2>9. RunningIsComplete'
    <3>1. table'[slot].state = "Unused"
      BY <1>7, <1>13, <1>19 DEF Launched
    <3>2. control' # "entering" /\ \A s \in Slots : table'[s].state # "Running"
      BY <1>10, <1>11, <1>13, <1>19, <3>1
    <3> QED BY <3>2, Zenon DEF RunningIsComplete
  <2>10. \A s \in Slots : table'[s].pml4_phys \in {NoFrame} \cup DOMAIN spaces'
    BY <1>17, <2>5
  <2>11. \A r \in DOMAIN spaces' : IsSpace(spaces'[r]) /\ DOMAIN spaces'[r].huge = {}
    <3>1. IsSpace(space) /\ DOMAIN space.huge = {}
      BY <2>1 DEF space, IsLoader
    <3> QED BY <1>3, <2>5, <3>1
  <2> QED BY <1>2, <1>12, <2>7, <2>8, <2>9, <2>10, <2>11 DEF ProcInv
<1>20. CASE Launched(l0, l, base, S) /\ l.error = "None"
  <2> DEFINE f == ContextFrame(l.proc)
  <2>1. PICK k : Entered(k, l, base, S)
    BY <1>20 DEF Launched
  <2> DEFINE space == k.space
             H == Whole(root, space)
             was(r) == IF r = root THEN space ELSE spaces[r]
  <2>2. /\ IsSpace(space) /\ WellFormed(space) /\ DOMAIN space.huge = {}
        /\ Apart(root, space) /\ H \cap base = {}
        /\ l.allocator.bitmap = base \cup H /\ root \in H /\ NoFrame \notin H
        /\ Complete(l.proc, space.pages, S)
    <3>1. Building(k, base) /\ k.error = "None" /\ k.proc.pml4_phys = root
      BY <2>1 DEF Entered
    <3>2. Accounted(k, base) /\ IsLoader(k) /\ k.allocator.bitmap = base \cup Held(k)
      BY <3>1 DEF Building, Accounted
    <3>3. Held(k) = H /\ Held(k) \cap base = {} /\ Apart(root, space)
      BY <3>1, <3>2 DEF Accounted, Held
    <3>4. NoFrame \notin H
      BY <1>4, <1>9, <3>3
    <3>5. root \in H
      BY DEF Whole
    <3> HIDE DEF H
    <3> QED BY <2>1, <3>2, <3>3, <3>4, <3>5 DEF IsLoader, Entered
  <2>3. root # NoFrame /\ root \notin DOMAIN spaces /\ root \in Frames
    BY <1>18, <1>20
  <2>4. /\ spaces' = With(Elsewhere(l), root, l.space)
        /\ Elsewhere(l) = [r \in DOMAIN spaces |-> Overwritten(spaces[r], r, f)]
        /\ l.space = Overwritten(space, root, f)
    <3>1. l.space = Overwritten(space, root, f)
      BY <2>1 DEF Entered
    <3> QED BY <1>2, <1>18, <1>20, <3>1 DEF Elsewhere
  <2> HIDE DEF space, f, root
  <2>5. /\ DOMAIN spaces' = DOMAIN spaces \cup {root}
        /\ \A r \in DOMAIN spaces' : spaces'[r] = Overwritten(was(r), r, f)
    <3> DEFINE E == Elsewhere(l)
               ls == l.space
    <3>1. DOMAIN E = DOMAIN spaces /\ \A r \in DOMAIN spaces : E[r] = Overwritten(spaces[r], r, f)
      BY <2>4
    <3> HIDE DEF E, ls
    <3>2. spaces' = With(E, root, ls) /\ ls = Overwritten(space, root, f)
      BY <2>4 DEF E, ls
    <3>3. /\ DOMAIN spaces' = DOMAIN E \cup {root} /\ spaces'[root] = ls
          /\ \A r \in DOMAIN E : r # root => spaces'[r] = E[r]
      BY <3>2 DEF With
    <3> QED BY <2>3, <3>1, <3>2, <3>3
  <2>6. ASSUME NEW r \in DOMAIN spaces'
        PROVE  /\ OverwrittenOK(was(r), r, f, spaces'[r])
               /\ r \in DOMAIN spaces => Whole(r, was(r)) = Owned(r, spaces[r])
               /\ r = root => Whole(r, was(r)) = H
    <3>1. CASE r = root
      <4>1. was(r) = space
        BY <3>1
      <4>2. OverwrittenOK(space, root, f, Overwritten(space, root, f))
        BY <2>2, OverwrittenIs
      <4> QED BY <2>3, <2>5, <3>1, <4>1, <4>2
    <3>2. CASE r # root
      <4>1. was(r) = spaces[r] /\ r \in DOMAIN spaces
        BY <2>5, <3>2
      <4>2. /\ NoFrame \notin Entries(spaces[r]) /\ Apart(r, spaces[r])
            /\ Owned(r, spaces[r]) = Whole(r, spaces[r])
        BY <1>16, <4>1 DEF settled
      <4>3. NoFrame \notin Whole(r, spaces[r])
        BY <1>4, <1>9, <4>1, <4>2 DEF OwnedBySpaces
      <4>4. IsSpace(spaces[r]) /\ WellFormed(spaces[r]) /\ DOMAIN spaces[r].huge = {}
        BY <1>3, <4>1 DEF TypeOK, Range
      <4>5. OverwrittenOK(spaces[r], r, f, Overwritten(spaces[r], r, f))
        BY <4>2, <4>3, <4>4, OverwrittenIs
      <4> QED BY <2>5, <3>2, <4>1, <4>2, <4>5
    <3> QED BY <3>1, <3>2
  <2> HIDE DEF was, H
  <2>7. \A r \in DOMAIN spaces' : /\ Owned(r, spaces'[r]) \subseteq Whole(r, was(r))
                                  /\ Distinct(r, spaces'[r]) /\ WellFormed(spaces'[r])
                                  /\ IsSpace(spaces'[r]) /\ DOMAIN spaces'[r].huge = {}
    BY <2>6 DEF OverwrittenOK
  <2>8. \A r \in DOMAIN spaces' : \/ r = root /\ Owned(r, spaces'[r]) \subseteq H
                                  \/ /\ r \in DOMAIN spaces
                                     /\ Owned(r, spaces'[r]) \subseteq Owned(r, spaces[r])
    BY <2>5, <2>6, <2>7
  <2>9. OwnedBySpaces' \subseteq OwnedBySpaces \cup H
    <3>1. \A x \in OwnedBySpaces' : \E r \in DOMAIN spaces' : x \in Owned(r, spaces'[r])
      BY DEF OwnedBySpaces
    <3>2. \A r \in DOMAIN spaces : Owned(r, spaces[r]) \subseteq OwnedBySpaces
      BY DEF OwnedBySpaces
    <3> QED BY <2>8, <3>1, <3>2
  <2>10. TypeOK'
    <3>1. \A s \in Range(spaces') : WellFormed(s)
      BY <2>7 DEF Range
    <3>2. DOMAIN spaces' \subseteq Frames
      BY <1>3, <2>3, <2>5 DEF TypeOK
    <3>3. frame_allocator' \in Allocator /\ others' \subseteq Frames
      BY <1>1, <1>2, <1>3, <1>12 DEF TypeOK
    <3>4. failed' \in 0 .. MaxFailed
      BY <1>2, <1>3, <1>20 DEF TypeOK
    <3> QED BY <1>1, <1>3, <1>11, <1>13, <3>1, <3>2, <3>3, <3>4 DEF TypeOK
  <2>11. control' = "entering"
    BY <1>11, <1>20
  <2>12. FramesHaveOneOwner'
    <3>1. \A q \in DOMAIN spaces : Owned(q, spaces[q]) \cap H = {}
      BY <1>9, <2>2 DEF OwnedBySpaces
    <3>2. ASSUME NEW r \in DOMAIN spaces', NEW q \in DOMAIN spaces' \ {r}
          PROVE  Owned(r, spaces'[r]) \cap Owned(q, spaces'[q]) = {}
      <4>1. r \in DOMAIN spaces /\ q \in DOMAIN spaces =>
              Owned(r, spaces[r]) \cap Owned(q, spaces[q]) = {}
        BY <1>3 DEF FramesHaveOneOwner
      <4>2. CASE r = root
        BY <2>3, <2>8, <3>1, <4>2
      <4>3. CASE q = root
        BY <2>3, <2>8, <3>1, <4>3
      <4>4. CASE r # root /\ q # root
        BY <2>8, <4>1, <4>4
      <4> QED BY <4>2, <4>3, <4>4
    <3>3. /\ OwnedBySpaces' \cap others' = {}
          /\ (OwnedBySpaces' \cup others') \cap Reserved' = {}
          /\ OwnedBySpaces' \cup others' \cup Reserved' \subseteq frame_allocator'.bitmap
      BY <1>1, <1>2, <1>8, <1>9, <2>2, <2>9
    <3> QED BY <2>7, <2>11, <3>2, <3>3 DEF FramesHaveOneOwner
  <2>13. RunningIsComplete'
    <3>1. l.proc.state = "Running"
      BY <1>20 DEF Launched
    <3>2. {s \in Slots : table'[s].state = "Running"} = {slot}
      BY <1>10, <1>13, <3>1
    <3>3. Entering' = slot
      BY <3>2, EnteringOnly DEF Entering
    <3> DEFINE proc == l.proc
               now == spaces'[root]
               spoilt == SpoiltIn(space, root, f)
    <3>4. table'[slot] = proc /\ proc.pml4_phys = root
      BY <1>13 DEF root
    <3>5. OverwrittenOK(space, root, f, now) /\ Complete(proc, space.pages, S)
      <4>1. root \in DOMAIN spaces' /\ was(root) = space
        BY <2>5 DEF was
      <4> QED BY <2>2, <2>6, <4>1
    <3>6. UNION {Spoilt(n) : n \in TablesIn(now, root, f)} = spoilt
      BY <3>5 DEF OverwrittenOK, SpoiltIn
    <3> HIDE DEF spoilt, now, proc
    <3>7. /\ DOMAIN now.pages \ spoilt = DOMAIN space.pages \ spoilt
          /\ \A p \in DOMAIN now.pages \cap spoilt :
               now.pages[p] = [frame |-> NoFrame, flags |-> KernelRW]
          /\ \A p \in DOMAIN now.pages \ spoilt : now.pages[p] = space.pages[p]
      BY <3>5 DEF OverwrittenOK, spoilt
    <3>8. /\ DOMAIN now.pages \ spoilt =
               (S \cup {UserStackPage, proc.kernel_stack_phys}) \ spoilt
          /\ UserStackPage \notin spoilt =>
               now.pages[UserStackPage] = [frame |-> proc.user_stack_phys, flags |-> UserRW]
          /\ proc.kernel_stack_phys \notin spoilt =>
               now.pages[proc.kernel_stack_phys] =
                 [frame |-> proc.kernel_stack_phys, flags |-> KernelRW]
          /\ \A p \in S \ spoilt : now.pages[p].flags \in {UserRO, UserRW}
      BY <3>5, <3>7 DEF Complete
    <3>9. f = ContextFrame(proc)
      BY DEF f, proc
    <3> QED BY <1>8, <2>11, <3>2, <3>3, <3>4, <3>6, <3>7, <3>8, <3>9
            DEF RunningIsComplete, now
  <2>14. \A s \in Slots : table'[s].pml4_phys \in {NoFrame} \cup DOMAIN spaces'
    BY <1>17, <2>5 DEF root
  <2> QED BY <1>2, <1>12, <2>7, <2>10, <2>12, <2>13, <2>14 DEF ProcInv
<1> QED BY <1>6, <1>15, <1>19, <1>20

LEMMA CmdRunKeeps ==
  ASSUME ProcInv, CmdRun
  PROVE  ProcInv'
<1>1. CASE parse_elf(init_elf) = {} \/ Unused = {}
  <2>1. /\ failed < MaxFailed /\ failed' = failed + 1 /\ init_elf' = init_elf /\ ram' = ram
        /\ control # "entering"
        /\ others' = others /\ table' = table /\ spaces' = spaces
        /\ frame_allocator' = frame_allocator /\ control' = control
    BY <1>1 DEF CmdRun, machine
  <2>2. /\ Reserved' = Reserved /\ SegmentPages' = SegmentPages
        /\ OwnedBySpaces' = OwnedBySpaces
    BY <2>1 DEF Reserved, SegmentPages, OwnedBySpaces
  <2>3. Lost \in SUBSET Frames
    BY DEF ProcInv, TypeOK, Lost, Allocator
  <2>4. Cardinality(Lost) <= failed' /\ failed' \in 0 .. MaxFailed
    BY <2>1, <2>3, LossBound
  <2>5. TypeOK'
    BY <2>1, <2>4 DEF ProcInv, TypeOK
  <2>6. FramesHaveOneOwner'
    BY <2>1, <2>2, <2>4 DEF ProcInv, FramesHaveOneOwner, Lost
  <2>7. RunningIsComplete'
    BY <2>1, <2>2, RunningKept DEF ProcInv
  <2> QED BY <2>1, <2>5, <2>6, <2>7 DEF ProcInv
<1>2. CASE ~(parse_elf(init_elf) = {} \/ Unused = {})
  <2>1. /\ Attempt(Min(Unused)) /\ control = "shell" /\ failed < MaxFailed
        /\ UNCHANGED <<machine, others>>
    BY <1>2 DEF CmdRun
  <2>2. Min(Unused) \in Slots /\ table[Min(Unused)].state = "Unused"
    BY <1>2, SlotChosen
  <2> QED BY <2>1, <2>2, AttemptKeeps
<1> QED BY <1>1, <1>2

LEMMA ProcInductive == ProcInv /\ [Next]_vars => ProcInv'
<1> SUFFICES ASSUME ProcInv, [Next]_vars PROVE ProcInv'
  OBVIOUS
<1>1. CASE CmdRun
  BY <1>1, CmdRunKeeps
<1>2. CASE TripleFault \/ PowerCycle
  BY <1>2, RebootKeeps DEF TripleFault, PowerCycle
<1>3. CASE TakeElsewhere \/ \E f \in others : GiveElsewhere(f)
  BY <1>3, ElsewhereKeeps
<1>4. CASE UNCHANGED vars
  <2>1. /\ init_elf' = init_elf /\ ram' = ram /\ failed' = failed
        /\ others' = others /\ table' = table /\ spaces' = spaces
        /\ frame_allocator' = frame_allocator /\ control' = control
    BY <1>4 DEF vars, machine
  <2>2. /\ Reserved' = Reserved /\ SegmentPages' = SegmentPages
        /\ OwnedBySpaces' = OwnedBySpaces
    BY <2>1 DEF Reserved, SegmentPages, OwnedBySpaces
  <2>3. TypeOK'
    BY <2>1 DEF ProcInv, TypeOK
  <2>4. FramesHaveOneOwner'
    BY <2>1, <2>2 DEF ProcInv, FramesHaveOneOwner
  <2>5. RunningIsComplete'
    BY <2>1, <2>2, RunningKept DEF ProcInv
  <2> QED BY <2>1, <2>3, <2>4, <2>5 DEF ProcInv
<1> QED BY <1>1, <1>2, <1>3, <1>4 DEF Next

LEMMA SpecProcInv == Spec => []ProcInv
BY ProcInit, ProcInductive, PTL DEF Spec

-----------------------------------------------------------------------------
(* Slots, address spaces and the allocator keep their types over launches  *)
(* that fail at any step, resets and the rest of the kernel's allocations. *)
THEOREM ProcessTypeCorrect == Spec => []TypeOK
<1>1. ProcInv => TypeOK
  BY DEF ProcInv
<1> QED BY <1>1, SpecProcInv, PTL

(* launch_init_process never maps a frame twice, into two address spaces,  *)
(* or one that the rest of the kernel holds; what a launch took stays      *)
(* taken, also after it failed; and k failed launches lose at most k       *)
(* frames that no table or page names (process/mod.rs:154).  All that the  *)
(* initial context does to page tables (pcb.rs:87) is to lose entries and  *)
(* to make some that name frame 0, on the way to the reset.                *)
THEOREM LaunchesOwnTheirFrames == Spec => []FramesHaveOneOwner
<1>1. ProcInv => FramesHaveOneOwner
  BY DEF ProcInv
<1> QED BY <1>1, SpecProcInv, PTL

(* The process that enter_user_mode finds (process/mod.rs:249) is the only *)
(* one, and has every page of its segments and both stacks mapped, save    *)
(* those whose entries its own initial context has gone over (pcb.rs:87).  *)
THEOREM EnteredIsComplete == Spec => []RunningIsComplete
<1>1. ProcInv => RunningIsComplete
  BY DEF ProcInv
<1> QED BY <1>1, SpecProcInv, PTL

=============================================================================
