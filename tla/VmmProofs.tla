----------------------------- MODULE VmmProofs ------------------------------
(***************************************************************************)
(* Proofs about the virtual memory manager for every fan-out, every number *)
(* of frames and every sequence of calls, bulk calls that fail half way    *)
(* included.                                                               *)
(***************************************************************************)
EXTENDS Vmm, MemoryProofs

-----------------------------------------------------------------------------
(***************************************************************************)
(* The inductive invariant, for a manager v, an allocator a and the frames *)
(* o held elsewhere, so that it can be stated between two pages of a bulk  *)
(* call.                                                                   *)
(***************************************************************************)

(* The tables are a tree, and the huge pages are the boot code's, with     *)
(* more flags at most.                                                     *)
TreeOK(v) ==
  /\ DOMAIN v = {"page_table", "mapped_regions", "stats", "validation_enabled"}
  /\ v.validation_enabled \in BOOLEAN
  /\ IsSpace(v.page_table) /\ WellFormed(v.page_table)
  /\ Broader(BootSpace.huge, v.page_table.huge, FlagBits)
  /\ IsFiniteSet(DOMAIN v.page_table.pages)

(* The tables with the flags that the huge pages had at first. *)
Unwidened(s) == [tables |-> s.tables, huge |-> BootSpace.huge, pages |-> s.pages]

(* The list holds the regions of the tables and nothing else. *)
ListOK(v) ==
  /\ v.mapped_regions \in Seq(MappedRegion)
  /\ Range(v.mapped_regions) = Regions(Unwidened(v.page_table))

CountOK(v) == v.stats \in VmmStatistics /\ validate(v)

(* Each taken frame has one owner. *)
FramesOK(v, a, o) ==
  /\ Sound(a) /\ o \subseteq Frames /\ o \cap StandardFrames = {}
  /\ IsInjective(v.page_table.tables)
  /\ Range(v.page_table.tables) \cap o = {}
  /\ a.bitmap = StandardFrames \cup Range(v.page_table.tables) \cup o

Good(v, a, o) == TreeOK(v) /\ ListOK(v) /\ CountOK(v) /\ FramesOK(v, a, o)

VmmInv ==
  /\ initialized \in BOOLEAN
  /\ initialized => Good(vmm, frame_allocator, others)
  /\ ~initialized => /\ vmm = TakenOver(EmptySpace) /\ others = {}
                     /\ Sound(frame_allocator)
                     /\ frame_allocator.bitmap = StandardFrames

-----------------------------------------------------------------------------
(* The boot tables stand in frames that the kernel reserves. *)
LEMMA BootTables ==
  /\ Range(BootSpace.tables) = {2, 3} /\ {2, 3} \subseteq StandardFrames
  /\ IsInjective(BootSpace.tables)
<1>1. <<3, 0>> # <<2, 0>>
  OBVIOUS
<1> QED BY <1>1, BootSpaceFields, VmmAssumption DEF Range, IsInjective

LEMMA BootWellFormed ==
  WellFormed(BootSpace) /\ IsFiniteSet(DOMAIN BootSpace.huge)
<1>1. IsFiniteSet(DOMAIN BootSpace.huge)
  <2>1. IsFiniteSet({1})
    BY FS_Singleton
  <2>2. 0 \in Int /\ BootHugePages - 1 \in Int
    BY PageTablesAssumption
  <2>3. IsFiniteSet(0 .. BootHugePages - 1)
    BY <2>2, FS_Interval
  <2>4. IsFiniteSet({1} \X (0 .. BootHugePages - 1))
    BY <2>1, <2>3, FS_Product
  <2> QED BY <2>4, BootSpaceFields
<1>2. DOMAIN BootSpace.huge \subseteq Node /\ Range(BootSpace.huge) \subseteq Leaf
  BY BootHuge DEF Range
<1>3. DOMAIN BootSpace.tables \subseteq Node
  <2>1. 0 \in Page
    <3>1. Fanout * Span(3) \in Nat \ {0}
      BY SpanType, PageTablesAssumption
    <3> QED BY <3>1 DEF Page
  <2>2. 0 * Span(2) = 0 /\ 0 * Span(3) = 0
    BY SpanType
  <2>3. <<3, 0>> \in Node
    BY <2>1, <2>2 DEF Node
  <2>4. <<2, 0>> \in Node
    BY <2>1, <2>2 DEF Node
  <2> QED BY <2>3, <2>4, BootSpaceFields
<1>4. Range(BootSpace.tables) \subseteq Frames
  BY BootTables DEF StandardFrames, FramesTouched
<1>5. DOMAIN BootSpace.tables \cap DOMAIN BootSpace.huge = {}
  BY BootSpaceFields, BootHuge
<1>6. DOMAIN BootSpace.pages = {} /\ Range(BootSpace.pages) = {}
  BY BootSpaceFields DEF Range
<1>7. ASSUME NEW n \in DOMAIN BootSpace.tables \cup DOMAIN BootSpace.huge
      PROVE  Over(n) \subseteq DOMAIN BootSpace.tables
  <2>1. /\ n[1] \in {1, 2, 3} /\ n[2] * Span(n[1]) \in Nat
        /\ n[2] * Span(n[1]) < Span(2)
    <3>1. CASE n \in DOMAIN BootSpace.huge
      <4> DEFINE i == n[2]
      <4>1. n[1] = 1 /\ i \in Nat /\ i + 1 <= Fanout /\ Fanout \in Nat \ {0, 1}
        <5>1. n[1] = 1 /\ n[2] \in 0 .. BootHugePages - 1
          BY <3>1, BootHuge
        <5> QED BY <5>1, PageTablesAssumption
      <4>2. Span(1) = Fanout /\ Span(2) = Fanout * Fanout
        BY SpanType
      <4> HIDE DEF i
      <4>3. i * Fanout \in Nat /\ i * Fanout < Fanout * Fanout
        BY <4>1
      <4> QED BY <4>1, <4>2, <4>3 DEF i
    <3>2. CASE n \in DOMAIN BootSpace.tables
      <4>1. n = <<3, 0>> \/ n = <<2, 0>>
        BY <3>2, BootSpaceFields
      <4>2. 0 * Span(2) = 0 /\ 0 * Span(3) = 0 /\ 0 < Span(2)
        BY SpanType
      <4> QED BY <4>1, <4>2
    <3> QED BY <1>7, <3>1, <3>2
  <2> DEFINE p == n[2] * Span(n[1])
  <2>2. NodeAbove(2, p) = <<2, 0>> /\ NodeAbove(3, p) = <<3, 0>>
    <3> HIDE DEF p
    <3>1. p \in Nat /\ p < Span(2) /\ Span(2) \in Nat \ {0}
      BY <2>1, SpanType DEF p
    <3>2. p < Span(3) /\ Span(3) \in Nat \ {0}
      <4> DEFINE q == Fanout * Fanout
      <4>1. Span(2) = q /\ Span(3) = Fanout * Fanout * Fanout /\ Span(3) \in Nat \ {0}
            /\ Fanout \in Nat \ {0, 1} /\ q \in Nat
        BY SpanType, PageTablesAssumption
      <4>2. Span(3) = q * Fanout
        BY <4>1
      <4> HIDE DEF q
      <4>3. q <= q * Fanout
        BY <4>1
      <4> QED BY <3>1, <4>1, <4>2, <4>3
    <3>3. p \div Span(2) = 0
      BY <3>1, QuotientOfSpan
    <3>4. p \div Span(3) = 0
      BY <3>1, <3>2, QuotientOfSpan
    <3> QED BY <3>3, <3>4 DEF NodeAbove
  <2>3. \A k \in n[1] + 1 .. 3 : k = 2 \/ k = 3
    BY <2>1
  <2> HIDE DEF p
  <2>4. Over(n) = {NodeAbove(k, p) : k \in n[1] + 1 .. 3}
    BY DEF Over, p
  <2> QED BY <2>2, <2>3, <2>4, BootSpaceFields
<1> QED BY <1>1, <1>2, <1>3, <1>4, <1>5, <1>6, <1>7 DEF WellFormed

(* Flags are only gained. *)
LEMMA BroaderTrans ==
  ASSUME NEW g, NEW h, NEW i, NEW b, NEW c, NEW d, Broader(g, h, b), Broader(h, i, c),
         b \subseteq d, c \subseteq d
  PROVE  Broader(g, i, d)
<1>1. DOMAIN i = DOMAIN g
  BY DEF Broader
<1>2. ASSUME NEW n \in DOMAIN g
      PROVE  /\ i[n] \in Leaf /\ i[n].frame = g[n].frame /\ g[n].flags \subseteq i[n].flags
             /\ i[n].flags \subseteq g[n].flags \cup (d \cap ParentBits)
  BY DEF Broader
<1> QED BY <1>1, <1>2 DEF Broader

LEMMA BroaderRefl ==
  ASSUME NEW g, NEW flags, Range(g) \subseteq Leaf
  PROVE  Broader(g, g, flags)
<1>1. \A n \in DOMAIN g : g[n] \in Leaf
  BY DEF Range
<1> QED BY <1>1 DEF Broader

LEMMA UnwidenedOK ==
  ASSUME NEW s, WellFormed(s), DOMAIN s.huge = DOMAIN BootSpace.huge
  PROVE  /\ IsSpace(Unwidened(s)) /\ WellFormed(Unwidened(s))
         /\ Unwidened(s).huge = BootSpace.huge
         /\ Unwidened(s).tables = s.tables /\ Unwidened(s).pages = s.pages
<1>1. /\ IsSpace(Unwidened(s)) /\ Unwidened(s).huge = BootSpace.huge
      /\ Unwidened(s).tables = s.tables /\ Unwidened(s).pages = s.pages
  BY DEF Unwidened, IsSpace
<1> HIDE DEF Unwidened
<1> QED BY <1>1, BootWellFormed DEF WellFormed

(* The pages that the huge pages count for. *)
HugeCount(s) == Span(1) * Cardinality(HugeAt(s, 1)) + Span(2) * Cardinality(HugeAt(s, 2))

LEMMA HugeCountType ==
  ASSUME NEW s, DOMAIN s.huge = DOMAIN BootSpace.huge
  PROVE  /\ HugeCount(s) = HugeCount(BootSpace) /\ HugeCount(s) \in Nat
         /\ IsFiniteSet(DOMAIN s.pages) =>
              count_mapped_pages(s) = Cardinality(DOMAIN s.pages) + HugeCount(BootSpace)
<1>1. \A k : HugeAt(s, k) = HugeAt(BootSpace, k)
  BY DEF HugeAt
<1>2. ASSUME NEW k \in {1, 2} PROVE Cardinality(HugeAt(s, k)) \in Nat
  <2>1. HugeAt(s, k) \subseteq DOMAIN BootSpace.huge
    BY DEF HugeAt
  <2>2. IsFiniteSet(HugeAt(s, k))
    BY <2>1, BootWellFormed, FS_Subset
  <2> QED BY <2>2, FS_CardinalityType
<1>3. HugeCount(s) \in Nat
  <2>1. Cardinality(HugeAt(s, 1)) \in Nat /\ Cardinality(HugeAt(s, 2)) \in Nat
    BY <1>2
  <2>2. Span(1) \in Nat /\ Span(2) \in Nat
    BY SpanType
  <2> QED BY <2>1, <2>2 DEF HugeCount
<1>4. HugeCount(s) = HugeCount(BootSpace)
  BY <1>1 DEF HugeCount
<1>5. ASSUME IsFiniteSet(DOMAIN s.pages)
      PROVE  count_mapped_pages(s) = Cardinality(DOMAIN s.pages) + HugeCount(s)
  <2>1. Cardinality(DOMAIN s.pages) \in Nat
    BY <1>5, FS_CardinalityType
  <2>2. Cardinality(HugeAt(s, 1)) \in Nat /\ Cardinality(HugeAt(s, 2)) \in Nat
    BY <1>2
  <2>3. Span(1) \in Nat /\ Span(2) \in Nat
    BY SpanType
  <2>4. Span(1) * Cardinality(HugeAt(s, 1)) \in Nat /\ Span(2) * Cardinality(HugeAt(s, 2)) \in Nat
    BY <2>2, <2>3
  <2> QED BY <2>1, <2>4 DEF count_mapped_pages, HugeCount
<1> QED BY <1>3, <1>4, <1>5

-----------------------------------------------------------------------------
(* The region of the i-th huge page. *)
BootRegion(i) == Region(i * Span(1), BootSpace.huge[<<1, i>>], Span(1))

LEMMA BootRegionFields ==
  ASSUME NEW i \in 0 .. BootHugePages - 1
  PROVE  /\ BootRegion(i) \in MappedRegion
         /\ BootRegion(i).virtual_addr = i * Fanout
<1>1. <<1, i>> \in DOMAIN BootSpace.huge
  BY BootSpaceFields
<1>2. /\ i * Span(1) \in Page /\ BootSpace.huge[<<1, i>>] \in Leaf
  BY <1>1, BootHuge
<1>3. Span(1) \in Nat /\ Span(1) = Fanout
  BY SpanType
<1>4. BootSpace.huge[<<1, i>>].frame \in Nat /\ BootSpace.huge[<<1, i>>].flags \in Flags
  BY <1>2 DEF Leaf
<1> QED BY <1>2, <1>3, <1>4 DEF BootRegion, Region, MappedRegion

(* They lie in the order of their numbers. *)
LEMMA BootRegionOrder ==
  ASSUME NEW i \in 0 .. BootHugePages - 1, NEW j \in 0 .. BootHugePages - 1
  PROVE  BootRegion(i).virtual_addr < BootRegion(j).virtual_addr <=> i < j
<1>1. i \in Nat /\ j \in Nat /\ Fanout \in Nat \ {0}
  BY PageTablesAssumption
<1>2. i * Fanout < j * Fanout <=> i < j
  <2>1. ASSUME i < j PROVE i * Fanout < j * Fanout
    <3>1. PICK d \in Nat : j = i + 1 + d
      <4>1. j - i - 1 \in Nat /\ j = i + 1 + (j - i - 1)
        BY <1>1, <2>1
      <4> QED BY <4>1
    <3>2. j * Fanout = i * Fanout + Fanout + d * Fanout
      BY <1>1, <3>1
    <3>3. d * Fanout \in Nat /\ i * Fanout \in Nat
      BY <1>1
    <3> QED BY <1>1, <3>2, <3>3
  <2>2. ASSUME j <= i PROVE j * Fanout <= i * Fanout
    <3>1. PICK d \in Nat : i = j + d
      <4>1. i - j \in Nat /\ i = j + (i - j)
        BY <1>1, <2>2
      <4> QED BY <4>1
    <3>2. i * Fanout = j * Fanout + d * Fanout
      BY <1>1, <3>1
    <3>3. d * Fanout \in Nat /\ j * Fanout \in Nat
      BY <1>1
    <3> QED BY <1>1, <3>2, <3>3
  <2>3. i * Fanout \in Nat /\ j * Fanout \in Nat
    BY <1>1
  <2>4. i < j \/ j <= i
    BY <1>1
  <2> QED BY <1>1, <2>1, <2>2, <2>3, <2>4
<1> QED BY <1>2, BootRegionFields

LEMMA BootRegions ==
  Regions(BootSpace) = {BootRegion(i) : i \in 0 .. BootHugePages - 1}
<1>1. ASSUME NEW n \in DOMAIN BootSpace.huge
      PROVE  /\ n[2] \in 0 .. BootHugePages - 1
             /\ Region(n[2] * Span(n[1]), BootSpace.huge[n], Span(n[1])) = BootRegion(n[2])
  <2>1. n[1] = 1 /\ n[2] \in 0 .. BootHugePages - 1 /\ n = <<1, n[2]>>
    BY BootHuge
  <2> QED BY <2>1 DEF BootRegion
<1>2. ASSUME NEW i \in 0 .. BootHugePages - 1
      PROVE  <<1, i>> \in DOMAIN BootSpace.huge /\ <<1, i>>[2] = i
  BY BootSpaceFields
<1>3. \A i \in 0 .. BootHugePages - 1 :
        \E n \in DOMAIN BootSpace.huge :
          BootRegion(i) = Region(n[2] * Span(n[1]), BootSpace.huge[n], Span(n[1]))
  BY <1>1, <1>2, Zenon
<1>4. DOMAIN BootSpace.pages = {}
  BY BootSpaceFields
<1> DEFINE H == {Region(n[2] * Span(n[1]), BootSpace.huge[n], Span(n[1])) :
                   n \in DOMAIN BootSpace.huge}
<1>5. Regions(BootSpace) = H
  BY <1>4, Zenon DEF Regions
<1>6. H = {BootRegion(i) : i \in 0 .. BootHugePages - 1}
  BY <1>1, <1>3, Zenon
<1> QED BY <1>5, <1>6

(* The first n of them are n. *)
LEMMA BootRegionCount ==
  ASSUME NEW n \in 0 .. BootHugePages
  PROVE  /\ IsFiniteSet({BootRegion(i) : i \in 0 .. n - 1})
         /\ Cardinality({BootRegion(i) : i \in 0 .. n - 1}) = n
<1> DEFINE S == 0 .. n - 1
           T == {BootRegion(i) : i \in S}
           f == [i \in S |-> BootRegion(i)]
<1>0. BootHugePages \in Nat
  BY PageTablesAssumption
<1>1. IsFiniteSet(S) /\ Cardinality(S) = n
  <2>1. n \in Nat /\ 0 \in Int /\ n - 1 \in Int
    BY <1>0
  <2>2. IsFiniteSet(S) /\ Cardinality(S) = IF 0 > n - 1 THEN 0 ELSE n - 1 - 0 + 1
    BY <2>1, FS_Interval
  <2> QED BY <2>1, <2>2
<1>2. \A i \in S : i \in 0 .. BootHugePages - 1
  BY <1>0
<1>3. \A i, j \in S : BootRegion(i) = BootRegion(j) => i = j
  <2> SUFFICES ASSUME NEW i \in S, NEW j \in S, BootRegion(i) = BootRegion(j)
               PROVE  i = j
    OBVIOUS
  <2>1. BootRegion(i).virtual_addr \in Nat
    BY <1>2, BootRegionFields DEF MappedRegion, Page
  <2>2. ~(i < j) /\ ~(j < i)
    BY <1>2, <2>1, BootRegionOrder
  <2> QED BY <2>2
<1>4. f \in [S -> T] /\ IsInjective(f) /\ \A t \in T : \E s \in S : f[s] = t
  <2>1. f \in [S -> T]
    BY Zenon
  <2>2. IsInjective(f)
    <3>1. DOMAIN f = S /\ \A i \in S : f[i] = BootRegion(i)
      BY Zenon
    <3> HIDE DEF f
    <3> QED BY <1>3, <3>1 DEF IsInjective
  <2>3. \A t \in T : \E s \in S : f[s] = t
    BY Zenon
  <2> QED BY <2>1, <2>2, <2>3
<1>5. ExistsBijection(S, T)
  <2> HIDE DEF f, S, T
  <2>1. f \in Bijection(S, T)
    BY <1>4 DEF Bijection, Injection, Surjection
  <2> QED BY <2>1 DEF ExistsBijection
<1> QED BY <1>1, <1>5, FS_Bijection, Zenon

(* vmm::init lists every boot mapping once, in the order of the walk. *)
LEMMA BootDiscovered ==
  /\ discover_existing_mappings(BootSpace) \in Seq(MappedRegion)
  /\ Range(discover_existing_mappings(BootSpace)) = Regions(BootSpace)
<1> DEFINE B == BootHugePages
           R == Regions(BootSpace)
           Below(r) == {s \in R : s.virtual_addr < r.virtual_addr}
           d == discover_existing_mappings(BootSpace)
<1>0. B \in Nat \ {0}
  BY PageTablesAssumption
<1>1. R = {BootRegion(i) : i \in 0 .. B - 1}
  BY BootRegions
<1>2. Cardinality(R) = B
  <2>1. B \in 0 .. BootHugePages
    BY <1>0
  <2> QED BY <1>1, <2>1, BootRegionCount
<1>3. ASSUME NEW i \in 0 .. B - 1
      PROVE  Cardinality(Below(BootRegion(i))) = i
  <2>1. Below(BootRegion(i)) = {BootRegion(j) : j \in 0 .. i - 1}
    <3>1. \A j \in 0 .. B - 1 :
            BootRegion(j).virtual_addr < BootRegion(i).virtual_addr <=> j < i
      BY BootRegionOrder
    <3>2. \A j : j \in 0 .. i - 1 <=> (j \in 0 .. B - 1 /\ j < i)
      BY <1>0
    <3>3. Below(BootRegion(i)) =
            {s \in {BootRegion(j) : j \in 0 .. B - 1} :
               s.virtual_addr < BootRegion(i).virtual_addr}
      BY <1>1
    <3> HIDE DEF Below
    <3> QED BY <3>1, <3>2, <3>3, Zenon
  <2>2. i \in 0 .. BootHugePages
    BY <1>0
  <2> HIDE DEF Below
  <2> QED BY <2>1, <2>2, BootRegionCount
<1>4. d = [i \in 1 .. B |-> CHOOSE r \in R : Cardinality(Below(r)) = i - 1]
  BY <1>2, Zenon DEF discover_existing_mappings
<1> HIDE DEF d
<1>5. ASSUME NEW i \in 1 .. B
      PROVE  d[i] = BootRegion(i - 1) /\ i - 1 \in 0 .. B - 1
  <2>0. i - 1 \in 0 .. B - 1
    BY <1>0
  <2>1. d[i] = CHOOSE r \in R : Cardinality(Below(r)) = i - 1
    BY <1>4
  <2>2. BootRegion(i - 1) \in R /\ Cardinality(Below(BootRegion(i - 1))) = i - 1
    BY <1>1, <1>3, <2>0
  <2>3. d[i] \in R /\ Cardinality(Below(d[i])) = i - 1
    <3> HIDE DEF R, Below
    <3> QED BY <2>1, <2>2, Zenon
  <2>4. PICK j \in 0 .. B - 1 : d[i] = BootRegion(j)
    BY <1>1, <2>3
  <2>5. j = i - 1
    <3> HIDE DEF Below
    <3> QED BY <1>3, <2>3, <2>4
  <2> QED BY <2>0, <2>4, <2>5
<1>6. DOMAIN d = 1 .. B
  BY <1>4
<1>7. d \in Seq(MappedRegion)
  <2>1. \A i \in 1 .. B : d[i] \in MappedRegion
    BY <1>5, BootRegionFields
  <2> DEFINE Nth(i) == CHOOSE r \in R : Cardinality(Below(r)) = i - 1
  <2>2. d = [i \in 1 .. B |-> Nth(i)]
    BY <1>4
  <2> HIDE DEF Nth
  <2>3. d \in [1 .. B -> MappedRegion]
    BY <2>1, <2>2
  <2> QED BY <1>0, <2>3
<1>8. Range(d) = R
  <2>1. \A i \in 0 .. B - 1 : i + 1 \in 1 .. B /\ (i + 1) - 1 = i
    BY <1>0
  <2>2. \A i \in 0 .. B - 1 : d[i + 1] = BootRegion(i) /\ i + 1 \in DOMAIN d
    BY <1>5, <1>6, <2>1
  <2>3. \A i \in DOMAIN d : d[i] = BootRegion(i - 1) /\ i - 1 \in 0 .. B - 1
    BY <1>5, <1>6
  <2> HIDE DEF R
  <2>4. \A x : x \in Range(d) => x \in R
    BY <1>1, <2>3, Zenon DEF Range
  <2>5. \A x : x \in R => x \in Range(d)
    BY <1>1, <2>2, Zenon DEF Range
  <2> QED BY <2>4, <2>5
<1> QED BY <1>7, <1>8 DEF d

(* Before it, nothing is listed. *)
LEMMA NothingDiscovered ==
  /\ discover_existing_mappings(EmptySpace) \in Seq(MappedRegion)
  /\ Range(discover_existing_mappings(EmptySpace)) = {}
  /\ WellFormed(EmptySpace)
  /\ count_mapped_pages(EmptySpace) \in Nat
<1>1. /\ EmptySpace.tables = NoEntry /\ EmptySpace.huge = NoEntry
      /\ EmptySpace.pages = NoEntry /\ DOMAIN NoEntry = {} /\ Range(NoEntry) = {}
  BY DEF EmptySpace, NoEntry, Range
<1>2. Regions(EmptySpace) = {}
  BY <1>1 DEF Regions
<1>3. Cardinality({}) = 0
  BY FS_EmptySet
<1>4. discover_existing_mappings(EmptySpace) =
        [i \in 1 .. 0 |-> CHOOSE r \in Regions(EmptySpace) :
           Cardinality({s \in Regions(EmptySpace) : s.virtual_addr < r.virtual_addr}) = i - 1]
  BY <1>2, <1>3, Zenon DEF discover_existing_mappings
<1>5. /\ discover_existing_mappings(EmptySpace) \in Seq(MappedRegion)
      /\ Range(discover_existing_mappings(EmptySpace)) = {}
  <2> DEFINE d == discover_existing_mappings(EmptySpace)
  <2>1. DOMAIN d = {} /\ d = [i \in 1 .. 0 |-> d[i]]
    BY <1>4
  <2> HIDE DEF d
  <2>2. d \in [1 .. 0 -> MappedRegion]
    BY <2>1
  <2>3. Range(d) = {}
    BY <2>1 DEF Range
  <2> QED BY <2>2, <2>3 DEF d
<1>6. WellFormed(EmptySpace)
  BY <1>1 DEF WellFormed
<1>7. count_mapped_pages(EmptySpace) \in Nat
  <2>1. HugeAt(EmptySpace, 1) = {} /\ HugeAt(EmptySpace, 2) = {}
    BY <1>1 DEF HugeAt
  <2>2. Span(1) \in Nat /\ Span(2) \in Nat
    BY SpanType
  <2>3. 0 + Span(1) * 0 + Span(2) * 0 \in Nat
    BY <2>2
  <2> QED BY <1>1, <1>3, <2>1, <2>3 DEF count_mapped_pages
<1> QED BY <1>5, <1>6, <1>7

-----------------------------------------------------------------------------
(* vmm::init makes the invariant true. *)
LEMMA TakenOverFields ==
  ASSUME NEW s
  PROVE  LET v == TakenOver(s)
         IN  /\ DOMAIN v = {"page_table", "mapped_regions", "stats", "validation_enabled"}
             /\ v.page_table = s /\ v.mapped_regions = discover_existing_mappings(s)
             /\ v.validation_enabled = TRUE
             /\ v.stats.total_mapped_pages = count_mapped_pages(s)
             /\ count_mapped_pages(s) \in Nat => v.stats \in VmmStatistics
<1> DEFINE d == discover_existing_mappings(s)
           c == count_mapped_pages(s)
           v == TakenOver(s)
<1>1. v = [page_table |-> s, mapped_regions |-> d,
           stats |-> [total_mapped_pages |-> c, map_count |-> 0, unmap_count |-> 0,
                      remap_count |-> 0, tlb_flush_count |-> 0],
           validation_enabled |-> TRUE]
  BY DEF TakenOver
<1> HIDE DEF d, c, v
<1>2. /\ DOMAIN v = {"page_table", "mapped_regions", "stats", "validation_enabled"}
      /\ v.page_table = s /\ v.mapped_regions = d /\ v.validation_enabled = TRUE
      /\ v.stats.total_mapped_pages = c
      /\ c \in Nat => v.stats \in VmmStatistics
  BY <1>1 DEF VmmStatistics
<1> QED BY <1>2 DEF v, d, c

LEMMA BootGood ==
  ASSUME NEW a, Sound(a), a.bitmap = StandardFrames
  PROVE  Good(TakenOver(BootSpace), a, {})
<1> DEFINE v == TakenOver(BootSpace)
<1>1. IsFiniteSet(DOMAIN BootSpace.pages)
  BY BootSpaceFields, FS_EmptySet
<1>2. count_mapped_pages(BootSpace) \in Nat
  <2>1. /\ count_mapped_pages(BootSpace) =
             Cardinality(DOMAIN BootSpace.pages) + HugeCount(BootSpace)
        /\ HugeCount(BootSpace) \in Nat
    BY <1>1, HugeCountType
  <2>2. Cardinality(DOMAIN BootSpace.pages) \in Nat
    BY <1>1, FS_CardinalityType
  <2> QED BY <2>1, <2>2
<1>3. /\ DOMAIN v = {"page_table", "mapped_regions", "stats", "validation_enabled"}
      /\ v.page_table = BootSpace
      /\ v.mapped_regions = discover_existing_mappings(BootSpace)
      /\ v.validation_enabled = TRUE
      /\ v.stats.total_mapped_pages = count_mapped_pages(BootSpace)
      /\ v.stats \in VmmStatistics
  BY <1>2, TakenOverFields
<1> HIDE DEF v
<1>4. TreeOK(v)
  <2>1. Broader(BootSpace.huge, BootSpace.huge, FlagBits)
    BY BootWellFormed, BroaderRefl DEF WellFormed
  <2> QED BY <1>1, <1>3, <2>1, BootWellFormed, BootSpaceFields DEF TreeOK
<1>5. ListOK(v)
  <2>1. Unwidened(BootSpace) = BootSpace
    BY DEF Unwidened, BootSpace
  <2> QED BY <1>3, <2>1, BootDiscovered DEF ListOK
<1>6. CountOK(v)
  BY <1>3 DEF CountOK, validate
<1>7. FramesOK(v, a, {})
  BY <1>3, BootTables DEF FramesOK
<1> QED BY <1>4, <1>5, <1>6, <1>7 DEF Good, v

-----------------------------------------------------------------------------
(* Appending to the list of regions. *)
LEMMA AppendRange ==
  ASSUME NEW S, NEW l \in Seq(S), NEW x \in S
  PROVE  /\ Append(l, x) \in Seq(S)
         /\ Range(Append(l, x)) = Range(l) \cup {x}
<1> DEFINE n == Len(l)
           m == Append(l, x)
<1>1. /\ m \in Seq(S) /\ n \in Nat /\ DOMAIN l = 1 .. n /\ DOMAIN m = 1 .. n + 1
      /\ m[n + 1] = x /\ \A i \in 1 .. n : m[i] = l[i]
  OBVIOUS
<1> HIDE DEF m, n
<1>2. \A i : i \in 1 .. n + 1 <=> i \in 1 .. n \/ i = n + 1
  BY <1>1
<1>3. Range(m) = Range(l) \cup {x}
  BY <1>1, <1>2, Zenon DEF Range
<1> QED BY <1>1, <1>3 DEF m

(* A call's state, and the 4 KiB pages in it. *)
IsCall(r) == DOMAIN r = {"vmm", "allocator", "result"}

PagesOf(r) == r.vmm.page_table.pages

HugeOf(r) == r.vmm.page_table.huge

GoodCall(r, o) == IsCall(r) /\ Good(r.vmm, r.allocator, o)

(* What a new page changes. *)
LEMMA RegionsWith ==
  ASSUME NEW s, NEW t, NEW p, NEW leaf, t.huge = s.huge,
         p \notin DOMAIN s.pages, t.pages = With(s.pages, p, leaf)
  PROVE  Regions(t) = Regions(s) \cup {Region(p, leaf, 1)}
<1>0. DOMAIN With(s.pages, p, leaf) = DOMAIN s.pages \cup {p}
  BY WithDomain
<1>1. DOMAIN t.pages = DOMAIN s.pages \cup {p}
  BY <1>0
<1>2. t.pages[p] = leaf
  BY WithNew
<1>3. \A q \in DOMAIN s.pages : t.pages[q] = s.pages[q]
  BY WithOld
<1> DEFINE P(u) == {Region(q, u.pages[q], 1) : q \in DOMAIN u.pages}
           H(u) == {Region(n[2] * Span(n[1]), u.huge[n], Span(n[1])) : n \in DOMAIN u.huge}
<1>4. P(t) = P(s) \cup {Region(p, leaf, 1)}
  BY <1>1, <1>2, <1>3, Zenon
<1>5. H(t) = H(s)
  OBVIOUS
<1>6. Regions(t) = H(t) \cup P(t) /\ Regions(s) = H(s) \cup P(s)
  BY DEF Regions
<1> HIDE DEF P, H
<1> QED BY <1>4, <1>5, <1>6

(* Mapped maps the page, or leaves the pages as they are; with or without  *)
(* the page, and whatever tables were made on the way, the list, the count *)
(* and the owners of the frames stay right.  A huge page changes only when *)
(* the page lies in one, and gains no other flags than the page's.         *)
MapPost(r, m, o, p, leaf) ==
  /\ GoodCall(m, o)
  /\ Broader(HugeOf(r), HugeOf(m), leaf.flags)
  /\ m.result # "ParentEntryHugePage" => HugeOf(m) = HugeOf(r)
  /\ Above(p) \cap DOMAIN BootSpace.huge = {} => HugeOf(m) = HugeOf(r)
  /\ m.result # "Ok" => PagesOf(m) = PagesOf(r)
  /\ m.result = "Ok" => /\ p \notin DOMAIN PagesOf(r)
                        /\ Above(p) \cap DOMAIN BootSpace.huge = {}
                        /\ PagesOf(m) = With(PagesOf(r), p, leaf)

LEMMA MappedOK ==
  ASSUME NEW r, NEW o, GoodCall(r, o),
         NEW p \in Page, NEW frame \in Nat, NEW flags \in Flags
  PROVE  MapPost(r, Mapped(r, p, frame, flags), o, p, [frame |-> frame, flags |-> flags])
<1> DEFINE s == r.vmm.page_table
           a == r.allocator
           leaf == [frame |-> frame, flags |-> flags]
           mm == map_to(s, a, p, frame, flags)
           v == [r.vmm EXCEPT !.page_table = mm.space]
           m == Mapped(r, p, frame, flags)
           w == Track(v, p, leaf)
<1>1. TreeOK(r.vmm) /\ ListOK(r.vmm) /\ CountOK(r.vmm) /\ FramesOK(r.vmm, a, o)
  BY DEF GoodCall, Good
<1>2. /\ IsSpace(s) /\ WellFormed(s) /\ Broader(BootSpace.huge, s.huge, FlagBits)
      /\ DOMAIN s.huge = DOMAIN BootSpace.huge
      /\ IsFiniteSet(DOMAIN s.pages) /\ IsInjective(s.tables) /\ Sound(a)
      /\ Range(s.tables) \subseteq a.bitmap
  BY <1>1 DEF TreeOK, FramesOK, Broader
<1>3. MapToOK(s, a, p, leaf, mm)
  BY <1>2, MapToCorrect
<1>4. leaf \in Leaf /\ leaf.flags = flags
  BY DEF Leaf
<1>5. m = IF mm.error # "None"
            THEN [vmm |-> v, allocator |-> mm.allocator, result |-> VmmErrorOf(mm.error)]
            ELSE [vmm |-> w, allocator |-> mm.allocator, result |-> "Ok"]
  BY DEF Mapped
<1> HIDE DEF mm, m
<1>6. /\ DOMAIN v = DOMAIN r.vmm /\ v.page_table = mm.space
      /\ v.mapped_regions = r.vmm.mapped_regions /\ v.stats = r.vmm.stats
      /\ v.validation_enabled = r.vmm.validation_enabled
  BY <1>1 DEF TreeOK
<1>7. /\ DOMAIN w = DOMAIN v /\ w.page_table = v.page_table
      /\ w.mapped_regions = Append(r.vmm.mapped_regions, Region(p, leaf, 1))
      /\ w.stats \in VmmStatistics
      /\ w.stats.total_mapped_pages = r.vmm.stats.total_mapped_pages + 1
      /\ w.validation_enabled = v.validation_enabled
  <2> HIDE DEF v, leaf
  <2>1. w = [v EXCEPT !.mapped_regions = Append(@, Region(p, leaf, 1)),
               !.stats.total_mapped_pages = @ + 1,
               !.stats.map_count = @ + 1,
               !.stats.tlb_flush_count = @ + 1]
    BY DEF Track
  <2>2. v.stats \in VmmStatistics
    BY <1>1, <1>6 DEF CountOK
  <2>3. DOMAIN v = {"page_table", "mapped_regions", "stats", "validation_enabled"}
    BY <1>1, <1>6 DEF TreeOK
  <2> HIDE DEF w
  <2>4. w.stats = [v.stats EXCEPT !.total_mapped_pages = @ + 1, !.map_count = @ + 1,
                     !.tlb_flush_count = @ + 1]
    BY <2>1, <2>3
  <2>5. w.stats \in VmmStatistics
    <3>1. /\ v.stats.total_mapped_pages + 1 \in Nat /\ v.stats.map_count + 1 \in Nat
          /\ v.stats.unmap_count \in Nat /\ v.stats.remap_count \in Nat
          /\ v.stats.tlb_flush_count + 1 \in Nat
      BY <2>2 DEF VmmStatistics
    <3>2. w.stats = [total_mapped_pages |-> v.stats.total_mapped_pages + 1,
                     map_count |-> v.stats.map_count + 1,
                     unmap_count |-> v.stats.unmap_count,
                     remap_count |-> v.stats.remap_count,
                     tlb_flush_count |-> v.stats.tlb_flush_count + 1]
      BY <2>2, <2>4 DEF VmmStatistics
    <3> QED BY <3>1, <3>2 DEF VmmStatistics
  <2>6. w.stats.total_mapped_pages = v.stats.total_mapped_pages + 1
    BY <2>2, <2>4 DEF VmmStatistics
  <2>7. /\ DOMAIN w = DOMAIN v /\ w.page_table = v.page_table
        /\ w.mapped_regions = Append(v.mapped_regions, Region(p, leaf, 1))
        /\ w.validation_enabled = v.validation_enabled
    BY <2>1, <2>3
  <2> QED BY <1>6, <2>5, <2>6, <2>7
<1> HIDE DEF v, w, leaf
<1>9. /\ Broader(s.huge, mm.space.huge, flags)
      /\ Broader(BootSpace.huge, mm.space.huge, FlagBits)
      /\ DOMAIN mm.space.huge = DOMAIN BootSpace.huge
      /\ mm.error # "ParentEntryHugePage" => mm.space.huge = s.huge
      /\ Above(p) \cap DOMAIN BootSpace.huge = {} => mm.space.huge = s.huge
  <2>1. Broader(s.huge, mm.space.huge, flags)
    BY <1>3, <1>4 DEF MapToOK, Grown
  <2>2. flags \subseteq FlagBits
    BY DEF Flags
  <2>3. Broader(BootSpace.huge, mm.space.huge, FlagBits)
    BY <1>2, <2>1, <2>2, BroaderTrans
  <2> QED BY <1>2, <1>3, <2>1, <2>3 DEF MapToOK, Broader
<1>8. ASSUME NEW x, DOMAIN x = DOMAIN r.vmm, x.page_table = mm.space,
             x.validation_enabled = r.vmm.validation_enabled,
             IsFiniteSet(DOMAIN mm.space.pages)
      PROVE  TreeOK(x) /\ FramesOK(x, mm.allocator, o)
  <2>1. TreeOK(x)
    BY <1>1, <1>3, <1>8, <1>9 DEF TreeOK, MapToOK, IsMapper
  <2>2. /\ Sound(mm.allocator) /\ IsInjective(mm.space.tables)
        /\ (Range(mm.space.tables) \ Range(s.tables)) \cap a.bitmap = {}
        /\ mm.allocator.bitmap = a.bitmap \cup Range(mm.space.tables)
    BY <1>3 DEF MapToOK, Grown
  <2>3. Range(s.tables) \subseteq Range(mm.space.tables)
    BY <1>3 DEF MapToOK, Grown, Range
  <2>4. FramesOK(x, mm.allocator, o)
    BY <1>1, <1>8, <2>2, <2>3 DEF FramesOK
  <2> QED BY <2>1, <2>4
<1>10. CASE mm.error # "None"
  <2>1. m = [vmm |-> v, allocator |-> mm.allocator, result |-> VmmErrorOf(mm.error)]
    BY <1>5, <1>10
  <2>2. mm.space.pages = s.pages
    BY <1>3, <1>10 DEF MapToOK
  <2>3. /\ m.result # "Ok" /\ m.vmm = v /\ m.allocator = mm.allocator /\ IsCall(m)
        /\ m.result # "ParentEntryHugePage" => mm.error # "ParentEntryHugePage"
    <3>1. mm.error \in {"ParentEntryHugePage", "FrameAllocationFailed", "PageAlreadyMapped"}
      BY <1>3, <1>10 DEF MapToOK
    <3>2. /\ VmmErrorOf(mm.error) # "Ok"
          /\ VmmErrorOf("ParentEntryHugePage") = "ParentEntryHugePage"
      BY <3>1 DEF VmmErrorOf
    <3> QED BY <2>1, <3>2 DEF IsCall
  <2>4. /\ Regions(Unwidened(mm.space)) = Regions(Unwidened(s))
        /\ count_mapped_pages(mm.space) = count_mapped_pages(s)
    <3>1. Regions(Unwidened(mm.space)) = Regions(Unwidened(s))
      BY <2>2 DEF Regions, Unwidened
    <3>2. \A k : HugeAt(mm.space, k) = HugeAt(s, k)
      BY <1>2, <1>9 DEF HugeAt
    <3> QED BY <2>2, <3>1, <3>2 DEF count_mapped_pages
  <2>5. ListOK(v)
    BY <1>1, <1>6, <2>4 DEF ListOK
  <2>6. CountOK(v)
    BY <1>1, <1>6, <2>4 DEF CountOK, validate
  <2>7. TreeOK(v) /\ FramesOK(v, mm.allocator, o)
    BY <1>2, <1>6, <1>8, <2>2
  <2>8. PagesOf(m) = PagesOf(r)
    BY <1>6, <2>2, <2>3 DEF PagesOf
  <2>9. HugeOf(m) = mm.space.huge /\ HugeOf(r) = s.huge
    BY <1>6, <2>3 DEF HugeOf
  <2>10. GoodCall(m, o)
    BY <2>3, <2>5, <2>6, <2>7 DEF GoodCall, Good
  <2> QED BY <1>4, <1>9, <2>3, <2>8, <2>9, <2>10 DEF m, leaf, MapPost
<1>11. CASE mm.error = "None"
  <2>1. /\ m.result = "Ok" /\ m.vmm = w /\ m.allocator = mm.allocator /\ IsCall(m)
    BY <1>5, <1>11 DEF IsCall
  <2>2. /\ p \notin DOMAIN s.pages /\ Above(p) \cap DOMAIN s.huge = {}
        /\ mm.space.pages = With(s.pages, p, leaf)
    BY <1>3, <1>11 DEF MapToOK
  <2>3. DOMAIN mm.space.pages = DOMAIN s.pages \cup {p}
    BY <2>2, WithDomain, Zenon
  <2>4. /\ IsFiniteSet(DOMAIN mm.space.pages)
        /\ Cardinality(DOMAIN mm.space.pages) = Cardinality(DOMAIN s.pages) + 1
    BY <1>2, <2>2, <2>3, FS_AddElement
  <2>5. Regions(Unwidened(mm.space)) = Regions(Unwidened(s)) \cup {Region(p, leaf, 1)}
    <3> DEFINE t == Unwidened(mm.space)
               y == Unwidened(s)
    <3>1. t.huge = y.huge /\ p \notin DOMAIN y.pages /\ t.pages = With(y.pages, p, leaf)
      BY <2>2 DEF Unwidened
    <3> HIDE DEF t, y
    <3> QED BY <3>1, RegionsWith DEF t, y
  <2>6. Region(p, leaf, 1) \in MappedRegion
    BY <1>4 DEF Region, MappedRegion, Leaf
  <2>7. ListOK(w)
    BY <1>1, <1>6, <1>7, <2>5, <2>6, AppendRange DEF ListOK
  <2>8. CountOK(w)
    <3>1. /\ count_mapped_pages(s) = Cardinality(DOMAIN s.pages) + HugeCount(BootSpace)
          /\ HugeCount(BootSpace) \in Nat
      BY <1>2, HugeCountType
    <3>2. count_mapped_pages(mm.space) =
            Cardinality(DOMAIN mm.space.pages) + HugeCount(BootSpace)
      BY <1>2, <1>9, <2>4, HugeCountType
    <3>3. Cardinality(DOMAIN s.pages) \in Nat
      BY <1>2, FS_CardinalityType
    <3>4. count_mapped_pages(mm.space) = count_mapped_pages(s) + 1
      BY <2>4, <3>1, <3>2, <3>3
    <3>5. count_mapped_pages(s) = r.vmm.stats.total_mapped_pages
      BY <1>1 DEF CountOK, validate
    <3> QED BY <1>6, <1>7, <3>4, <3>5 DEF CountOK, validate
  <2>9. TreeOK(w) /\ FramesOK(w, mm.allocator, o)
    BY <1>6, <1>7, <1>8, <2>4
  <2>10. /\ p \notin DOMAIN PagesOf(r) /\ Above(p) \cap DOMAIN BootSpace.huge = {}
         /\ PagesOf(m) = With(PagesOf(r), p, leaf)
    BY <1>2, <1>6, <1>7, <2>1, <2>2 DEF PagesOf
  <2>11. HugeOf(m) = mm.space.huge /\ HugeOf(r) = s.huge /\ mm.space.huge = s.huge
    BY <1>6, <1>7, <1>9, <1>11, <2>1 DEF HugeOf
  <2>12. GoodCall(m, o)
    BY <2>1, <2>7, <2>8, <2>9 DEF GoodCall, Good
  <2> QED BY <1>4, <1>9, <2>1, <2>10, <2>11, <2>12 DEF m, leaf, MapPost
<1> HIDE DEF s, a
<1> QED BY <1>10, <1>11

-----------------------------------------------------------------------------
(***************************************************************************)
(* mapped_regions.retain.  Its recursive function exists, by the least     *)
(* length for which it would not, and keeps the regions that do not cover  *)
(* the page.                                                               *)
(***************************************************************************)
Retains(f, l, p, n) ==
  f = [i \in 0 .. n |-> IF i = 0 THEN <<>>
                        ELSE IF Covers(l[i], p) THEN f[i - 1]
                        ELSE Append(f[i - 1], l[i])]

LEMMA RetainsExists ==
  ASSUME NEW l, NEW p, NEW n \in Nat
  PROVE  \E f : Retains(f, l, p, n)
<1> DEFINE Bad == {m \in Nat : ~ \E f : Retains(f, l, p, m)}
<1> SUFFICES ASSUME Bad # {} PROVE FALSE
  OBVIOUS
<1>1. PICK m \in Bad : \A y \in Bad : m <= y
  BY MinOfNats
<1>2. CASE m = 0
  <2> DEFINE f == [i \in 0 .. 0 |-> <<>>]
  <2>1. \A i \in 0 .. 0 : i = 0
    OBVIOUS
  <2>2. Retains(f, l, p, 0)
    BY <2>1 DEF Retains
  <2> QED BY <1>1, <1>2, <2>2, Zenon
<1>3. CASE m # 0
  <2>0. m \in Nat /\ m - 1 \in Nat /\ m - 1 \notin Bad
    BY <1>1, <1>3
  <2>1. PICK f : Retains(f, l, p, m - 1)
    BY <2>0
  <2> DEFINE Step(x, i) == IF Covers(l[i], p) THEN x ELSE Append(x, l[i])
             g == [i \in 0 .. m |-> IF i = m THEN Step(f[m - 1], m) ELSE f[i]]
  <2>2. \A i \in 0 .. m - 1 : f[i] = IF i = 0 THEN <<>> ELSE Step(f[i - 1], i)
    <3> HIDE DEF Step
    <3> QED BY <2>1 DEF Retains, Step
  <2>3. \A i \in 0 .. m : i # m => i \in 0 .. m - 1
    BY <2>0
  <2>4. \A i \in 0 .. m : i # 0 => i - 1 \in 0 .. m /\ i - 1 # m
    BY <2>0
  <2>5. \A i \in 0 .. m : g[i] = IF i = m THEN Step(f[m - 1], m) ELSE f[i]
    <3> HIDE DEF Step
    <3> QED OBVIOUS
  <2>6. \A i \in 0 .. m : g[i] = IF i = 0 THEN <<>> ELSE Step(g[i - 1], i)
    <3> HIDE DEF Step, g
    <3> QED BY <1>3, <2>2, <2>3, <2>4, <2>5
  <2>7. g = [i \in 0 .. m |-> IF i = 0 THEN <<>> ELSE Step(g[i - 1], i)]
    <3>1. g = [i \in 0 .. m |-> g[i]]
      <4> HIDE DEF Step
      <4> QED OBVIOUS
    <3> HIDE DEF Step, g
    <3> QED BY <2>6, <3>1
  <2>8. Retains(g, l, p, m)
    <3> HIDE DEF g
    <3> QED BY <2>7 DEF Retains
  <2> QED BY <1>1, <2>8, Zenon
<1> QED BY <1>2, <1>3

(* The listed regions with an index up to i that do not cover the page. *)
Spared(l, p, i) == {l[j] : j \in {k \in 1 .. i : ~ Covers(l[k], p)}}

LEMMA RetainsKeeps ==
  ASSUME NEW l \in Seq(MappedRegion), NEW p, NEW f, Retains(f, l, p, Len(l))
  PROVE  \A i \in 0 .. Len(l) : f[i] \in Seq(MappedRegion) /\ Range(f[i]) = Spared(l, p, i)
<1> DEFINE n == Len(l)
           Bad == {i \in 0 .. n : ~(f[i] \in Seq(MappedRegion) /\ Range(f[i]) = Spared(l, p, i))}
<1> SUFFICES ASSUME Bad # {} PROVE FALSE
  OBVIOUS
<1>0. n \in Nat /\ Bad \subseteq Nat
  OBVIOUS
<1>1. PICK m \in Bad : \A y \in Bad : m <= y
  BY <1>0, MinOfNats
<1>2. \A i \in 0 .. n : f[i] = IF i = 0 THEN <<>>
                               ELSE IF Covers(l[i], p) THEN f[i - 1]
                               ELSE Append(f[i - 1], l[i])
  BY Zenon DEF Retains
<1>3. m # 0
  <2>1. 0 \in 0 .. n
    BY <1>0
  <2>2. f[0] = <<>>
    BY <1>2, <2>1
  <2>3. Spared(l, p, 0) = {}
    <3>1. \A k : k \notin 1 .. 0
      OBVIOUS
    <3> QED BY <3>1, Zenon DEF Spared
  <2>4. <<>> \in Seq(MappedRegion) /\ Range(<<>>) = {}
    BY DEF Range
  <2> QED BY <1>1, <2>2, <2>3, <2>4
<1>4. /\ m \in 1 .. n /\ m - 1 \in 0 .. n /\ m - 1 \notin Bad /\ m \in 0 .. n
  BY <1>0, <1>1, <1>3
<1>5. f[m - 1] \in Seq(MappedRegion) /\ Range(f[m - 1]) = Spared(l, p, m - 1)
  BY <1>4
<1>6. f[m] = IF Covers(l[m], p) THEN f[m - 1] ELSE Append(f[m - 1], l[m])
  BY <1>2, <1>3, <1>4
<1>7. l[m] \in MappedRegion
  BY <1>4
<1>8. \A k : k \in 1 .. m <=> k \in 1 .. m - 1 \/ k = m
  BY <1>4
<1>9. Spared(l, p, m) = IF Covers(l[m], p) THEN Spared(l, p, m - 1)
                        ELSE Spared(l, p, m - 1) \cup {l[m]}
  BY <1>8, Zenon DEF Spared
<1>10. CASE Covers(l[m], p)
  BY <1>1, <1>5, <1>6, <1>9, <1>10
<1>11. CASE ~ Covers(l[m], p)
  <2>1. /\ Append(f[m - 1], l[m]) \in Seq(MappedRegion)
        /\ Range(Append(f[m - 1], l[m])) = Range(f[m - 1]) \cup {l[m]}
    BY <1>5, <1>7, AppendRange
  <2> QED BY <1>1, <1>5, <1>6, <1>9, <1>11, <2>1, Zenon
<1> QED BY <1>10, <1>11

LEMMA RetainOK ==
  ASSUME NEW l \in Seq(MappedRegion), NEW p
  PROVE  /\ retain(l, p) \in Seq(MappedRegion)
         /\ Range(retain(l, p)) = {g \in Range(l) : ~ Covers(g, p)}
<1> DEFINE n == Len(l)
           K == CHOOSE f : Retains(f, l, p, n)
<1>1. retain(l, p) = K[n]
  BY Zenon DEF retain, Retains
<1>2. n \in Nat /\ n \in 0 .. n /\ DOMAIN l = 1 .. n
  OBVIOUS
<1>3. Retains(K, l, p, n)
  <2>1. \E f : Retains(f, l, p, n)
    BY <1>2, RetainsExists
  <2> QED BY <2>1, Zenon
<1> HIDE DEF K
<1>4. K[n] \in Seq(MappedRegion) /\ Range(K[n]) = Spared(l, p, n)
  BY <1>2, <1>3, RetainsKeeps
<1>5. Spared(l, p, n) = {g \in Range(l) : ~ Covers(g, p)}
  BY <1>2, Zenon DEF Spared, Range
<1> QED BY <1>1, <1>4, <1>5

-----------------------------------------------------------------------------
(* A region covers what its entry maps. *)
LEMMA PageCovers ==
  ASSUME NEW q \in Nat, NEW p \in Nat, NEW leaf
  PROVE  Covers(Region(q, leaf, 1), p) <=> q = p
BY DEF Covers, Region

LEMMA HugeCovers ==
  ASSUME NEW n \in Node, NEW p \in Nat, NEW leaf
  PROVE  Covers(Region(n[2] * Span(n[1]), leaf, Span(n[1])), p) <=> n \in Above(p)
<1>1. n \in (1 .. 3) \X Nat
  BY DEF Node
<1>2. n[2] \in Nat /\ Span(n[1]) \in Nat
  BY <1>1, SpanType
<1> DEFINE i == n[2]
           s == Span(n[1])
<1>3. /\ Region(i * s, leaf, s).virtual_addr = i * s /\ Region(i * s, leaf, s).size = s
  BY DEF Region
<1>4. (i + 1) * s = i * s + s /\ i * s \in Nat
  BY <1>2
<1>5. i * s <= p /\ p < i * s + s <=> p \in i * s .. (i + 1) * s - 1
  <2> HIDE DEF i, s
  <2> QED BY <1>2, <1>4 DEF i, s
<1>6. p \in PagesBelow(n) <=> p \in i * s .. (i + 1) * s - 1
  BY DEF PagesBelow
<1> QED BY <1>3, <1>5, <1>6, BelowIsAbove DEF Covers

(* Without a page, exactly the regions that cover it are gone. *)
LEMMA RegionsWithout ==
  ASSUME NEW s, NEW t, NEW p, WellFormed(s), t.huge = s.huge, p \in DOMAIN s.pages,
         DOMAIN t.pages = DOMAIN s.pages \ {p},
         \A q \in DOMAIN s.pages \ {p} : t.pages[q] = s.pages[q]
  PROVE  Regions(t) = {g \in Regions(s) : ~ Covers(g, p)}
<1> DEFINE P(u) == {Region(q, u.pages[q], 1) : q \in DOMAIN u.pages}
           H(u) == {Region(n[2] * Span(n[1]), u.huge[n], Span(n[1])) : n \in DOMAIN u.huge}
<1>0. p \in Nat /\ DOMAIN s.pages \subseteq Nat /\ DOMAIN s.huge \subseteq Node
  BY DEF WellFormed, Page
<1>1. \A n \in DOMAIN s.huge :
        ~ Covers(Region(n[2] * Span(n[1]), s.huge[n], Span(n[1])), p)
  <2> SUFFICES ASSUME NEW n \in DOMAIN s.huge
               PROVE  ~ Covers(Region(n[2] * Span(n[1]), s.huge[n], Span(n[1])), p)
    OBVIOUS
  <2>1. n \notin Above(p)
    BY DEF WellFormed
  <2> QED BY <1>0, <2>1, HugeCovers
<1>2. \A q \in DOMAIN s.pages : Covers(Region(q, s.pages[q], 1), p) <=> q = p
  BY <1>0, PageCovers
<1>3. H(t) = {g \in H(s) : ~ Covers(g, p)}
  BY <1>1, Zenon
<1>4. P(t) = {g \in P(s) : ~ Covers(g, p)}
  BY <1>2, Zenon
<1>5. Regions(t) = H(t) \cup P(t) /\ Regions(s) = H(s) \cup P(s)
  BY DEF Regions
<1> HIDE DEF P, H
<1> QED BY <1>3, <1>4, <1>5

LEMMA FailsOK ==
  ASSUME NEW r, NEW o, GoodCall(r, o), NEW e
  PROVE  /\ GoodCall(Fails(r, e), o) /\ Fails(r, e).result = e
         /\ Fails(r, e).vmm = r.vmm /\ Fails(r, e).allocator = r.allocator
<1>1. /\ Fails(r, e).vmm = r.vmm /\ Fails(r, e).allocator = r.allocator
      /\ Fails(r, e).result = e /\ DOMAIN Fails(r, e) = DOMAIN r
  BY DEF Fails, GoodCall, IsCall
<1> QED BY <1>1 DEF GoodCall, IsCall

(* unmap_page takes the page it is given out of the tables and the list,   *)
(* or changes nothing.                                                     *)
LEMMA UnmapPageOK ==
  ASSUME NEW r, NEW o, GoodCall(r, o), NEW virt
  PROVE  LET u == unmap_page(r, virt)
             p == PageOf(virt)
         IN  /\ GoodCall(u, o) /\ u.allocator = r.allocator
             /\ HugeOf(u) = HugeOf(r)
             /\ u.result # "Ok" => u.vmm = r.vmm
             /\ u.result # "Ok" /\ is_aligned(virt) => p \notin DOMAIN PagesOf(r)
             /\ u.result = "Ok" =>
                  /\ p \in DOMAIN PagesOf(r) /\ is_aligned(virt)
                  /\ DOMAIN PagesOf(u) = DOMAIN PagesOf(r) \ {p}
                  /\ \A q \in DOMAIN PagesOf(r) \ {p} : PagesOf(u)[q] = PagesOf(r)[q]
<1> DEFINE s == r.vmm.page_table
           p == PageOf(virt)
           uu == unmap(s, p)
           kept == retain(r.vmm.mapped_regions, p)
           u == unmap_page(r, virt)
<1>1. TreeOK(r.vmm) /\ ListOK(r.vmm) /\ CountOK(r.vmm) /\ FramesOK(r.vmm, r.allocator, o)
  BY DEF GoodCall, Good
<1>2. /\ IsSpace(s) /\ WellFormed(s) /\ DOMAIN s.huge = DOMAIN BootSpace.huge
      /\ IsFiniteSet(DOMAIN s.pages)
  BY <1>1 DEF TreeOK, Broader
<1>3. /\ uu.error \in {"None", "ParentEntryHugePage", "PageNotMapped"}
      /\ uu.error # "None" => p \notin DOMAIN s.pages
      /\ uu.error = "None" =>
           /\ p \in DOMAIN s.pages /\ IsSpace(uu.space) /\ WellFormed(uu.space)
           /\ uu.space.tables = s.tables /\ uu.space.huge = s.huge
           /\ DOMAIN uu.space.pages = DOMAIN s.pages \ {p}
           /\ \A q \in DOMAIN s.pages \ {p} : uu.space.pages[q] = s.pages[q]
  BY <1>2, UnmapCorrect
<1>4. u = IF ~is_aligned(virt) THEN Fails(r, "InvalidAddress")
          ELSE IF uu.error # "None" THEN Fails(r, VmmErrorOf(uu.error))
          ELSE [r EXCEPT !.vmm.page_table = uu.space,
                  !.vmm.mapped_regions = kept,
                  !.vmm.stats.total_mapped_pages = IF @ = 0 THEN 0 ELSE @ - 1,
                  !.vmm.stats.unmap_count = @ + 1,
                  !.vmm.stats.tlb_flush_count = @ + 1, !.result = "Ok"]
  BY DEF unmap_page, GoodCall, IsCall, TreeOK, Good
<1> HIDE DEF u, uu, kept, p
<1>5. CASE ~is_aligned(virt)
  BY <1>4, <1>5, FailsOK DEF u, HugeOf
<1>6. CASE is_aligned(virt) /\ uu.error # "None"
  <2>1. VmmErrorOf(uu.error) # "Ok"
    BY <1>3, <1>6 DEF VmmErrorOf
  <2> QED BY <1>3, <1>4, <1>6, <2>1, FailsOK DEF u, p, HugeOf, PagesOf
<1>7. CASE is_aligned(virt) /\ uu.error = "None"
  <2> DEFINE v == u.vmm
             st == r.vmm.stats
  <2>1. /\ IsCall(u) /\ u.allocator = r.allocator /\ u.result = "Ok"
        /\ DOMAIN v = DOMAIN r.vmm /\ v.page_table = uu.space
        /\ v.mapped_regions = kept /\ v.validation_enabled = r.vmm.validation_enabled
        /\ v.stats = [st EXCEPT !.total_mapped_pages = IF @ = 0 THEN 0 ELSE @ - 1,
                                !.unmap_count = @ + 1, !.tlb_flush_count = @ + 1]
    <3>1. DOMAIN r = {"vmm", "allocator", "result"} /\
          DOMAIN r.vmm = {"page_table", "mapped_regions", "stats", "validation_enabled"}
      BY <1>1 DEF GoodCall, IsCall, TreeOK
    <3>2. u = [r EXCEPT !.vmm.page_table = uu.space,
                  !.vmm.mapped_regions = kept,
                  !.vmm.stats.total_mapped_pages = IF @ = 0 THEN 0 ELSE @ - 1,
                  !.vmm.stats.unmap_count = @ + 1,
                  !.vmm.stats.tlb_flush_count = @ + 1, !.result = "Ok"]
      BY <1>4, <1>7
    <3>3. /\ v = [r.vmm EXCEPT !.page_table = uu.space,
                  !.mapped_regions = kept,
                  !.stats.total_mapped_pages = IF @ = 0 THEN 0 ELSE @ - 1,
                  !.stats.unmap_count = @ + 1,
                  !.stats.tlb_flush_count = @ + 1]
          /\ IsCall(u) /\ u.allocator = r.allocator /\ u.result = "Ok"
      BY <3>1, <3>2 DEF IsCall
    <3> DEFINE w == r.vmm
    <3>4. v = [w EXCEPT !.page_table = uu.space,
                  !.mapped_regions = kept,
                  !.stats = [st EXCEPT !.total_mapped_pages = IF @ = 0 THEN 0 ELSE @ - 1,
                                !.unmap_count = @ + 1, !.tlb_flush_count = @ + 1]]
      BY <3>1, <3>3
    <3> DEFINE st2 == [st EXCEPT !.total_mapped_pages = IF @ = 0 THEN 0 ELSE @ - 1,
                                !.unmap_count = @ + 1, !.tlb_flush_count = @ + 1]
    <3>5. v = [w EXCEPT !.page_table = uu.space, !.mapped_regions = kept, !.stats = st2]
      BY <3>4
    <3> HIDE DEF st2, v, w
    <3>6. /\ DOMAIN v = DOMAIN w /\ v.page_table = uu.space
          /\ v.mapped_regions = kept /\ v.validation_enabled = w.validation_enabled
          /\ v.stats = st2
      BY <3>1, <3>5 DEF w
    <3> QED BY <3>3, <3>6 DEF st2, w
  <2>2. st \in VmmStatistics /\ count_mapped_pages(s) = st.total_mapped_pages
    BY <1>1 DEF CountOK, validate
  <2>3. p \in DOMAIN s.pages /\ uu.space.huge = s.huge
    BY <1>3, <1>7
  <2>4. TreeOK(v)
    <3>1. IsFiniteSet(DOMAIN uu.space.pages)
      BY <1>2, <1>3, <1>7, FS_RemoveElement
    <3> QED BY <1>1, <1>2, <1>3, <1>7, <2>1, <3>1 DEF TreeOK
  <2>5. ListOK(v)
    <3> DEFINE t == Unwidened(uu.space)
               y == Unwidened(s)
    <3>1. /\ WellFormed(y) /\ t.huge = y.huge /\ p \in DOMAIN y.pages
          /\ DOMAIN t.pages = DOMAIN y.pages \ {p}
          /\ \A q \in DOMAIN y.pages \ {p} : t.pages[q] = y.pages[q]
      <4>1. WellFormed(y) /\ y.pages = s.pages /\ y.huge = BootSpace.huge
        BY <1>2, UnwidenedOK
      <4>2. t.huge = BootSpace.huge /\ t.pages = uu.space.pages
        BY DEF Unwidened
      <4> HIDE DEF t, y
      <4> QED BY <1>3, <1>7, <4>1, <4>2
    <3>2. Regions(t) = {g \in Regions(y) : ~ Covers(g, p)}
      <4> HIDE DEF t, y
      <4> QED BY <3>1, RegionsWithout
    <3>3. /\ kept \in Seq(MappedRegion)
          /\ Range(kept) = {g \in Range(r.vmm.mapped_regions) : ~ Covers(g, p)}
      BY <1>1, RetainOK DEF ListOK, kept
    <3> QED BY <1>1, <2>1, <3>2, <3>3 DEF ListOK
  <2>6. CountOK(v)
    <3>1. /\ count_mapped_pages(s) = Cardinality(DOMAIN s.pages) + HugeCount(BootSpace)
          /\ HugeCount(BootSpace) \in Nat
      BY <1>2, HugeCountType
    <3>2. count_mapped_pages(uu.space) =
            Cardinality(DOMAIN uu.space.pages) + HugeCount(BootSpace)
      <4>1. /\ DOMAIN uu.space.huge = DOMAIN BootSpace.huge
            /\ IsFiniteSet(DOMAIN uu.space.pages)
        BY <2>1, <2>4 DEF TreeOK, Broader
      <4> QED BY <4>1, HugeCountType
    <3>3. /\ Cardinality(DOMAIN s.pages) \in Nat /\ Cardinality(DOMAIN uu.space.pages) \in Nat
          /\ Cardinality(DOMAIN uu.space.pages) = Cardinality(DOMAIN s.pages) - 1
      <4>1. DOMAIN uu.space.pages = DOMAIN s.pages \ {p}
        BY <1>3, <1>7
      <4>2. /\ IsFiniteSet(DOMAIN s.pages \ {p})
            /\ Cardinality(DOMAIN s.pages \ {p}) = Cardinality(DOMAIN s.pages) - 1
        BY <1>2, <2>3, FS_RemoveElement
      <4> QED BY <1>2, <4>1, <4>2, FS_CardinalityType
    <3>4. /\ count_mapped_pages(uu.space) = st.total_mapped_pages - 1
          /\ st.total_mapped_pages \in Nat \ {0}
      BY <2>2, <3>1, <3>2, <3>3
    <3>5. v.stats = [total_mapped_pages |-> st.total_mapped_pages - 1,
                     map_count |-> st.map_count,
                     unmap_count |-> st.unmap_count + 1,
                     remap_count |-> st.remap_count,
                     tlb_flush_count |-> st.tlb_flush_count + 1]
      <4> HIDE DEF v, st
      <4> QED BY <2>1, <2>2, <3>4 DEF VmmStatistics
    <3>6. /\ st.total_mapped_pages - 1 \in Nat /\ st.map_count \in Nat
          /\ st.unmap_count + 1 \in Nat /\ st.remap_count \in Nat
          /\ st.tlb_flush_count + 1 \in Nat
      BY <2>2, <3>4 DEF VmmStatistics
    <3>7. v.stats \in VmmStatistics /\ v.stats.total_mapped_pages = st.total_mapped_pages - 1
      <4> HIDE DEF v, st
      <4> QED BY <3>5, <3>6 DEF VmmStatistics
    <3> QED BY <2>1, <3>4, <3>7 DEF CountOK, validate
  <2>7. FramesOK(v, u.allocator, o)
    BY <1>1, <1>3, <1>7, <2>1 DEF FramesOK
  <2>8. /\ p \in DOMAIN PagesOf(r) /\ DOMAIN PagesOf(u) = DOMAIN PagesOf(r) \ {p}
        /\ \A q \in DOMAIN PagesOf(r) \ {p} : PagesOf(u)[q] = PagesOf(r)[q]
    BY <1>3, <1>7, <2>1 DEF PagesOf
  <2>9. HugeOf(u) = HugeOf(r)
    BY <2>1, <2>3 DEF HugeOf
  <2> QED BY <1>7, <2>1, <2>4, <2>5, <2>6, <2>7, <2>8, <2>9 DEF u, p, GoodCall, Good
<1> QED BY <1>5, <1>6, <1>7

-----------------------------------------------------------------------------
(* Partial functions that agree where the first is defined. *)
PartOf(f, g) == DOMAIN f \subseteq DOMAIN g /\ \A q \in DOMAIN f : g[q] = f[q]

LEMMA PartOfWith ==
  ASSUME NEW f, NEW p, NEW y, p \notin DOMAIN f
  PROVE  PartOf(f, With(f, p, y)) /\ DOMAIN With(f, p, y) = DOMAIN f \cup {p}
<1>1. DOMAIN With(f, p, y) = DOMAIN f \cup {p}
  BY WithDomain
<1>2. \A q \in DOMAIN f : With(f, p, y)[q] = f[q]
  BY WithOld
<1> QED BY <1>1, <1>2 DEF PartOf

LEMMA PartOfTrans ==
  ASSUME NEW f, NEW g, NEW h, PartOf(f, g), PartOf(g, h)
  PROVE  PartOf(f, h)
BY DEF PartOf

(* The page of an address, and of the address i pages on. *)
LEMMA PageOfType ==
  ASSUME NEW x \in Nat, NEW i \in Nat
  PROVE  /\ PageOf(x) \in Nat
         /\ x + i * FrameSize \in Nat /\ PageOf(x + i * FrameSize) = PageOf(x) + i
<1>1. FrameSize \in Nat \ {0}
  BY FrameAllocatorAssumption
<1>2. x \div FrameSize \in Nat /\ (x \div FrameSize) * FrameSize <= x
      /\ x < (x \div FrameSize) * FrameSize + FrameSize
  BY <1>1, DivideSpan
<1> DEFINE q == x \div FrameSize
<1>3. i * FrameSize \in Nat /\ q * FrameSize \in Nat
      /\ (q + i) * FrameSize = q * FrameSize + i * FrameSize
  BY <1>1, <1>2
<1> HIDE DEF q
<1>4. /\ q + i \in Nat /\ x + i * FrameSize \in Nat
      /\ (q + i) * FrameSize <= x + i * FrameSize
      /\ x + i * FrameSize < (q + i) * FrameSize + FrameSize
  BY <1>1, <1>2, <1>3 DEF q
<1>5. (x + i * FrameSize) \div FrameSize = q + i
  BY <1>1, <1>4, QuotientOfSpan
<1> QED BY <1>2, <1>4, <1>5 DEF PageOf, q

(* map_page maps the page it is given, if it was not mapped, or none. *)
LEMMA MapPageOK ==
  ASSUME NEW r, NEW o, GoodCall(r, o), NEW virt, PageOf(virt) \in Page,
         NEW phys, PageOf(phys) \in Nat, NEW flags \in Flags
  PROVE  MapPost(r, map_page(r, virt, phys, flags), o, PageOf(virt),
                 [frame |-> PageOf(phys), flags |-> flags])
<1> DEFINE m == map_page(r, virt, phys, flags)
           p == PageOf(virt)
           frame == PageOf(phys)
<1>1. CASE ~is_aligned(virt) \/ ~is_aligned(phys)
  <2>1. m = Fails(r, "InvalidAddress")
    BY <1>1 DEF map_page
  <2> HIDE DEF m
  <2>2. /\ GoodCall(m, o) /\ m.result = "InvalidAddress" /\ PagesOf(m) = PagesOf(r)
        /\ HugeOf(m) = HugeOf(r)
    BY <2>1, FailsOK DEF PagesOf, HugeOf
  <2>3. Broader(HugeOf(r), HugeOf(r), flags)
    <3>1. Range(HugeOf(r)) \subseteq Leaf
      BY DEF GoodCall, Good, TreeOK, WellFormed, HugeOf
    <3> QED BY <3>1, BroaderRefl
  <2> QED BY <2>2, <2>3 DEF m, MapPost
<1>2. CASE is_aligned(virt) /\ is_aligned(phys)
  <2>1. m = Mapped(r, p, frame, flags)
    BY <1>2 DEF map_page
  <2> QED BY <2>1, MappedOK
<1> QED BY <1>1, <1>2

(* remap_page moves the page it is given, loses it, or changes nothing. *)
LEMMA RemapPageOK ==
  ASSUME NEW r, NEW o, GoodCall(r, o), NEW virt, PageOf(virt) \in Page,
         NEW phys, PageOf(phys) \in Nat, NEW flags \in Flags
  PROVE  LET m == remap_page(r, virt, phys, flags)
             p == PageOf(virt)
         IN  /\ GoodCall(m, o) /\ HugeOf(m) = HugeOf(r)
             /\ \/ m.result # "Ok" /\ PagesOf(m) = PagesOf(r)
                \/ /\ p \in DOMAIN PagesOf(r)
                   /\ DOMAIN PagesOf(m) \cup {p} = DOMAIN PagesOf(r)
                   /\ \A q \in DOMAIN PagesOf(r) \ {p} : PagesOf(m)[q] = PagesOf(r)[q]
                   /\ IF m.result = "Ok"
                        THEN /\ p \in DOMAIN PagesOf(m)
                             /\ PagesOf(m)[p] = [frame |-> PageOf(phys), flags |-> flags]
                        ELSE p \notin DOMAIN PagesOf(m)
<1> DEFINE u == unmap_page(r, virt)
           n == map_page(u, virt, phys, flags)
           m == remap_page(r, virt, phys, flags)
           p == PageOf(virt)
           leaf == [frame |-> PageOf(phys), flags |-> flags]
<1>1. m = IF u.result # "Ok" THEN u
          ELSE IF n.result # "Ok" THEN n
          ELSE [n EXCEPT !.vmm.stats.remap_count = @ + 1]
  BY DEF remap_page
<1>2. /\ GoodCall(u, o) /\ HugeOf(u) = HugeOf(r)
      /\ u.result # "Ok" => u.vmm = r.vmm
      /\ u.result = "Ok" =>
           /\ p \in DOMAIN PagesOf(r)
           /\ DOMAIN PagesOf(u) = DOMAIN PagesOf(r) \ {p}
           /\ \A q \in DOMAIN PagesOf(r) \ {p} : PagesOf(u)[q] = PagesOf(r)[q]
  BY UnmapPageOK
<1> HIDE DEF u
<1>a. MapPost(u, n, o, p, leaf)
  BY <1>2, MapPageOK
<1> HIDE DEF n, m, leaf, p
<1>3. /\ GoodCall(n, o)
      /\ n.result # "Ok" => PagesOf(n) = PagesOf(u)
      /\ n.result = "Ok" => p \notin DOMAIN PagesOf(u) /\ PagesOf(n) = With(PagesOf(u), p, leaf)
  BY <1>a DEF MapPost
<1>b. u.result = "Ok" => HugeOf(n) = HugeOf(r)
  <2>1. p \in DOMAIN PagesOf(r) => Above(p) \cap DOMAIN BootSpace.huge = {}
    BY DEF GoodCall, Good, TreeOK, WellFormed, Broader, PagesOf
  <2> QED BY <1>2, <1>a, <2>1 DEF MapPost
<1>4. CASE u.result # "Ok"
  BY <1>1, <1>2, <1>4 DEF m, PagesOf
<1>5. CASE u.result = "Ok" /\ n.result # "Ok"
  <2>1. /\ GoodCall(m, o) /\ m.result # "Ok" /\ PagesOf(m) = PagesOf(u)
        /\ HugeOf(m) = HugeOf(r)
    BY <1>1, <1>3, <1>5, <1>b
  <2>2. /\ p \in DOMAIN PagesOf(r) /\ p \notin DOMAIN PagesOf(m)
        /\ DOMAIN PagesOf(m) \cup {p} = DOMAIN PagesOf(r)
        /\ \A q \in DOMAIN PagesOf(r) \ {p} : PagesOf(m)[q] = PagesOf(r)[q]
    BY <1>2, <1>5, <2>1
  <2> QED BY <2>1, <2>2 DEF m, p
<1>6. CASE u.result = "Ok" /\ n.result = "Ok"
  <2> DEFINE st == n.vmm.stats
             st2 == [st EXCEPT !.remap_count = @ + 1]
             w == n.vmm
  <2>1. Good(w, n.allocator, o) /\ IsCall(n)
    BY <1>3 DEF GoodCall
  <2>2. DOMAIN w = {"page_table", "mapped_regions", "stats", "validation_enabled"}
    BY <2>1 DEF Good, TreeOK
  <2>3. m = [n EXCEPT !.vmm = [w EXCEPT !.stats = st2]]
    BY <1>1, <1>6, <2>1, <2>2 DEF IsCall
  <2> HIDE DEF w, st2
  <2>4. /\ IsCall(m) /\ m.result = "Ok" /\ m.allocator = n.allocator
        /\ m.vmm = [w EXCEPT !.stats = st2]
    BY <1>6, <2>1, <2>3 DEF IsCall
  <2> DEFINE v == m.vmm
  <2>5. /\ DOMAIN v = DOMAIN w /\ v.page_table = w.page_table
        /\ v.mapped_regions = w.mapped_regions /\ v.stats = st2
        /\ v.validation_enabled = w.validation_enabled
    BY <2>2, <2>4
  <2> HIDE DEF v
  <2>6. st2 \in VmmStatistics /\ st2.total_mapped_pages = st.total_mapped_pages
    <3>1. st \in VmmStatistics
      BY <2>1 DEF Good, CountOK, w
    <3> HIDE DEF st
    <3> QED BY <3>1 DEF st2, VmmStatistics
  <2>7. Good(v, m.allocator, o)
    <3>1. TreeOK(v)
      BY <2>1, <2>5 DEF Good, TreeOK
    <3>2. ListOK(v)
      BY <2>1, <2>5 DEF Good, ListOK
    <3>3. CountOK(v)
      BY <2>1, <2>5, <2>6 DEF Good, CountOK, validate, w
    <3>4. FramesOK(v, m.allocator, o)
      BY <2>1, <2>4, <2>5 DEF Good, FramesOK
    <3> QED BY <3>1, <3>2, <3>3, <3>4 DEF Good
  <2>8. PagesOf(m) = PagesOf(n) /\ HugeOf(m) = HugeOf(r)
    BY <1>6, <1>b, <2>5 DEF PagesOf, HugeOf, v, w
  <2>9. PartOf(PagesOf(u), PagesOf(m)) /\ DOMAIN PagesOf(m) = DOMAIN PagesOf(u) \cup {p}
    <3>1. /\ PartOf(PagesOf(u), With(PagesOf(u), p, leaf))
          /\ DOMAIN With(PagesOf(u), p, leaf) = DOMAIN PagesOf(u) \cup {p}
      BY <1>3, <1>6, PartOfWith
    <3> QED BY <1>3, <1>6, <2>8, <3>1
  <2>10. /\ p \in DOMAIN PagesOf(r) /\ p \in DOMAIN PagesOf(m)
         /\ DOMAIN PagesOf(m) \cup {p} = DOMAIN PagesOf(r)
         /\ \A q \in DOMAIN PagesOf(r) \ {p} : PagesOf(m)[q] = PagesOf(r)[q]
    BY <1>2, <1>6, <2>9 DEF PartOf
  <2>11. PagesOf(m)[p] = leaf
    BY <1>3, <1>6, <2>8, WithNew
  <2> QED BY <2>4, <2>7, <2>8, <2>10, <2>11 DEF m, p, v, leaf, GoodCall
<1> QED BY <1>4, <1>5, <1>6

-----------------------------------------------------------------------------
(***************************************************************************)
(* The bulk calls, after i pages.  Whether they finish or stop half way,   *)
(* map_region and identity_map only add pages they were asked for, with    *)
(* the target they were asked for, and unmap_region drops those it was     *)
(* asked to drop.                                                          *)
(***************************************************************************)
BootPages == UNION {PagesBelow(n) : n \in DOMAIN BootSpace.huge}

Target(virt, phys, flags, p) ==
  [frame |-> PageOf(phys) + (p - PageOf(virt)), flags |-> flags]

AddedOnly(r, m, N, virt, phys, flags) ==
  /\ PartOf(PagesOf(r), PagesOf(m))
  /\ \A p \in DOMAIN PagesOf(m) \ DOMAIN PagesOf(r) :
       p \in N /\ PagesOf(m)[p] = Target(virt, phys, flags, p)

BulkPost(op, r, m, o, N, virt, phys, flags) ==
  /\ GoodCall(m, o)
  /\ Broader(HugeOf(r), HugeOf(m), flags)
  /\ m.result # "ParentEntryHugePage" => HugeOf(m) = HugeOf(r)
  /\ m.result # "Ok" => N # {}
  /\ op = "unmap_region" => /\ m.result = "Ok" /\ PartOf(PagesOf(m), PagesOf(r))
                            /\ DOMAIN PagesOf(m) = DOMAIN PagesOf(r) \ N
  /\ op # "unmap_region" => AddedOnly(r, m, N, virt, phys, flags)
  /\ op # "unmap_region" /\ m.result = "Ok" => N \subseteq DOMAIN PagesOf(m) \cup BootPages
  /\ op = "map_region" /\ m.result = "Ok" => /\ N \subseteq DOMAIN PagesOf(m)
                                             /\ N \cap DOMAIN PagesOf(r) = {}

BulkOps == {"map_region", "unmap_region", "identity_map"}

LEMMA BulkPostStart ==
  ASSUME NEW op, NEW r, NEW o, GoodCall(r, o), r.result = "Ok",
         NEW virt, NEW phys, NEW flags
  PROVE  BulkPost(op, r, r, o, {}, virt, phys, flags)
<1>1. Range(HugeOf(r)) \subseteq Leaf
  BY DEF GoodCall, Good, TreeOK, WellFormed, HugeOf
<1>2. Broader(HugeOf(r), HugeOf(r), flags)
  BY <1>1, BroaderRefl
<1>3. PartOf(PagesOf(r), PagesOf(r))
  BY DEF PartOf
<1>4. AddedOnly(r, r, {}, virt, phys, flags)
  BY <1>3 DEF AddedOnly
<1> HIDE DEF BulkOps
<1> QED BY <1>2, <1>3, <1>4 DEF BulkPost

LEMMA BulkPostTrans ==
  ASSUME NEW op, NEW r, NEW m, NEW n, NEW o, NEW N, NEW M, NEW virt, NEW phys, NEW flags,
         BulkPost(op, r, m, o, N, virt, phys, flags), m.result = "Ok",
         BulkPost(op, m, n, o, M, virt, phys, flags)
  PROVE  BulkPost(op, r, n, o, N \cup M, virt, phys, flags)
<1>1. HugeOf(m) = HugeOf(r)
  BY DEF BulkPost
<1>2. CASE op = "unmap_region"
  <2>1. PartOf(PagesOf(n), PagesOf(r))
    BY <1>2, PartOfTrans DEF BulkPost
  <2>2. DOMAIN PagesOf(n) = DOMAIN PagesOf(r) \ (N \cup M)
    BY <1>2 DEF BulkPost
  <2> QED BY <1>1, <1>2, <2>1, <2>2 DEF BulkPost
<1>3. CASE op # "unmap_region"
  <2>1. AddedOnly(r, m, N, virt, phys, flags) /\ AddedOnly(m, n, M, virt, phys, flags)
    BY <1>3 DEF BulkPost
  <2>2. PartOf(PagesOf(r), PagesOf(n))
    BY <2>1, PartOfTrans DEF AddedOnly
  <2>3. AddedOnly(r, n, N \cup M, virt, phys, flags)
    BY <2>1, <2>2 DEF AddedOnly, PartOf
  <2>4. DOMAIN PagesOf(m) \subseteq DOMAIN PagesOf(n) /\ DOMAIN PagesOf(r) \subseteq DOMAIN PagesOf(m)
    BY <2>1 DEF AddedOnly, PartOf
  <2> QED BY <1>1, <1>3, <2>3, <2>4 DEF BulkPost
<1> QED BY <1>2, <1>3

(* The address i pages on is aligned too. *)
LEMMA AlignedOn ==
  ASSUME NEW x \in Nat, NEW i \in Nat, is_aligned(x)
  PROVE  is_aligned(x + i * FrameSize)
<1> DEFINE b == FrameSize
           y == x + i * b
           q == PageOf(x)
<1>1. b \in Nat \ {0} /\ q \in Nat /\ y \in Nat /\ PageOf(y) = q + i
  BY FrameAllocatorAssumption, PageOfType
<1>2. x = q * b
  <2>1. x = q * b + (x % b) /\ x % b = 0
    BY <1>1, DivideSpan DEF PageOf, is_aligned
  <2> HIDE DEF q
  <2>2. q * b \in Nat
    BY <1>1
  <2> QED BY <2>1, <2>2
<1>3. y = (q + i) * b + (y % b) /\ y % b \in Nat
  <2>1. y = PageOf(y) * b + (y % b) /\ y % b \in Nat
    <3> HIDE DEF y
    <3> QED BY <1>1, DivideSpan DEF PageOf
  <2> HIDE DEF y
  <2> QED BY <1>1, <2>1
<1>4. y = (q + i) * b
  <2> HIDE DEF q
  <2>1. (q + i) * b = q * b + i * b
    BY <1>1
  <2> QED BY <1>2, <2>1
<1>5. y % b = 0
  <2> HIDE DEF y, q
  <2>1. (q + i) * b \in Nat
    BY <1>1
  <2> QED BY <1>3, <1>4, <2>1
<1> QED BY <1>5 DEF is_aligned

(* A page that has a translation is a 4 KiB page or a boot page. *)
LEMMA TranslatedIsMapped ==
  ASSUME NEW v, TreeOK(v), NEW p \in Nat, translate(v.page_table, p) # {}
  PROVE  p \in DOMAIN v.page_table.pages \cup BootPages
<1> DEFINE s == v.page_table
<1>1. CASE p \in DOMAIN s.pages
  BY <1>1
<1>2. CASE p \notin DOMAIN s.pages
  <2>1. Above(p) \cap DOMAIN s.huge # {}
    BY <1>2 DEF translate
  <2>2. PICK n : n \in Above(p) /\ n \in DOMAIN BootSpace.huge
    BY <2>1 DEF TreeOK, Broader
  <2>3. p \in PagesBelow(n)
    BY <2>2, BootHuge, BelowIsAbove
  <2> QED BY <2>2, <2>3 DEF BootPages
<1> QED BY <1>1, <1>2

LEMMA BulkPageOK ==
  ASSUME NEW op \in BulkOps, NEW r, NEW o, GoodCall(r, o), r.result = "Ok",
         NEW virt \in Nat, NEW phys \in Nat, NEW flags \in Flags, NEW i \in Nat,
         op # "unmap_region" => PageOf(virt) + i \in Page /\ PageOf(phys) + i \in Page,
         op = "identity_map" => virt = phys, op = "unmap_region" => is_aligned(virt)
  PROVE  BulkPost(op, r, BulkPage(op, r, virt, phys, flags, i), o, {PageOf(virt) + i},
                  virt, phys, flags)
<1> DEFINE v == virt + i * FrameSize
           q == PageOf(virt) + i
           p == PageOf(phys) + i
           m == BulkPage(op, r, virt, phys, flags, i)
<1>1. /\ PageOf(v) = q /\ PageOf(phys + i * FrameSize) = p /\ p \in Nat
      /\ PageOf(phys) + (q - PageOf(virt)) = p
  <2>1. PageOf(virt + i * FrameSize) = PageOf(virt) + i
    BY PageOfType, Zenon
  <2>2. PageOf(phys + i * FrameSize) = PageOf(phys) + i
    BY PageOfType, Zenon
  <2>3. PageOf(phys) \in Nat /\ PageOf(virt) \in Nat
    BY PageOfType, Zenon
  <2>4. PageOf(phys) + i \in Nat /\ PageOf(phys) + (q - PageOf(virt)) = p
    BY <2>3
  <2> QED BY <2>1, <2>2, <2>4, Zenon
<1>2. m = CASE op = "map_region"   -> map_page(r, v, phys + i * FrameSize, flags)
            [] op = "unmap_region" -> Fails(unmap_page(r, v), "Ok")
            [] op = "identity_map" -> IF translate(r.vmm.page_table, p) # {} THEN r
                                      ELSE Mapped(r, p, p, flags)
  BY DEF BulkPage
<1>a. Target(virt, phys, flags, q) = [frame |-> p, flags |-> flags]
  BY <1>1 DEF Target
<1>b. op = "identity_map" => p = q
  OBVIOUS
<1> DEFINE leaf == [frame |-> p, flags |-> flags]
<1>c. leaf.flags = flags
  OBVIOUS
<1>d. op = "unmap_region" => is_aligned(v)
  BY AlignedOn
<1> HIDE DEF m, v, p, q, leaf
<1>3. ASSUME MapPost(r, m, o, q, leaf), op # "unmap_region"
      PROVE  BulkPost(op, r, m, o, {q}, virt, phys, flags)
  <2>1. CASE m.result # "Ok"
    <3>1. PartOf(PagesOf(r), PagesOf(m)) /\ PagesOf(m) = PagesOf(r)
      BY <1>3, <2>1 DEF PartOf, MapPost
    <3>2. AddedOnly(r, m, {q}, virt, phys, flags)
      BY <3>1 DEF AddedOnly
    <3> QED BY <1>3, <1>c, <2>1, <3>2 DEF BulkPost, MapPost
  <2>2. CASE m.result = "Ok"
    <3>1. q \notin DOMAIN PagesOf(r) /\ PagesOf(m) = With(PagesOf(r), q, leaf)
      BY <1>3, <2>2 DEF MapPost
    <3>2. /\ PartOf(PagesOf(r), PagesOf(m))
          /\ DOMAIN PagesOf(m) = DOMAIN PagesOf(r) \cup {q}
      <4>1. /\ PartOf(PagesOf(r), With(PagesOf(r), q, leaf))
            /\ DOMAIN With(PagesOf(r), q, leaf) = DOMAIN PagesOf(r) \cup {q}
        BY <3>1, PartOfWith
      <4> QED BY <3>1, <4>1
    <3>3. PagesOf(m)[q] = Target(virt, phys, flags, q)
      BY <1>a, <3>1, WithNew DEF leaf
    <3>4. AddedOnly(r, m, {q}, virt, phys, flags)
      BY <3>2, <3>3 DEF AddedOnly
    <3> QED BY <1>3, <1>c, <2>2, <3>1, <3>2, <3>4 DEF BulkPost, MapPost
  <2> QED BY <2>1, <2>2
<1>4. CASE op = "map_region"
  <2> DEFINE ph == phys + i * FrameSize
  <2>1. m = map_page(r, v, ph, flags)
    BY <1>2, <1>4
  <2>2. PageOf(v) \in Page /\ PageOf(ph) \in Nat
    BY <1>1, <1>4 DEF q
  <2>3. leaf = [frame |-> PageOf(ph), flags |-> flags] /\ PageOf(v) = q
    BY <1>1 DEF leaf
  <2> HIDE DEF ph
  <2>4. MapPost(r, m, o, q, leaf)
    BY <2>1, <2>2, <2>3, MapPageOK
  <2> QED BY <1>3, <1>4, <2>4 DEF m, q
<1>5. CASE op = "unmap_region"
  <2> DEFINE u == unmap_page(r, v)
  <2>1. m = Fails(u, "Ok")
    BY <1>2, <1>5
  <2>2. /\ GoodCall(u, o) /\ HugeOf(u) = HugeOf(r)
        /\ u.result # "Ok" => u.vmm = r.vmm
        /\ u.result = "Ok" =>
             /\ DOMAIN PagesOf(u) = DOMAIN PagesOf(r) \ {q}
             /\ \A z \in DOMAIN PagesOf(r) \ {q} : PagesOf(u)[z] = PagesOf(r)[z]
    BY <1>1, UnmapPageOK
  <2>a. u.result # "Ok" => q \notin DOMAIN PagesOf(r)
    BY <1>1, <1>5, <1>d, UnmapPageOK
  <2> HIDE DEF u
  <2>3. GoodCall(m, o) /\ PagesOf(m) = PagesOf(u) /\ HugeOf(m) = HugeOf(r) /\ m.result = "Ok"
    BY <2>1, <2>2, FailsOK DEF PagesOf, HugeOf
  <2>4. PartOf(PagesOf(u), PagesOf(r)) /\ DOMAIN PagesOf(u) = DOMAIN PagesOf(r) \ {q}
    <3>1. CASE u.result # "Ok"
      BY <2>2, <2>a, <3>1 DEF PartOf, PagesOf
    <3>2. CASE u.result = "Ok"
      BY <2>2, <3>2 DEF PartOf
    <3> QED BY <3>1, <3>2
  <2>5. Broader(HugeOf(r), HugeOf(r), flags)
    <3>1. Range(HugeOf(r)) \subseteq Leaf
      BY DEF GoodCall, Good, TreeOK, WellFormed, HugeOf
    <3> QED BY <3>1, BroaderRefl
  <2> QED BY <1>5, <2>3, <2>4, <2>5 DEF BulkPost, m, q
<1>6. CASE op = "identity_map"
  <2>0. p = q /\ p \in Page /\ p \in Nat
    BY <1>1, <1>6, <1>b DEF p
  <2>1. \/ m = r /\ translate(r.vmm.page_table, p) # {}
        \/ m = Mapped(r, p, p, flags)
    BY <1>2, <1>6
  <2>2. CASE m = r /\ translate(r.vmm.page_table, p) # {}
    <3>1. TreeOK(r.vmm)
      BY DEF GoodCall, Good
    <3>2. q \in DOMAIN PagesOf(r) \cup BootPages
      BY <2>0, <2>2, <3>1, TranslatedIsMapped DEF PagesOf
    <3> DEFINE N == {}
    <3>3. BulkPost(op, r, r, o, N, virt, phys, flags)
      BY BulkPostStart
    <3> HIDE DEF N
    <3>4. AddedOnly(r, r, {q}, virt, phys, flags)
      <4>1. PartOf(PagesOf(r), PagesOf(r))
        BY DEF PartOf
      <4> QED BY <4>1 DEF AddedOnly
    <3>5. BulkPost(op, r, r, o, {q}, virt, phys, flags)
      BY <1>6, <3>2, <3>3, <3>4 DEF BulkPost
    <3> QED BY <2>2, <3>5 DEF m, q
  <2>3. CASE m = Mapped(r, p, p, flags)
    <3>1. MapPost(r, m, o, q, leaf)
      BY <2>0, <2>3, MappedOK DEF leaf
    <3> QED BY <1>3, <1>6, <3>1 DEF m, q
  <2> QED BY <2>1, <2>2, <2>3
<1> QED BY <1>4, <1>5, <1>6 DEF BulkOps

(* The recursive function of a bulk call, which exists like that of retain. *)
Runs(f, op, r, virt, phys, flags, n) ==
  f = [i \in 0 .. n |-> IF i = 0 THEN r
                        ELSE IF f[i - 1].result # "Ok" THEN f[i - 1]
                        ELSE BulkPage(op, f[i - 1], virt, phys, flags, i - 1)]

LEMMA RunsExists ==
  ASSUME NEW op, NEW r, NEW virt, NEW phys, NEW flags, NEW n \in Nat
  PROVE  \E f : Runs(f, op, r, virt, phys, flags, n)
<1> DEFINE Bad == {m \in Nat : ~ \E f : Runs(f, op, r, virt, phys, flags, m)}
<1> SUFFICES ASSUME Bad # {} PROVE FALSE
  OBVIOUS
<1>1. PICK m \in Bad : \A y \in Bad : m <= y
  BY MinOfNats
<1>2. CASE m = 0
  <2> DEFINE f == [i \in 0 .. 0 |-> r]
  <2>1. \A i \in 0 .. 0 : i = 0
    OBVIOUS
  <2>2. Runs(f, op, r, virt, phys, flags, 0)
    BY <2>1 DEF Runs
  <2> QED BY <1>1, <1>2, <2>2, Zenon
<1>3. CASE m # 0
  <2>0. m \in Nat /\ m - 1 \in Nat /\ m - 1 \notin Bad
    BY <1>1, <1>3
  <2>1. PICK f : Runs(f, op, r, virt, phys, flags, m - 1)
    BY <2>0
  <2> DEFINE Step(x, i) == IF x.result # "Ok" THEN x
                           ELSE BulkPage(op, x, virt, phys, flags, i - 1)
             g == [i \in 0 .. m |-> IF i = m THEN Step(f[m - 1], m) ELSE f[i]]
  <2>2. \A i \in 0 .. m - 1 : f[i] = IF i = 0 THEN r ELSE Step(f[i - 1], i)
    <3> HIDE DEF Step
    <3> QED BY <2>1 DEF Runs, Step
  <2>3. \A i \in 0 .. m : i # m => i \in 0 .. m - 1
    BY <2>0
  <2>4. \A i \in 0 .. m : i # 0 => i - 1 \in 0 .. m /\ i - 1 # m
    BY <2>0
  <2>5. \A i \in 0 .. m : g[i] = IF i = m THEN Step(f[m - 1], m) ELSE f[i]
    <3> HIDE DEF Step
    <3> QED OBVIOUS
  <2>6. \A i \in 0 .. m : g[i] = IF i = 0 THEN r ELSE Step(g[i - 1], i)
    <3> HIDE DEF Step, g
    <3> QED BY <1>3, <2>2, <2>3, <2>4, <2>5
  <2>7. g = [i \in 0 .. m |-> IF i = 0 THEN r ELSE Step(g[i - 1], i)]
    <3>1. g = [i \in 0 .. m |-> g[i]]
      <4> HIDE DEF Step
      <4> QED OBVIOUS
    <3> HIDE DEF Step, g
    <3> QED BY <2>6, <3>1
  <2>8. Runs(g, op, r, virt, phys, flags, m)
    <3> HIDE DEF g
    <3> QED BY <2>7 DEF Runs
  <2> QED BY <1>1, <2>8, Zenon
<1> QED BY <1>2, <1>3

LEMMA NamedMore ==
  ASSUME NEW virt \in Nat, NEW i \in Nat
  PROVE  /\ Named(virt, 0) = {} /\ Named(virt, 1) = {PageOf(virt)}
         /\ Named(virt, i + 1) = Named(virt, i) \cup {PageOf(virt) + i}
<1>1. PageOf(virt) \in Nat
  BY PageOfType
<1>2. 0 .. 0 - 1 = {} /\ 0 .. 1 - 1 = {0} /\ PageOf(virt) + 0 = PageOf(virt)
  BY <1>1
<1>3. 0 .. (i + 1) - 1 = (0 .. i - 1) \cup {i}
  OBVIOUS
<1>4. Named(virt, 0) = {} /\ Named(virt, 1) = {PageOf(virt)}
  BY <1>2, Zenon DEF Named
<1>5. Named(virt, i + 1) = Named(virt, i) \cup {PageOf(virt) + i}
  BY <1>3, Zenon DEF Named
<1> QED BY <1>4, <1>5

LEMMA EachPageOK ==
  ASSUME NEW op \in BulkOps, NEW r, NEW o, GoodCall(r, o), r.result = "Ok",
         NEW virt \in Nat, NEW phys \in Nat, NEW flags \in Flags, NEW count \in Nat,
         op # "unmap_region" =>
           \A i \in 0 .. count : PageOf(virt) + i \in Page /\ PageOf(phys) + i \in Page,
         op = "identity_map" => virt = phys, op = "unmap_region" => is_aligned(virt)
  PROVE  BulkPost(op, r, EachPage(op, r, virt, phys, count, flags), o,
                  Named(virt, count), virt, phys, flags)
<1> DEFINE D == CHOOSE f : Runs(f, op, r, virt, phys, flags, count)
           Post(i) == BulkPost(op, r, D[i], o, Named(virt, i), virt, phys, flags)
           Bad == {i \in 0 .. count : ~ Post(i)}
<1>1. EachPage(op, r, virt, phys, count, flags) = D[count]
  BY Zenon DEF EachPage, Runs
<1>2. Runs(D, op, r, virt, phys, flags, count)
  <2>1. \E f : Runs(f, op, r, virt, phys, flags, count)
    BY RunsExists
  <2> QED BY <2>1, Zenon
<1> HIDE DEF D
<1>3. \A i \in 0 .. count :
        D[i] = IF i = 0 THEN r
               ELSE IF D[i - 1].result # "Ok" THEN D[i - 1]
               ELSE BulkPage(op, D[i - 1], virt, phys, flags, i - 1)
  BY <1>2, Zenon DEF Runs
<1>4. Bad = {}
  <2> SUFFICES ASSUME Bad # {} PROVE FALSE
    OBVIOUS
  <2>0. Bad \subseteq Nat
    OBVIOUS
  <2>1. PICK m \in Bad : \A y \in Bad : m <= y
    BY <2>0, MinOfNats
  <2>2. m # 0
    <3>1. D[0] = r
      BY <1>3
    <3> DEFINE N == {}
    <3>2. BulkPost(op, r, r, o, N, virt, phys, flags)
      BY BulkPostStart
    <3>3. Named(virt, 0) = N
      BY NamedMore
    <3> HIDE DEF N
    <3>4. Post(0)
      BY <3>1, <3>2, <3>3
    <3> QED BY <2>1, <3>4
  <2> DEFINE i == m - 1
             x == D[i]
             y == BulkPage(op, x, virt, phys, flags, i)
             N == Named(virt, i)
             M == {PageOf(virt) + i}
  <2>3. /\ m \in 0 .. count /\ i \in 0 .. count /\ i \in Nat /\ i \notin Bad /\ m = i + 1
    BY <2>1, <2>2
  <2>4. BulkPost(op, r, x, o, N, virt, phys, flags)
    BY <2>3
  <2>5. D[m] = IF x.result # "Ok" THEN x ELSE y
    BY <1>3, <2>2, <2>3
  <2>6. Named(virt, m) = N \cup M
    BY <2>3, NamedMore
  <2>7. op # "unmap_region" => PageOf(virt) + i \in Page /\ PageOf(phys) + i \in Page
    BY <2>3
  <2> HIDE DEF i, x, N, M, Bad
  <2>8. CASE x.result # "Ok"
    <3>1. AddedOnly(r, x, N, virt, phys, flags) =>
            AddedOnly(r, x, N \cup M, virt, phys, flags)
      BY DEF AddedOnly
    <3>2. BulkPost(op, r, x, o, N \cup M, virt, phys, flags)
      BY <2>4, <2>8, <3>1 DEF BulkPost
    <3>3. Post(m)
      BY <2>5, <2>6, <2>8, <3>2
    <3> QED BY <2>1, <3>3 DEF Bad
  <2>9. CASE x.result = "Ok"
    <3>1. GoodCall(x, o)
      BY <2>4 DEF BulkPost
    <3>2. BulkPost(op, x, y, o, M, virt, phys, flags)
      BY <2>3, <2>7, <2>9, <3>1, BulkPageOK DEF M
    <3> HIDE DEF y
    <3>3. BulkPost(op, r, y, o, N \cup M, virt, phys, flags)
      BY <2>4, <2>9, <3>2, BulkPostTrans
    <3>4. Post(m)
      BY <2>5, <2>6, <2>9, <3>3
    <3> QED BY <2>1, <3>4 DEF Bad
  <2> QED BY <2>8, <2>9
<1>5. Post(count)
  BY <1>4
<1> QED BY <1>1, <1>5

-----------------------------------------------------------------------------
(***************************************************************************)
(* The invariant, step by step.                                            *)
(***************************************************************************)
LEMMA VmmInvInit == Init => VmmInv
<1> SUFFICES ASSUME Init PROVE VmmInv
  OBVIOUS
<1>1. StandardFrames \subseteq Frames
  BY DEF StandardFrames, FramesTouched
<1>2. /\ Sound(init_standard_reservations(new))
      /\ init_standard_reservations(new).bitmap = StandardFrames
  BY <1>1, NewOK, ReserveSound DEF init_standard_reservations, Sound
<1> QED BY <1>2 DEF Init, VmmInv

(* What the constants say of the arguments of the calls. *)
LEMMA Arguments ==
  /\ Given \subseteq Flags
  /\ \A v \in Virts : v \in Nat /\ PageOf(v) \in Page
  /\ \A ph \in Phys : ph \in Nat /\ PageOf(ph) \in Nat
  /\ \A g \in Ranges :
       /\ g[1] \in Nat /\ g[2] \in Nat /\ g[3] \in Nat
       /\ \A i \in 0 .. g[3] : PageOf(g[1]) + i \in Page /\ PageOf(g[2]) + i \in Page
<1>1. \A v \in Virts : v \in Nat /\ PageOf(v) \in Page
  BY VmmAssumption DEF PageOf
<1>2. \A ph \in Phys : ph \in Nat /\ PageOf(ph) \in Nat
  BY VmmAssumption, PageOfType
<1>3. ASSUME NEW g \in Ranges
      PROVE  /\ g[1] \in Nat /\ g[2] \in Nat /\ g[3] \in Nat
             /\ \A i \in 0 .. g[3] : PageOf(g[1]) + i \in Page /\ PageOf(g[2]) + i \in Page
  <2>1. g \in Nat \X Nat \X Nat
    BY VmmAssumption
  <2>2. g[1] \in Nat /\ g[2] \in Nat /\ g[3] \in Nat
    BY <2>1
  <2>3. \A i \in 0 .. g[3] : PageOf(g[1]) + i \in Page /\ PageOf(g[2]) + i \in Page
    BY VmmAssumption DEF PageOf
  <2> QED BY <2>2, <2>3
<1> QED BY <1>1, <1>2, <1>3, VmmAssumption

LEMMA CurrentGood ==
  ASSUME VmmInv, initialized
  PROVE  /\ GoodCall(Current, others) /\ Current.vmm = vmm
         /\ Current.allocator = frame_allocator /\ Current.result = "Ok"
BY DEF VmmInv, GoodCall, IsCall, Current

(* A call whose outcome is good. *)
LEMMA CallKeeps ==
  ASSUME VmmInv, NEW op, NEW pages, NEW wanted, NEW r, Call(op, pages, wanted, r),
         GoodCall(r, others)
  PROVE  VmmInv'
<1>1. /\ vmm' = r.vmm /\ frame_allocator' = r.allocator /\ others' = others
      /\ initialized' = initialized /\ initialized = TRUE
  BY DEF Call, VmmInv
<1>2. Good(vmm', frame_allocator', others')
  BY <1>1 DEF GoodCall
<1> QED BY <1>1, <1>2 DEF VmmInv

(* The outcomes of the calls from a good state. *)
BulkOutcome(op, r, m, o, N, virt, phys, flags) ==
  \/ BulkPost(op, r, m, o, N, virt, phys, flags)
  \/ GoodCall(m, o) /\ m.result # "Ok" /\ m.vmm = r.vmm

LEMMA BulkCallsOK ==
  ASSUME NEW r, NEW o, GoodCall(r, o), r.result = "Ok", NEW g \in Ranges, NEW f \in Flags
  PROVE  /\ BulkOutcome("map_region", r, map_region(r, g[1], g[2], g[3], f), o,
                        Named(g[1], g[3]), g[1], g[2], f)
         /\ BulkOutcome("unmap_region", r, unmap_region(r, g[1], g[3]), o,
                        Named(g[1], g[3]), g[1], 0, BootFlags)
         /\ BulkOutcome("identity_map", r, identity_map(r, g[2], g[3], f), o,
                        Named(g[2], g[3]), g[2], g[2], f)
<1>1. /\ g[1] \in Nat /\ g[2] \in Nat /\ g[3] \in Nat
      /\ \A i \in 0 .. g[3] : PageOf(g[1]) + i \in Page /\ PageOf(g[2]) + i \in Page
  BY Arguments
<1>a. /\ GoodCall(Fails(r, "InvalidAddress"), o)
      /\ Fails(r, "InvalidAddress").result # "Ok" /\ Fails(r, "InvalidAddress").vmm = r.vmm
  BY FailsOK
<1>2. ASSUME NEW op, NEW N, NEW virt, NEW phys, NEW flags
      PROVE  BulkOutcome(op, r, Fails(r, "InvalidAddress"), o, N, virt, phys, flags)
  BY <1>a DEF BulkOutcome
<1>3. BulkOutcome("map_region", r, map_region(r, g[1], g[2], g[3], f), o,
                  Named(g[1], g[3]), g[1], g[2], f)
  <2>1. BulkPost("map_region", r, EachPage("map_region", r, g[1], g[2], g[3], f), o,
                 Named(g[1], g[3]), g[1], g[2], f)
    BY <1>1, EachPageOK DEF BulkOps
  <2>2. BulkOutcome("map_region", r, EachPage("map_region", r, g[1], g[2], g[3], f), o,
                    Named(g[1], g[3]), g[1], g[2], f)
    BY <2>1 DEF BulkOutcome
  <2> QED BY <1>2, <2>2 DEF map_region
<1>4. BulkOutcome("unmap_region", r, unmap_region(r, g[1], g[3]), o,
                  Named(g[1], g[3]), g[1], 0, BootFlags)
  <2>1. CASE is_aligned(g[1])
    <3>1. 0 \in Nat /\ BootFlags \in Flags /\ "unmap_region" \in BulkOps
      BY PageTablesAssumption DEF BulkOps, Flags
    <3>2. BulkPost("unmap_region", r, EachPage("unmap_region", r, g[1], 0, g[3], BootFlags), o,
                   Named(g[1], g[3]), g[1], 0, BootFlags)
      BY <1>1, <2>1, <3>1, EachPageOK
    <3> QED BY <2>1, <3>2 DEF unmap_region, BulkOutcome
  <2>2. CASE ~is_aligned(g[1])
    BY <1>2, <2>2 DEF unmap_region
  <2> QED BY <2>1, <2>2
<1>5. BulkOutcome("identity_map", r, identity_map(r, g[2], g[3], f), o,
                  Named(g[2], g[3]), g[2], g[2], f)
  <2>1. BulkPost("identity_map", r, EachPage("identity_map", r, g[2], g[2], g[3], f), o,
                 Named(g[2], g[3]), g[2], g[2], f)
    BY <1>1, EachPageOK DEF BulkOps
  <2>2. BulkOutcome("identity_map", r, EachPage("identity_map", r, g[2], g[2], g[3], f), o,
                    Named(g[2], g[3]), g[2], g[2], f)
    BY <2>1 DEF BulkOutcome
  <2> QED BY <1>2, <2>2 DEF identity_map
<1> QED BY <1>3, <1>4, <1>5

(* flush_tlb and set_validation touch neither the tables nor the list. *)
LEMMA SettingsOK ==
  ASSUME NEW r, NEW o, GoodCall(r, o), NEW enabled \in BOOLEAN
  PROVE  LET x == [r EXCEPT !.vmm.stats.tlb_flush_count = @ + 1]
             y == [r EXCEPT !.vmm.validation_enabled = enabled]
         IN  /\ GoodCall(x, o) /\ x.vmm.page_table = r.vmm.page_table
             /\ GoodCall(y, o) /\ y.vmm.page_table = r.vmm.page_table
<1> DEFINE x == [r EXCEPT !.vmm.stats.tlb_flush_count = @ + 1]
           y == [r EXCEPT !.vmm.validation_enabled = enabled]
           w == r.vmm
           st == w.stats
           st2 == [st EXCEPT !.tlb_flush_count = @ + 1]
<1>1. IsCall(r) /\ TreeOK(w) /\ ListOK(w) /\ CountOK(w) /\ FramesOK(w, r.allocator, o)
  BY DEF GoodCall, Good
<1>2. DOMAIN w = {"page_table", "mapped_regions", "stats", "validation_enabled"}
  BY <1>1 DEF TreeOK
<1>3. /\ IsCall(x) /\ x.allocator = r.allocator /\ x.vmm = [w EXCEPT !.stats = st2]
  BY <1>1, <1>2 DEF IsCall
<1>4. /\ IsCall(y) /\ y.allocator = r.allocator
      /\ y.vmm = [w EXCEPT !.validation_enabled = enabled]
  BY <1>1, <1>2 DEF IsCall
<1>5. st2 \in VmmStatistics /\ st2.total_mapped_pages = st.total_mapped_pages
  <2>1. st \in VmmStatistics
    BY <1>1 DEF CountOK
  <2> HIDE DEF st
  <2>2. st2.total_mapped_pages = st.total_mapped_pages
    BY <2>1 DEF VmmStatistics
  <2>3. st2 \in VmmStatistics
    BY <2>1 DEF VmmStatistics
  <2> QED BY <2>2, <2>3
<1> HIDE DEF x, y, w, st2
<1>6. /\ DOMAIN x.vmm = DOMAIN w /\ x.vmm.page_table = w.page_table
      /\ x.vmm.mapped_regions = w.mapped_regions /\ x.vmm.stats = st2
      /\ x.vmm.validation_enabled = w.validation_enabled
  BY <1>2, <1>3
<1>7. /\ DOMAIN y.vmm = DOMAIN w /\ y.vmm.page_table = w.page_table
      /\ y.vmm.mapped_regions = w.mapped_regions /\ y.vmm.stats = w.stats
      /\ y.vmm.validation_enabled = enabled
  BY <1>2, <1>4
<1>8. GoodCall(x, o)
  <2>1. TreeOK(x.vmm)
    BY <1>1, <1>6 DEF TreeOK
  <2>2. ListOK(x.vmm)
    BY <1>1, <1>6 DEF ListOK
  <2>3. CountOK(x.vmm)
    BY <1>1, <1>5, <1>6 DEF CountOK, validate
  <2>4. FramesOK(x.vmm, x.allocator, o)
    BY <1>1, <1>3, <1>6 DEF FramesOK
  <2> QED BY <1>3, <2>1, <2>2, <2>3, <2>4 DEF GoodCall, Good
<1>9. GoodCall(y, o)
  <2>1. TreeOK(y.vmm)
    BY <1>1, <1>7 DEF TreeOK
  <2>2. ListOK(y.vmm)
    BY <1>1, <1>7 DEF ListOK
  <2>3. CountOK(y.vmm)
    BY <1>1, <1>7 DEF CountOK, validate
  <2>4. FramesOK(y.vmm, y.allocator, o)
    BY <1>1, <1>4, <1>7 DEF FramesOK
  <2> QED BY <1>4, <2>1, <2>2, <2>3, <2>4 DEF GoodCall, Good
<1> QED BY <1>6, <1>7, <1>8, <1>9 DEF x, y, w

(* Other parts of the kernel take a free frame, or free one of their own. *)
LEMMA ElsewhereKeeps ==
  ASSUME VmmInv, initialized, TakeElsewhere \/ \E f \in others : GiveElsewhere(f)
  PROVE  VmmInv'
<1>0. /\ initialized = TRUE /\ Good(vmm, frame_allocator, others)
      /\ vmm' = vmm /\ initialized' = initialized
  BY DEF VmmInv, TakeElsewhere, GiveElsewhere
<1>1. FramesOK(vmm, frame_allocator, others) /\ Sound(frame_allocator)
  BY <1>0 DEF Good, FramesOK
<1>2. CASE TakeElsewhere
  <2> DEFINE got == allocate_frame(frame_allocator)
  <2>1. frame_allocator' = got.allocator /\ others' = others \cup got.granted
    BY <1>2 DEF TakeElsewhere
  <2>2. GrantOK(frame_allocator, got)
    BY <1>1, AllocateFrameOK
  <2> HIDE DEF got
  <2>3. FramesOK(vmm, frame_allocator', others')
    BY <1>1, <2>1, <2>2 DEF FramesOK, GrantOK
  <2> QED BY <1>0, <2>3 DEF VmmInv, Good
<1>3. ASSUME NEW f \in others, GiveElsewhere(f) PROVE VmmInv'
  <2> DEFINE a == frame_allocator
             x == free_frame(a, f * FrameSize)
  <2>1. frame_allocator' = x.allocator /\ others' = others \ {f}
    BY <1>3 DEF GiveElsewhere
  <2>2. f \in Frames /\ f \in a.bitmap /\ f \in Nat /\ f < TotalFrames
    BY <1>1, FrameAllocatorAssumption DEF FramesOK, Frames
  <2>3. f * FrameSize \in Nat /\ address_to_frame(f * FrameSize) = f
    <3>1. FrameSize \in Nat \ {0}
      BY FrameAllocatorAssumption
    <3>2. f * FrameSize \in Nat /\ (f * FrameSize) \div FrameSize = f
      BY <2>2, <3>1
    <3> QED BY <3>2 DEF address_to_frame
  <2>4. x.freed = {f}
    <3>1. ~(f >= TotalFrames) /\ is_frame_reserved(a, f)
      BY <2>2, FrameAllocatorAssumption DEF is_frame_reserved
    <3>2. x = Released(a, {f}, 1)
      BY <2>3, <3>1 DEF free_frame
    <3> QED BY <3>2 DEF Released
  <2>5. FreeOK(a, x)
    BY <1>1, <2>3, FreeFrameOK
  <2> HIDE DEF x
  <2>6. FramesOK(vmm, frame_allocator', others')
    BY <1>1, <2>1, <2>4, <2>5 DEF FramesOK, FreeOK
  <2> QED BY <1>0, <2>6 DEF VmmInv, Good
<1> QED BY <1>2, <1>3

LEMMA VmmInvInductive == VmmInv /\ [Next]_vars => VmmInv'
<1> SUFFICES ASSUME VmmInv, [Next]_vars PROVE VmmInv'
  OBVIOUS
<1>1. CASE InitVmm
  <2>1. /\ initialized' = TRUE /\ vmm' = TakenOver(BootSpace) /\ ~initialized
        /\ frame_allocator' = frame_allocator /\ others' = others
    BY <1>1 DEF InitVmm
  <2>2. Sound(frame_allocator) /\ frame_allocator.bitmap = StandardFrames /\ others = {}
    BY <2>1 DEF VmmInv
  <2>3. Good(vmm', frame_allocator', others')
    BY <2>1, <2>2, BootGood
  <2> QED BY <2>1, <2>3 DEF VmmInv
<1>2. ASSUME NEW v \in Virts, NEW f \in Given, NEW ph \in Phys, MapPage(v, ph, f)
      PROVE  VmmInv'
  <2>1. initialized
    BY <1>2 DEF MapPage, Call
  <2>2. GoodCall(map_page(Current, v, ph, f), others)
    BY <2>1, CurrentGood, Arguments, MapPageOK DEF MapPost
  <2> QED BY <1>2, <2>2, CallKeeps DEF MapPage
<1>3. ASSUME NEW v \in Virts, NEW f \in Given, NEW ph \in Phys, RemapPage(v, ph, f)
      PROVE  VmmInv'
  <2>1. initialized
    BY <1>3 DEF RemapPage, Call
  <2>2. GoodCall(remap_page(Current, v, ph, f), others)
    BY <2>1, CurrentGood, Arguments, RemapPageOK
  <2> QED BY <1>3, <2>2, CallKeeps DEF RemapPage
<1>4. ASSUME NEW v \in Virts, UnmapPage(v) PROVE VmmInv'
  <2>1. initialized
    BY <1>4 DEF UnmapPage, Call
  <2>2. GoodCall(unmap_page(Current, v), others)
    BY <2>1, CurrentGood, UnmapPageOK
  <2> QED BY <1>4, <2>2, CallKeeps DEF UnmapPage
<1>5. ASSUME NEW g \in Ranges, NEW f \in Given, MapRegion(g, f) \/ IdentityMap(g, f)
      PROVE  VmmInv'
  <2>1. initialized
    BY <1>5 DEF MapRegion, IdentityMap, Call
  <2>2. /\ GoodCall(map_region(Current, g[1], g[2], g[3], f), others)
        /\ GoodCall(identity_map(Current, g[2], g[3], f), others)
    BY <2>1, CurrentGood, Arguments, BulkCallsOK DEF BulkPost, BulkOutcome
  <2> QED BY <1>5, <2>2, CallKeeps DEF MapRegion, IdentityMap
<1>6. ASSUME NEW g \in Ranges, UnmapRegion(g) PROVE VmmInv'
  <2>1. initialized /\ BootFlags \in Flags
    BY <1>6, PageTablesAssumption DEF UnmapRegion, Call, Flags
  <2>2. GoodCall(unmap_region(Current, g[1], g[3]), others)
    BY <2>1, CurrentGood, Arguments, BulkCallsOK DEF BulkPost, BulkOutcome
  <2> QED BY <1>6, <2>2, CallKeeps DEF UnmapRegion
<1>7. CASE FlushTlb
  <2>1. initialized
    BY <1>7 DEF FlushTlb, Setting, Call
  <2>2. GoodCall([Current EXCEPT !.vmm.stats.tlb_flush_count = @ + 1], others)
    BY <2>1, CurrentGood, SettingsOK
  <2> QED BY <1>7, <2>2, CallKeeps DEF FlushTlb, Setting
<1>8. ASSUME NEW enabled \in BOOLEAN, SetValidation(enabled) PROVE VmmInv'
  <2>1. initialized
    BY <1>8 DEF SetValidation, Setting, Call
  <2>2. GoodCall([Current EXCEPT !.vmm.validation_enabled = enabled], others)
    BY <2>1, CurrentGood, SettingsOK
  <2> QED BY <1>8, <2>2, CallKeeps DEF SetValidation, Setting
<1>9. ASSUME TakeElsewhere \/ \E f \in others : GiveElsewhere(f) PROVE VmmInv'
  <2>1. initialized
    BY <1>9 DEF TakeElsewhere, GiveElsewhere, VmmInv
  <2> QED BY <1>9, <2>1, ElsewhereKeeps
<1>10. CASE UNCHANGED vars
  BY <1>10 DEF vars, VmmInv
<1> QED BY <1>1, <1>2, <1>3, <1>4, <1>5, <1>6, <1>7, <1>8, <1>9, <1>10 DEF Next

-----------------------------------------------------------------------------
(* Before vmm::init the manager is empty. *)
LEMMA NotInitialized ==
  ASSUME VmmInv, ~initialized
  PROVE  /\ vmm.page_table = EmptySpace /\ WellFormed(EmptySpace)
         /\ vmm.mapped_regions \in Seq(MappedRegion) /\ Range(vmm.mapped_regions) = {}
         /\ vmm.stats \in VmmStatistics /\ vmm.validation_enabled \in BOOLEAN
BY TakenOverFields, NothingDiscovered DEF VmmInv

(* Types hold in every reachable state: the tables of every sequence of    *)
(* calls form a tree with one entry of one kind at each position, and      *)
(* every page stands below three tables (vmm.rs:340-610).                  *)
THEOREM VmmTypeCorrect == Spec => []TypeOK
<1>1. VmmInv => TypeOK
  <2> SUFFICES ASSUME VmmInv PROVE TypeOK
    OBVIOUS
  <2>1. CASE initialized
    BY <2>1 DEF VmmInv, TypeOK, Good, TreeOK, ListOK, CountOK, FramesOK, Sound
  <2>2. CASE ~initialized
    BY <2>2, NotInitialized DEF VmmInv, TypeOK, Sound
  <2> QED BY <2>1, <2>2
<1> QED BY <1>1, VmmInvInit, VmmInvInductive, PTL DEF Spec

(* validate() (vmm.rs:652) never fails: the counter that each call moves   *)
(* by one is what a walk over the four levels counts, huge pages included, *)
(* after calls that failed half way too.                                   *)
THEOREM ValidateCorrect == Spec => []ValidateHolds
<1>1. VmmInv => ValidateHolds
  BY DEF VmmInv, ValidateHolds, Good, CountOK
<1> QED BY <1>1, VmmInvInit, VmmInvInductive, PTL DEF Spec

(* No call leaks a frame or gives one two owners: the frames taken from    *)
(* the allocator are the kernel's reservations, the tables of the tree,    *)
(* each in a frame of its own, and the frames held elsewhere, also when    *)
(* map_to fails after it has made some of its tables (vmm.rs:370).         *)
THEOREM FramesAreOwned == Spec => []TakenFramesAreOwned
<1>1. VmmInv => TakenFramesAreOwned
  <2> SUFFICES ASSUME VmmInv PROVE TakenFramesAreOwned
    OBVIOUS
  <2>1. CASE initialized
    <3>1. FramesOK(vmm, frame_allocator, others)
      BY <2>1 DEF VmmInv, Good
    <3> QED BY <3>1 DEF FramesOK, TakenFramesAreOwned
  <2>2. CASE ~initialized
    <3>1. vmm.page_table.tables = NoEntry
      BY <2>2, NotInitialized DEF EmptySpace
    <3>2. Range(NoEntry) = {} /\ IsInjective(NoEntry)
      BY DEF NoEntry, Range, IsInjective
    <3> QED BY <2>2, <3>1, <3>2 DEF VmmInv, TakenFramesAreOwned
  <2> QED BY <2>1, <2>2
<1> QED BY <1>1, VmmInvInit, VmmInvInductive, PTL DEF Spec

-----------------------------------------------------------------------------
(* get_mapping answers with the one listed region that covers the page. *)
LEMMA GetMappingHit ==
  ASSUME NEW v, v.mapped_regions \in Seq(MappedRegion), NEW p,
         NEW g \in Range(v.mapped_regions), Covers(g, p),
         \A h \in Range(v.mapped_regions) : Covers(h, p) => h = g
  PROVE  get_mapping(v, p) = {g}
<1> DEFINE l == v.mapped_regions
           hits == {i \in DOMAIN l : Covers(l[i], p)}
<1>1. hits \subseteq Nat /\ hits # {}
  <2>1. DOMAIN l \subseteq Nat
    OBVIOUS
  <2>2. PICK i \in DOMAIN l : l[i] = g
    BY DEF Range
  <2> QED BY <2>1, <2>2
<1>2. Min(hits) \in hits
  <2>1. PICK z : z \in hits
    BY <1>1
  <2> HIDE DEF hits
  <2> QED BY <1>1, <2>1, MinOfNats
<1>3. l[Min(hits)] = g
  BY <1>2 DEF Range
<1>4. get_mapping(v, p) = IF hits = {} THEN {} ELSE {l[Min(hits)]}
  BY DEF get_mapping
<1> HIDE DEF hits
<1> QED BY <1>1, <1>3, <1>4

LEMMA GetMappingMiss ==
  ASSUME NEW v, NEW p, \A h \in Range(v.mapped_regions) : ~ Covers(h, p)
  PROVE  get_mapping(v, p) = {}
BY DEF get_mapping, Range

(* Which regions of a tree with the boot code's huge pages cover a page. *)
LEMMA CoveringRegions ==
  ASSUME NEW s, WellFormed(s), NEW p \in Nat
  PROVE  \A h \in Regions(s) : Covers(h, p) =>
           \/ p \in DOMAIN s.pages /\ h = Region(p, s.pages[p], 1)
           \/ \E n \in Above(p) \cap DOMAIN s.huge :
                h = Region(n[2] * Span(n[1]), s.huge[n], Span(n[1]))
<1>0. DOMAIN s.pages \subseteq Nat /\ DOMAIN s.huge \subseteq Node
  BY DEF WellFormed, Page
<1>1. ASSUME NEW n \in DOMAIN s.huge,
             Covers(Region(n[2] * Span(n[1]), s.huge[n], Span(n[1])), p)
      PROVE  n \in Above(p)
  BY <1>0, <1>1, HugeCovers
<1>2. ASSUME NEW q \in DOMAIN s.pages, Covers(Region(q, s.pages[q], 1), p)
      PROVE  q = p
  BY <1>0, <1>2, PageCovers
<1>3. ASSUME NEW h \in Regions(s), Covers(h, p)
      PROVE  \/ p \in DOMAIN s.pages /\ h = Region(p, s.pages[p], 1)
             \/ \E n \in Above(p) \cap DOMAIN s.huge :
                  h = Region(n[2] * Span(n[1]), s.huge[n], Span(n[1]))
  <2>1. \/ \E n \in DOMAIN s.huge : h = Region(n[2] * Span(n[1]), s.huge[n], Span(n[1]))
        \/ \E q \in DOMAIN s.pages : h = Region(q, s.pages[q], 1)
    BY <1>3, Zenon DEF Regions
  <2>2. CASE \E n \in DOMAIN s.huge : h = Region(n[2] * Span(n[1]), s.huge[n], Span(n[1]))
    BY <1>1, <1>3, <2>2, Zenon
  <2>3. CASE \E q \in DOMAIN s.pages : h = Region(q, s.pages[q], 1)
    BY <1>2, <1>3, <2>3, Zenon
  <2> QED BY <2>1, <2>2, <2>3
<1> QED BY <1>3

(* At most one huge page lies above a page, and none above a mapped one. *)
LEMMA OneAbove ==
  ASSUME NEW s, WellFormed(s), DOMAIN s.huge = DOMAIN BootSpace.huge, NEW p \in Nat
  PROVE  /\ \A n \in Above(p) \cap DOMAIN s.huge :
              /\ n[1] = 1 /\ n = <<1, p \div Span(1)>> /\ n[2] = p \div Span(1)
              /\ n \in Node /\ s.huge[n] \in Leaf
         /\ p \in DOMAIN s.pages => Above(p) \cap DOMAIN s.huge = {}
<1>1. ASSUME NEW n \in Above(p) \cap DOMAIN s.huge
      PROVE  /\ n[1] = 1 /\ n = <<1, p \div Span(1)>> /\ n[2] = p \div Span(1)
             /\ n \in Node /\ s.huge[n] \in Leaf
  <2>1. n \in DOMAIN BootSpace.huge
    BY <1>1
  <2>2. n[1] = 1 /\ n \in Node
    BY <2>1, BootHuge
  <2>3. s.huge[n] \in Leaf
    BY <1>1 DEF WellFormed, Range
  <2>4. PICK k \in 1 .. 3 : n = <<k, p \div Span(k)>>
    BY <1>1 DEF Above, NodeAbove
  <2>5. k = 1
    BY <2>2, <2>4
  <2> QED BY <2>2, <2>3, <2>4, <2>5
<1>2. p \in DOMAIN s.pages => Above(p) \cap DOMAIN s.huge = {}
  BY DEF WellFormed
<1> QED BY <1>1, <1>2

(* What an access to a page in a huge page reaches. *)
HugeLeaf(s, n, p) ==
  [frame |-> s.huge[n].frame + (p % Span(n[1])), flags |-> s.huge[n].flags]

LEMMA TranslateOf ==
  ASSUME NEW s, WellFormed(s), DOMAIN s.huge = DOMAIN BootSpace.huge, NEW p \in Nat
  PROVE  /\ p \in DOMAIN s.pages => translate(s, p) = {s.pages[p]} /\ s.pages[p] \in Leaf
         /\ \A n \in Above(p) \cap DOMAIN s.huge :
              translate(s, p) = {HugeLeaf(s, n, p)} /\ HugeLeaf(s, n, p) \in Leaf
         /\ p \in MappedPages(s) <=>
              p \in DOMAIN s.pages \/ Above(p) \cap DOMAIN s.huge # {}
<1> DEFINE A == Above(p) \cap DOMAIN s.huge
<1>1. translate(s, p) =
        {s.pages[q] : q \in {p} \cap DOMAIN s.pages} \cup {HugeLeaf(s, n, p) : n \in A}
  BY DEF translate, HugeLeaf
<1>2. /\ \A n \in A : n[1] = 1 /\ n = <<1, p \div Span(1)>> /\ s.huge[n] \in Leaf
      /\ p \in DOMAIN s.pages => A = {}
  BY OneAbove
<1>3. p \in DOMAIN s.pages => translate(s, p) = {s.pages[p]} /\ s.pages[p] \in Leaf
  <2> HIDE DEF A
  <2> QED BY <1>1, <1>2 DEF WellFormed, Range
<1>4. ASSUME NEW n \in A
      PROVE  translate(s, p) = {HugeLeaf(s, n, p)} /\ HugeLeaf(s, n, p) \in Leaf
  <2>1. \A m \in A : m = n
    BY <1>2, <1>4
  <2>2. p \notin DOMAIN s.pages
    BY <1>2, <1>4
  <2>3. translate(s, p) = {HugeLeaf(s, n, p)}
    <3> HIDE DEF A
    <3> QED BY <1>1, <1>4, <2>1, <2>2
  <2>4. p % Span(n[1]) \in Nat
    BY <1>2, <1>4, SpanType, DivideSpan
  <2>5. s.huge[n].frame \in Nat /\ s.huge[n].flags \in Flags
    BY <1>2, <1>4 DEF Leaf
  <2>6. s.huge[n].frame + (p % Span(n[1])) \in Nat
    BY <2>4, <2>5
  <2> QED BY <2>3, <2>5, <2>6 DEF HugeLeaf, Leaf
<1>5. p \in MappedPages(s) <=> p \in DOMAIN s.pages \/ A # {}
  <2>1. \A n \in DOMAIN s.huge : p \in PagesBelow(n) <=> n \in Above(p)
    BY BelowIsAbove DEF WellFormed
  <2> QED BY <2>1 DEF MappedPages
<1> QED BY <1>3, <1>4, <1>5

(* The list answers for the tables: it is the list of their regions. *)
LEMMA GetMappingOf ==
  ASSUME NEW v, NEW s, WellFormed(s), DOMAIN s.huge = DOMAIN BootSpace.huge,
         v.mapped_regions \in Seq(MappedRegion), Range(v.mapped_regions) = Regions(s),
         NEW p \in Nat
  PROVE  /\ p \in DOMAIN s.pages => get_mapping(v, p) = {Region(p, s.pages[p], 1)}
         /\ \A n \in Above(p) \cap DOMAIN s.huge :
              get_mapping(v, p) = {Region(n[2] * Span(n[1]), s.huge[n], Span(n[1]))}
<1> DEFINE HugeRegion(n) == Region(n[2] * Span(n[1]), s.huge[n], Span(n[1]))
           A == Above(p) \cap DOMAIN s.huge
<1>1. \A h \in Range(v.mapped_regions) : Covers(h, p) =>
        \/ p \in DOMAIN s.pages /\ h = Region(p, s.pages[p], 1)
        \/ \E n \in A : h = HugeRegion(n)
  BY CoveringRegions
<1>2. /\ \A n \in A : n = <<1, p \div Span(1)>> /\ n \in Node
      /\ p \in DOMAIN s.pages => A = {}
  BY OneAbove
<1>3. ASSUME p \in DOMAIN s.pages PROVE get_mapping(v, p) = {Region(p, s.pages[p], 1)}
  <2> DEFINE g == Region(p, s.pages[p], 1)
  <2>1. g \in Range(v.mapped_regions)
    BY <1>3 DEF Regions
  <2>2. Covers(g, p)
    BY PageCovers
  <2>3. \A h \in Range(v.mapped_regions) : Covers(h, p) => h = g
    BY <1>1, <1>2, <1>3
  <2> HIDE DEF g
  <2> QED BY <2>1, <2>2, <2>3, GetMappingHit DEF g
<1>4. ASSUME NEW n \in A PROVE get_mapping(v, p) = {HugeRegion(n)}
  <2> DEFINE g == HugeRegion(n)
  <2>1. \A m \in A : m = n
    BY <1>2, <1>4
  <2>2. p \notin DOMAIN s.pages
    BY <1>2, <1>4
  <2>3. g \in Range(v.mapped_regions)
    BY <1>4 DEF Regions
  <2>4. Covers(g, p)
    BY <1>2, <1>4, HugeCovers
  <2>5. \A h \in Range(v.mapped_regions) : Covers(h, p) => h = g
    BY <1>1, <2>1, <2>2
  <2> HIDE DEF g
  <2> QED BY <2>3, <2>4, <2>5, GetMappingHit DEF g
<1> QED BY <1>3, <1>4

(* A listed page is mapped. *)
LEMMA ListedIsMapped ==
  ASSUME TreeOK(vmm), ListOK(vmm), NEW p \in Listed
  PROVE  p \in Nat /\ p \in MappedPages(vmm.page_table)
<1> DEFINE s == vmm.page_table
           u == Unwidened(s)
<1>1. WellFormed(s) /\ DOMAIN s.huge = DOMAIN BootSpace.huge
  BY DEF TreeOK, Broader
<1>2. WellFormed(u) /\ u.huge = BootSpace.huge /\ u.pages = s.pages
  BY <1>1, UnwidenedOK
<1>3. PICK g \in Range(vmm.mapped_regions) :
        p \in g.virtual_addr .. g.virtual_addr + g.size - 1
  BY DEF Listed
<1>4. g \in MappedRegion
  BY DEF ListOK, Range
<1>5. g.virtual_addr \in Nat /\ g.size \in Nat
  BY <1>4 DEF MappedRegion, Page
<1>6. p \in Nat /\ Covers(g, p)
  BY <1>3, <1>5 DEF Covers
<1> HIDE DEF u, s
<1>7. g \in Regions(u)
  BY DEF ListOK, u, s
<1>8. p \in DOMAIN u.pages \/ Above(p) \cap DOMAIN u.huge # {}
  BY <1>2, <1>6, <1>7, CoveringRegions
<1>9. p \in DOMAIN s.pages \/ Above(p) \cap DOMAIN s.huge # {}
  BY <1>1, <1>2, <1>8
<1> QED BY <1>1, <1>6, <1>9, TranslateOf DEF s

(* The list that get_mapping searches (vmm.rs:732) and the tables that the *)
(* processor walks say the same of every page, after every sequence of     *)
(* calls: retain drops exactly the region of the page that was unmapped,   *)
(* although it drops by address and not by entry (vmm.rs:433).  Only the   *)
(* flags that refused calls have given to the boot code's huge pages       *)
(* (vmm.rs:372) are missing from the list.                                 *)
THEOREM RegionsCorrect == Spec => []RegionsMatchTables
<1>1. VmmInv => RegionsMatchTables
  <2> SUFFICES ASSUME VmmInv PROVE RegionsMatchTables
    OBVIOUS
  <2>1. CASE initialized
    <3> DEFINE s == vmm.page_table
               u == Unwidened(s)
    <3>1. TreeOK(vmm) /\ ListOK(vmm)
      BY <2>1 DEF VmmInv, Good
    <3>2. /\ WellFormed(s) /\ Broader(BootSpace.huge, s.huge, FlagBits)
          /\ DOMAIN s.huge = DOMAIN BootSpace.huge
      BY <3>1 DEF TreeOK, Broader
    <3>3. WellFormed(u) /\ u.huge = BootSpace.huge /\ u.pages = s.pages
      BY <3>2, UnwidenedOK
    <3>4. MappedPages(s) \subseteq Nat
      <4>1. DOMAIN s.pages \subseteq Nat /\ DOMAIN s.huge \subseteq Node
        BY <3>2 DEF WellFormed, Page
      <4>2. ASSUME NEW n \in Node PROVE PagesBelow(n) \subseteq Nat
        <5>1. n \in (1 .. 3) \X Nat
          BY DEF Node
        <5>2. n[2] \in Nat /\ Span(n[1]) \in Nat
          BY <5>1, SpanType
        <5>3. n[2] * Span(n[1]) \in Nat /\ (n[2] + 1) * Span(n[1]) \in Nat
          BY <5>2
        <5> QED BY <5>3 DEF PagesBelow
      <4> QED BY <4>1, <4>2 DEF MappedPages
    <3>5. vmm.mapped_regions \in Seq(MappedRegion) /\ Range(vmm.mapped_regions) = Regions(u)
      BY <3>1 DEF ListOK
    <3> HIDE DEF u
    <3> DEFINE Agree(p) ==
          \E t \in translate(s, p), g \in get_mapping(vmm, p) :
            /\ translate(s, p) = {t}
            /\ t.frame = g.physical_addr + p - g.virtual_addr
            /\ g.flags \subseteq t.flags
            /\ t.flags \ g.flags \subseteq ParentBits
            /\ p \notin MappedPages(BootSpace) => t.flags = g.flags
    <3>6. ASSUME NEW p \in MappedPages(s) PROVE Agree(p)
      <4>0. p \in Nat
        BY <3>4
      <4>1. p \in DOMAIN s.pages \/ Above(p) \cap DOMAIN s.huge # {}
        BY <3>2, <4>0, TranslateOf
      <4>2. CASE p \in DOMAIN s.pages
        <5> DEFINE t == s.pages[p]
                   g == Region(p, u.pages[p], 1)
        <5>1. translate(s, p) = {t} /\ t \in Leaf
          BY <3>2, <4>0, <4>2, TranslateOf
        <5>2. get_mapping(vmm, p) = {g}
          BY <3>3, <3>5, <4>0, <4>2, GetMappingOf
        <5>3. g.physical_addr = t.frame /\ g.virtual_addr = p /\ g.flags = t.flags
          BY <3>3 DEF Region
        <5>4. t.frame + p - p = t.frame
          BY <4>0, <5>1 DEF Leaf
        <5> HIDE DEF t, g
        <5> QED BY <5>1, <5>2, <5>3, <5>4
      <4>3. CASE Above(p) \cap DOMAIN s.huge # {}
        <5>1. PICK n \in Above(p) : n \in DOMAIN s.huge
          BY <4>3
        <5> DEFINE b == Span(1)
                   h == s.huge[n]
                   k == BootSpace.huge[n]
                   t == HugeLeaf(s, n, p)
                   g == Region(n[2] * Span(n[1]), u.huge[n], Span(n[1]))
        <5>2. n[1] = 1 /\ n[2] = p \div b /\ b \in Nat \ {0}
          BY <3>2, <4>0, <5>1, OneAbove, SpanType
        <5>3. translate(s, p) = {t}
          BY <3>2, <4>0, <5>1, TranslateOf
        <5>4. get_mapping(vmm, p) = {g}
          BY <3>2, <3>3, <3>5, <4>0, <5>1, GetMappingOf
        <5>5. /\ h \in Leaf /\ h.frame = k.frame /\ k.flags \subseteq h.flags
              /\ h.flags \subseteq k.flags \cup ParentBits
          BY <3>2, <5>1 DEF Broader
        <5>6. /\ g.physical_addr = k.frame /\ g.virtual_addr = (p \div b) * b
              /\ g.flags = k.flags
          BY <3>3, <5>2 DEF Region
        <5>7. t.frame = h.frame + (p % b) /\ t.flags = h.flags
          BY <5>2 DEF HugeLeaf
        <5>8. h.frame \in Nat
          BY <5>5 DEF Leaf
        <5>9. h.frame + p - (p \div b) * b = h.frame + (p % b)
          <6> HIDE DEF b, h
          <6>1. p = (p \div b) * b + (p % b) /\ p % b \in Nat /\ p \div b \in Nat
            BY <4>0, <5>2, DivideSpan
          <6>2. (p \div b) * b \in Nat
            BY <5>2, <6>1
          <6> QED BY <5>8, <6>1, <6>2
        <5>10. p \in MappedPages(BootSpace)
          <6>1. n \in DOMAIN BootSpace.huge /\ n \in Node
            BY <3>2, <5>1, BootHuge
          <6>2. p \in PagesBelow(n)
            BY <4>0, <5>1, <6>1, BelowIsAbove
          <6> QED BY <6>1, <6>2 DEF MappedPages
        <5> HIDE DEF b, h, k, t, g
        <5> QED BY <5>3, <5>4, <5>5, <5>6, <5>7, <5>9, <5>10
      <4> QED BY <4>1, <4>2, <4>3
    <3>7. Listed \subseteq MappedPages(s)
      BY <3>1, ListedIsMapped
    <3> QED BY <3>6, <3>7, Zenon DEF RegionsMatchTables
  <2>2. CASE ~initialized
    <3>1. vmm.page_table = EmptySpace /\ Range(vmm.mapped_regions) = {}
      BY <2>2, NotInitialized
    <3>2. MappedPages(EmptySpace) = {}
      BY DEF MappedPages, EmptySpace, NoEntry
    <3>3. Listed = {}
      BY <3>1 DEF Listed
    <3> QED BY <3>1, <3>2, <3>3 DEF RegionsMatchTables
  <2> QED BY <2>1, <2>2
<1> QED BY <1>1, VmmInvInit, VmmInvInductive, PTL DEF Spec

-----------------------------------------------------------------------------
(***************************************************************************)
(* The refinement of the page map.  A page map is determined by the 4 KiB  *)
(* pages and the flags of the huge pages: what is said of them carries     *)
(* over to the map.                                                        *)
(***************************************************************************)
MapOf(s) == [p \in MappedPages(s) |-> CHOOSE t \in translate(s, p) : TRUE]

LEMMA MapOfType ==
  ASSUME NEW s
  PROVE  /\ DOMAIN MapOf(s) = MappedPages(s)
         /\ \A p \in MappedPages(s) : MapOf(s)[p] = CHOOSE t \in translate(s, p) : TRUE
BY Zenon DEF MapOf

(* Every boot page lies in the address space. *)
LEMMA BootPagesType ==
  /\ BootPages \subseteq Page /\ Page \subseteq Nat
  /\ MappedPages(BootSpace) = BootPages
<1>1. ASSUME NEW n \in DOMAIN BootSpace.huge PROVE PagesBelow(n) \subseteq Page
  <2> DEFINE i == n[2]
             q == Fanout * Fanout
  <2>1. n[1] = 1 /\ i \in Nat /\ i + 1 <= Fanout /\ Fanout \in Nat \ {0, 1}
    <3>1. n[1] = 1 /\ n[2] \in 0 .. BootHugePages - 1
      BY BootHuge
    <3> QED BY <3>1, PageTablesAssumption
  <2>2. PagesBelow(n) = i * Fanout .. (i + 1) * Fanout - 1
    BY <2>1, SpanType DEF PagesBelow
  <2>3. Page = 0 .. Fanout * (Fanout * Fanout * Fanout) - 1
    BY SpanType DEF Page
  <2> HIDE DEF i
  <2>4. i * Fanout \in Nat /\ (i + 1) * Fanout \in Nat /\ (i + 1) * Fanout <= q
    BY <2>1
  <2>5. q \in Nat /\ q >= 1 /\ Fanout * (Fanout * Fanout * Fanout) = q * q
    BY <2>1
  <2> HIDE DEF q
  <2>6. q <= q * q /\ q * q \in Nat
    BY <2>5
  <2> QED BY <2>2, <2>3, <2>4, <2>5, <2>6
<1>2. Page \subseteq Nat
  BY DEF Page
<1>3. DOMAIN BootSpace.pages = {}
  BY BootSpaceFields
<1> QED BY <1>1, <1>2, <1>3 DEF BootPages, MappedPages

LEMMA MappedPagesOf ==
  ASSUME NEW v, TreeOK(v)
  PROVE  /\ MappedPages(v.page_table) = DOMAIN v.page_table.pages \cup BootPages
         /\ DOMAIN v.page_table.pages \cap BootPages = {}
         /\ DOMAIN v.page_table.pages \subseteq Page
         /\ MappedPages(v.page_table) \subseteq Page
<1> DEFINE s == v.page_table
<1>1. /\ DOMAIN s.huge = DOMAIN BootSpace.huge /\ DOMAIN s.pages \subseteq Page
      /\ WellFormed(s)
  BY DEF TreeOK, WellFormed, Broader
<1>2. ASSUME NEW p \in DOMAIN s.pages, p \in BootPages PROVE FALSE
  <2>1. PICK n \in DOMAIN s.huge : p \in PagesBelow(n)
    BY <1>1, <1>2 DEF BootPages
  <2>2. n \in Node /\ p \in Nat
    BY <1>1, BootPagesType DEF WellFormed
  <2>3. n \in Above(p)
    BY <2>1, <2>2, BelowIsAbove
  <2> QED BY <1>1, <2>3 DEF WellFormed
<1>3. MappedPages(s) = DOMAIN s.pages \cup BootPages
  BY <1>1 DEF MappedPages, BootPages
<1> QED BY <1>1, <1>2, <1>3, BootPagesType

(* The target of a page, and of one in a huge page. *)
LEMMA MapAt ==
  ASSUME NEW v, TreeOK(v), NEW p \in MappedPages(v.page_table)
  PROVE  LET s == v.page_table
         IN  /\ p \in Nat
             /\ p \in DOMAIN s.pages \/ Above(p) \cap DOMAIN s.huge # {}
             /\ p \in DOMAIN s.pages => MapOf(s)[p] = s.pages[p]
             /\ \A n \in Above(p) \cap DOMAIN s.huge :
                  MapOf(s)[p] = HugeLeaf(s, n, p) /\ p \in BootPages
<1> DEFINE s == v.page_table
<1>1. WellFormed(s) /\ DOMAIN s.huge = DOMAIN BootSpace.huge
  BY DEF TreeOK, Broader
<1>2. p \in Nat
  BY MappedPagesOf, BootPagesType
<1>3. MapOf(s)[p] = CHOOSE t \in translate(s, p) : TRUE
  BY MapOfType
<1> HIDE DEF s
<1>4. ASSUME NEW x, translate(s, p) = {x} PROVE MapOf(s)[p] = x
  <2>1. (CHOOSE t \in translate(s, p) : TRUE) \in {x}
    BY <1>4
  <2> QED BY <1>3, <2>1
<1>5. p \in DOMAIN s.pages => MapOf(s)[p] = s.pages[p]
  BY <1>1, <1>2, <1>4, TranslateOf
<1>6. ASSUME NEW n \in Above(p) \cap DOMAIN s.huge
      PROVE  MapOf(s)[p] = HugeLeaf(s, n, p) /\ p \in BootPages
  <2>1. MapOf(s)[p] = HugeLeaf(s, n, p)
    BY <1>1, <1>2, <1>4, <1>6, TranslateOf
  <2>2. n \in DOMAIN BootSpace.huge /\ n \in Node
    BY <1>1, <1>6, BootHuge
  <2>3. p \in PagesBelow(n)
    BY <1>2, <1>6, <2>2, BelowIsAbove
  <2> QED BY <2>1, <2>2, <2>3 DEF BootPages
<1>7. p \in DOMAIN s.pages \/ Above(p) \cap DOMAIN s.huge # {}
  BY <1>1, <1>2, TranslateOf DEF s
<1> QED BY <1>2, <1>5, <1>6, <1>7 DEF s

LEMMA SameMapAt ==
  ASSUME NEW v, NEW w, TreeOK(v), TreeOK(w), NEW p \in MappedPages(v.page_table),
         v.page_table.huge = w.page_table.huge,
         p \in DOMAIN v.page_table.pages =>
           /\ p \in DOMAIN w.page_table.pages
           /\ w.page_table.pages[p] = v.page_table.pages[p]
  PROVE  /\ p \in DOMAIN MapOf(w.page_table) /\ p \in DOMAIN MapOf(v.page_table)
         /\ MapOf(w.page_table)[p] = MapOf(v.page_table)[p]
<1> DEFINE s == v.page_table
           t == w.page_table
<1>1. p \in MappedPages(t)
  BY MappedPagesOf
<1>2. DOMAIN MapOf(s) = MappedPages(s) /\ DOMAIN MapOf(t) = MappedPages(t)
  BY MapOfType
<1>3. CASE p \in DOMAIN s.pages
  <2>1. MapOf(s)[p] = s.pages[p]
    BY <1>3, MapAt
  <2>2. MapOf(t)[p] = t.pages[p]
    BY <1>1, <1>3, MapAt
  <2> QED BY <1>1, <1>2, <1>3, <2>1, <2>2
<1>4. CASE p \notin DOMAIN s.pages
  <2>1. PICK n : n \in Above(p) \cap DOMAIN s.huge
    BY <1>4, MapAt
  <2>2. MapOf(s)[p] = HugeLeaf(s, n, p)
    BY <2>1, MapAt
  <2>3. MapOf(t)[p] = HugeLeaf(t, n, p)
    BY <1>1, <2>1, MapAt
  <2>4. HugeLeaf(s, n, p) = HugeLeaf(t, n, p)
    BY DEF HugeLeaf
  <2> QED BY <1>1, <1>2, <2>2, <2>3, <2>4
<1> QED BY <1>3, <1>4

(* More pages, more of the same map; and without one page, without it. *)
LEMMA PartOfMap ==
  ASSUME NEW v, NEW w, TreeOK(v), TreeOK(w),
         v.page_table.huge = w.page_table.huge,
         PartOf(v.page_table.pages, w.page_table.pages)
  PROVE  PartOf(MapOf(v.page_table), MapOf(w.page_table))
<1>1. ASSUME NEW p \in MappedPages(v.page_table)
      PROVE  /\ p \in DOMAIN MapOf(w.page_table)
             /\ MapOf(w.page_table)[p] = MapOf(v.page_table)[p]
  BY SameMapAt DEF PartOf
<1>2. DOMAIN MapOf(v.page_table) = MappedPages(v.page_table)
  BY MapOfType
<1> QED BY <1>1, <1>2 DEF PartOf

LEMMA EqualMap ==
  ASSUME NEW s, NEW t, s.huge = t.huge, s.pages = t.pages
  PROVE  MapOf(s) = MapOf(t)
<1>1. MappedPages(s) = MappedPages(t)
  BY DEF MappedPages
<1>2. \A p : translate(s, p) = translate(t, p)
  BY DEF translate
<1> DEFINE Any(x, p) == CHOOSE y \in translate(x, p) : TRUE
<1>3. \A p : Any(s, p) = Any(t, p)
  BY <1>2
<1>4. MapOf(s) = [p \in MappedPages(s) |-> Any(s, p)] /\ MapOf(t) = [p \in MappedPages(t) |-> Any(t, p)]
  BY Zenon DEF MapOf
<1> HIDE DEF Any
<1> QED BY <1>1, <1>3, <1>4

(* The mapping's targets are frames with flags. *)
LEMMA BootMapType ==
  \A p \in MappedPages(BootSpace) : MapOf(BootSpace)[p] \in Leaf
<1> SUFFICES ASSUME NEW p \in MappedPages(BootSpace) PROVE MapOf(BootSpace)[p] \in Leaf
  OBVIOUS
<1>1. p \in Nat
  BY BootPagesType
<1>2. translate(BootSpace, p) \subseteq Leaf
  <2>1. DOMAIN BootSpace.pages = {}
    BY BootSpaceFields
  <2>2. ASSUME NEW n \in DOMAIN BootSpace.huge
        PROVE  [frame |-> BootSpace.huge[n].frame + (p % Span(n[1])),
                flags |-> BootSpace.huge[n].flags] \in Leaf
    <3>1. BootSpace.huge[n] \in Leaf /\ n[1] = 1
      BY BootHuge
    <3>2. p % Span(1) \in Nat
      BY <1>1, SpanType, DivideSpan
    <3>3. BootSpace.huge[n].frame \in Nat /\ BootSpace.huge[n].flags \in Flags
      BY <3>1 DEF Leaf
    <3>4. BootSpace.huge[n].frame + (p % Span(n[1])) \in Nat
      BY <3>1, <3>2, <3>3
    <3> QED BY <3>3, <3>4 DEF Leaf
  <2> QED BY <2>1, <2>2 DEF translate
<1>3. translate(BootSpace, p) # {}
  <2>1. PICK n \in DOMAIN BootSpace.huge : p \in PagesBelow(n)
    BY BootPagesType DEF BootPages
  <2>2. n \in Above(p)
    BY <1>1, <2>1, BootHuge, BelowIsAbove
  <2> QED BY <2>1, <2>2 DEF translate
<1>4. (CHOOSE t \in translate(BootSpace, p) : TRUE) \in translate(BootSpace, p)
  BY <1>3
<1> QED BY <1>2, <1>4, MapOfType

LEMMA TranslatedIsMap ==
  Translated = MapOf(vmm.page_table) /\ Translated' = MapOf(vmm'.page_table)
BY DEF Translated, MapOf

LEMMA MapInitOK == Init => Abstract!MapInit
<1> SUFFICES ASSUME Init PROVE Abstract!MapInit
  OBVIOUS
<1>1. vmm.page_table = EmptySpace /\ initialized = FALSE
  BY TakenOverFields DEF Init
<1>2. MappedPages(EmptySpace) = {}
  BY DEF MappedPages, EmptySpace, NoEntry
<1>3. Translated = [p \in {} |-> p]
  BY <1>1, <1>2 DEF Translated
<1> QED BY <1>1, <1>3 DEF Init, NoCall, Abstract!MapInit

(* vmm::init takes over the map of the boot code. *)
LEMMA MapTakeOK ==
  ASSUME VmmInv, InitVmm
  PROVE  Abstract!Take
<1>1. /\ initialized = FALSE /\ initialized' = TRUE /\ vmm' = TakenOver(BootSpace)
      /\ reply'.op = "init"
  BY DEF InitVmm, VmmInv, NoCall
<1>2. vmm'.page_table = BootSpace
  BY <1>1, TakenOverFields
<1>3. Translated' = MapOf(BootSpace)
  BY <1>2, TranslatedIsMap
<1> QED BY <1>1, <1>3, MapOfType, BootPagesType, BootMapType DEF Abstract!Take

(* A step of a call: the abstract variables before and after it. *)
LEMMA CallStep ==
  ASSUME VmmInv, NEW op, NEW pages, NEW wanted, NEW r, Call(op, pages, wanted, r),
         GoodCall(r, others)
  PROVE  /\ initialized = TRUE /\ initialized' = TRUE
         /\ reply'.op = op /\ reply'.result = r.result
         /\ reply'.pages = pages /\ reply'.wanted = wanted
         /\ TreeOK(vmm) /\ TreeOK(r.vmm)
         /\ Translated = MapOf(vmm.page_table) /\ Translated' = MapOf(r.vmm.page_table)
         /\ (IF initialized THEN MappedPages(BootSpace) ELSE {}) = BootPages
         /\ (IF initialized THEN MappedPages(BootSpace) ELSE {})' = BootPages
<1>1. /\ initialized = TRUE /\ initialized' = TRUE /\ vmm' = r.vmm
      /\ reply'.op = op /\ reply'.result = r.result
      /\ reply'.pages = pages /\ reply'.wanted = wanted
  BY DEF Call, VmmInv
<1>2. TreeOK(vmm) /\ TreeOK(r.vmm)
  BY <1>1 DEF VmmInv, GoodCall, Good
<1>3. Translated = MapOf(vmm.page_table)
  BY TranslatedIsMap
<1>4. Translated' = MapOf(r.vmm.page_table)
  BY <1>1, TranslatedIsMap
<1> QED BY <1>1, <1>2, <1>3, <1>4, BootPagesType

(* A call that only adds pages, the ones it wants with the targets it      *)
(* wants, is a Map of the page map; when it is refused for a huge page,    *)
(* that may have got the call's flags.                                     *)
LEMMA MapStep ==
  ASSUME VmmInv, NEW op \in {"map_page", "map_region", "identity_map"},
         NEW pages, NEW wanted, NEW flags,
         NEW r, Call(op, pages, wanted, r), GoodCall(r, others),
         PartOf(vmm.page_table.pages, PagesOf(r)),
         Broader(vmm.page_table.huge, HugeOf(r), flags),
         r.result # "ParentEntryHugePage" => HugeOf(r) = vmm.page_table.huge,
         r.result # "Ok" => \E q \in DOMAIN wanted : wanted[q].flags = flags,
         \A p \in DOMAIN PagesOf(r) \ DOMAIN vmm.page_table.pages :
           p \in DOMAIN wanted /\ PagesOf(r)[p] = wanted[p],
         r.result = "Ok" => DOMAIN wanted \subseteq DOMAIN PagesOf(r) \cup BootPages,
         r.result = "Ok" /\ op # "identity_map" =>
           DOMAIN wanted \subseteq DOMAIN PagesOf(r) \ DOMAIN vmm.page_table.pages,
         r.result # "Ok" /\ op = "map_page" => PagesOf(r) = vmm.page_table.pages
  PROVE  Abstract!MapNext
<1> DEFINE s == vmm.page_table
           t == r.vmm.page_table
           f == MapOf(s)
           g == MapOf(t)
           boot == IF initialized THEN MappedPages(BootSpace) ELSE {}
<1>1. /\ initialized = TRUE /\ initialized' = TRUE
      /\ reply'.op = op /\ reply'.result = r.result /\ reply'.wanted = wanted
      /\ TreeOK(vmm) /\ TreeOK(r.vmm) /\ Translated = f /\ Translated' = g
      /\ boot = BootPages /\ boot' = BootPages
  BY CallStep
<1>2. PagesOf(r) = t.pages /\ HugeOf(r) = t.huge
  BY DEF PagesOf, HugeOf
<1>3. /\ DOMAIN f = MappedPages(s) /\ DOMAIN g = MappedPages(t)
      /\ MappedPages(s) = DOMAIN s.pages \cup BootPages
      /\ MappedPages(t) = DOMAIN t.pages \cup BootPages
      /\ DOMAIN t.pages \cap BootPages = {}
  BY <1>1, MapOfType, MappedPagesOf
<1>4. ASSUME NEW p \in DOMAIN f
      PROVE  /\ p \in DOMAIN g
             /\ \/ g[p] = f[p]
                \/ /\ p \in BootPages /\ r.result = "ParentEntryHugePage"
                   /\ g[p].frame = f[p].frame /\ f[p].flags \subseteq g[p].flags
                   /\ g[p].flags \subseteq f[p].flags \cup flags
  <2>1. p \in DOMAIN g
    BY <1>2, <1>3, <1>4 DEF PartOf
  <2>2. CASE p \in DOMAIN s.pages
    <3>1. f[p] = s.pages[p]
      BY <1>1, <1>3, <1>4, <2>2, MapAt
    <3>2. p \in DOMAIN t.pages /\ t.pages[p] = s.pages[p]
      BY <1>2, <2>2 DEF PartOf
    <3>3. g[p] = t.pages[p]
      BY <1>1, <1>3, <2>1, <3>2, MapAt
    <3> QED BY <2>1, <3>1, <3>2, <3>3
  <2>3. CASE p \notin DOMAIN s.pages
    <3>1. PICK n : n \in Above(p) \cap DOMAIN s.huge
      BY <1>1, <1>3, <1>4, <2>3, MapAt
    <3>2. f[p] = HugeLeaf(s, n, p) /\ p \in BootPages
      BY <1>1, <1>3, <1>4, <3>1, MapAt
    <3>3. n \in Above(p) \cap DOMAIN t.huge
      BY <1>2, <3>1 DEF Broader
    <3>4. g[p] = HugeLeaf(t, n, p)
      BY <1>1, <1>3, <2>1, <3>3, MapAt
    <3>5. /\ t.huge[n].frame = s.huge[n].frame /\ s.huge[n].flags \subseteq t.huge[n].flags
          /\ t.huge[n].flags \subseteq s.huge[n].flags \cup flags
      BY <1>2, <3>1 DEF Broader
    <3>6. /\ HugeLeaf(s, n, p).frame = s.huge[n].frame + (p % Span(n[1]))
          /\ HugeLeaf(s, n, p).flags = s.huge[n].flags
          /\ HugeLeaf(t, n, p).frame = t.huge[n].frame + (p % Span(n[1]))
          /\ HugeLeaf(t, n, p).flags = t.huge[n].flags
      BY DEF HugeLeaf
    <3>7. t.huge = s.huge => HugeLeaf(t, n, p) = HugeLeaf(s, n, p)
      BY DEF HugeLeaf
    <3>8. \/ t.huge = s.huge
          \/ r.result = "ParentEntryHugePage"
      BY <1>2
    <3> HIDE DEF f, g, s, t
    <3>9. CASE t.huge = s.huge
      BY <2>1, <3>2, <3>4, <3>7, <3>9
    <3>10. CASE r.result = "ParentEntryHugePage"
      BY <2>1, <3>2, <3>4, <3>5, <3>6, <3>10
    <3> QED BY <3>8, <3>9, <3>10
  <2> QED BY <2>2, <2>3
<1>5. ASSUME NEW p \in DOMAIN g \ DOMAIN f PROVE p \in DOMAIN wanted /\ g[p] = wanted[p]
  <2>1. p \in DOMAIN t.pages \ DOMAIN s.pages
    BY <1>3, <1>5
  <2>2. g[p] = t.pages[p]
    BY <1>1, <1>3, <1>5, <2>1, MapAt
  <2> QED BY <1>2, <2>1, <2>2
<1>6. DOMAIN g \ DOMAIN f = DOMAIN t.pages \ DOMAIN s.pages
  BY <1>3
<1>7. /\ r.result = "Ok" => DOMAIN wanted \subseteq DOMAIN g
      /\ r.result = "Ok" /\ op # "identity_map" => DOMAIN g \ DOMAIN f = DOMAIN wanted
      /\ r.result # "Ok" /\ op = "map_page" => DOMAIN g \ DOMAIN f = {}
  BY <1>2, <1>3, <1>5, <1>6
<1> HIDE DEF f, g, s, t
<1>8. \A p \in DOMAIN Translated : Abstract!Kept({p}) \/ Abstract!Widened(p)
  <2> SUFFICES ASSUME NEW p \in DOMAIN f
               PROVE  Abstract!Kept({p}) \/ Abstract!Widened(p)
    BY <1>1
  <2>1. CASE g[p] = f[p]
    BY <1>1, <1>4, <2>1 DEF Abstract!Kept
  <2>2. CASE g[p] # f[p]
    <3>1. /\ p \in BootPages /\ r.result = "ParentEntryHugePage" /\ p \in DOMAIN g
          /\ g[p].frame = f[p].frame /\ f[p].flags \subseteq g[p].flags
          /\ g[p].flags \subseteq f[p].flags \cup flags
      BY <1>4, <2>2
    <3>2. PICK q \in DOMAIN wanted : wanted[q].flags = flags
      BY <3>1
    <3>3. Abstract!Widened(p)
      BY <1>1, <3>1, <3>2 DEF Abstract!Widened
    <3> QED BY <3>3
  <2> QED BY <2>1, <2>2
<1>9. Abstract!Added = DOMAIN g \ DOMAIN f
  BY <1>1 DEF Abstract!Added
<1>10. Abstract!Map
  BY <1>1, <1>5, <1>7, <1>8, <1>9 DEF Abstract!Map
<1> QED BY <1>1, <1>10 DEF Abstract!MapNext

(* A call that drops exactly the pages it names, where they are 4 KiB      *)
(* pages, is an Unmap, and no boot page is dropped.                        *)
LEMMA UnmapStep ==
  ASSUME VmmInv, NEW op \in {"unmap_page", "unmap_region"}, NEW pages, NEW wanted,
         NEW r, Call(op, pages, wanted, r), GoodCall(r, others), r.result = "Ok",
         HugeOf(r) = vmm.page_table.huge,
         PartOf(PagesOf(r), vmm.page_table.pages),
         DOMAIN PagesOf(r) = DOMAIN vmm.page_table.pages \ pages,
         op = "unmap_page" => pages \subseteq DOMAIN vmm.page_table.pages
  PROVE  Abstract!MapNext
<1> DEFINE f == MapOf(vmm.page_table)
           g == MapOf(r.vmm.page_table)
<1>1. /\ initialized = TRUE /\ initialized' = TRUE
      /\ reply'.op = op /\ reply'.result = r.result /\ reply'.pages = pages
      /\ TreeOK(vmm) /\ TreeOK(r.vmm) /\ Translated = f /\ Translated' = g
      /\ (IF initialized THEN MappedPages(BootSpace) ELSE {}) = BootPages
      /\ (IF initialized THEN MappedPages(BootSpace) ELSE {})' = BootPages
  BY CallStep
<1>2. PartOf(g, f)
  BY <1>1, PartOfMap DEF PagesOf, HugeOf
<1>3. /\ DOMAIN f \ DOMAIN g = (pages \cap DOMAIN f) \ BootPages
      /\ op = "unmap_page" => DOMAIN f \ DOMAIN g = pages
  <2>1. DOMAIN f = DOMAIN vmm.page_table.pages \cup BootPages
    BY <1>1, MapOfType, MappedPagesOf
  <2>2. DOMAIN g = DOMAIN PagesOf(r) \cup BootPages
    BY <1>1, MapOfType, MappedPagesOf DEF PagesOf
  <2>3. DOMAIN vmm.page_table.pages \cap BootPages = {}
    BY <1>1, MappedPagesOf
  <2> HIDE DEF f, g
  <2> QED BY <2>1, <2>2, <2>3
<1> HIDE DEF f, g
<1>4. Abstract!Lost = DOMAIN f \ DOMAIN g /\ Abstract!Added = {}
  BY <1>1, <1>2 DEF Abstract!Lost, Abstract!Added, PartOf
<1>5. Abstract!Kept(DOMAIN Translated \ Abstract!Lost)
  BY <1>1, <1>2, <1>4 DEF Abstract!Kept, PartOf
<1>6. Abstract!Unmap
  BY <1>1, <1>3, <1>4, <1>5 DEF Abstract!Unmap
<1> QED BY <1>1, <1>6 DEF Abstract!MapNext

(* A call that changes no mapping, and says so or is not about mappings. *)
LEMMA RefuseStep ==
  ASSUME VmmInv, NEW op, NEW pages, NEW wanted, NEW r, Call(op, pages, wanted, r),
         GoodCall(r, others),
         PagesOf(r) = vmm.page_table.pages, HugeOf(r) = vmm.page_table.huge,
         r.result # "Ok" \/ op \in {"flush", "set_validation"}
  PROVE  Abstract!MapNext
<1> DEFINE f == MapOf(vmm.page_table)
           g == MapOf(r.vmm.page_table)
<1>1. /\ initialized = TRUE /\ initialized' = TRUE
      /\ reply'.op = op /\ reply'.result = r.result
      /\ TreeOK(vmm) /\ TreeOK(r.vmm) /\ Translated = f /\ Translated' = g
      /\ (IF initialized THEN MappedPages(BootSpace) ELSE {})' =
           (IF initialized THEN MappedPages(BootSpace) ELSE {})
  BY CallStep
<1>2. f = g
  BY EqualMap DEF PagesOf, HugeOf
<1> HIDE DEF f, g
<1>3. Abstract!Refuse
  BY <1>1, <1>2 DEF Abstract!Refuse
<1> QED BY <1>1, <1>3 DEF Abstract!MapNext

(* remap_page moves the page it is given to the target it is given, or     *)
(* loses it; it is not the boot code's, and no other changes.              *)
LEMMA RemapStep ==
  ASSUME VmmInv, NEW pages, NEW wanted, NEW r, Call("remap_page", pages, wanted, r),
         GoodCall(r, others), HugeOf(r) = vmm.page_table.huge,
         NEW p \in DOMAIN vmm.page_table.pages, p \in pages,
         DOMAIN PagesOf(r) \cup {p} = DOMAIN vmm.page_table.pages,
         \A q \in DOMAIN vmm.page_table.pages \ {p} :
           PagesOf(r)[q] = vmm.page_table.pages[q],
         IF r.result = "Ok" THEN p \in DOMAIN PagesOf(r) /\ PagesOf(r)[p] = wanted[p]
                            ELSE p \notin DOMAIN PagesOf(r)
  PROVE  Abstract!MapNext
<1> DEFINE f == MapOf(vmm.page_table)
           g == MapOf(r.vmm.page_table)
<1>1. /\ initialized = TRUE /\ initialized' = TRUE
      /\ reply'.op = "remap_page" /\ reply'.result = r.result
      /\ reply'.pages = pages /\ reply'.wanted = wanted
      /\ TreeOK(vmm) /\ TreeOK(r.vmm) /\ Translated = f /\ Translated' = g
      /\ (IF initialized THEN MappedPages(BootSpace) ELSE {}) = BootPages
      /\ (IF initialized THEN MappedPages(BootSpace) ELSE {})' = BootPages
  BY CallStep
<1>2. /\ DOMAIN f = DOMAIN vmm.page_table.pages \cup BootPages
      /\ DOMAIN f = MappedPages(vmm.page_table)
      /\ DOMAIN vmm.page_table.pages \cap BootPages = {}
  BY <1>1, MapOfType, MappedPagesOf
<1>3. /\ DOMAIN g = DOMAIN PagesOf(r) \cup BootPages
      /\ DOMAIN g = MappedPages(r.vmm.page_table)
  BY <1>1, MapOfType, MappedPagesOf DEF PagesOf
<1>4. ASSUME NEW q \in DOMAIN f \ {p} PROVE q \in DOMAIN g /\ g[q] = f[q]
  <2>1. q \in DOMAIN vmm.page_table.pages =>
          /\ q \in DOMAIN r.vmm.page_table.pages
          /\ r.vmm.page_table.pages[q] = vmm.page_table.pages[q]
    BY <1>4 DEF PagesOf
  <2>2. q \in MappedPages(vmm.page_table)
    BY <1>2, <1>4
  <2>3. vmm.page_table.huge = r.vmm.page_table.huge
    BY DEF HugeOf
  <2> QED BY <1>1, <2>1, <2>2, <2>3, SameMapAt
<1>5. r.result = "Ok" => p \in DOMAIN g /\ g[p] = wanted[p]
  <2> SUFFICES ASSUME r.result = "Ok" PROVE p \in DOMAIN g /\ g[p] = wanted[p]
    OBVIOUS
  <2>1. p \in DOMAIN g /\ p \in DOMAIN r.vmm.page_table.pages
    BY <1>3 DEF PagesOf
  <2>2. g[p] = r.vmm.page_table.pages[p]
    BY <1>1, <1>3, <2>1, MapAt
  <2> QED BY <2>1, <2>2 DEF PagesOf
<1> HIDE DEF f, g
<1>6. p \in DOMAIN f \ BootPages
  BY <1>2
<1>7. Abstract!Kept(DOMAIN Translated \ {p})
  BY <1>1, <1>4 DEF Abstract!Kept
<1>8. Abstract!Added = {}
  BY <1>1, <1>2, <1>3 DEF Abstract!Added
<1>9. r.result # "Ok" => Abstract!Lost = {p}
  BY <1>1, <1>2, <1>3 DEF Abstract!Lost
<1>10. Abstract!Remap
  BY <1>1, <1>5, <1>6, <1>7, <1>8, <1>9 DEF Abstract!Remap
<1> QED BY <1>1, <1>10 DEF Abstract!MapNext

(* What a call wants for the pages it names. *)
LEMMA WantedIs ==
  ASSUME NEW virt, NEW phys, NEW count, NEW flags
  PROVE  /\ DOMAIN Wanted(virt, phys, count, flags) = Named(virt, count)
         /\ \A p \in Named(virt, count) :
              /\ Wanted(virt, phys, count, flags)[p] = Target(virt, phys, flags, p)
              /\ Wanted(virt, phys, count, flags)[p].flags = flags
<1>1. /\ DOMAIN Wanted(virt, phys, count, flags) = Named(virt, count)
      /\ \A p \in Named(virt, count) :
           Wanted(virt, phys, count, flags)[p] = Target(virt, phys, flags, p)
  BY Zenon DEF Wanted, Target
<1>2. \A p : Target(virt, phys, flags, p).flags = flags
  BY DEF Target
<1> QED BY <1>1, <1>2

LEMMA WantedOne ==
  ASSUME NEW virt \in Nat, NEW phys \in Nat, NEW flags
  PROVE  Target(virt, phys, flags, PageOf(virt)) = [frame |-> PageOf(phys), flags |-> flags]
<1>1. PageOf(virt) \in Nat
  BY PageOfType
<1>2. PageOf(phys) \in Nat
  BY PageOfType
<1>3. PageOf(phys) + (PageOf(virt) - PageOf(virt)) = PageOf(phys)
  BY <1>1, <1>2
<1> QED BY <1>3 DEF Target

(* Whatever a bulk call that maps has come to, it is a step of the map. *)
LEMMA BulkMapStep ==
  ASSUME VmmInv, NEW op \in {"map_region", "identity_map"},
         NEW virt, NEW phys, NEW count, NEW flags, NEW r,
         Call(op, Named(virt, count), Wanted(virt, phys, count, flags), r),
         BulkOutcome(op, Current, r, others, Named(virt, count), virt, phys, flags)
  PROVE  Abstract!MapNext
<1> DEFINE N == Named(virt, count)
           wanted == Wanted(virt, phys, count, flags)
<1>0. /\ PagesOf(Current) = vmm.page_table.pages /\ HugeOf(Current) = vmm.page_table.huge
      /\ Current.vmm = vmm
  BY DEF PagesOf, HugeOf, Current
<1>1. CASE GoodCall(r, others) /\ r.result # "Ok" /\ r.vmm = vmm
  <2>1. PagesOf(r) = vmm.page_table.pages /\ HugeOf(r) = vmm.page_table.huge
    BY <1>1 DEF PagesOf, HugeOf
  <2> HIDE DEF N, wanted
  <2> QED BY <1>1, <2>1, RefuseStep DEF N, wanted
<1>2. CASE BulkPost(op, Current, r, others, N, virt, phys, flags)
  <2>1. /\ DOMAIN wanted = N
        /\ \A p \in N : wanted[p] = Target(virt, phys, flags, p) /\ wanted[p].flags = flags
    BY WantedIs
  <2> HIDE DEF N, wanted
  <2>2. /\ GoodCall(r, others) /\ Broader(vmm.page_table.huge, HugeOf(r), flags)
        /\ r.result # "ParentEntryHugePage" => HugeOf(r) = vmm.page_table.huge
        /\ r.result # "Ok" => N # {}
        /\ AddedOnly(Current, r, N, virt, phys, flags)
        /\ r.result = "Ok" => N \subseteq DOMAIN PagesOf(r) \cup BootPages
        /\ r.result = "Ok" /\ op # "identity_map" =>
             N \subseteq DOMAIN PagesOf(r) \ DOMAIN vmm.page_table.pages
    BY <1>0, <1>2 DEF BulkPost
  <2>3. r.result # "Ok" => \E q \in DOMAIN wanted : wanted[q].flags = flags
    BY <2>1, <2>2
  <2>4. /\ PartOf(vmm.page_table.pages, PagesOf(r))
        /\ \A p \in DOMAIN PagesOf(r) \ DOMAIN vmm.page_table.pages :
             p \in DOMAIN wanted /\ PagesOf(r)[p] = wanted[p]
    BY <1>0, <2>1, <2>2 DEF AddedOnly
  <2>5. Call(op, N, wanted, r)
    BY DEF N, wanted
  <2>6. /\ r.result = "Ok" => DOMAIN wanted \subseteq DOMAIN PagesOf(r) \cup BootPages
        /\ r.result = "Ok" /\ op # "identity_map" =>
             DOMAIN wanted \subseteq DOMAIN PagesOf(r) \ DOMAIN vmm.page_table.pages
    BY <2>1, <2>2
  <2> QED BY <2>2, <2>3, <2>4, <2>5, <2>6, MapStep
<1> QED BY <1>0, <1>1, <1>2 DEF BulkOutcome

(* Steps that leave the manager alone leave the page map alone. *)
LEMMA StutterStep ==
  ASSUME vmm' = vmm, initialized' = initialized, reply' = reply
  PROVE  UNCHANGED Abstract!mapVars
<1>1. Translated' = Translated
  BY DEF Translated
<1> QED BY <1>1 DEF Abstract!mapVars

LEMMA PageMapStep ==
  ASSUME VmmInv, [Next]_vars
  PROVE  Abstract!MapNext \/ UNCHANGED Abstract!mapVars
<1>0. ASSUME initialized
      PROVE  /\ GoodCall(Current, others) /\ PagesOf(Current) = vmm.page_table.pages
             /\ HugeOf(Current) = vmm.page_table.huge /\ Current.result = "Ok"
             /\ Current.vmm = vmm
  BY <1>0, CurrentGood DEF PagesOf, HugeOf
<1>1. CASE InitVmm
  BY <1>1, MapTakeOK DEF Abstract!MapNext
<1>2. ASSUME NEW v \in Virts, NEW f \in Given, NEW ph \in Phys, MapPage(v, ph, f)
      PROVE  Abstract!MapNext
  <2> DEFINE m == map_page(Current, v, ph, f)
             p == PageOf(v)
             leaf == [frame |-> PageOf(ph), flags |-> f]
             wanted == Wanted(v, ph, 1, f)
             N == Named(v, 1)
  <2>0. v \in Nat /\ ph \in Nat /\ p \in Page /\ PageOf(ph) \in Nat /\ f \in Flags
    BY Arguments
  <2>1. initialized /\ Call("map_page", N, wanted, m)
    BY <1>2 DEF MapPage, Call
  <2>2. MapPost(Current, m, others, p, leaf)
    BY <1>0, <2>0, <2>1, MapPageOK
  <2>3. leaf.flags = f
    OBVIOUS
  <2>4. N = {p}
    BY <2>0, NamedMore
  <2>5. DOMAIN wanted = N /\ wanted[p] = leaf /\ wanted[p].flags = f
    BY <2>0, <2>4, WantedIs, WantedOne
  <2> HIDE DEF m, p, leaf, wanted, N
  <2>6. /\ GoodCall(m, others) /\ Broader(vmm.page_table.huge, HugeOf(m), f)
        /\ m.result # "ParentEntryHugePage" => HugeOf(m) = vmm.page_table.huge
        /\ m.result # "Ok" => PagesOf(m) = vmm.page_table.pages
        /\ m.result = "Ok" => /\ p \notin DOMAIN vmm.page_table.pages
                              /\ PagesOf(m) = With(vmm.page_table.pages, p, leaf)
    BY <1>0, <2>1, <2>2, <2>3 DEF MapPost
  <2>7. m.result = "Ok" =>
          /\ PartOf(vmm.page_table.pages, PagesOf(m)) /\ PagesOf(m)[p] = leaf
          /\ DOMAIN PagesOf(m) = DOMAIN vmm.page_table.pages \cup {p}
    <3> SUFFICES ASSUME m.result = "Ok"
                 PROVE  /\ PartOf(vmm.page_table.pages, PagesOf(m)) /\ PagesOf(m)[p] = leaf
                        /\ DOMAIN PagesOf(m) = DOMAIN vmm.page_table.pages \cup {p}
      OBVIOUS
    <3>1. /\ PartOf(vmm.page_table.pages, With(vmm.page_table.pages, p, leaf))
          /\ DOMAIN With(vmm.page_table.pages, p, leaf) = DOMAIN vmm.page_table.pages \cup {p}
      BY <2>6, PartOfWith
    <3>2. With(vmm.page_table.pages, p, leaf)[p] = leaf
      BY WithNew
    <3> QED BY <2>6, <3>1, <3>2
  <2>8. PartOf(vmm.page_table.pages, PagesOf(m))
    BY <2>6, <2>7 DEF PartOf
  <2>9. /\ \A q \in DOMAIN PagesOf(m) \ DOMAIN vmm.page_table.pages :
             q \in DOMAIN wanted /\ PagesOf(m)[q] = wanted[q]
        /\ m.result # "Ok" => \E q \in DOMAIN wanted : wanted[q].flags = f
        /\ m.result = "Ok" => DOMAIN wanted \subseteq DOMAIN PagesOf(m) \cup BootPages
        /\ m.result = "Ok" =>
             DOMAIN wanted \subseteq DOMAIN PagesOf(m) \ DOMAIN vmm.page_table.pages
    BY <2>4, <2>5, <2>6, <2>7
  <2> QED BY <2>1, <2>6, <2>8, <2>9, MapStep
<1>3. ASSUME NEW v \in Virts, NEW f \in Given, NEW ph \in Phys, RemapPage(v, ph, f)
      PROVE  Abstract!MapNext
  <2> DEFINE m == remap_page(Current, v, ph, f)
             p == PageOf(v)
             leaf == [frame |-> PageOf(ph), flags |-> f]
             wanted == Wanted(v, ph, 1, f)
             N == Named(v, 1)
  <2>0. v \in Nat /\ ph \in Nat /\ p \in Page /\ PageOf(ph) \in Nat /\ f \in Flags
    BY Arguments
  <2>1. initialized /\ Call("remap_page", N, wanted, m)
    BY <1>3 DEF RemapPage, Call
  <2>2. /\ GoodCall(m, others) /\ HugeOf(m) = HugeOf(Current)
        /\ \/ m.result # "Ok" /\ PagesOf(m) = PagesOf(Current)
           \/ /\ p \in DOMAIN PagesOf(Current)
              /\ DOMAIN PagesOf(m) \cup {p} = DOMAIN PagesOf(Current)
              /\ \A q \in DOMAIN PagesOf(Current) \ {p} : PagesOf(m)[q] = PagesOf(Current)[q]
              /\ IF m.result = "Ok" THEN p \in DOMAIN PagesOf(m) /\ PagesOf(m)[p] = leaf
                                    ELSE p \notin DOMAIN PagesOf(m)
    BY <1>0, <2>0, <2>1, RemapPageOK
  <2>3. N = {p}
    BY <2>0, NamedMore
  <2>4. wanted[p] = leaf
    BY <2>0, <2>3, WantedIs, WantedOne
  <2> HIDE DEF m, p, leaf, wanted, N
  <2>5. CASE m.result # "Ok" /\ PagesOf(m) = PagesOf(Current)
    BY <1>0, <2>1, <2>2, <2>5, RefuseStep
  <2>6. CASE /\ p \in DOMAIN PagesOf(Current)
             /\ DOMAIN PagesOf(m) \cup {p} = DOMAIN PagesOf(Current)
             /\ \A q \in DOMAIN PagesOf(Current) \ {p} : PagesOf(m)[q] = PagesOf(Current)[q]
             /\ IF m.result = "Ok" THEN p \in DOMAIN PagesOf(m) /\ PagesOf(m)[p] = leaf
                                   ELSE p \notin DOMAIN PagesOf(m)
    <3>1. p \in N
      BY <2>3
    <3>2. /\ p \in DOMAIN vmm.page_table.pages
          /\ DOMAIN PagesOf(m) \cup {p} = DOMAIN vmm.page_table.pages
          /\ \A q \in DOMAIN vmm.page_table.pages \ {p} :
               PagesOf(m)[q] = vmm.page_table.pages[q]
          /\ HugeOf(m) = vmm.page_table.huge
          /\ IF m.result = "Ok" THEN p \in DOMAIN PagesOf(m) /\ PagesOf(m)[p] = wanted[p]
                                ELSE p \notin DOMAIN PagesOf(m)
      BY <1>0, <2>1, <2>2, <2>4, <2>6
    <3> QED BY <2>1, <2>2, <3>1, <3>2, RemapStep
  <2> QED BY <2>2, <2>5, <2>6
<1>4. ASSUME NEW v \in Virts, UnmapPage(v) PROVE Abstract!MapNext
  <2> DEFINE m == unmap_page(Current, v)
             p == PageOf(v)
             N == Named(v, 1)
  <2>0. v \in Nat
    BY Arguments
  <2>1. initialized /\ Call("unmap_page", N, NoEntry, m)
    BY <1>4 DEF UnmapPage, Call
  <2>2. /\ GoodCall(m, others) /\ HugeOf(m) = vmm.page_table.huge
        /\ m.result # "Ok" => PagesOf(m) = vmm.page_table.pages
        /\ m.result = "Ok" =>
             /\ p \in DOMAIN vmm.page_table.pages
             /\ DOMAIN PagesOf(m) = DOMAIN vmm.page_table.pages \ {p}
             /\ \A q \in DOMAIN vmm.page_table.pages \ {p} :
                  PagesOf(m)[q] = vmm.page_table.pages[q]
    <3>1. /\ GoodCall(m, others) /\ HugeOf(m) = HugeOf(Current)
          /\ m.result # "Ok" => m.vmm = Current.vmm
          /\ m.result = "Ok" =>
               /\ p \in DOMAIN PagesOf(Current)
               /\ DOMAIN PagesOf(m) = DOMAIN PagesOf(Current) \ {p}
               /\ \A q \in DOMAIN PagesOf(Current) \ {p} : PagesOf(m)[q] = PagesOf(Current)[q]
      BY <1>0, <2>1, UnmapPageOK
    <3>2. m.vmm = Current.vmm => PagesOf(m) = PagesOf(Current)
      BY DEF PagesOf
    <3> HIDE DEF m, p
    <3> QED BY <1>0, <2>1, <3>1, <3>2
  <2>3. N = {p}
    BY <2>0, NamedMore
  <2> HIDE DEF m, p, N
  <2>4. CASE m.result = "Ok"
    <3>1. /\ PartOf(PagesOf(m), vmm.page_table.pages)
          /\ DOMAIN PagesOf(m) = DOMAIN vmm.page_table.pages \ N
          /\ N \subseteq DOMAIN vmm.page_table.pages
      BY <2>2, <2>3, <2>4 DEF PartOf
    <3> QED BY <2>1, <2>2, <2>4, <3>1, UnmapStep
  <2>5. CASE m.result # "Ok"
    BY <2>1, <2>2, <2>5, RefuseStep
  <2> QED BY <2>4, <2>5
<1>5. ASSUME NEW g \in Ranges, NEW f \in Given, MapRegion(g, f) PROVE Abstract!MapNext
  <2> DEFINE m == map_region(Current, g[1], g[2], g[3], f)
  <2>1. /\ initialized /\ f \in Flags
        /\ Call("map_region", Named(g[1], g[3]), Wanted(g[1], g[2], g[3], f), m)
    BY <1>5, Arguments DEF MapRegion, Call
  <2>2. BulkOutcome("map_region", Current, m, others, Named(g[1], g[3]), g[1], g[2], f)
    BY <1>0, <2>1, BulkCallsOK
  <2> HIDE DEF m
  <2> QED BY <2>1, <2>2, BulkMapStep
<1>6. ASSUME NEW g \in Ranges, NEW f \in Given, IdentityMap(g, f) PROVE Abstract!MapNext
  <2> DEFINE m == identity_map(Current, g[2], g[3], f)
  <2>1. /\ initialized /\ f \in Flags
        /\ Call("identity_map", Named(g[2], g[3]), Wanted(g[2], g[2], g[3], f), m)
    BY <1>6, Arguments DEF IdentityMap, Call
  <2>2. BulkOutcome("identity_map", Current, m, others, Named(g[2], g[3]), g[2], g[2], f)
    BY <1>0, <2>1, BulkCallsOK
  <2> HIDE DEF m
  <2> QED BY <2>1, <2>2, BulkMapStep
<1>7. ASSUME NEW g \in Ranges, UnmapRegion(g) PROVE Abstract!MapNext
  <2> DEFINE m == unmap_region(Current, g[1], g[3])
             N == Named(g[1], g[3])
  <2>1. initialized /\ Call("unmap_region", N, NoEntry, m) /\ BootFlags \in Flags
    BY <1>7, PageTablesAssumption DEF UnmapRegion, Call, Flags
  <2>2. BulkOutcome("unmap_region", Current, m, others, N, g[1], 0, BootFlags)
    BY <1>0, <2>1, BulkCallsOK
  <2> HIDE DEF m, N
  <2>3. CASE BulkPost("unmap_region", Current, m, others, N, g[1], 0, BootFlags)
    <3>1. /\ GoodCall(m, others) /\ m.result = "Ok" /\ HugeOf(m) = vmm.page_table.huge
          /\ PartOf(PagesOf(m), vmm.page_table.pages)
          /\ DOMAIN PagesOf(m) = DOMAIN vmm.page_table.pages \ N
      BY <1>0, <2>1, <2>3 DEF BulkPost
    <3> QED BY <2>1, <3>1, UnmapStep
  <2>4. CASE GoodCall(m, others) /\ m.result # "Ok" /\ m.vmm = vmm
    <3>1. PagesOf(m) = vmm.page_table.pages /\ HugeOf(m) = vmm.page_table.huge
      BY <2>4 DEF PagesOf, HugeOf
    <3> QED BY <2>1, <2>4, <3>1, RefuseStep
  <2> QED BY <1>0, <2>1, <2>2, <2>3, <2>4 DEF BulkOutcome
<1>8. ASSUME FlushTlb PROVE Abstract!MapNext
  <2> DEFINE m == [Current EXCEPT !.vmm.stats.tlb_flush_count = @ + 1]
             N == {}
  <2>1. initialized /\ Call("flush", N, NoEntry, m)
    BY <1>8 DEF FlushTlb, Setting, Call
  <2>2. GoodCall(m, others) /\ m.vmm.page_table = Current.vmm.page_table
    BY <1>0, <2>1, SettingsOK
  <2> HIDE DEF m, N
  <2>3. PagesOf(m) = vmm.page_table.pages /\ HugeOf(m) = vmm.page_table.huge
    BY <1>0, <2>1, <2>2 DEF PagesOf, HugeOf
  <2> QED BY <2>1, <2>2, <2>3, RefuseStep
<1>9. ASSUME NEW enabled \in BOOLEAN, SetValidation(enabled) PROVE Abstract!MapNext
  <2> DEFINE m == [Current EXCEPT !.vmm.validation_enabled = enabled]
             N == {}
  <2>1. initialized /\ Call("set_validation", N, NoEntry, m)
    BY <1>9 DEF SetValidation, Setting, Call
  <2>2. GoodCall(m, others) /\ m.vmm.page_table = Current.vmm.page_table
    BY <1>0, <2>1, SettingsOK
  <2> HIDE DEF m, N
  <2>3. PagesOf(m) = vmm.page_table.pages /\ HugeOf(m) = vmm.page_table.huge
    BY <1>0, <2>1, <2>2 DEF PagesOf, HugeOf
  <2> QED BY <2>1, <2>2, <2>3, RefuseStep
<1>10. ASSUME TakeElsewhere \/ (\E f \in others : GiveElsewhere(f)) \/ UNCHANGED vars
       PROVE  UNCHANGED Abstract!mapVars
  BY <1>10, StutterStep DEF TakeElsewhere, GiveElsewhere, vars
<1> QED BY <1>1, <1>2, <1>3, <1>4, <1>5, <1>6, <1>7, <1>8, <1>9, <1>10 DEF Next

(* The manager implements the page map: a page gets the frame and flags    *)
(* that a call names for it and keeps them until a call that names it      *)
(* unmaps or remaps it, whatever the bulk calls around it do and however   *)
(* they fail (vmm.rs:500-610), and the pages of the boot code keep their   *)
(* frames for ever, and gain no flags but those of a call that was refused *)
(* because of them (vmm.rs:372).                                           *)
THEOREM RefinesPageMap == Spec => ImplementsPageMap
<1>1. VmmInv /\ [Next]_vars => [Abstract!MapNext]_(Abstract!mapVars)
  BY PageMapStep
<1> QED BY <1>1, MapInitOK, VmmInvInit, VmmInvInductive, PTL
     DEF Spec, ImplementsPageMap, Abstract!MapSpec

=============================================================================
