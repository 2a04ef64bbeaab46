---------------------------- MODULE Fat32Proofs -----------------------------
(***************************************************************************)
(* Proofs about the FAT32 volume and the file commands on it, for every    *)
(* number of clusters, block size, set of paths and contents.              *)
(***************************************************************************)
EXTENDS Fat32Invariant, FiniteSetTheorems, WellFoundedInduction, TLAPS

-----------------------------------------------------------------------------
(***************************************************************************)
(* Numbers, induction and iteration.                                       *)
(***************************************************************************)
LEMMA Least ==
  ASSUME NEW S, S \subseteq Nat, NEW z \in S
  PROVE  Min(S) \in S /\ \A y \in S : Min(S) <= y
<1>1. PICK x \in S : \A y \in S : ~(<<y, x>> \in OpToRel(<, Nat))
  BY WFMin, NatLessThanWellFounded
<1>2. \A y \in S : ~(y < x)
  BY <1>1, Zenon DEF OpToRel
<1>3. \A y \in S : x <= y
  BY <1>2
<1> QED BY <1>3 DEF Min

(* Induction up to N, over the set of the numbers at which a fact holds. *)
LEMMA UpTo ==
  ASSUME NEW N \in Nat, NEW S, 0 \in S, \A n \in 1 .. N : n - 1 \in S => n \in S
  PROVE  N \in S /\ \A n \in 0 .. N : n \in S
<1> DEFINE Bad == {n \in 0 .. N : n \notin S}
<1> SUFFICES ASSUME NEW z \in Bad PROVE FALSE
  <2>1. N \in 0 .. N
    OBVIOUS
  <2> QED BY <2>1
<1>1. Min(Bad) \in Bad /\ \A y \in Bad : Min(Bad) <= y
  BY Least
<1> DEFINE m == Min(Bad)
<1>2. m \in 0 .. N /\ m \notin S
  BY <1>1
<1> HIDE DEF m
<1>3. m # 0 /\ m \in 1 .. N /\ m - 1 \in 0 .. N
  BY <1>2
<1>4. m - 1 \notin Bad
  BY <1>1, <1>3 DEF m
<1> QED BY <1>2, <1>3, <1>4

(* A step taken N times in a set D: such a function exists. *)
Iterates(f, N, D, x, step) ==
  /\ f \in [0 .. N -> D] /\ f[0] = x
  /\ \A n \in 1 .. N : f[n] = step[<<n, f[n - 1]>>]

LEMMA Iteration ==
  ASSUME NEW N \in Nat, NEW D, NEW x \in D, NEW step \in [(1 .. N) \X D -> D]
  PROVE  \E f : Iterates(f, N, D, x, step)
<1> DEFINE Runs(f, m) == /\ f \in [0 .. m -> D] /\ f[0] = x
                         /\ \A n \in 1 .. m : f[n] = step[<<n, f[n - 1]>>]
           S == {m \in 0 .. N : \E f : Runs(f, m)}
<1>1. 0 \in S
  <2> DEFINE f == [n \in 0 .. 0 |-> x]
  <2>1. Runs(f, 0)
    OBVIOUS
  <2> HIDE DEF f, Runs
  <2> QED BY <2>1
<1>2. ASSUME NEW m \in 1 .. N, m - 1 \in S
      PROVE  m \in S
  <2>1. PICK f : Runs(f, m - 1)
    BY <1>2
  <2> DEFINE g == [n \in 0 .. m |-> IF n = m THEN step[<<m, f[m - 1]>>] ELSE f[n]]
  <2>2. f[m - 1] \in D
    BY <2>1
  <2>3. step[<<m, f[m - 1]>>] \in D
    BY <2>2
  <2>4. g \in [0 .. m -> D]
    BY <2>1, <2>3
  <2>5. ASSUME NEW n \in 1 .. m
        PROVE  g[n] = step[<<n, g[n - 1]>>]
    <3>1. CASE n = m
      <4>1. n - 1 \in 0 .. m /\ n - 1 # m
        BY <3>1
      <4>2. g[n - 1] = f[m - 1]
        BY <3>1, <4>1
      <4>3. g[m] = step[<<m, f[m - 1]>>]
        OBVIOUS
      <4> HIDE DEF g
      <4> QED BY <3>1, <4>2, <4>3
    <3>2. CASE n # m
      <4>1. n \in 1 .. m - 1 /\ n \in 0 .. m /\ n - 1 \in 0 .. m /\ n - 1 # m
        BY <3>2
      <4>2. g[n] = f[n] /\ g[n - 1] = f[n - 1]
        BY <3>2, <4>1
      <4> QED BY <2>1, <4>1, <4>2
    <3> QED BY <3>1, <3>2
  <2>6. g[0] = x
    BY <2>1
  <2>7. Runs(g, m)
    BY <2>4, <2>5, <2>6
  <2> HIDE DEF g, Runs
  <2> QED BY <2>7
<1> HIDE DEF S, Runs
<1>3. N \in S
  BY <1>1, <1>2, UpTo
<1>4. PICK f : Runs(f, N)
  BY <1>3 DEF S
<1> QED BY <1>4 DEF Runs, Iterates

LEMMA ClusterFacts ==
  /\ Clusters \subseteq Nat /\ 0 \notin Clusters /\ 1 \notin Clusters /\ Root \in Clusters
  /\ IsFiniteSet(Clusters) /\ Cardinality(Clusters) \in Nat
  /\ FREE \notin Clusters /\ EOC \notin Clusters /\ FREE # EOC
<1>1. Clusters = 2 .. Max(Clusters) /\ Max(Clusters) \in Nat
  BY Fat32Assumption
<1>2. IsFiniteSet(Clusters)
  BY <1>1, FS_Interval
<1>3. Cardinality(Clusters) \in Nat
  BY <1>2, FS_CardinalityType
<1>4. Clusters \subseteq Nat /\ 0 \notin Clusters /\ 1 \notin Clusters
  <2> DEFINE m == Max(Clusters)
  <2>1. Clusters = 2 .. m /\ m \in Nat
    BY <1>1
  <2> HIDE DEF m
  <2> QED BY <2>1
<1> QED BY <1>2, <1>3, <1>4, Fat32Assumption DEF FREE, EOC

-----------------------------------------------------------------------------
(***************************************************************************)
(* Chains.                                                                 *)
(***************************************************************************)
LEMMA FollowsOne ==
  ASSUME NEW d, NEW s \in Clusters
  PROVE  Follows(d, s, <<s>>)
BY DEF Follows

LEMMA FollowsOn ==
  ASSUME NEW d, NEW s, NEW c, Follows(d, s, c), ~Ended(d, c)
  PROVE  Follows(d, s, Append(c, d.fat[c[Len(c)]]))
<1> DEFINE x == d.fat[c[Len(c)]]
           n == Len(c)
           e == Append(c, x)
<1>1. x \in Clusters /\ (\A i \in 1 .. n : x # c[i]) /\ c \in Seq(Clusters) /\ n \in Nat \ {0}
  BY DEF Follows, Ended
<1>2. /\ e \in Seq(Clusters) /\ Len(e) = n + 1 /\ e[n + 1] = x
      /\ \A i \in 1 .. n : e[i] = c[i]
  BY <1>1
<1> HIDE DEF e
<1>3. e[1] = s
  BY <1>1, <1>2 DEF Follows
<1>4. ASSUME NEW i \in 1 .. Len(e) - 1 PROVE e[i + 1] = d.fat[e[i]]
  <2>1. i \in 1 .. n
    BY <1>1, <1>2
  <2>2. CASE i = n
    BY <1>2, <2>1, <2>2
  <2>3. CASE i # n
    <3>1. i \in 1 .. n - 1 /\ i + 1 \in 1 .. n
      BY <1>1, <2>1, <2>3
    <3> QED BY <1>2, <2>1, <3>1 DEF Follows
  <2> QED BY <2>2, <2>3
<1>5. ASSUME NEW i \in 1 .. Len(e), NEW j \in 1 .. Len(e), e[i] = e[j] PROVE i = j
  <2>1. CASE i \in 1 .. n /\ j \in 1 .. n
    BY <1>2, <1>5, <2>1 DEF Follows
  <2>2. CASE i = n + 1 /\ j = n + 1
    BY <2>2
  <2>3. CASE i \in 1 .. n /\ j = n + 1
    BY <1>1, <1>2, <1>5, <2>3
  <2>4. CASE i = n + 1 /\ j \in 1 .. n
    BY <1>1, <1>2, <1>5, <2>4
  <2> QED BY <1>1, <1>2, <2>1, <2>2, <2>3, <2>4
<1>6. Len(e) \in Nat \ {0}
  BY <1>1, <1>2
<1> QED BY <1>2, <1>3, <1>4, <1>5, <1>6 DEF Follows, e

(* It is no longer than there are clusters. *)
LEMMA FollowsShort ==
  ASSUME NEW d, NEW s, NEW c, Follows(d, s, c)
  PROVE  Len(c) <= Cardinality(Clusters)
<1> DEFINE n == Len(c)
           S == 1 .. n
<1> SUFFICES ASSUME Cardinality(Clusters) < n PROVE FALSE
  BY ClusterFacts DEF Follows
<1>1. n \in Nat /\ c \in Seq(Clusters)
  BY DEF Follows
<1>2. c \in [S -> Clusters]
  BY <1>1
<1>3. IsFiniteSet(S) /\ Cardinality(S) = n
  BY <1>1, FS_Interval
<1> HIDE DEF S
<1>4. \E x, y \in S : x # y /\ c[x] = c[y]
  BY <1>2, <1>3, ClusterFacts, FS_PigeonHole
<1> QED BY <1>4 DEF S, Follows

LEMMA ReadChain ==
  ASSUME NEW d, NEW s \in Clusters
  PROVE  IsChain(d, s, read_chain(d, s))
<1> DEFINE N == Cardinality(Clusters)
           D == Seq(Clusters)
           Cont(c) == LET next == d.fat[Last(c)]
                      IN  IF next \notin Clusters \/ next \in Range(c) THEN c
                          ELSE Append(c, next)
           Eq(w) == w = [n \in 0 .. N |-> IF n = 0 THEN <<s>> ELSE Cont(w[n - 1])]
           walk == CHOOSE w : Eq(w)
           step == [p \in (1 .. N) \X D |-> Cont(p[2])]
<1>0. N \in Nat /\ <<s>> \in D
  BY ClusterFacts
<1>1. \A c \in D : Cont(c) \in D
  OBVIOUS
<1>2. step \in [(1 .. N) \X D -> D]
  BY <1>1
<1>3. PICK f : Iterates(f, N, D, <<s>>, step)
  <2> HIDE DEF N, D, step
  <2> QED BY <1>0, <1>2, Iteration, Zenon
<1>4. ASSUME NEW n \in 1 .. N PROVE f[n] = Cont(f[n - 1])
  <2>1. n - 1 \in 0 .. N /\ f[n - 1] \in D
    BY <1>0, <1>3 DEF Iterates
  <2>2. <<n, f[n - 1]>> \in (1 .. N) \X D
    BY <2>1
  <2> HIDE DEF Cont, D
  <2> QED BY <1>3, <2>2 DEF Iterates
<1> HIDE DEF Cont, D, step, N
<1>5. \A n \in 0 .. N : f[n] = IF n = 0 THEN <<s>> ELSE Cont(f[n - 1])
  BY <1>0, <1>3, <1>4 DEF Iterates
<1>6. f = [n \in 0 .. N |-> IF n = 0 THEN <<s>> ELSE Cont(f[n - 1])]
  BY <1>3, <1>5 DEF Iterates
<1>7. Eq(walk)
  <2>1. Eq(f)
    BY <1>6
  <2> HIDE DEF Eq
  <2> QED BY <2>1
<1>8. read_chain(d, s) = walk[N]
  BY Zenon DEF read_chain, Cont, N
<1> HIDE DEF walk
<1>9. walk[0] = <<s>> /\ \A n \in 1 .. N : walk[n] = Cont(walk[n - 1])
  BY <1>0, <1>7
<1> HIDE DEF Eq
<1> DEFINE Good(n) == Follows(d, s, walk[n]) /\ (Ended(d, walk[n]) \/ Len(walk[n]) = n + 1)
           S == {n \in 0 .. N : Good(n)}
<1>10. 0 \in S
  BY <1>0, <1>9, FollowsOne
<1>11. ASSUME NEW n \in 1 .. N, n - 1 \in S PROVE n \in S
  <2> DEFINE c == walk[n - 1]
  <2>1. Follows(d, s, c) /\ (Ended(d, c) \/ Len(c) = n)
    BY <1>11
  <2>2. walk[n] = Cont(c)
    BY <1>9
  <2> HIDE DEF c
  <2>3. c \in Seq(Clusters) /\ Last(c) = c[Len(c)] /\ Range(c) = {c[i] : i \in 1 .. Len(c)}
    BY <2>1 DEF Last, Range, Follows
  <2>4. CASE Ended(d, c)
    <3>1. Cont(c) = c
      BY <2>3, <2>4 DEF Cont, Ended
    <3> QED BY <2>1, <2>2, <2>4, <3>1, <1>0
  <2>5. CASE ~Ended(d, c)
    <3>1. Cont(c) = Append(c, d.fat[c[Len(c)]])
      BY <2>3, <2>5 DEF Cont, Ended
    <3>2. Follows(d, s, Cont(c))
      BY <2>1, <2>5, <3>1, FollowsOn
    <3>3. Len(Cont(c)) = n + 1
      BY <2>1, <2>3, <2>5, <3>1
    <3> QED BY <2>2, <3>2, <3>3, <1>0
  <2> QED BY <2>4, <2>5
<1> HIDE DEF S
<1>12. N \in S
  BY <1>0, <1>10, <1>11, UpTo, Zenon
<1>13. Good(N)
  BY <1>12 DEF S
<1>14. Len(walk[N]) <= N
  BY <1>13, FollowsShort DEF N
<1> QED BY <1>0, <1>8, <1>13, <1>14 DEF IsChain

LEMMA NoChain ==
  ASSUME NEW d, NEW s, s \notin Clusters
  PROVE  read_chain(d, s) = <<>>
BY Zenon DEF read_chain

(* A chain depends on the table entries of its own clusters only. *)
LEMMA ChainAgrees ==
  ASSUME NEW d, NEW e, NEW s, NEW c, NEW b, IsChain(d, s, c), IsChain(e, s, b),
         \A i \in 1 .. Len(c) : e.fat[c[i]] = d.fat[c[i]]
  PROVE  b = c
<1> DEFINE S == {n \in 0 .. Len(c) : \A i \in 1 .. n : i <= Len(b) /\ b[i] = c[i]}
<1>0. /\ c \in Seq(Clusters) /\ b \in Seq(Clusters) /\ Len(c) \in Nat \ {0}
      /\ Len(b) \in Nat \ {0} /\ c[1] = s /\ b[1] = s
      /\ \A i \in 1 .. Len(c) : c[i] \in Clusters
  BY DEF IsChain, Follows
<1>1. 0 \in S
  OBVIOUS
<1>2. ASSUME NEW n \in 1 .. Len(c), n - 1 \in S PROVE n \in S
  <2>1. \A i \in 1 .. n - 1 : i <= Len(b) /\ b[i] = c[i]
    BY <1>2
  <2>2. CASE n = 1
    BY <1>0, <2>2
  <2>3. CASE n # 1
    <3> DEFINE m == n - 1
    <3>1. m \in 1 .. Len(c) - 1 /\ m \in 1 .. n - 1 /\ m \in 1 .. Len(c) /\ m + 1 = n
      BY <1>0, <2>3
    <3>2. b[m] = c[m] /\ m <= Len(b) /\ c[n] = d.fat[c[m]] /\ e.fat[c[m]] = d.fat[c[m]]
      BY <2>1, <3>1 DEF IsChain, Follows
    <3>3. m # Len(b)
      <4> SUFFICES ASSUME m = Len(b) PROVE FALSE
        OBVIOUS
      <4>1. e.fat[b[m]] = c[n] /\ c[n] \in Clusters
        BY <3>1, <3>2, <1>0
      <4>2. PICK i \in 1 .. m : c[n] = b[i]
        BY <4>1 DEF IsChain, Ended
      <4>3. c[i] = c[n] /\ i \in 1 .. Len(c) /\ i # n
        BY <4>2, <2>1, <3>1, <1>0
      <4> QED BY <4>3 DEF IsChain, Follows
    <3>4. n <= Len(b) /\ b[n] = c[n]
      <4>1. m \in 1 .. Len(b) - 1
        BY <3>1, <3>2, <3>3, <1>0
      <4>2. b[m + 1] = e.fat[b[m]]
        BY <4>1 DEF IsChain, Follows
      <4> QED BY <4>1, <4>2, <3>1, <3>2, <1>0
    <3> QED BY <2>1, <3>4, <1>0
  <2> QED BY <2>2, <2>3
<1> HIDE DEF S
<1>3. Len(c) \in S
  <2>1. Len(c) \in Nat
    BY <1>0
  <2> QED BY <2>1, <1>1, <1>2, UpTo, Zenon
<1>4. \A i \in 1 .. Len(c) : i <= Len(b) /\ b[i] = c[i]
  BY <1>3 DEF S
<1>5. Len(b) = Len(c)
  <2> SUFFICES ASSUME Len(b) # Len(c) PROVE FALSE
    OBVIOUS
  <2> DEFINE n == Len(c)
  <2>1. n \in 1 .. n /\ n <= Len(b) /\ n \in 1 .. Len(b) - 1 /\ n + 1 \in 1 .. Len(b)
    BY <1>0, <1>4
  <2>2. b[n + 1] = d.fat[c[n]] /\ b[n + 1] \in Clusters
    BY <2>1, <1>0, <1>4 DEF IsChain, Follows
  <2>3. PICK i \in 1 .. n : d.fat[c[n]] = c[i]
    BY <2>2 DEF IsChain, Ended
  <2>4. b[i] = b[n + 1] /\ i \in 1 .. Len(b) /\ i # n + 1
    BY <2>1, <2>2, <2>3, <1>4, <1>0
  <2> QED BY <2>1, <2>4 DEF IsChain, Follows
<1> QED BY <1>0, <1>4, <1>5

LEMMA ChainType ==
  ASSUME NEW d, NEW s
  PROVE  /\ read_chain(d, s) \in Seq(Clusters) /\ Len(read_chain(d, s)) \in Nat
         /\ \A i \in 1 .. Len(read_chain(d, s)) : read_chain(d, s)[i] \in Clusters
         /\ Range(read_chain(d, s)) = {read_chain(d, s)[i] : i \in 1 .. Len(read_chain(d, s))}
         /\ Range(read_chain(d, s)) \subseteq Clusters
<1> DEFINE c == read_chain(d, s)
<1>1. CASE s \in Clusters
  <2>1. IsChain(d, s, c)
    BY <1>1, ReadChain
  <2> HIDE DEF c
  <2>2. c \in Seq(Clusters)
    BY <2>1 DEF IsChain, Follows
  <2>3. /\ Len(c) \in Nat /\ \A i \in 1 .. Len(c) : c[i] \in Clusters
        /\ Range(c) = {c[i] : i \in 1 .. Len(c)} /\ Range(c) \subseteq Clusters
    BY <2>2 DEF Range
  <2> QED BY <2>2, <2>3 DEF c
<1>2. CASE s \notin Clusters
  <2>1. c = <<>>
    BY <1>2, NoChain
  <2> HIDE DEF c
  <2>2. /\ c \in Seq(Clusters) /\ Len(c) = 0 /\ Range(c) = {}
        /\ {c[i] : i \in 1 .. Len(c)} = {} /\ \A i \in 1 .. Len(c) : FALSE
    BY <2>1 DEF Range
  <2> QED BY <2>2 DEF c
<1> QED BY <1>1, <1>2

-----------------------------------------------------------------------------
(***************************************************************************)
(* Slots, entries and paths.                                               *)
(***************************************************************************)
LEMMA SlotPlace ==
  ASSUME NEW n \in Nat, NEW k \in 1 .. n * SlotsPerBlock
  PROVE  /\ BlockAt(k) \in 1 .. n /\ PlaceAt(k) \in Places
         /\ k = (BlockAt(k) - 1) * SlotsPerBlock + PlaceAt(k)
<1> DEFINE m == SlotsPerBlock
           q == (k - 1) \div m
           t == (k - 1) % m
<1>1. m \in Nat \ {0}
  BY Fat32Assumption
<1>2. n * m \in Nat /\ k - 1 \in Nat /\ k - 1 < n * m
  BY <1>1
<1>3. q \in Nat /\ t \in 0 .. m - 1 /\ k - 1 = q * m + t
  BY <1>1, <1>2
<1>4. q < n
  <2> SUFFICES ASSUME q >= n PROVE FALSE
    BY <1>3
  <2> HIDE DEF q, t, m
  <2>1. q - n \in Nat /\ (q - n) * m \in Nat /\ q * m = n * m + (q - n) * m
    BY <1>1, <1>3
  <2> QED BY <1>1, <1>2, <1>3, <2>1
<1>5. BlockAt(k) = q + 1 /\ PlaceAt(k) = t + 1
  BY DEF BlockAt, PlaceAt
<1> HIDE DEF q, t, m
<1>6. BlockAt(k) \in 1 .. n
  BY <1>3, <1>4, <1>5
<1>7. PlaceAt(k) \in 1 .. m
  BY <1>1, <1>3, <1>5
<1>8. k = (BlockAt(k) - 1) * m + PlaceAt(k)
  BY <1>1, <1>3, <1>5
<1> QED BY <1>6, <1>7, <1>8 DEF Places, m

LEMMA PlaceSlot ==
  ASSUME NEW n \in Nat, NEW b \in 1 .. n, NEW j \in Places
  PROVE  LET k == (b - 1) * SlotsPerBlock + j
         IN  k \in 1 .. n * SlotsPerBlock /\ BlockAt(k) = b /\ PlaceAt(k) = j
<1> DEFINE m == SlotsPerBlock
           k == (b - 1) * m + j
           q == (k - 1) \div m
           t == (k - 1) % m
<1>1. m \in Nat \ {0} /\ j \in 1 .. m
  BY Fat32Assumption DEF Places
<1>2. (b - 1) * m \in Nat /\ n * m = (b - 1) * m + m + (n - b) * m /\ (n - b) * m \in Nat
  BY <1>1
<1>3. k \in 1 .. n * m
  <2> HIDE DEF m
  <2> QED BY <1>1, <1>2
<1>4. k - 1 \in Nat /\ k - 1 = (b - 1) * m + (j - 1)
  BY <1>1, <1>2
<1>5. q \in Nat /\ t \in 0 .. m - 1 /\ k - 1 = q * m + t
  <2> DEFINE a == k - 1
  <2>1. a \in Nat
    BY <1>4
  <2> HIDE DEF a, m
  <2>2. a \div m \in Nat /\ a % m \in 0 .. m - 1 /\ a = (a \div m) * m + (a % m)
    BY <1>1, <2>1
  <2> QED BY <2>2 DEF a
<1>6. q = b - 1 /\ t = j - 1
  <2> HIDE DEF k, q, t, m
  <2>1. CASE q > b - 1
    <3>1. q - b \in Nat /\ (q - b) * m \in Nat /\ q * m = (b - 1) * m + m + (q - b) * m
      BY <1>1, <1>5, <2>1
    <3> QED BY <1>1, <1>2, <1>4, <1>5, <3>1
  <2>2. CASE q < b - 1
    <3>1. b - 2 - q \in Nat /\ (b - 2 - q) * m \in Nat
          /\ (b - 1) * m = q * m + m + (b - 2 - q) * m
      BY <1>1, <1>5, <2>2
    <3> QED BY <1>1, <1>2, <1>4, <1>5, <3>1
  <2>3. CASE q = b - 1
    BY <1>1, <1>4, <1>5, <2>3
  <2> QED BY <1>5, <2>1, <2>2, <2>3
<1>7. BlockAt(k) = q + 1 /\ PlaceAt(k) = t + 1
  BY DEF BlockAt, PlaceAt
<1> HIDE DEF k, q, t
<1>8. BlockAt(k) = b /\ PlaceAt(k) = j
  BY <1>1, <1>6, <1>7
<1> QED BY <1>3, <1>8 DEF k, m

LEMMA SpecialSlots ==
  /\ End \in Slots /\ Deleted \in Slots /\ Dot \in Slots /\ RootEntry \in Slots
  /\ ~IsEntry(End) /\ ~IsEntry(Deleted) /\ ~IsEntry(Dot) /\ RootEntry # End
  /\ IsEntry(RootEntry)
  /\ RootEntry.cluster = Root /\ End.cluster = 0 /\ End.kind = "end" /\ Deleted # End
  /\ ZeroBlock \in [Places -> Slots] /\ \A j \in Places : ~IsEntry(ZeroBlock[j])
BY ClusterFacts DEF End, Deleted, Dot, RootEntry, Slot, Slots, IsEntry, ZeroBlock, Places

LEMMA SlotsOfType ==
  ASSUME NEW d \in Disk, NEW s
  PROVE  /\ SlotsOf(d, s) \in Seq(Slots)
         /\ Len(SlotsOf(d, s)) = Len(read_chain(d, s)) * SlotsPerBlock
         /\ Len(SlotsOf(d, s)) \in Nat
         /\ DOMAIN SlotsOf(d, s) = 1 .. Len(read_chain(d, s)) * SlotsPerBlock
         /\ \A k \in DOMAIN SlotsOf(d, s) :
              /\ BlockAt(k) \in 1 .. Len(read_chain(d, s)) /\ PlaceAt(k) \in Places
              /\ read_chain(d, s)[BlockAt(k)] \in Clusters
              /\ SlotsOf(d, s)[k] \in Slots
              /\ SlotsOf(d, s)[k] = d.data[read_chain(d, s)[BlockAt(k)]][PlaceAt(k)]
<1> DEFINE c == read_chain(d, s)
           n == Len(c)
           m == n * SlotsPerBlock
           f == [k \in 1 .. m |-> d.data[c[BlockAt(k)]][PlaceAt(k)]]
<1>1. n \in Nat /\ \A i \in 1 .. n : c[i] \in Clusters
  BY ChainType
<1>2. m \in Nat
  BY <1>1, Fat32Assumption
<1>3. SlotsOf(d, s) = f
  BY Zenon DEF SlotsOf
<1>4. ASSUME NEW k \in 1 .. m
      PROVE  /\ BlockAt(k) \in 1 .. n /\ PlaceAt(k) \in Places
             /\ c[BlockAt(k)] \in Clusters /\ d.data[c[BlockAt(k)]][PlaceAt(k)] \in Slots
  <2>1. BlockAt(k) \in 1 .. n /\ PlaceAt(k) \in Places
    <3> HIDE DEF c, n
    <3> QED BY <1>1, SlotPlace
  <2>2. c[BlockAt(k)] \in Clusters
    BY <1>1, <2>1
  <2> HIDE DEF c
  <2> QED BY <2>1, <2>2 DEF Disk, Places
<1> HIDE DEF c, n, m
<1>5. f \in Seq(Slots) /\ Len(f) = m /\ DOMAIN f = 1 .. m
  BY <1>2, <1>4
<1> QED BY <1>2, <1>3, <1>4, <1>5 DEF m, n, c

(* The scan of a directory finds the first entry of a name. *)
Named(d, s, name, k) ==
  /\ k \in DOMAIN SlotsOf(d, s)
  /\ IsEntry(SlotsOf(d, s)[k]) /\ SlotsOf(d, s)[k].name = name

Found(d, s, name, k) ==
  /\ Named(d, s, name, k)
  /\ \A j \in 1 .. k - 1 : SlotsOf(d, s)[j] # End /\ ~Named(d, s, name, j)

LEMMA FindEntry ==
  ASSUME NEW d \in Disk, NEW s, NEW name
  PROVE  /\ find_entry(d, s, name) \in Slots
         /\ find_entry(d, s, name) # End =>
              /\ IsEntry(find_entry(d, s, name)) /\ find_entry(d, s, name).name = name
              /\ \E k : Found(d, s, name, k) /\ find_entry(d, s, name) = SlotsOf(d, s)[k]
         /\ find_entry(d, s, name) = End =>
              \A k : Named(d, s, name, k) =>
                \E j \in 1 .. k - 1 : SlotsOf(d, s)[j] = End
<1> DEFINE slots == SlotsOf(d, s)
           P(x) == x = End \/ (IsEntry(x) /\ x.name = name)
           I == {i \in 1 .. Len(slots) : P(slots[i])}
           k == IF I # {} THEN Min(I) ELSE 0
<1>1. find_entry(d, s, name) = IF k = 0 THEN End ELSE slots[k]
  BY Zenon DEF find_entry, SelectInSeq
<1>2. slots \in Seq(Slots) /\ Len(slots) \in Nat /\ DOMAIN slots = 1 .. Len(slots)
      /\ \A i \in 1 .. Len(slots) : slots[i] \in Slots
  <2>1. slots \in Seq(Slots)
    BY SlotsOfType
  <2> HIDE DEF slots
  <2> QED BY <2>1
<1>3. I # {} => k \in I /\ \A j \in I : k <= j
  <2> SUFFICES ASSUME NEW z \in I PROVE k \in I /\ \A j \in I : k <= j
    OBVIOUS
  <2>1. I \subseteq Nat
    OBVIOUS
  <2> HIDE DEF I
  <2> QED BY <2>1, Least
<1>4. CASE I = {}
  <2>1. find_entry(d, s, name) = End
    BY <1>1, <1>4
  <2>2. \A j : ~Named(d, s, name, j)
    BY <1>2, <1>4 DEF Named
  <2> QED BY <2>1, <2>2, SpecialSlots
<1>5. CASE I # {}
  <2>1. k \in 1 .. Len(slots) /\ P(slots[k]) /\ k # 0
    BY <1>3, <1>5
  <2>2. find_entry(d, s, name) = slots[k]
    BY <1>1, <2>1
  <2>3. \A j \in 1 .. Len(slots) : P(slots[j]) => k <= j
    BY <1>3, <1>5
  <2> HIDE DEF I, k, slots
  <2>4. CASE slots[k] = End
    <3>1. ASSUME NEW j, Named(d, s, name, j)
          PROVE  \E i \in 1 .. j - 1 : slots[i] = End
      <4>1. j \in 1 .. Len(slots) /\ P(slots[j]) /\ slots[j] # End
        BY <1>2, <3>1, SpecialSlots DEF Named, slots
      <4>2. k <= j /\ k # j
        BY <2>3, <2>4, <4>1
      <4>3. k \in 1 .. j - 1
        BY <2>1, <4>1, <4>2, <1>2
      <4> QED BY <2>4, <4>3
    <3> QED BY <2>2, <2>4, <3>1, SpecialSlots DEF slots
  <2>5. CASE slots[k] # End
    <3>1. IsEntry(slots[k]) /\ slots[k].name = name
      BY <2>1, <2>5
    <3>2. \A j \in 1 .. k - 1 : j \in 1 .. Len(slots) /\ ~(k <= j)
      BY <1>2, <2>1
    <3>3. Found(d, s, name, k)
      BY <1>2, <2>1, <2>3, <3>1, <3>2 DEF Found, Named, slots
    <3>4. slots[k] \in Slots
      BY <1>2, <2>1
    <3> QED BY <2>2, <2>5, <3>1, <3>3, <3>4 DEF slots
  <2> QED BY <2>4, <2>5
<1> QED BY <1>4, <1>5

(* The entries a path leads through. *)
Leads(d, path, f) ==
  /\ f \in [0 .. Len(path) -> Slots] /\ f[0] = RootEntry
  /\ \A k \in 1 .. Len(path) :
       f[k] = IF f[k - 1] = End THEN End ELSE find_entry(d, f[k - 1].cluster, path[k])

LEMMA EntryAtLeads ==
  ASSUME NEW d \in Disk, NEW path \in Seq(Names)
  PROVE  \E f : Leads(d, path, f) /\ EntryAt(d, path) = f[Len(path)]
<1> DEFINE N == Len(path)
           Cont(k, x) == IF x = End THEN End ELSE find_entry(d, x.cluster, path[k])
           Eq(w) == w = [k \in 0 .. N |-> IF k = 0 THEN RootEntry ELSE Cont(k, w[k - 1])]
           at == CHOOSE w : Eq(w)
           step == [p \in (1 .. N) \X Slots |-> Cont(p[1], p[2])]
<1>1. N \in Nat /\ RootEntry \in Slots
  BY SpecialSlots
<1>2. \A k \in 1 .. N : \A x \in Slots : Cont(k, x) \in Slots
  BY FindEntry, SpecialSlots
<1> HIDE DEF Cont, N
<1>3. step \in [(1 .. N) \X Slots -> Slots]
  BY <1>2
<1>4. PICK f : Iterates(f, N, Slots, RootEntry, step)
  <2> HIDE DEF step
  <2> QED BY <1>1, <1>3, Iteration, Zenon
<1>5. ASSUME NEW n \in 1 .. N PROVE f[n] = Cont(n, f[n - 1])
  <2>1. n - 1 \in 0 .. N /\ f[n - 1] \in Slots
    BY <1>1, <1>4 DEF Iterates
  <2>2. <<n, f[n - 1]>> \in (1 .. N) \X Slots
    BY <2>1
  <2> QED BY <1>4, <2>2 DEF Iterates
<1> HIDE DEF step
<1>6. f = [n \in 0 .. N |-> IF n = 0 THEN RootEntry ELSE Cont(n, f[n - 1])]
  <2>1. \A n \in 0 .. N : f[n] = IF n = 0 THEN RootEntry ELSE Cont(n, f[n - 1])
    BY <1>1, <1>4, <1>5 DEF Iterates
  <2> QED BY <1>4, <2>1 DEF Iterates
<1>7. Eq(at)
  <2>1. Eq(f)
    BY <1>6
  <2> HIDE DEF Eq
  <2> QED BY <2>1
<1>8. EntryAt(d, path) = at[N]
  BY Zenon DEF EntryAt, Cont, N
<1> HIDE DEF at
<1>9. at[0] = RootEntry /\ \A n \in 1 .. N : at[n] = Cont(n, at[n - 1])
  BY <1>1, <1>7
<1>10. at \in [0 .. N -> Slots]
  <2> DEFINE S == {n \in 0 .. N : at[n] \in Slots}
  <2>1. 0 \in S
    BY <1>1, <1>9
  <2>2. ASSUME NEW n \in 1 .. N, n - 1 \in S PROVE n \in S
    BY <1>1, <1>2, <1>9, <2>2
  <2>3. \A n \in 0 .. N : n \in S
    <3> HIDE DEF S
    <3> QED BY <1>1, <2>1, <2>2, UpTo, Zenon
  <2>4. DOMAIN at = 0 .. N /\ at = [n \in 0 .. N |-> at[n]]
    BY <1>7
  <2> QED BY <2>3, <2>4
<1>11. Leads(d, path, at)
  BY <1>9, <1>10 DEF Leads, N, Cont
<1> QED BY <1>8, <1>11 DEF N

LEMMA FrontLast ==
  ASSUME NEW S, NEW path \in Seq(S), path # <<>>
  PROVE  /\ Front(path) \in Seq(S) /\ Len(path) \in Nat \ {0} /\ Len(Front(path)) = Len(path) - 1
         /\ Last(path) = path[Len(path)] /\ Last(path) \in S
         /\ \A k \in 1 .. Len(path) - 1 : Front(path)[k] = path[k]
<1> DEFINE up == Front(path)
           N == Len(path)
<1>1. /\ up \in Seq(S) /\ N \in Nat \ {0} /\ Len(up) = N - 1 /\ Last(path) = path[N]
      /\ \A k \in 1 .. N - 1 : up[k] = path[k]
      /\ Last(path) \in S
  <2>1. N \in Nat \ {0} /\ N \in 1 .. N /\ N - 1 \in Nat
    OBVIOUS
  <2>2. up \in Seq(S) /\ Len(up) = N - 1 /\ \A k \in 1 .. N - 1 : up[k] = path[k]
    <3>1. up = SubSeq(path, 1, N - 1)
      BY DEF Front
    <3> HIDE DEF up
    <3>2. Len(up) = N - 1
      <4> DEFINE n == N - 1
      <4>1. n \in Nat /\ n <= Len(path) /\ up = SubSeq(path, 1, n)
        BY <3>1, <2>1
      <4> HIDE DEF n, N
      <4>2. Len(up) = n
        BY <4>1
      <4> QED BY <4>2 DEF n
    <3>3. \A k \in 1 .. N - 1 : up[k] = path[k]
      BY <3>1, <2>1
    <3>4. up \in Seq(S)
      BY <3>1, <2>1
    <3> QED BY <3>2, <3>3, <3>4
  <2>3. Last(path) = path[N] /\ path[N] \in S
    BY <2>1 DEF Last
  <2> QED BY <2>1, <2>2, <2>3
<1> QED BY <1>1

LEMMA EntryAtStep ==
  ASSUME NEW d \in Disk, NEW path \in Seq(Names), path # <<>>
  PROVE  /\ EntryAt(d, path) = IF EntryAt(d, Front(path)) = End THEN End
                               ELSE find_entry(d, EntryAt(d, Front(path)).cluster, Last(path))
         /\ EntryAt(d, path) \in Slots /\ EntryAt(d, Front(path)) \in Slots
         /\ Front(path) \in Seq(Names) /\ Len(Front(path)) = Len(path) - 1
         /\ Len(path) \in Nat \ {0} /\ Last(path) \in Names
<1> DEFINE up == Front(path)
           N == Len(path)
<1>1. /\ up \in Seq(Names) /\ N \in Nat \ {0} /\ Len(up) = N - 1 /\ Last(path) = path[N]
      /\ \A k \in 1 .. N - 1 : up[k] = path[k]
      /\ Last(path) \in Names
  BY FrontLast
<1> HIDE DEF N, up
<1>2. PICK f : Leads(d, path, f) /\ EntryAt(d, path) = f[N]
  BY EntryAtLeads DEF N
<1>3. PICK g : Leads(d, up, g) /\ EntryAt(d, up) = g[N - 1]
  BY <1>1, EntryAtLeads
<1> DEFINE S == {n \in 0 .. N - 1 : f[n] = g[n]}
<1>4. 0 \in S
  BY <1>1, <1>2, <1>3 DEF Leads
<1>5. ASSUME NEW n \in 1 .. N - 1, n - 1 \in S PROVE n \in S
  <2>1. n \in 1 .. N /\ n \in 1 .. Len(up) /\ n \in 0 .. N - 1 /\ f[n - 1] = g[n - 1]
        /\ up[n] = path[n]
    BY <1>1, <1>5
  <2>2. f[n] = g[n]
    BY <2>1, <1>2, <1>3 DEF Leads, N
  <2> QED BY <2>1, <2>2
<1>6. N - 1 \in S
  <2>1. N - 1 \in Nat
    BY <1>1
  <2> HIDE DEF S
  <2> QED BY <2>1, <1>4, <1>5, UpTo
<1>7. f[N - 1] = EntryAt(d, up) /\ N \in 1 .. N /\ N \in 0 .. N /\ N - 1 \in 0 .. N
  BY <1>1, <1>3, <1>6
<1>8. f[N] = IF f[N - 1] = End THEN End ELSE find_entry(d, f[N - 1].cluster, path[N])
  BY <1>2, <1>7 DEF Leads, N
<1>9. f[N] \in Slots /\ f[N - 1] \in Slots
  BY <1>2, <1>7 DEF Leads, N
<1> QED BY <1>1, <1>2, <1>7, <1>8, <1>9 DEF N, up

LEMMA EntryAtRoot ==
  ASSUME NEW d \in Disk
  PROVE  EntryAt(d, <<>>) = RootEntry
<1> DEFINE path == <<>>
<1>1. path \in Seq(Names) /\ Len(path) = 0
  OBVIOUS
<1> HIDE DEF path
<1>2. PICK f : Leads(d, path, f) /\ EntryAt(d, path) = f[Len(path)]
  BY <1>1, EntryAtLeads
<1>3. EntryAt(d, path) = RootEntry
  BY <1>1, <1>2 DEF Leads
<1> QED BY <1>3 DEF path

LEMMA EntryAtType ==
  ASSUME NEW d \in Disk, NEW path \in Seq(Names)
  PROVE  /\ EntryAt(d, path) \in Slots
         /\ EntryAt(d, path) # End => IsEntry(EntryAt(d, path))
<1>1. CASE path = <<>>
  BY <1>1, EntryAtRoot, SpecialSlots
<1>2. CASE path # <<>>
  <2> DEFINE e == EntryAt(d, path)
             up == EntryAt(d, Front(path))
  <2>1. e \in Slots /\ e = IF up = End THEN End ELSE find_entry(d, up.cluster, Last(path))
    BY <1>2, EntryAtStep
  <2> HIDE DEF e, up
  <2>2. e # End => IsEntry(e)
    BY <2>1, FindEntry
  <2> QED BY <2>1, <2>2 DEF e
<1> QED BY <1>1, <1>2

-----------------------------------------------------------------------------
(***************************************************************************)
(* Writes.  An operation started without a limit never runs out of writes. *)
(***************************************************************************)
LEMMA DiskFields ==
  ASSUME NEW d \in Disk
  PROVE  /\ d.fat \in [Clusters -> FatValues] /\ d.data \in [Clusters -> Blocks]
         /\ d = [fat |-> d.fat, data |-> d.data]
         /\ \A c \in Clusters : d.fat[c] \in FatValues /\ d.data[c] \in Blocks
         /\ \A c \in Clusters : \A j \in Places : d.data[c][j] \in Slots
BY DEF Disk, FatValues, Blocks, Places

LEMMA IsDisk ==
  ASSUME NEW f \in [Clusters -> FatValues], NEW b \in [Clusters -> Blocks]
  PROVE  [fat |-> f, data |-> b] \in Disk
BY DEF Disk, FatValues, Blocks, Places

LEMMA SetFatType ==
  ASSUME NEW d \in Disk, NEW c \in Clusters, NEW v \in FatValues
  PROVE  /\ SetFat(d, c, v) \in Disk /\ SetFat(d, c, v).data = d.data
         /\ SetFat(d, c, v).fat = [d.fat EXCEPT ![c] = v]
<1> DEFINE f == [d.fat EXCEPT ![c] = v]
<1>1. f \in [Clusters -> FatValues]
  BY DiskFields
<1> HIDE DEF f
<1>4. SetFat(d, c, v) = [fat |-> f, data |-> d.data]
  BY DEF SetFat, f
<1>5. [fat |-> f, data |-> d.data] \in Disk
  BY <1>1, DiskFields, IsDisk
<1> QED BY <1>4, <1>5 DEF f

LEMMA SetDataType ==
  ASSUME NEW d \in Disk, NEW c \in Clusters, NEW v \in Blocks
  PROVE  /\ SetData(d, c, v) \in Disk /\ SetData(d, c, v).fat = d.fat
         /\ SetData(d, c, v).data = [d.data EXCEPT ![c] = v]
<1> DEFINE f == [d.data EXCEPT ![c] = v]
<1>1. f \in [Clusters -> Blocks]
  BY DiskFields
<1> HIDE DEF f
<1>4. SetData(d, c, v) = [fat |-> d.fat, data |-> f]
  BY DEF SetData, f
<1>5. [fat |-> d.fat, data |-> f] \in Disk
  BY <1>1, DiskFields, IsDisk
<1> QED BY <1>4, <1>5 DEF f

LEMMA SetFatAt ==
  ASSUME NEW d \in Disk, NEW c \in Clusters, NEW v \in FatValues
  PROVE  /\ SetFat(d, c, v).data = d.data
         /\ \A e \in Clusters : SetFat(d, c, v).fat[e] = IF e = c THEN v ELSE d.fat[e]
<1>1. SetFat(d, c, v).data = d.data /\ SetFat(d, c, v).fat = [d.fat EXCEPT ![c] = v]
  BY SetFatType
<1>2. \A e \in Clusters : [d.fat EXCEPT ![c] = v][e] = IF e = c THEN v ELSE d.fat[e]
  BY DiskFields
<1> QED BY <1>1, <1>2

LEMMA SetDataAt ==
  ASSUME NEW d \in Disk, NEW c \in Clusters, NEW v \in Blocks
  PROVE  /\ SetData(d, c, v).fat = d.fat
         /\ \A e \in Clusters : SetData(d, c, v).data[e] = IF e = c THEN v ELSE d.data[e]
<1>1. SetData(d, c, v).fat = d.fat /\ SetData(d, c, v).data = [d.data EXCEPT ![c] = v]
  BY SetDataType
<1>2. \A e \in Clusters : [d.data EXCEPT ![c] = v][e] = IF e = c THEN v ELSE d.data[e]
  BY DiskFields
<1> QED BY <1>1, <1>2

LEMMA RunningFields ==
  ASSUME NEW limit, NEW r \in Running(limit)
  PROVE  /\ r.disk \in Disk /\ r.left \in Int /\ r.ok \in BOOLEAN
         /\ r.cluster \in Clusters \cup {0} /\ (limit < 0 => r.left < 0)
         /\ r = [disk |-> r.disk, left |-> r.left, ok |-> r.ok, cluster |-> r.cluster]
BY DEF Running

LEMMA IsRunning ==
  ASSUME NEW limit, NEW d \in Disk, NEW n \in Int, NEW b \in BOOLEAN,
         NEW c \in Clusters \cup {0}, limit < 0 => n < 0
  PROVE  [disk |-> d, left |-> n, ok |-> b, cluster |-> c] \in Running(limit)
BY DEF Running

LEMMA FailType ==
  ASSUME NEW limit, NEW r \in Running(limit)
  PROVE  /\ Fail(r) \in Running(limit) /\ ~Fail(r).ok
         /\ Fail(r).disk = r.disk /\ Fail(r).cluster = r.cluster
<1>1. Fail(r) = [disk |-> r.disk, left |-> r.left, ok |-> FALSE, cluster |-> r.cluster]
  <2> DEFINE no == FALSE
  <2>1. Fail(r) = [r EXCEPT !.ok = no]
    BY DEF Fail
  <2>2. no \in BOOLEAN
    OBVIOUS
  <2> HIDE DEF no
  <2>3. [r EXCEPT !.ok = no] = [disk |-> r.disk, left |-> r.left, ok |-> no, cluster |-> r.cluster]
    BY <2>2 DEF Running
  <2> QED BY <2>1, <2>3 DEF no
<1>2. [disk |-> r.disk, left |-> r.left, ok |-> FALSE, cluster |-> r.cluster] \in Running(limit)
  BY RunningFields, IsRunning
<1> QED BY <1>1, <1>2

LEMMA WriteType ==
  ASSUME NEW limit, NEW r \in Running(limit), NEW d, r.ok => d \in Disk
  PROVE  /\ Write(r, d) \in Running(limit) /\ Write(r, d).cluster = r.cluster
         /\ Writes(r, Write(r, d), d)
<1>1. CASE ~r.ok
  BY <1>1 DEF Write, Writes
<1>2. CASE r.ok /\ r.left = 0
  BY <1>2, FailType DEF Write, Writes
<1>3. CASE r.ok /\ r.left = 1
  <2> DEFINE zero == 0
             q == [disk |-> d, left |-> zero, ok |-> r.ok, cluster |-> r.cluster]
  <2>0. Write(r, d) = Fail([r EXCEPT !.disk = d, !.left = zero])
    BY <1>3 DEF Write
  <2>5. zero \in Int
    OBVIOUS
  <2> HIDE DEF zero
  <2>1. [r EXCEPT !.disk = d, !.left = zero] = q
    <3> DEFINE p == [r EXCEPT !.disk = d]
    <3>1. /\ p \in [disk: Disk, left: Int, ok: BOOLEAN, cluster: Clusters \cup {0}]
          /\ p.disk = d /\ p.ok = r.ok /\ p.cluster = r.cluster
      BY <1>3 DEF Running
    <3>2. [r EXCEPT !.disk = d, !.left = zero] = [p EXCEPT !.left = zero]
      OBVIOUS
    <3> HIDE DEF p
    <3> QED BY <2>5, <3>1, <3>2
  <2>2. Write(r, d) = Fail(q)
    BY <2>0, <2>1
  <2>3. q \in Running(limit)
    <3>1. ~(limit < 0)
      BY <1>3, RunningFields
    <3>2. r.cluster \in Clusters \cup {0} /\ r.ok \in BOOLEAN /\ d \in Disk
      BY <1>3, RunningFields
    <3> QED BY <2>5, <3>1, <3>2, IsRunning
  <2>4. q.disk = d /\ q.cluster = r.cluster
    OBVIOUS
  <2> HIDE DEF q
  <2> QED BY <1>3, <2>2, <2>3, <2>4, FailType DEF Writes
<1>4. CASE r.ok /\ r.left \notin {0, 1}
  <2>1. Write(r, d) = [disk |-> d, left |-> r.left - 2, ok |-> r.ok, cluster |-> r.cluster]
    BY <1>4 DEF Write, Running
  <2>2. [disk |-> d, left |-> r.left - 2, ok |-> r.ok, cluster |-> r.cluster] \in Running(limit)
    <3>1. r.left - 2 \in Int /\ (limit < 0 => r.left - 2 < 0)
      BY RunningFields
    <3> QED BY <1>4, <3>1, RunningFields, IsRunning
  <2> QED BY <1>4, <2>1, <2>2 DEF Writes
<1> QED BY <1>1, <1>2, <1>3, <1>4, RunningFields

LEMMA WriteFat ==
  ASSUME NEW limit, NEW r \in Running(limit), NEW c, NEW v,
         r.ok => c \in Clusters /\ v \in FatValues
  PROVE  /\ write_fat_entry(r, c, v) \in Running(limit)
         /\ write_fat_entry(r, c, v).cluster = r.cluster
         /\ Writes(r, write_fat_entry(r, c, v), SetFat(r.disk, c, v))
<1> DEFINE d == [r.disk EXCEPT !.fat[c] = v]
<1>1. ASSUME r.ok PROVE d \in Disk /\ d = SetFat(r.disk, c, v)
  <2> DEFINE e == r.disk
  <2>1. e \in Disk
    BY RunningFields
  <2> HIDE DEF e
  <2>2. [e EXCEPT !.fat[c] = v] = SetFat(e, c, v) /\ SetFat(e, c, v) \in Disk
    <3> DEFINE f == [e.fat EXCEPT ![c] = v]
    <3>1. c \in Clusters /\ v \in FatValues
      BY <1>1
    <3>2. [e EXCEPT !.fat[c] = v] = [e EXCEPT !.fat = f]
      OBVIOUS
    <3>3. SetFat(e, c, v) = [fat |-> f, data |-> e.data]
      BY DEF SetFat
    <3> HIDE DEF f
    <3>4. [e EXCEPT !.fat = f] = [fat |-> f, data |-> e.data]
      BY <2>1, DiskFields
    <3> QED BY <2>1, <3>1, <3>2, <3>3, <3>4, SetFatType
  <2> QED BY <2>2 DEF e
<1>2. write_fat_entry(r, c, v) = Write(r, d)
  BY DEF write_fat_entry
<1> HIDE DEF d
<1> QED BY <1>1, <1>2, WriteType DEF Writes

LEMMA WriteData ==
  ASSUME NEW limit, NEW r \in Running(limit), NEW c, NEW b,
         r.ok => c \in Clusters /\ b \in Blocks
  PROVE  /\ write_cluster(r, c, b) \in Running(limit)
         /\ write_cluster(r, c, b).cluster = r.cluster
         /\ Writes(r, write_cluster(r, c, b), SetData(r.disk, c, b))
<1> DEFINE d == [r.disk EXCEPT !.data[c] = b]
<1>1. ASSUME r.ok PROVE d \in Disk /\ d = SetData(r.disk, c, b)
  <2> DEFINE e == r.disk
  <2>1. e \in Disk
    BY RunningFields
  <2> HIDE DEF e
  <2>2. [e EXCEPT !.data[c] = b] = SetData(e, c, b) /\ SetData(e, c, b) \in Disk
    <3> DEFINE f == [e.data EXCEPT ![c] = b]
    <3>1. c \in Clusters /\ b \in Blocks
      BY <1>1
    <3>2. [e EXCEPT !.data[c] = b] = [e EXCEPT !.data = f]
      OBVIOUS
    <3>3. SetData(e, c, b) = [fat |-> e.fat, data |-> f]
      BY DEF SetData
    <3> HIDE DEF f
    <3>4. [e EXCEPT !.data = f] = [fat |-> e.fat, data |-> f]
      BY <2>1, DiskFields
    <3> QED BY <2>1, <3>1, <3>2, <3>3, <3>4, SetDataType
  <2> QED BY <2>2 DEF e
<1>2. write_cluster(r, c, b) = Write(r, d)
  BY DEF write_cluster
<1> HIDE DEF d
<1> QED BY <1>1, <1>2, WriteType DEF Writes

LEMMA StartedType ==
  ASSUME NEW d \in Disk, NEW limit \in Int
  PROVE  /\ Started(d, limit) \in Running(limit) /\ Started(d, limit).disk = d
         /\ Started(d, limit).ok
BY IsRunning DEF Started

(* The cluster alloc_cluster hands out was free and is free still. *)
LEMMA AllocCluster ==
  ASSUME NEW limit, NEW r \in Running(limit)
  PROVE  /\ alloc_cluster(r) \in Running(limit)
         /\ Writes(r, alloc_cluster(r), SetData(r.disk, alloc_cluster(r).cluster, ZeroBlock))
         /\ alloc_cluster(r).ok \/ alloc_cluster(r).disk # r.disk =>
              /\ alloc_cluster(r).cluster \in FreeClusters(r.disk)
              /\ alloc_cluster(r).cluster = Min(FreeClusters(r.disk))
         /\ ~r.ok => alloc_cluster(r) = r
<1>1. CASE ~r.ok
  BY <1>1 DEF alloc_cluster, Writes
<1>2. CASE r.ok /\ FreeClusters(r.disk) = {}
  BY <1>2, FailType DEF alloc_cluster, Writes
<1>3. CASE r.ok /\ FreeClusters(r.disk) # {}
  <2> DEFINE F == FreeClusters(r.disk)
             c == Min(F)
             q == [r EXCEPT !.cluster = c]
  <2>1. F \subseteq Clusters /\ F \subseteq Nat
    BY ClusterFacts DEF FreeClusters
  <2>2. c \in F
    <3> HIDE DEF F
    <3> QED BY <1>3, <2>1, Least DEF F
  <2>3. alloc_cluster(r) = write_cluster(q, c, ZeroBlock)
    BY <1>3 DEF alloc_cluster
  <2> HIDE DEF c, F
  <2>4. q = [disk |-> r.disk, left |-> r.left, ok |-> r.ok, cluster |-> c]
    BY RunningFields
  <2>5. c \in Clusters
    BY <2>1, <2>2
  <2>6. q \in Running(limit) /\ q.disk = r.disk /\ q.ok = r.ok /\ q.cluster = c
    BY <2>4, <2>5, RunningFields, IsRunning
  <2> HIDE DEF q
  <2>7. ZeroBlock \in Blocks
    BY SpecialSlots DEF Blocks
  <2> QED BY <1>3, <2>2, <2>3, <2>5, <2>6, <2>7, WriteData DEF Writes, c, F
<1> QED BY <1>1, <1>2, <1>3, RunningFields

(* A function each of whose steps stays in D stays in D. *)
LEMMA LoopType ==
  ASSUME NEW N \in Nat, NEW D, NEW run, run = [n \in 0 .. N |-> run[n]],
         run[0] \in D, \A n \in 1 .. N : run[n - 1] \in D => run[n] \in D
  PROVE  run \in [0 .. N -> D]
<1> DEFINE S == {n \in 0 .. N : run[n] \in D}
<1>1. 0 \in S
  OBVIOUS
<1>2. \A n \in 1 .. N : n - 1 \in S => n \in S
  OBVIOUS
<1>3. \A n \in 0 .. N : n \in S
  <2> HIDE DEF S
  <2> QED BY <1>1, <1>2, UpTo, Zenon
<1> QED BY <1>3

LEMMA FreeChainRun ==
  ASSUME NEW limit, NEW r \in Running(limit), NEW s
  PROVE  \E f : FreeRun(limit, r, s, f)
<1> DEFINE c == read_chain(r.disk, s)
           N == Len(c)
           D == Running(limit)
           Cont(n, x) == write_fat_entry(x, c[n], FREE)
           Eq(w) == w = [n \in 0 .. N |-> IF n = 0 THEN r ELSE Cont(n, w[n - 1])]
           run == CHOOSE w : Eq(w)
           step == [p \in (1 .. N) \X D |-> Cont(p[1], p[2])]
<1>1. N \in Nat
  BY ChainType
<1>2. \A n \in 1 .. N : \A x \in D : Cont(n, x) \in D
  BY ChainType, WriteFat DEF FatValues
<1>3. free_chain(r, s) = run[N]
  BY Zenon DEF free_chain
<1> HIDE DEF Cont, N, D
<1>4. step \in [(1 .. N) \X D -> D]
  BY <1>2
<1>5. r \in D
  BY DEF D
<1>6. PICK g : Iterates(g, N, D, r, step)
  <2> HIDE DEF step
  <2> QED BY <1>1, <1>4, <1>5, Iteration, Zenon
<1>7. ASSUME NEW n \in 1 .. N PROVE g[n] = Cont(n, g[n - 1])
  <2>1. n - 1 \in 0 .. N /\ g[n - 1] \in D
    BY <1>1, <1>6 DEF Iterates
  <2>2. <<n, g[n - 1]>> \in (1 .. N) \X D
    BY <2>1
  <2> QED BY <1>6, <2>2 DEF Iterates
<1> HIDE DEF step
<1>8. g = [n \in 0 .. N |-> IF n = 0 THEN r ELSE Cont(n, g[n - 1])]
  <2>1. \A n \in 0 .. N : g[n] = IF n = 0 THEN r ELSE Cont(n, g[n - 1])
    BY <1>1, <1>6, <1>7 DEF Iterates
  <2> QED BY <1>6, <2>1 DEF Iterates
<1>9. Eq(run)
  <2>1. Eq(g)
    BY <1>8
  <2> HIDE DEF Eq
  <2> QED BY <2>1
<1> HIDE DEF run
<1>10. run[0] = r /\ \A n \in 1 .. N : run[n] = Cont(n, run[n - 1])
  BY <1>1, <1>9
<1>11. run \in [0 .. N -> D]
  <2>1. run = [n \in 0 .. N |-> run[n]]
    BY <1>9
  <2>2. \A n \in 1 .. N : run[n - 1] \in D => run[n] \in D
    BY <1>2, <1>10
  <2> QED BY <1>1, <1>5, <1>10, <2>1, <2>2, LoopType
<1> QED BY <1>3, <1>10, <1>11 DEF FreeRun, N, D, Cont, c

LEMMA AllocateRun ==
  ASSUME NEW limit, NEW r \in Running(limit), NEW count \in Nat
  PROVE  \E f : AllocRun(limit, r, count, f)
<1> DEFINE N == count
           D == Running(limit)
           Cont(n, x) == alloc_cluster(x)
           Eq(w) == w = [n \in 0 .. N |-> IF n = 0 THEN r ELSE Cont(n, w[n - 1])]
           run == CHOOSE w : Eq(w)
           step == [p \in (1 .. N) \X D |-> Cont(p[1], p[2])]
<1>1. N \in Nat
  OBVIOUS
<1>2. \A n \in 1 .. N : \A x \in D : Cont(n, x) \in D
  BY AllocCluster
<1>3. AllocateTimes(r, count) = run[N]
  BY Zenon DEF AllocateTimes
<1> HIDE DEF Cont, N, D
<1>4. step \in [(1 .. N) \X D -> D]
  BY <1>2
<1>5. r \in D
  BY DEF D
<1>6. PICK g : Iterates(g, N, D, r, step)
  <2> HIDE DEF step
  <2> QED BY <1>1, <1>4, <1>5, Iteration, Zenon
<1>7. ASSUME NEW n \in 1 .. N PROVE g[n] = Cont(n, g[n - 1])
  <2>1. n - 1 \in 0 .. N /\ g[n - 1] \in D
    BY <1>1, <1>6 DEF Iterates
  <2>2. <<n, g[n - 1]>> \in (1 .. N) \X D
    BY <2>1
  <2> QED BY <1>6, <2>2 DEF Iterates
<1> HIDE DEF step
<1>8. g = [n \in 0 .. N |-> IF n = 0 THEN r ELSE Cont(n, g[n - 1])]
  <2>1. \A n \in 0 .. N : g[n] = IF n = 0 THEN r ELSE Cont(n, g[n - 1])
    BY <1>1, <1>6, <1>7 DEF Iterates
  <2> QED BY <1>6, <2>1 DEF Iterates
<1>9. Eq(run)
  <2>1. Eq(g)
    BY <1>8
  <2> HIDE DEF Eq
  <2> QED BY <2>1
<1> HIDE DEF run
<1>10. run[0] = r /\ \A n \in 1 .. N : run[n] = Cont(n, run[n - 1])
  BY <1>1, <1>9
<1>11. run \in [0 .. N -> D]
  <2>1. run = [n \in 0 .. N |-> run[n]]
    BY <1>9
  <2>2. \A n \in 1 .. N : run[n - 1] \in D => run[n] \in D
    BY <1>2, <1>10
  <2> QED BY <1>1, <1>5, <1>10, <2>1, <2>2, LoopType
<1> QED BY <1>3, <1>10, <1>11 DEF AllocRun, N, D, Cont

LEMMA WriteBlocksRun ==
  ASSUME NEW limit, NEW r \in Running(limit), NEW cs \in Seq(Clusters), NEW data,
         \A n \in 1 .. Len(cs) : BlockOf(data, n) \in Blocks
  PROVE  \E f : BlocksRun(limit, r, cs, data, f)
<1> DEFINE N == Len(cs)
           D == Running(limit)
           Cont(n, x) == write_cluster(x, cs[n], BlockOf(data, n))
           Eq(w) == w = [n \in 0 .. N |-> IF n = 0 THEN r ELSE Cont(n, w[n - 1])]
           run == CHOOSE w : Eq(w)
           step == [p \in (1 .. N) \X D |-> Cont(p[1], p[2])]
<1>1. N \in Nat
  OBVIOUS
<1>2. \A n \in 1 .. N : \A x \in D : Cont(n, x) \in D
  BY WriteData
<1>3. WriteBlocks(r, cs, data) = run[N]
  BY Zenon DEF WriteBlocks
<1> HIDE DEF Cont, N, D
<1>4. step \in [(1 .. N) \X D -> D]
  BY <1>2
<1>5. r \in D
  BY DEF D
<1>6. PICK g : Iterates(g, N, D, r, step)
  <2> HIDE DEF step
  <2> QED BY <1>1, <1>4, <1>5, Iteration, Zenon
<1>7. ASSUME NEW n \in 1 .. N PROVE g[n] = Cont(n, g[n - 1])
  <2>1. n - 1 \in 0 .. N /\ g[n - 1] \in D
    BY <1>1, <1>6 DEF Iterates
  <2>2. <<n, g[n - 1]>> \in (1 .. N) \X D
    BY <2>1
  <2> QED BY <1>6, <2>2 DEF Iterates
<1> HIDE DEF step
<1>8. g = [n \in 0 .. N |-> IF n = 0 THEN r ELSE Cont(n, g[n - 1])]
  <2>1. \A n \in 0 .. N : g[n] = IF n = 0 THEN r ELSE Cont(n, g[n - 1])
    BY <1>1, <1>6, <1>7 DEF Iterates
  <2> QED BY <1>6, <2>1 DEF Iterates
<1>9. Eq(run)
  <2>1. Eq(g)
    BY <1>8
  <2> HIDE DEF Eq
  <2> QED BY <2>1
<1> HIDE DEF run
<1>10. run[0] = r /\ \A n \in 1 .. N : run[n] = Cont(n, run[n - 1])
  BY <1>1, <1>9
<1>11. run \in [0 .. N -> D]
  <2>1. run = [n \in 0 .. N |-> run[n]]
    BY <1>9
  <2>2. \A n \in 1 .. N : run[n - 1] \in D => run[n] \in D
    BY <1>2, <1>10
  <2> QED BY <1>1, <1>5, <1>10, <2>1, <2>2, LoopType
<1> QED BY <1>3, <1>10, <1>11 DEF BlocksRun, N, D, Cont

LEMMA WriteLinksRun ==
  ASSUME NEW limit, NEW r \in Running(limit), NEW cs \in Seq(Clusters)
  PROVE  \E f : LinksRun(limit, r, cs, f)
<1> DEFINE N == Len(cs)
           D == Running(limit)
           Cont(n, x) == write_fat_entry(x, cs[n], IF n < Len(cs) THEN cs[n + 1] ELSE EOC)
           Eq(w) == w = [n \in 0 .. N |-> IF n = 0 THEN r ELSE Cont(n, w[n - 1])]
           run == CHOOSE w : Eq(w)
           step == [p \in (1 .. N) \X D |-> Cont(p[1], p[2])]
<1>1. N \in Nat
  OBVIOUS
<1>2. \A n \in 1 .. N : \A x \in D : Cont(n, x) \in D
  BY WriteFat DEF FatValues
<1>3. WriteLinks(r, cs) = run[N]
  BY Zenon DEF WriteLinks
<1> HIDE DEF Cont, N, D
<1>4. step \in [(1 .. N) \X D -> D]
  BY <1>2
<1>5. r \in D
  BY DEF D
<1>6. PICK g : Iterates(g, N, D, r, step)
  <2> HIDE DEF step
  <2> QED BY <1>1, <1>4, <1>5, Iteration, Zenon
<1>7. ASSUME NEW n \in 1 .. N PROVE g[n] = Cont(n, g[n - 1])
  <2>1. n - 1 \in 0 .. N /\ g[n - 1] \in D
    BY <1>1, <1>6 DEF Iterates
  <2>2. <<n, g[n - 1]>> \in (1 .. N) \X D
    BY <2>1
  <2> QED BY <1>6, <2>2 DEF Iterates
<1> HIDE DEF step
<1>8. g = [n \in 0 .. N |-> IF n = 0 THEN r ELSE Cont(n, g[n - 1])]
  <2>1. \A n \in 0 .. N : g[n] = IF n = 0 THEN r ELSE Cont(n, g[n - 1])
    BY <1>1, <1>6, <1>7 DEF Iterates
  <2> QED BY <1>6, <2>1 DEF Iterates
<1>9. Eq(run)
  <2>1. Eq(g)
    BY <1>8
  <2> HIDE DEF Eq
  <2> QED BY <2>1
<1> HIDE DEF run
<1>10. run[0] = r /\ \A n \in 1 .. N : run[n] = Cont(n, run[n - 1])
  BY <1>1, <1>9
<1>11. run \in [0 .. N -> D]
  <2>1. run = [n \in 0 .. N |-> run[n]]
    BY <1>9
  <2>2. \A n \in 1 .. N : run[n - 1] \in D => run[n] \in D
    BY <1>2, <1>10
  <2> QED BY <1>1, <1>5, <1>10, <2>1, <2>2, LoopType
<1> QED BY <1>3, <1>10, <1>11 DEF LinksRun, N, D, Cont, NextOf

LEMMA FreedMore ==
  ASSUME NEW d \in Disk, NEW C, NEW c \in Clusters
  PROVE  SetFat(Freed(d, C), c, FREE) = Freed(d, C \cup {c})
<1> DEFINE f == [e \in Clusters |-> IF e \in C THEN FREE ELSE d.fat[e]]
           g == [e \in Clusters |-> IF e \in C \cup {c} THEN FREE ELSE d.fat[e]]
<1>1. [f EXCEPT ![c] = FREE] = g
  OBVIOUS
<1>2. /\ Freed(d, C) = [fat |-> f, data |-> d.data]
      /\ Freed(d, C \cup {c}) = [fat |-> g, data |-> d.data]
  BY DEF Freed
<1> HIDE DEF f, g
<1> QED BY <1>1, <1>2 DEF SetFat

LEMMA FreedNone ==
  ASSUME NEW d \in Disk, NEW c
  PROVE  Freed(d, Upto(c, 0)) = d
<1>1. Upto(c, 0) = {}
  BY DEF Upto
<1>2. [e \in Clusters |-> IF e \in {} THEN FREE ELSE d.fat[e]] = d.fat
  BY DiskFields
<1> QED BY <1>1, <1>2, DiskFields DEF Freed

LEMMA FreeChain ==
  ASSUME NEW limit, NEW r \in Running(limit), NEW s
  PROVE  LET c == read_chain(r.disk, s)
         IN  /\ free_chain(r, s) \in Running(limit)
             /\ \E n \in 0 .. Len(c) :
                  /\ free_chain(r, s).disk = Freed(r.disk, Upto(c, n))
                  /\ free_chain(r, s).ok => r.ok /\ n = Len(c)
<1> DEFINE d == r.disk
           c == read_chain(d, s)
           N == Len(c)
<1>1. d \in Disk /\ N \in Nat /\ \A n \in 1 .. N : c[n] \in Clusters
  BY RunningFields, ChainType
<1>2. PICK f : FreeRun(limit, r, s, f)
  BY FreeChainRun
<1>0. /\ f \in [0 .. N -> Running(limit)] /\ f[0] = r /\ free_chain(r, s) = f[N]
      /\ \A n \in 1 .. N : f[n] = write_fat_entry(f[n - 1], c[n], FREE)
  BY <1>2 DEF FreeRun
<1> HIDE DEF d, c, N
<1> DEFINE Good(q, n) == \E k \in 0 .. n : /\ q.disk = Freed(d, Upto(c, k))
                                           /\ q.ok => r.ok /\ k = n
           S == {n \in 0 .. N : Good(f[n], n)}
<1>3. 0 \in S
  <2>3. f[0].disk = Freed(d, Upto(c, 0)) /\ (f[0].ok => r.ok)
    BY <1>0, <1>1, FreedNone DEF d
  <2> QED BY <1>1, <2>3
<1>4. ASSUME NEW n \in 1 .. N, n - 1 \in S PROVE n \in S
  <2> DEFINE p == f[n - 1]
             q == f[n]
  <2>1. p \in Running(limit) /\ c[n] \in Clusters /\ q = write_fat_entry(p, c[n], FREE)
        /\ n \in 0 .. N /\ n - 1 \in 0 .. N
    BY <1>1, <1>0
  <2>2. PICK k \in 0 .. n - 1 : p.disk = Freed(d, Upto(c, k)) /\ (p.ok => r.ok /\ k = n - 1)
    <3>1. Good(p, n - 1)
      <4> HIDE DEF Good
      <4> QED BY <1>4
    <3> HIDE DEF p
    <3> QED BY <3>1
  <2>3. Writes(p, q, SetFat(p.disk, c[n], FREE))
    BY <2>1, WriteFat DEF FatValues
  <2> HIDE DEF p, q
  <2>4. CASE ~q.ok /\ q.disk = p.disk
    <3>1. q.disk = Freed(d, Upto(c, k)) /\ k \in 0 .. n
      BY <1>1, <2>2, <2>4
    <3> QED BY <2>1, <2>4, <3>1 DEF q
  <2>5. CASE q.ok \/ q.disk # p.disk
    <3>1. p.ok /\ q.disk = SetFat(p.disk, c[n], FREE) /\ k = n - 1
      BY <2>2, <2>3, <2>5 DEF Writes
    <3>2. Upto(c, n) = Upto(c, n - 1) \cup {c[n]}
      <4>1. 1 .. n = (1 .. n - 1) \cup {n}
        BY <1>1
      <4> QED BY <4>1 DEF Upto
    <3>3. q.disk = Freed(d, Upto(c, n))
      BY <1>1, <2>1, <2>2, <3>1, <3>2, FreedMore
    <3>4. n \in 0 .. n
      BY <1>1
    <3> QED BY <2>1, <2>2, <3>1, <3>3, <3>4 DEF q
  <2> QED BY <2>4, <2>5
<1>5. N \in S
  <2> HIDE DEF S
  <2> QED BY <1>1, <1>3, <1>4, UpTo, Zenon
<1>6. Good(f[N], N) /\ f[N] \in Running(limit)
  <2> HIDE DEF Good
  <2> QED BY <1>0, <1>1, <1>5
<1>7. Good(free_chain(r, s), N) /\ free_chain(r, s) \in Running(limit)
  BY <1>0, <1>6
<1> QED BY <1>7 DEF c, d, N

(* All the clusters a file needs are the same one: none is marked. *)
LEMMA Allocate ==
  ASSUME NEW limit, NEW r \in Running(limit), NEW count \in Nat
  PROVE  LET s == AllocateTimes(r, count)
             y == Min(FreeClusters(r.disk))
         IN  /\ s \in Running(limit) /\ s.disk.fat = r.disk.fat
             /\ \A c \in Clusters :
                  \/ s.disk.data[c] = r.disk.data[c]
                  \/ c = y /\ y \in FreeClusters(r.disk) /\ s.disk.data[c] = ZeroBlock
             /\ s.ok => r.ok
             /\ s.ok /\ count # 0 => /\ y \in FreeClusters(r.disk) /\ s.cluster = y
                                     /\ s.disk.data[y] = ZeroBlock
             /\ count = 0 => s = r
<1> DEFINE d == r.disk
           y == Min(FreeClusters(d))
           F == FreeClusters(d)
<1>1. d \in Disk
  BY RunningFields
<1>2. PICK f : AllocRun(limit, r, count, f)
  BY AllocateRun
<1>0. /\ f \in [0 .. count -> Running(limit)] /\ f[0] = r
      /\ AllocateTimes(r, count) = f[count]
      /\ \A n \in 1 .. count : f[n] = alloc_cluster(f[n - 1])
  BY <1>2 DEF AllocRun
<1> DEFINE Good(s, n) ==
             /\ s.disk.fat = d.fat
             /\ \A c \in Clusters : \/ s.disk.data[c] = d.data[c]
                                    \/ c = y /\ y \in F /\ s.disk.data[c] = ZeroBlock
             /\ s.ok => r.ok
             /\ s.ok /\ n # 0 => y \in F /\ s.cluster = y /\ s.disk.data[y] = ZeroBlock
           S == {n \in 0 .. count : Good(f[n], n)}
<1> HIDE DEF d, y
<1>3. 0 \in S
  BY <1>0 DEF d
<1>4. ASSUME NEW n \in 1 .. count, n - 1 \in S PROVE n \in S
  <2> DEFINE p == f[n - 1]
             q == f[n]
  <2>1. p \in Running(limit) /\ q = alloc_cluster(p) /\ n \in 0 .. count /\ n - 1 \in 0 .. count
    BY <1>0
  <2>2. Good(p, n - 1)
    BY <1>4
  <2> HIDE DEF p, q
  <2>3. /\ Writes(p, q, SetData(p.disk, q.cluster, ZeroBlock))
        /\ q.ok \/ q.disk # p.disk =>
             q.cluster \in FreeClusters(p.disk) /\ q.cluster = Min(FreeClusters(p.disk))
        /\ p.disk \in Disk
    BY <2>1, AllocCluster, RunningFields
  <2>4. FreeClusters(p.disk) = F
    BY <2>2 DEF FreeClusters
  <2>5. CASE ~q.ok /\ q.disk = p.disk
    <3>1. q.disk = p.disk
      BY <2>3, <2>5 DEF Writes
    <3>2. Good(q, n)
      BY <2>2, <2>5, <3>1
    <3> HIDE DEF Good
    <3> QED BY <2>1, <3>2 DEF q
  <2>6. CASE q.ok \/ q.disk # p.disk
    <3>1. p.ok /\ q.cluster = y /\ y \in F /\ q.disk = SetData(p.disk, y, ZeroBlock)
      BY <2>3, <2>4, <2>6 DEF Writes, y
    <3>2. y \in Clusters /\ ZeroBlock \in Blocks
      BY <3>1, SpecialSlots DEF FreeClusters, Blocks
    <3>3. q.disk.fat = p.disk.fat /\ q.disk.data = [p.disk.data EXCEPT ![y] = ZeroBlock]
      BY <2>3, <3>1, <3>2, SetDataType
    <3>4. \A c \in Clusters : q.disk.data[c] = IF c = y THEN ZeroBlock ELSE p.disk.data[c]
      BY <2>3, <3>2, <3>3, DiskFields
    <3>5. Good(q, n)
      BY <2>2, <3>1, <3>2, <3>3, <3>4
    <3> HIDE DEF Good
    <3> QED BY <2>1, <3>5 DEF q
  <2> QED BY <2>5, <2>6
<1>5. count \in S
  <2> HIDE DEF S
  <2> QED BY <1>3, <1>4, UpTo, Zenon
<1>6. Good(f[count], count) /\ f[count] \in Running(limit)
  BY <1>0, <1>5
<1>7. count = 0 => f[count] = r
  BY <1>0
<1> QED BY <1>0, <1>6, <1>7 DEF d, y

LEMMA BlocksWritten ==
  ASSUME NEW limit, NEW r \in Running(limit), NEW cs \in Seq(Clusters), NEW data,
         \A n \in 1 .. Len(cs) : BlockOf(data, n) \in Blocks
  PROVE  LET s == WriteBlocks(r, cs, data)
         IN  /\ s \in Running(limit) /\ s.disk.fat = r.disk.fat /\ (s.ok => r.ok)
             /\ s.cluster = r.cluster
             /\ \A c \in Clusters :
                  \/ s.disk.data[c] = r.disk.data[c]
                  \/ \E n \in 1 .. Len(cs) : c = cs[n] /\ s.disk.data[c] = BlockOf(data, n)
<1> DEFINE N == Len(cs)
           d == r.disk
<1>1. N \in Nat /\ \A n \in 1 .. N : cs[n] \in Clusters
  OBVIOUS
<1>2. PICK f : BlocksRun(limit, r, cs, data, f)
  BY WriteBlocksRun
<1>3. /\ f \in [0 .. N -> Running(limit)] /\ f[0] = r /\ WriteBlocks(r, cs, data) = f[N]
      /\ \A n \in 1 .. N : f[n] = write_cluster(f[n - 1], cs[n], BlockOf(data, n))
  BY <1>2 DEF BlocksRun
<1> DEFINE Good(s) ==
             /\ s.disk.fat = d.fat /\ (s.ok => r.ok) /\ s.cluster = r.cluster
             /\ \A c \in Clusters :
                  \/ s.disk.data[c] = d.data[c]
                  \/ \E n \in 1 .. N : c = cs[n] /\ s.disk.data[c] = BlockOf(data, n)
           S == {n \in 0 .. N : Good(f[n])}
<1> HIDE DEF N, d
<1>4. 0 \in S
  BY <1>1, <1>3 DEF d
<1>5. ASSUME NEW n \in 1 .. N, n - 1 \in S PROVE n \in S
  <2> DEFINE p == f[n - 1]
             q == f[n]
             b == BlockOf(data, n)
  <2>1. /\ p \in Running(limit) /\ q = write_cluster(p, cs[n], b) /\ n \in 0 .. N
        /\ cs[n] \in Clusters /\ b \in Blocks
    BY <1>1, <1>3 DEF N
  <2>2. Good(p)
    <3> HIDE DEF Good
    <3> QED BY <1>5
  <2> HIDE DEF p, q
  <2>3. Writes(p, q, SetData(p.disk, cs[n], b)) /\ q.cluster = p.cluster /\ p.disk \in Disk
    <3> HIDE DEF b
    <3> QED BY <2>1, WriteData, RunningFields
  <2>4. CASE ~q.ok /\ q.disk = p.disk
    <3>1. q.disk = p.disk
      BY <2>3, <2>4 DEF Writes
    <3>2. Good(q)
      BY <2>2, <2>3, <2>4, <3>1
    <3> HIDE DEF Good
    <3> QED BY <2>1, <3>2 DEF q
  <2>5. CASE q.ok \/ q.disk # p.disk
    <3> HIDE DEF b
    <3>1. p.ok /\ q.disk = SetData(p.disk, cs[n], b)
      BY <2>3, <2>5 DEF Writes
    <3>2. q.disk.fat = p.disk.fat /\ q.disk.data = [p.disk.data EXCEPT ![cs[n]] = b]
      BY <2>1, <2>3, <3>1, SetDataType
    <3>3. \A c \in Clusters : q.disk.data[c] = IF c = cs[n] THEN b ELSE p.disk.data[c]
      BY <2>1, <2>3, <3>2, DiskFields
    <3>4. Good(q)
      BY <2>2, <2>3, <3>1, <3>2, <3>3 DEF b
    <3> HIDE DEF Good
    <3> QED BY <2>1, <3>4 DEF q
  <2> QED BY <2>4, <2>5
<1>6. N \in S
  <2> HIDE DEF S
  <2> QED BY <1>1, <1>4, <1>5, UpTo, Zenon
<1>7. Good(f[N]) /\ f[N] \in Running(limit)
  <2> HIDE DEF Good
  <2> QED BY <1>1, <1>3, <1>6
<1>8. Good(WriteBlocks(r, cs, data)) /\ WriteBlocks(r, cs, data) \in Running(limit)
  BY <1>3, <1>7
<1> QED BY <1>8 DEF N, d

LEMMA LinksWritten ==
  ASSUME NEW limit, NEW r \in Running(limit), NEW cs \in Seq(Clusters)
  PROVE  WriteLinks(r, cs) \in Running(limit) /\ Linked(r, WriteLinks(r, cs), cs)
<1> DEFINE N == Len(cs)
           d == r.disk
<1>1. N \in Nat /\ \A n \in 1 .. N : cs[n] \in Clusters /\ NextOf(cs, n) \in FatValues
  BY DEF NextOf, FatValues
<1>2. PICK f : LinksRun(limit, r, cs, f)
  BY WriteLinksRun
<1>3. /\ f \in [0 .. N -> Running(limit)] /\ f[0] = r /\ WriteLinks(r, cs) = f[N]
      /\ \A n \in 1 .. N : f[n] = write_fat_entry(f[n - 1], cs[n], NextOf(cs, n))
  BY <1>2 DEF LinksRun
<1> DEFINE Good(s, m) ==
             /\ s.disk.data = d.data /\ (s.ok => r.ok) /\ s.cluster = r.cluster
             /\ \A c \in Clusters :
                  \/ s.disk.fat[c] = d.fat[c]
                  \/ \E n \in 1 .. N : c = cs[n] /\ s.disk.fat[c] = NextOf(cs, n)
             /\ s.ok => \A i \in 1 .. m :
                          \E n \in 1 .. N : /\ cs[i] = cs[n] /\ i <= n
                                            /\ s.disk.fat[cs[i]] = NextOf(cs, n)
           S == {n \in 0 .. N : Good(f[n], n)}
<1> HIDE DEF N, d
<1>4. 0 \in S
  BY <1>1, <1>3 DEF d
<1>5. ASSUME NEW n \in 1 .. N, n - 1 \in S PROVE n \in S
  <2> DEFINE p == f[n - 1]
             q == f[n]
             b == NextOf(cs, n)
  <2>1. /\ p \in Running(limit) /\ q = write_fat_entry(p, cs[n], b) /\ n \in 0 .. N
        /\ cs[n] \in Clusters /\ b \in FatValues
    BY <1>1, <1>3
  <2>2. Good(p, n - 1)
    <3> HIDE DEF Good
    <3> QED BY <1>5
  <2> HIDE DEF p, q
  <2>3. Writes(p, q, SetFat(p.disk, cs[n], b)) /\ q.cluster = p.cluster /\ p.disk \in Disk
    <3> HIDE DEF b
    <3> QED BY <2>1, WriteFat, RunningFields
  <2>4. CASE ~q.ok /\ q.disk = p.disk
    <3>1. q.disk = p.disk
      BY <2>3, <2>4 DEF Writes
    <3>2. Good(q, n)
      BY <2>2, <2>3, <2>4, <3>1
    <3> HIDE DEF Good
    <3> QED BY <2>1, <3>2 DEF q
  <2>5. CASE q.ok \/ q.disk # p.disk
    <3> HIDE DEF b
    <3>1. p.ok /\ q.disk = SetFat(p.disk, cs[n], b)
      BY <2>3, <2>5 DEF Writes
    <3>2. q.disk.data = p.disk.data /\ q.disk.fat = [p.disk.fat EXCEPT ![cs[n]] = b]
      BY <2>1, <2>3, <3>1, SetFatType
    <3>3. \A c \in Clusters : q.disk.fat[c] = IF c = cs[n] THEN b ELSE p.disk.fat[c]
      BY <2>1, <2>3, <3>2, DiskFields
    <3>4. ASSUME NEW i \in 1 .. n
          PROVE  \E k \in 1 .. N : /\ cs[i] = cs[k] /\ i <= k
                                   /\ q.disk.fat[cs[i]] = NextOf(cs, k)
      <4>1. i \in 1 .. N /\ cs[i] \in Clusters /\ i <= n
        BY <1>1
      <4>2. CASE cs[i] = cs[n]
        BY <3>3, <4>1, <4>2 DEF b
      <4>3. CASE cs[i] # cs[n]
        <5>1. i \in 1 .. n - 1
          BY <1>1, <4>3
        <5>2. q.disk.fat[cs[i]] = p.disk.fat[cs[i]]
          BY <3>3, <4>1, <4>3
        <5> QED BY <2>2, <3>1, <5>1, <5>2
      <4> QED BY <4>2, <4>3
    <3>5. \A c \in Clusters :
            \/ q.disk.fat[c] = d.fat[c]
            \/ \E k \in 1 .. N : c = cs[k] /\ q.disk.fat[c] = NextOf(cs, k)
      BY <2>2, <3>3 DEF b
    <3>6. Good(q, n)
      BY <2>2, <2>3, <3>1, <3>2, <3>4, <3>5
    <3> HIDE DEF Good
    <3> QED BY <2>1, <3>6 DEF q
  <2> QED BY <2>4, <2>5
<1>6. N \in S
  <2> HIDE DEF S
  <2> QED BY <1>1, <1>4, <1>5, UpTo, Zenon
<1>7. Good(f[N], N) /\ f[N] \in Running(limit)
  <2> HIDE DEF Good
  <2> QED BY <1>1, <1>3, <1>6
<1>8. Good(WriteLinks(r, cs), N) /\ WriteLinks(r, cs) \in Running(limit)
  BY <1>3, <1>7
<1> QED BY <1>8 DEF N, d, Linked

LEMMA BlockType ==
  ASSUME NEW data \in Seq(Slots), NEW n \in Nat \ {0}
  PROVE  /\ BlockOf(data, n) \in Blocks
         /\ (\A k \in 1 .. Len(data) : ~IsEntry(data[k])) => Plain(BlockOf(data, n))
<1>1. ASSUME NEW j \in Places
      PROVE  /\ BlockOf(data, n)[j] \in {End} \cup {data[k] : k \in 1 .. Len(data)}
  <2> DEFINE m == SlotsPerBlock
             k == (n - 1) * m + j
  <2>1. m \in Nat /\ j \in Nat \ {0}
    BY Fat32Assumption DEF Places
  <2>2. (n - 1) * m \in Nat
    BY <2>1
  <2>3. k \in Nat \ {0}
    <3> HIDE DEF m
    <3> QED BY <2>1, <2>2
  <2>4. BlockOf(data, n)[j] = IF k <= Len(data) THEN data[k] ELSE End
    BY DEF BlockOf, Places
  <2> HIDE DEF k
  <2>5. k <= Len(data) => k \in 1 .. Len(data)
    BY <2>3
  <2> QED BY <2>4, <2>5
<1>2. BlockOf(data, n) = [j \in Places |-> BlockOf(data, n)[j]]
  BY DEF BlockOf, Places
<1>3. \A j \in Places : BlockOf(data, n)[j] \in Slots
  BY <1>1, SpecialSlots
<1> QED BY <1>1, <1>2, <1>3, SpecialSlots DEF Blocks, Plain

LEMMA NeededType ==
  ASSUME NEW data, Len(data) \in Nat
  PROVE  Needed(data) \in Nat
<1> DEFINE m == SlotsPerBlock
           a == Len(data) + m - 1
<1>1. m \in Nat \ {0}
  BY Fat32Assumption
<1>2. a \in Nat
  BY <1>1
<1> HIDE DEF a, m
<1>3. a \div m \in Nat
  BY <1>1, <1>2
<1> QED BY <1>3 DEF Needed, a, m

LEMMA MaxOf ==
  ASSUME NEW a \in Int, NEW b \in Int
  PROVE  Max({a, b}) = IF a < b THEN b ELSE a
<1> DEFINE m == IF a < b THEN b ELSE a
<1>1. m \in {a, b} /\ \A y \in {a, b} : m >= y
  OBVIOUS
<1>2. \A x \in {a, b} : (\A y \in {a, b} : x >= y) => x = m
  OBVIOUS
<1> HIDE DEF m
<1> QED BY <1>1, <1>2 DEF Max, m

LEMMA FileDataShape ==
  ASSUME NEW limit, NEW r \in Running(limit), NEW s, NEW data \in Seq(Slots)
  PROVE  \E m \in Nat : \E cs : FileDataRun(r, s, data, m, cs)
<1> DEFINE old == read_chain(r.disk, s)
           m == Max({0, Needed(data) - Len(old)})
           g == AllocateTimes(r, m)
           new == [i \in 1 .. m |-> g.cluster]
           cs == old \o new
<1>1. old \in Seq(Clusters) /\ Len(old) \in Nat
  BY ChainType
<1>2. m \in Nat /\ Needed(data) <= Len(old) + m /\ (m # 0 => Len(old) + m <= Needed(data))
  <2> DEFINE k == Needed(data) - Len(old)
  <2>1. k \in Int /\ Needed(data) \in Nat
    BY <1>1, NeededType
  <2> HIDE DEF k
  <2>2. Max({0, k}) \in Nat /\ Max({0, k}) >= k /\ (Max({0, k}) # 0 => Max({0, k}) = k)
    BY <2>1, MaxOf
  <2> HIDE DEF old
  <2> QED BY <1>1, <2>1, <2>2 DEF k
<1>3. write_file_data(r, s, data) =
        IF ~g.ok THEN g ELSE WriteLinks(WriteBlocks(g, cs, data), cs)
  BY Zenon DEF write_file_data
<1> HIDE DEF m
<1>4. CASE g.ok
  <2>1. m # 0 => g.cluster \in Clusters
    BY <1>2, <1>4, Allocate DEF FreeClusters
  <2> HIDE DEF g, old
  <2>2. new \in Seq(Clusters) /\ Len(new) = m /\ \A i \in 1 .. m : new[i] = g.cluster
    <3>1. CASE m = 0
      BY <3>1
    <3>2. CASE m # 0
      BY <1>2, <2>1, <3>2
    <3> QED BY <3>1, <3>2
  <2> HIDE DEF new
  <2>3. /\ cs \in Seq(Clusters) /\ Len(cs) = Len(old) + m
        /\ \A i \in 1 .. Len(old) : cs[i] = old[i]
    BY <1>1, <1>2, <2>2
  <2>4. ASSUME NEW i \in Len(old) + 1 .. Len(cs) PROVE cs[i] = g.cluster
    <3>1. i - Len(old) \in 1 .. m /\ i \in 1 .. Len(old) + m /\ ~(i <= Len(old))
      BY <1>1, <1>2, <2>3
    <3>2. cs[i] = new[i - Len(old)]
      BY <1>1, <1>2, <2>2, <3>1
    <3> QED BY <2>2, <3>1, <3>2
  <2> HIDE DEF cs
  <2>5. FileDataRun(r, s, data, m, cs)
    BY <1>2, <1>3, <1>4, <2>3, <2>4 DEF FileDataRun, g, old
  <2> QED BY <1>2, <2>5
<1>5. CASE ~g.ok
  <2>1. FileDataRun(r, s, data, m, cs)
    BY <1>2, <1>3, <1>5 DEF FileDataRun
  <2> HIDE DEF cs
  <2> QED BY <1>2, <2>1
<1> QED BY <1>4, <1>5

LEMMA FileDataType ==
  ASSUME NEW limit, NEW r \in Running(limit), NEW s, NEW data \in Seq(Slots)
  PROVE  write_file_data(r, s, data) \in Running(limit)
<1>0. PICK m \in Nat : \E cs : FileDataRun(r, s, data, m, cs)
  BY FileDataShape
<1>1. PICK cs : FileDataRun(r, s, data, m, cs)
  BY <1>0
<1> DEFINE g == AllocateTimes(r, m)
           b == WriteBlocks(g, cs, data)
<1>2. g \in Running(limit)
  BY Allocate
<1>3. CASE ~g.ok
  BY <1>1, <1>2, <1>3 DEF FileDataRun
<1>4. CASE g.ok
  <2>1. cs \in Seq(Clusters) /\ write_file_data(r, s, data) = WriteLinks(b, cs)
    BY <1>1, <1>4 DEF FileDataRun
  <2> HIDE DEF g
  <2>2. b \in Running(limit)
    <3>1. \A n \in 1 .. Len(cs) : BlockOf(data, n) \in Blocks
      BY <2>1, BlockType
    <3> QED BY <1>2, <2>1, <3>1, BlocksWritten
  <2> HIDE DEF b
  <2> QED BY <2>1, <2>2, LinksWritten
<1> QED BY <1>3, <1>4

LEMMA ChainOfOne ==
  ASSUME NEW d, NEW x \in Clusters, d.fat[x] \notin Clusters \/ d.fat[x] = x
  PROVE  read_chain(d, x) = <<x>>
<1> DEFINE one == <<x>>
<1>1. Follows(d, x, one)
  BY FollowsOne
<1>2. Len(one) = 1 /\ one[1] = x
  OBVIOUS
<1>3. Ended(d, one)
  BY <1>2 DEF Ended
<1>4. IsChain(d, x, one) /\ IsChain(d, x, read_chain(d, x))
  BY <1>1, <1>3, ReadChain DEF IsChain
<1> HIDE DEF one
<1>5. read_chain(d, x) = one
  BY <1>4, ChainAgrees
<1> QED BY <1>5 DEF one

LEMMA ClusterSet ==
  ASSUME NEW limit, NEW r \in Running(limit), NEW x \in Clusters
  PROVE  /\ [r EXCEPT !.cluster = x] \in Running(limit)
         /\ [r EXCEPT !.cluster = x].disk = r.disk /\ [r EXCEPT !.cluster = x].ok = r.ok
         /\ [r EXCEPT !.cluster = x].cluster = x
<1>1. [r EXCEPT !.cluster = x] = [disk |-> r.disk, left |-> r.left, ok |-> r.ok, cluster |-> x]
  BY RunningFields
<1>2. [disk |-> r.disk, left |-> r.left, ok |-> r.ok, cluster |-> x] \in Running(limit)
  BY RunningFields, IsRunning
<1> QED BY <1>1, <1>2

LEMMA AllocateAndWrite ==
  ASSUME NEW limit, NEW r \in Running(limit), NEW data \in Seq(Slots),
         \A k \in 1 .. Len(data) : ~IsEntry(data[k])
  PROVE  /\ allocate_and_write(r, data) \in Running(limit)
         /\ allocate_and_write(r, data).ok => r.ok
         /\ ~r.ok => allocate_and_write(r, data).disk = r.disk
         /\ \E P : Allocates(r.disk, allocate_and_write(r, data), P)
<1> DEFINE d == r.disk
           first == alloc_cluster(r)
           x == first.cluster
           marked == write_fat_entry(first, x, EOC)
           done == IF data = <<>> THEN marked ELSE write_file_data(marked, x, data)
           res == allocate_and_write(r, data)
<1>1. res = IF ~marked.ok THEN marked ELSE [done EXCEPT !.cluster = x]
  BY Zenon DEF allocate_and_write
<1>2. /\ d \in Disk /\ first \in Running(limit) /\ Writes(r, first, SetData(d, x, ZeroBlock))
      /\ first.ok \/ first.disk # d => x \in FreeClusters(d)
      /\ first.disk \in Disk
  BY AllocCluster, RunningFields
<1>3. first.ok => x \in Clusters
  BY <1>2 DEF FreeClusters
<1> HIDE DEF first, x
<1>4. /\ marked \in Running(limit) /\ Writes(first, marked, SetFat(first.disk, x, EOC))
      /\ marked.disk \in Disk
  BY <1>2, <1>3, WriteFat, RunningFields DEF FatValues
<1> HIDE DEF marked, res, d
<1>5. CASE ~first.ok /\ first.disk = d
  <2>1. ~marked.ok /\ marked.disk = d
    BY <1>2, <1>4, <1>5 DEF Writes, d
  <2>2. res \in Running(limit) /\ ~res.ok /\ res.disk = d
    BY <1>1, <1>4, <2>1
  <2>3. Allocates(d, res, {})
    BY <2>2 DEF Allocates, Same
  <2> QED BY <2>2, <2>3 DEF res, d
<1>6. CASE first.ok \/ first.disk # d
  <2>1. r.ok /\ first.disk = SetData(d, x, ZeroBlock) /\ x \in Clusters /\ d.fat[x] = FREE
        /\ x \in FreeClusters(d)
    BY <1>2, <1>6 DEF Writes, FreeClusters, d
  <2>2. ZeroBlock \in Blocks /\ Plain(ZeroBlock)
    BY SpecialSlots DEF Blocks, Plain
  <2>3. /\ first.disk.fat = d.fat
        /\ \A c \in Clusters : first.disk.data[c] = IF c = x THEN ZeroBlock ELSE d.data[c]
    BY <1>2, <2>1, <2>2, SetDataAt
  <2>4. CASE ~marked.ok
    <3>1. res = marked /\ res.disk \in {first.disk, SetFat(first.disk, x, EOC)}
      BY <1>1, <1>4, <2>4 DEF Writes
    <3>5. /\ \A c \in Clusters \ {x} : res.disk.fat[c] = d.fat[c]
          /\ res.disk.fat[x] \in {FREE, EOC} /\ res.disk.data = first.disk.data
      <4>1. EOC \in FatValues
        BY DEF FatValues
      <4> QED BY <1>2, <2>1, <2>3, <3>1, <4>1, SetFatAt
    <3>2. Same(d, res.disk, Clusters \ {x})
      BY <2>3, <3>5 DEF Same
    <3>3. Fresh(res.disk, x, x)
      BY <2>1, <2>2, <2>3, <3>5 DEF Fresh, FREE, EOC
    <3>4. Allocates(d, res, {x})
      BY <2>1, <2>4, <3>1, <3>2, <3>3 DEF Allocates
    <3> QED BY <1>4, <2>1, <3>1, <3>4 DEF res, d
  <2>5. CASE marked.ok
    <3> DEFINE e == marked.disk
    <3>1. res = [done EXCEPT !.cluster = x] /\ e = SetFat(first.disk, x, EOC)
      BY <1>1, <1>4, <2>5 DEF Writes
    <3>2. /\ \A c \in Clusters : e.fat[c] = IF c = x THEN EOC ELSE d.fat[c]
          /\ \A c \in Clusters : e.data[c] = IF c = x THEN ZeroBlock ELSE d.data[c]
      <4>1. EOC \in FatValues
        BY DEF FatValues
      <4> QED BY <1>2, <2>1, <2>3, <3>1, <4>1, SetFatAt
    <3>3. ASSUME NEW s \in Running(limit), res = [s EXCEPT !.cluster = x]
          PROVE  res \in Running(limit) /\ res.disk = s.disk /\ res.ok = s.ok /\ res.cluster = x
      BY <2>1, <3>3, ClusterSet
    <3>4. CASE data = <<>>
      <4>1. res \in Running(limit) /\ res.disk = e /\ res.ok /\ res.cluster = x
        BY <1>4, <2>5, <3>1, <3>3, <3>4
      <4> HIDE DEF e
      <4>2. Same(d, res.disk, Clusters \ {x})
        BY <3>2, <4>1 DEF Same
      <4>3. Fresh(res.disk, x, x) /\ res.disk.fat[x] # FREE
        BY <2>1, <2>2, <3>2, <4>1 DEF Fresh, FREE, EOC
      <4>4. Allocates(d, res, {x})
        BY <2>1, <4>1, <4>2, <4>3 DEF Allocates
      <4> QED BY <2>1, <4>1, <4>4 DEF res, d
    <3>5. CASE data # <<>>
      <4> DEFINE w == write_file_data(marked, x, data)
      <4>1. w \in Running(limit)
        BY <1>4, FileDataType
      <4>2. res \in Running(limit) /\ res.disk = w.disk /\ res.ok = w.ok /\ res.cluster = x
        BY <3>1, <3>3, <3>5, <4>1
      <4>0. PICK m \in Nat : \E cs : FileDataRun(marked, x, data, m, cs)
        BY <1>4, FileDataShape
      <4>3. PICK cs : FileDataRun(marked, x, data, m, cs)
        BY <4>0
      <4> DEFINE g == AllocateTimes(marked, m)
                 y == Min(FreeClusters(e))
      <4>4. /\ g \in Running(limit) /\ g.disk.fat = e.fat
            /\ \A c \in Clusters :
                 \/ g.disk.data[c] = e.data[c]
                 \/ c = y /\ y \in FreeClusters(e) /\ g.disk.data[c] = ZeroBlock
            /\ g.ok /\ m # 0 => y \in FreeClusters(e) /\ g.cluster = y /\ g.disk.data[y] = ZeroBlock
            /\ m = 0 => g = marked
        BY <1>4, Allocate
      <4>5. y \in FreeClusters(e) => y \in FreeClusters(d) /\ y \in Clusters /\ y # x /\ e.fat[y] = FREE
        <5> HIDE DEF y, e
        <5> QED BY <3>2 DEF FreeClusters, FREE, EOC
      <4>6. read_chain(e, x) = <<x>>
        BY <2>1, <3>2, ChainOfOne, ClusterFacts
      <4>7. /\ ~g.ok => w = g
            /\ g.ok => /\ cs \in Seq(Clusters) /\ Len(cs) = 1 + m
                       /\ cs[1] = x /\ \A i \in 2 .. Len(cs) : cs[i] = g.cluster
                       /\ w = WriteLinks(WriteBlocks(g, cs, data), cs)
        <5> DEFINE one == <<x>>
        <5>1. Len(one) = 1 /\ one[1] = x /\ 1 \in 1 .. 1 /\ 1 + 1 = 2
          OBVIOUS
        <5>2. read_chain(marked.disk, x) = one
          BY <4>6
        <5> HIDE DEF one, g, w
        <5>3. /\ ~g.ok => w = g
              /\ g.ok => /\ cs \in Seq(Clusters) /\ Len(cs) = Len(one) + m
                         /\ \A i \in 1 .. Len(one) : cs[i] = one[i]
                         /\ \A i \in Len(one) + 1 .. Len(cs) : cs[i] = g.cluster
                         /\ w = WriteLinks(WriteBlocks(g, cs, data), cs)
          BY <4>3, <5>2, Zenon DEF FileDataRun, g, w
        <5> QED BY <5>1, <5>3
      <4> HIDE DEF w, g, y, e
      <4>8. ASSUME NEW z \in FreeClusters(d), Same(d, res.disk, Clusters \ {x, z}),
                   Fresh(res.disk, x, z),
                   res.ok => res.disk.fat[x] # FREE /\ res.disk.fat[z] # FREE
            PROVE  \E P : Allocates(d, res, P)
        <5> DEFINE P == {x, z}
        <5>1. P \subseteq FreeClusters(d) /\ P # {} /\ x \in P /\ z \in P
          BY <2>1
        <5>2. Allocates(d, res, P)
          BY <4>2, <4>8, <5>1 DEF Allocates
        <5> QED BY <5>2
      <4>9. \E P : Allocates(d, res, P)
        <5>1. CASE ~g.ok
          <6>1. res.disk = g.disk /\ ~res.ok
            BY <4>2, <4>7, <5>1
          <6>2. CASE y \in FreeClusters(e) /\ g.disk.data[y] = ZeroBlock
            <7>1. Same(d, res.disk, Clusters \ {x, y})
              BY <3>2, <4>4, <4>5, <6>1, <6>2 DEF Same
            <7>2. Fresh(res.disk, x, y)
              <8>1. res.disk.data[x] = ZeroBlock /\ res.disk.data[y] = ZeroBlock
                BY <2>1, <3>2, <4>4, <4>5, <6>1, <6>2
              <8>2. res.disk.fat[x] = EOC /\ res.disk.fat[y] = FREE
                BY <2>1, <3>2, <4>4, <4>5, <6>1, <6>2
              <8> QED BY <2>2, <8>1, <8>2 DEF Fresh
            <7> QED BY <4>5, <4>8, <6>1, <6>2, <7>1, <7>2
          <6>3. CASE ~(y \in FreeClusters(e) /\ g.disk.data[y] = ZeroBlock)
            <7>1. \A c \in Clusters : g.disk.data[c] = e.data[c]
              BY <4>4, <6>3
            <7>2. Same(d, res.disk, Clusters \ {x, x})
              BY <3>2, <4>4, <6>1, <7>1 DEF Same
            <7>3. Fresh(res.disk, x, x)
              <8>1. res.disk.data[x] = ZeroBlock /\ res.disk.fat[x] = EOC
                BY <2>1, <3>2, <4>4, <6>1, <7>1
              <8> QED BY <2>2, <8>1 DEF Fresh
            <7> QED BY <2>1, <4>8, <6>1, <7>2, <7>3
          <6> QED BY <6>2, <6>3
        <5>2. CASE g.ok
          <6> DEFINE z == IF m = 0 THEN x ELSE y
                     b == WriteBlocks(g, cs, data)
          <6>1. /\ cs \in Seq(Clusters) /\ Len(cs) = 1 + m /\ cs[1] = x
                /\ w = WriteLinks(b, cs) /\ z \in FreeClusters(d) /\ z \in Clusters
                /\ \A i \in 1 .. Len(cs) : cs[i] \in {x, z}
                /\ \A i \in 2 .. Len(cs) : cs[i] = z
                /\ m # 0 => z = y /\ y \in FreeClusters(e) /\ z # x
            <7>1. \A i \in 1 .. Len(cs) : i = 1 \/ i \in 2 .. Len(cs)
              BY <4>7, <5>2
            <7>2. m = 0 => Len(cs) = 1
              BY <4>7, <5>2
            <7>3. m # 0 => g.cluster = z /\ z = y /\ z \in FreeClusters(d) /\ z \in Clusters
              BY <4>4, <4>5, <5>2
            <7>4. \A i \in 2 .. Len(cs) : cs[i] = z
              BY <4>7, <5>2, <7>2, <7>3
            <7> QED BY <2>1, <4>4, <4>5, <4>7, <5>2, <7>1, <7>3, <7>4
          <6>2. /\ \A c \in Clusters : g.disk.fat[c] = IF c = x THEN EOC ELSE d.fat[c]
                /\ \A c \in Clusters \ {x, z} : g.disk.data[c] = d.data[c]
                /\ Plain(g.disk.data[x]) /\ Plain(g.disk.data[z])
            <7>1. CASE m = 0
              BY <2>1, <2>2, <3>2, <4>4, <7>1 DEF e
            <7>2. CASE m # 0
              <8>1. g.disk.data[y] = ZeroBlock /\ z = y /\ y # x
                BY <4>4, <5>2, <6>1, <7>2
              <8>2. g.disk.data[x] = ZeroBlock
                BY <2>1, <3>2, <4>4, <8>1
              <8> QED BY <2>2, <3>2, <4>4, <8>1, <8>2
            <7> QED BY <7>1, <7>2
          <6> HIDE DEF z
          <6>3. \A n \in 1 .. Len(cs) : BlockOf(data, n) \in Blocks /\ Plain(BlockOf(data, n))
            BY <6>1, BlockType
          <6>4. /\ b \in Running(limit) /\ b.disk.fat = g.disk.fat /\ (b.ok => g.ok)
                /\ \A c \in Clusters :
                     \/ b.disk.data[c] = g.disk.data[c]
                     \/ \E n \in 1 .. Len(cs) : c = cs[n] /\ b.disk.data[c] = BlockOf(data, n)
            BY <4>4, <6>1, <6>3, BlocksWritten
          <6> HIDE DEF b
          <6>5. /\ w.disk.data = b.disk.data
                /\ \A c \in Clusters :
                     \/ w.disk.fat[c] = b.disk.fat[c]
                     \/ \E n \in 1 .. Len(cs) : c = cs[n] /\ w.disk.fat[c] = NextOf(cs, n)
                /\ w.ok => \A i \in 1 .. Len(cs) :
                             \E n \in 1 .. Len(cs) : /\ cs[i] = cs[n] /\ i <= n
                                                     /\ w.disk.fat[cs[i]] = NextOf(cs, n)
            <7>1. Linked(b, w, cs)
              BY <6>1, <6>4, LinksWritten
            <7> QED BY <7>1, Zenon DEF Linked
          <6>6. \A n \in 1 .. Len(cs) : NextOf(cs, n) \in {EOC, z}
            <7>1. \A n \in 1 .. Len(cs) : n < Len(cs) => n + 1 \in 2 .. Len(cs)
              BY <6>1
            <7> QED BY <6>1, <7>1 DEF NextOf
          <6>7. Same(d, res.disk, Clusters \ {x, z})
            BY <4>2, <6>1, <6>2, <6>4, <6>5 DEF Same
          <6>8. Plain(w.disk.data[x]) /\ Plain(w.disk.data[z])
            BY <2>1, <6>1, <6>2, <6>3, <6>4, <6>5
          <6>9. w.disk.fat[x] \in {FREE, EOC, z} /\ w.disk.fat[z] \in {FREE, EOC, z}
            <7>1. g.disk.fat[x] = EOC /\ g.disk.fat[z] \in {FREE, EOC}
              BY <2>1, <6>1, <6>2 DEF FreeClusters
            <7> QED BY <2>1, <6>1, <6>4, <6>5, <6>6, <7>1
          <6>10. w.ok => w.disk.fat[x] # FREE /\ w.disk.fat[z] # FREE
            <7> SUFFICES ASSUME w.ok PROVE w.disk.fat[x] # FREE /\ w.disk.fat[z] # FREE
              OBVIOUS
            <7>1. 1 \in 1 .. Len(cs) /\ Len(cs) \in 1 .. Len(cs) /\ cs[Len(cs)] = z /\ cs[1] = x
              <8>1. m = 0 => z = x
                BY DEF z
              <8> QED BY <6>1, <8>1
            <7>2. EOC # FREE /\ z # FREE
              BY <6>1, ClusterFacts
            <7> QED BY <6>5, <6>6, <7>1, <7>2
          <6>11. Fresh(res.disk, x, z)
            BY <4>2, <6>8, <6>9 DEF Fresh
          <6> QED BY <4>2, <4>8, <6>1, <6>7, <6>10, <6>11
        <5> QED BY <5>1, <5>2
      <4> QED BY <2>1, <4>2, <4>9 DEF res, d
    <3> QED BY <3>4, <3>5
  <2> QED BY <2>4, <2>5
<1> QED BY <1>5, <1>6

-----------------------------------------------------------------------------
(***************************************************************************)
(* Directories.                                                            *)
(***************************************************************************)
LEMMA PutSlotDone ==
  ASSUME NEW limit, NEW r \in Running(limit), NEW s, NEW i, NEW slot \in Slots,
         r.ok => i \in DOMAIN SlotsOf(r.disk, s)
  PROVE  /\ PutSlot(r, s, i, slot) \in Running(limit)
         /\ PutSlot(r, s, i, slot).cluster = r.cluster
         /\ Writes(r, PutSlot(r, s, i, slot),
                   SetSlot(r.disk, HomeOf(r.disk, s, i), PlaceAt(i), slot))
<1> DEFINE c == HomeOf(r.disk, s, i)
           j == PlaceAt(i)
           b == [r.disk.data[c] EXCEPT ![j] = slot]
<1>1. PutSlot(r, s, i, slot) = write_cluster(r, c, b)
  BY DEF PutSlot, HomeOf
<1>2. r.disk \in Disk
  BY RunningFields
<1>3. ASSUME r.ok PROVE c \in Clusters /\ b \in Blocks
  <2>1. c \in Clusters /\ j \in Places
    BY <1>2, <1>3, SlotsOfType DEF HomeOf
  <2> HIDE DEF c, j
  <2>2. r.disk.data[c] \in Blocks
    BY <1>2, <2>1, DiskFields
  <2> QED BY <2>1, <2>2 DEF Blocks
<1> HIDE DEF c, b
<1>4. /\ write_cluster(r, c, b) \in Running(limit) /\ write_cluster(r, c, b).cluster = r.cluster
      /\ Writes(r, write_cluster(r, c, b), SetData(r.disk, c, b))
  BY <1>3, WriteData
<1>5. SetData(r.disk, c, b) = SetSlot(r.disk, c, j, slot)
  BY DEF SetSlot, b
<1> QED BY <1>1, <1>4, <1>5 DEF c, j

LEMMA FreeSlotFound ==
  ASSUME NEW d \in Disk, NEW s
  PROVE  /\ FreeSlot(d, s) # 0 =>
              /\ FreeSlot(d, s) > 0 /\ FreeSlot(d, s) \in DOMAIN SlotsOf(d, s)
              /\ SlotsOf(d, s)[FreeSlot(d, s)] \in {End, Deleted}
              /\ \A j \in 1 .. FreeSlot(d, s) - 1 : SlotsOf(d, s)[j] \notin {End, Deleted}
         /\ FreeSlot(d, s) = 0 =>
              \A j \in DOMAIN SlotsOf(d, s) : SlotsOf(d, s)[j] \notin {End, Deleted}
<1> DEFINE slots == SlotsOf(d, s)
           I == {i \in 1 .. Len(slots) : slots[i] \in {End, Deleted}}
           k == IF I # {} THEN Min(I) ELSE 0
<1>1. FreeSlot(d, s) = k
  BY Zenon DEF FreeSlot, SelectInSeq
<1>2. Len(slots) \in Nat /\ DOMAIN slots = 1 .. Len(slots)
  BY SlotsOfType
<1> HIDE DEF slots
<1>3. CASE I = {}
  BY <1>1, <1>2, <1>3 DEF slots
<1>4. CASE I # {}
  <2>1. PICK z \in I : TRUE
    BY <1>4
  <2>2. I \subseteq Nat
    OBVIOUS
  <2>3. k \in I /\ \A j \in I : k <= j
    <3> HIDE DEF I
    <3> QED BY <1>4, <2>1, <2>2, Least
  <2> HIDE DEF k
  <2>4. k \in 1 .. Len(slots) /\ slots[k] \in {End, Deleted}
    BY <2>3
  <2>5. \A j \in 1 .. k - 1 : slots[j] \notin {End, Deleted}
    BY <1>2, <2>3, <2>4
  <2>6. k # 0 /\ k > 0
    BY <2>4
  <2> HIDE DEF I
  <2> QED BY <1>1, <1>2, <2>4, <2>5, <2>6 DEF slots
<1> QED BY <1>3, <1>4

LEMMA EntrySlotFound ==
  ASSUME NEW d \in Disk, NEW s, NEW name
  PROVE  /\ EntrySlot(d, s, name) # 0 => Named(d, s, name, EntrySlot(d, s, name))
         /\ \A k : Found(d, s, name, k) => EntrySlot(d, s, name) = k /\ k # 0
<1> DEFINE slots == SlotsOf(d, s)
           I == {i \in 1 .. Len(slots) : IsEntry(slots[i]) /\ slots[i].name = name}
           k == IF I # {} THEN Min(I) ELSE 0
<1>1. EntrySlot(d, s, name) = k
  BY Zenon DEF EntrySlot, SelectInSeq
<1>2. Len(slots) \in Nat /\ DOMAIN slots = 1 .. Len(slots)
  BY SlotsOfType
<1> HIDE DEF slots
<1>3. \A i : i \in I <=> Named(d, s, name, i)
  BY <1>2 DEF Named, slots
<1>4. CASE I = {}
  BY <1>1, <1>3, <1>4 DEF Found
<1>5. CASE I # {}
  <2>1. PICK z \in I : TRUE
    BY <1>5
  <2>2. I \subseteq Nat /\ 0 \notin I
    OBVIOUS
  <2>3. k \in I /\ \A j \in I : k <= j
    <3> HIDE DEF I
    <3> QED BY <1>5, <2>1, <2>2, Least
  <2> HIDE DEF k
  <2>4. ASSUME NEW i, Found(d, s, name, i) PROVE i = k
    <3>1. i \in I
      BY <1>3, <2>4 DEF Found
    <3>2. \A j \in 1 .. i - 1 : j \notin I
      BY <1>3, <2>4 DEF Found
    <3>3. k <= i /\ k \in Nat \ {0} /\ i \in Nat
      BY <2>2, <2>3, <3>1
    <3>4. ~(k < i)
      BY <2>3, <3>2, <3>3
    <3> QED BY <3>3, <3>4
  <2> QED BY <1>1, <1>3, <2>2, <2>3, <2>4
<1> QED BY <1>4, <1>5

LEMMA NewBlockType ==
  ASSUME NEW entry \in Slots
  PROVE  /\ NewBlock(entry) \in Blocks /\ ZeroBlock \in Blocks
         /\ 1 \in Places /\ NewBlock(entry)[1] = entry
         /\ \A j \in Places : j # 1 => ~IsEntry(NewBlock(entry)[j])
<1>1. ZeroBlock \in [Places -> Slots] /\ \A j \in Places : ~IsEntry(ZeroBlock[j])
  BY SpecialSlots
<1>2. 1 \in Places
  BY Fat32Assumption DEF Places
<1> QED BY <1>1, <1>2 DEF NewBlock, Blocks

LEMMA AddEntry ==
  ASSUME NEW limit, NEW r \in Running(limit), NEW s, NEW entry \in Slots
  PROVE  /\ add_entry(r, s, entry) \in Running(limit)
         /\ ~r.ok => add_entry(r, s, entry) = r
         /\ r.ok => Added(r.disk, add_entry(r, s, entry), s, entry)
<1> DEFINE d == r.disk
           i == FreeSlot(d, s)
           q == add_entry(r, s, entry)
<1>1. q = IF ~r.ok THEN r ELSE IF i > 0 THEN PutSlot(r, s, i, entry) ELSE Grow(r, s, entry)
  BY Zenon DEF add_entry
<1>2. d \in Disk
  BY RunningFields
<1> HIDE DEF q
<1>3. CASE ~r.ok
  BY <1>1, <1>3 DEF q
<1>4. CASE r.ok /\ i # 0
  <2>1. i > 0 /\ i \in DOMAIN SlotsOf(d, s)
    BY <1>2, <1>4, FreeSlotFound
  <2>2. q = PutSlot(r, s, i, entry)
    BY <1>1, <1>4, <2>1
  <2>3. q \in Running(limit) /\ Writes(r, q, SetSlot(d, HomeOf(d, s, i), PlaceAt(i), entry))
    <3> HIDE DEF i
    <3> QED BY <2>1, <2>2, PutSlotDone
  <2>4. Added(d, q, s, entry)
    BY <1>4, <2>3 DEF Added, Writes
  <2> QED BY <1>4, <2>3, <2>4 DEF q
<1>5. CASE r.ok /\ i = 0
  <2> DEFINE new == alloc_cluster(r)
             n == new.cluster
             c == read_chain(d, s)
             linked == write_fat_entry(new, Last(c), n)
             marked == write_fat_entry(linked, n, EOC)
             last == write_cluster(marked, n, NewBlock(entry))
  <2>1. q = IF c = <<>> THEN Fail(new) ELSE last
    <3>1. q = Grow(r, s, entry)
      BY <1>1, <1>5
    <3> QED BY <3>1, Zenon DEF Grow, NewBlock
  <2>2. /\ new \in Running(limit) /\ Writes(r, new, Allocated(d, n))
        /\ new.ok \/ new.disk # d => n \in FreeClusters(d)
        /\ new.disk \in Disk
    BY AllocCluster, RunningFields DEF Allocated
  <2>3. new.ok => n \in Clusters
    BY <2>2 DEF FreeClusters
  <2>4. NewBlock(entry) \in Blocks
    BY NewBlockType
  <2> HIDE DEF new, n
  <2>5. CASE c = <<>>
    <3>1. q \in Running(limit) /\ ~q.ok /\ q.disk = new.disk
      BY <2>1, <2>2, <2>5, FailType
    <3>2. CASE new.disk # d
      <4>1. q.disk = Allocated(d, n) /\ n \in FreeClusters(d)
        BY <2>2, <3>1, <3>2 DEF Writes
      <4>2. Added(d, q, s, entry)
        BY <1>5, <3>1, <4>1 DEF Added
      <4> QED BY <1>5, <3>1, <4>2 DEF q
    <3>3. CASE new.disk = d
      <4>2. Added(d, q, s, entry)
        BY <3>1, <3>3 DEF Added
      <4> QED BY <1>5, <3>1, <4>2 DEF q
    <3> QED BY <3>2, <3>3
  <2>6. CASE c # <<>>
    <3>1. s \in Clusters
      BY <2>6, NoChain
    <3>2. IsChain(d, s, c)
      BY <3>1, ReadChain
    <3> HIDE DEF c
    <3>3. Last(c) \in Clusters
      <4>1. c \in Seq(Clusters) /\ Len(c) \in Nat \ {0}
        BY <3>2 DEF IsChain, Follows
      <4> QED BY <4>1 DEF Last
    <3>4. linked \in Running(limit) /\ Writes(new, linked, SetFat(new.disk, Last(c), n))
      BY <2>2, <2>3, <3>3, WriteFat DEF FatValues
    <3> HIDE DEF linked
    <3>5. linked.ok => new.ok
      BY <3>4 DEF Writes
    <3>6. marked \in Running(limit) /\ Writes(linked, marked, SetFat(linked.disk, n, EOC))
      BY <2>3, <3>4, <3>5, WriteFat DEF FatValues
    <3> HIDE DEF marked
    <3>7. marked.ok => linked.ok
      BY <3>6 DEF Writes
    <3>8. last \in Running(limit) /\ Writes(marked, last, SetData(marked.disk, n, NewBlock(entry)))
      BY <2>3, <2>4, <3>5, <3>6, <3>7, WriteData
    <3> HIDE DEF last
    <3>9. q = last
      BY <2>1, <2>6
    <3>10. Added(d, q, s, entry)
      <4>1. CASE ~new.ok /\ new.disk = d
        <5>1. ~last.ok /\ last.disk = d
          BY <3>4, <3>6, <3>8, <4>1 DEF Writes
        <5> QED BY <3>9, <5>1 DEF Added
      <4>2. CASE new.ok \/ new.disk # d
        <5>1. n \in FreeClusters(d) /\ new.disk = Allocated(d, n)
          BY <2>2, <4>2 DEF Writes
        <5>2. CASE ~linked.ok /\ linked.disk = new.disk
          <6>1. ~last.ok /\ last.disk = Allocated(d, n)
            BY <3>6, <3>8, <5>1, <5>2 DEF Writes
          <6> QED BY <1>5, <3>9, <5>1, <6>1 DEF Added
        <5>3. CASE linked.ok \/ linked.disk # new.disk
          <6>1. linked.disk = Attached(d, s, n)
            BY <3>4, <5>1, <5>3 DEF Writes, Attached, c
          <6>2. CASE ~marked.ok /\ marked.disk = linked.disk
            <7>1. ~last.ok /\ last.disk = Attached(d, s, n)
              BY <3>8, <6>1, <6>2 DEF Writes
            <7> QED BY <1>5, <3>1, <3>9, <5>1, <7>1 DEF Added
          <6>3. CASE marked.ok \/ marked.disk # linked.disk
            <7>1. marked.disk = Marked(d, s, n)
              BY <3>6, <6>1, <6>3 DEF Writes, Marked
            <7>2. \/ ~last.ok /\ last.disk = Marked(d, s, n)
                  \/ last.disk = SetData(Marked(d, s, n), n, NewBlock(entry))
              BY <3>8, <7>1 DEF Writes
            <7> QED BY <1>5, <3>1, <3>9, <5>1, <7>2 DEF Added
          <6> QED BY <6>2, <6>3
        <5> QED BY <5>2, <5>3
      <4> QED BY <4>1, <4>2
    <3> QED BY <1>5, <3>8, <3>9, <3>10 DEF q
  <2> QED BY <2>5, <2>6
<1> QED BY <1>3, <1>4, <1>5

LEMMA UpdateEntry ==
  ASSUME NEW limit, NEW r \in Running(limit), NEW s, NEW name \in Names,
         NEW cluster \in Clusters \cup {0}, NEW size \in Nat
  PROVE  LET d == r.disk
             i == EntrySlot(d, s, name)
             q == update_dir_entry(r, s, name, cluster, size)
             slot == Slot(SlotsOf(d, s)[i].kind, name, cluster, size)
         IN  /\ q \in Running(limit)
             /\ ~r.ok => q = r
             /\ \/ ~q.ok /\ q.disk = d
                \/ /\ r.ok /\ i # 0
                   /\ slot \in Slots /\ IsEntry(slot)
                   /\ q.disk = SetSlot(d, HomeOf(d, s, i), PlaceAt(i), slot)
<1> DEFINE d == r.disk
           i == EntrySlot(d, s, name)
           q == update_dir_entry(r, s, name, cluster, size)
           slot == Slot(SlotsOf(d, s)[i].kind, name, cluster, size)
<1>1. q = IF ~r.ok THEN r ELSE IF i = 0 THEN Fail(r) ELSE PutSlot(r, s, i, slot)
  BY Zenon DEF update_dir_entry, EntrySlot
<1>2. d \in Disk
  BY RunningFields
<1>3. CASE ~r.ok
  BY <1>1, <1>3
<1>4. CASE r.ok /\ i = 0
  <2>1. q = Fail(r)
    BY <1>1, <1>4
  <2> HIDE DEF q
  <2> QED BY <1>4, <2>1, FailType DEF q
<1>5. CASE r.ok /\ i # 0
  <2>1. q = PutSlot(r, s, i, slot)
    BY <1>1, <1>5
  <2>2. Named(d, s, name, i)
    BY <1>2, <1>5, EntrySlotFound
  <2> HIDE DEF i
  <2>3. i \in DOMAIN SlotsOf(d, s) /\ SlotsOf(d, s)[i] \in Slots /\ IsEntry(SlotsOf(d, s)[i])
    BY <1>2, <2>2, SlotsOfType DEF Named
  <2>4. slot \in Slots /\ IsEntry(slot)
    BY <2>3 DEF Slots, Slot, IsEntry
  <2> HIDE DEF slot, q
  <2>5. q \in Running(limit) /\ Writes(r, q, SetSlot(d, HomeOf(d, s, i), PlaceAt(i), slot))
    BY <2>1, <2>3, <2>4, PutSlotDone
  <2>6. \/ ~q.ok /\ q.disk = d
        \/ q.disk = SetSlot(d, HomeOf(d, s, i), PlaceAt(i), slot)
    BY <2>5 DEF Writes
  <2> QED BY <1>5, <2>4, <2>5, <2>6 DEF i, slot, q
<1> QED BY <1>3, <1>4, <1>5

LEMMA RemoveEntry ==
  ASSUME NEW limit, NEW r \in Running(limit), NEW s, NEW name, r.ok,
         EntrySlot(r.disk, s, name) # 0
  PROVE  LET i == EntrySlot(r.disk, s, name)
         IN  /\ remove_entry(r, s, name) \in Running(limit)
             /\ Writes(r, remove_entry(r, s, name),
                       SetSlot(r.disk, HomeOf(r.disk, s, i), PlaceAt(i), Deleted))
<1> DEFINE d == r.disk
           i == EntrySlot(d, s, name)
<1>1. remove_entry(r, s, name) = PutSlot(r, s, i, Deleted)
  BY Zenon DEF remove_entry, EntrySlot
<1>2. i \in DOMAIN SlotsOf(d, s)
  BY RunningFields, EntrySlotFound DEF Named
<1> HIDE DEF i
<1> QED BY <1>1, <1>2, PutSlotDone, SpecialSlots DEF i

-----------------------------------------------------------------------------
(***************************************************************************)
(* Type correctness.                                                       *)
(***************************************************************************)
LEMMA PathFound ==
  ASSUME NEW d \in Disk, NEW path \in Seq(Names), path # <<>>, EntryAt(d, path) # End
  PROVE  /\ HasParent(d, path) /\ Last(path) \in Names
         /\ IsEntry(EntryAt(d, path)) /\ EntryAt(d, path) \in Slots
         /\ find_entry(d, ParentCluster(d, path), Last(path)) = EntryAt(d, path)
         /\ \E k : /\ Found(d, ParentCluster(d, path), Last(path), k)
                   /\ EntryAt(d, path) = SlotsOf(d, ParentCluster(d, path))[k]
<1> DEFINE e == EntryAt(d, path)
           up == EntryAt(d, Front(path))
           s == up.cluster
           name == Last(path)
<1>1. /\ e = IF up = End THEN End ELSE find_entry(d, s, name)
      /\ e \in Slots /\ up \in Slots /\ name \in Names
  BY EntryAtStep
<1> HIDE DEF e, up, name
<1>2. up # End /\ e = find_entry(d, s, name)
  BY <1>1 DEF e
<1>3. IsEntry(e) /\ \E k : Found(d, s, name, k) /\ e = SlotsOf(d, s)[k]
  BY <1>1, <1>2, FindEntry DEF e
<1> QED BY <1>1, <1>2, <1>3 DEF HasParent, ParentCluster, e, up, name

LEMMA PathFacts ==
  ASSUME NEW path \in Paths
  PROVE  path \in Seq(Names) /\ path # <<>> /\ (Front(path) # <<>> => Front(path) \in Paths)
<1>1. path \in Seq(Names) /\ path # <<>> /\ (Len(path) > 1 => Front(path) \in Paths)
  BY Fat32Assumption
<1>2. Len(path) \in Nat \ {0}
  BY <1>1
<1>3. Len(path) = 1 => Front(path) = <<>>
  BY <1>1 DEF Front
<1>4. Len(path) = 1 \/ Len(path) > 1
  BY <1>2
<1> QED BY <1>1, <1>3, <1>4, Zenon

LEMMA LimitFacts ==
  ASSUME NEW limit \in Limits
  PROVE  limit \in Int /\ (limit < 0 \/ faults < MaxFaults)
BY Fat32Assumption DEF Limits, NoLimit

LEMMA FinishType ==
  ASSUME TypeOK, NEW limit \in Limits, NEW r \in Running(limit), Finish(r)
  PROVE  TypeOK'
<1>1. disk' \in Disk
  BY RunningFields DEF Finish
<1>2. reply' \in {"Ok", "Refused", "Error"}
  BY DEF Finish
<1>3. faults' \in 0 .. MaxFaults
  <2>1. faults \in 0 .. MaxFaults /\ MaxFaults \in Nat
    BY Fat32Assumption DEF TypeOK
  <2>2. CASE ~r.ok /\ r.left = 0
    <3>1. ~(limit < 0)
      BY <2>2, RunningFields
    <3>2. faults < MaxFaults /\ faults' = faults + 1
      BY <2>2, <3>1, LimitFacts DEF Finish
    <3> QED BY <2>1, <3>2
  <2>3. CASE ~(~r.ok /\ r.left = 0)
    BY <2>1, <2>3 DEF Finish
  <2> QED BY <2>2, <2>3
<1>4. damaged' \in BOOLEAN
  BY DEF Finish, TypeOK
<1> QED BY <1>1, <1>2, <1>3, <1>4 DEF TypeOK

LEMMA RefuseType ==
  ASSUME TypeOK, Refuse
  PROVE  TypeOK'
BY DEF TypeOK, Refuse, Disk

LEMMA TextData ==
  ASSUME NEW content \in Seq(Texts)
  PROVE  LET data == [i \in DOMAIN content |-> Text(content[i])]
         IN  /\ data \in Seq(Slots) /\ Len(data) = Len(content) /\ Len(data) \in Nat
             /\ \A k \in 1 .. Len(data) : ~IsEntry(data[k])
<1> DEFINE n == Len(content)
           data == [i \in DOMAIN content |-> Text(content[i])]
<1>1. n \in Nat /\ DOMAIN content = 1 .. n /\ \A i \in 1 .. n : content[i] \in Texts
  OBVIOUS
<1>2. \A t \in Texts : Text(t) \in Slots /\ ~IsEntry(Text(t))
  BY DEF Text, Slot, Slots, IsEntry
<1> HIDE DEF n
<1>3. data = [i \in 1 .. n |-> Text(content[i])]
  BY <1>1
<1>4. data \in Seq(Slots) /\ Len(data) = n /\ \A k \in 1 .. n : ~IsEntry(data[k])
  BY <1>1, <1>2, <1>3
<1> QED BY <1>1, <1>4 DEF n

LEMMA NewEntryType ==
  ASSUME NEW path \in Paths, NEW kind \in {"file", "dir"}, NEW size \in Nat,
         NEW cluster \in Clusters \cup {0}
  PROVE  /\ Slot(kind, Stored[Last(path)], cluster, size) \in Slots
         /\ IsEntry(Slot(kind, Stored[Last(path)], cluster, size))
         /\ Slot(kind, Stored[Last(path)], cluster, size).cluster = cluster
<1>1. path \in Seq(Names) /\ path # <<>>
  BY PathFacts
<1>2. Last(path) \in Names
  BY <1>1 DEF Last
<1>3. Stored[Last(path)] \in Names
  BY <1>2, Fat32Assumption
<1> QED BY <1>3 DEF Slot, Slots, IsEntry

LEMMA OverwriteType ==
  ASSUME TypeOK, NEW path \in Paths, NEW content \in Seq(Texts), NEW limit \in Limits,
         Overwrite(path, [i \in DOMAIN content |-> Text(content[i])], limit)
  PROVE  TypeOK'
<1> DEFINE data == [i \in DOMAIN content |-> Text(content[i])]
           s == ParentCluster(disk, path)
           name == Last(path)
           h == find_entry(disk, s, name).cluster
           freed == free_chain(Started(disk, limit), h)
           new == allocate_and_write(freed, data)
           q == update_dir_entry(new, s, name, new.cluster, Len(data))
<1>1. limit \in Int /\ disk \in Disk /\ name \in Names
  BY LimitFacts, PathFacts, EntryAtStep DEF TypeOK
<1>2. freed \in Running(limit)
  <2>1. Started(disk, limit) \in Running(limit)
    BY <1>1, StartedType
  <2> QED BY <2>1, FreeChain
<1>3. data \in Seq(Slots) /\ Len(data) \in Nat /\ \A k \in 1 .. Len(data) : ~IsEntry(data[k])
  BY TextData
<1>4. Finish(q)
  BY DEF Overwrite
<1> HIDE DEF freed, data
<1>5. new \in Running(limit)
  BY <1>2, <1>3, AllocateAndWrite
<1> HIDE DEF new, s, name
<1>6. q \in Running(limit)
  <2>1. new.cluster \in Clusters \cup {0}
    BY <1>5, RunningFields
  <2> QED BY <1>1, <1>3, <1>5, <2>1, UpdateEntry
<1> HIDE DEF q
<1> QED BY <1>4, <1>6, FinishType

LEMMA CreateType ==
  ASSUME TypeOK, NEW path \in Paths, NEW content \in Seq(Texts), NEW limit \in Limits,
         Create(path, [i \in DOMAIN content |-> Text(content[i])], limit)
  PROVE  TypeOK'
<1> DEFINE data == [i \in DOMAIN content |-> Text(content[i])]
           s == ParentCluster(disk, path)
           new == allocate_and_write(Started(disk, limit), data)
           entry == Slot("file", Stored[Last(path)], new.cluster, Len(data))
           q == add_entry(new, s, entry)
<1>1. limit \in Int /\ disk \in Disk
  BY LimitFacts DEF TypeOK
<1>2. Started(disk, limit) \in Running(limit)
  BY <1>1, StartedType
<1>3. data \in Seq(Slots) /\ Len(data) \in Nat /\ \A k \in 1 .. Len(data) : ~IsEntry(data[k])
  BY TextData
<1>4. Finish(q)
  BY DEF Create
<1> HIDE DEF data
<1>5. new \in Running(limit)
  BY <1>2, <1>3, AllocateAndWrite
<1> HIDE DEF new, s
<1>6. entry \in Slots
  <2>1. new.cluster \in Clusters \cup {0}
    BY <1>5, RunningFields
  <2> QED BY <1>3, <2>1, NewEntryType
<1> HIDE DEF entry
<1>7. q \in Running(limit)
  BY <1>5, <1>6, AddEntry
<1> HIDE DEF q
<1> QED BY <1>4, <1>7, FinishType

LEMMA DotBlock ==
  /\ [ZeroBlock EXCEPT ![1] = Dot, ![2] = Dot] \in Blocks
  /\ Plain([ZeroBlock EXCEPT ![1] = Dot, ![2] = Dot])
BY SpecialSlots DEF Blocks, Plain

(* mkdir before it adds the entry: a marked cluster of its own. *)
LEMMA NewDirectory ==
  ASSUME NEW limit, NEW r \in Running(limit), r.ok
  PROVE  LET new == alloc_cluster(r)
             filled == write_cluster(new, new.cluster,
                                     [ZeroBlock EXCEPT ![1] = Dot, ![2] = Dot])
             marked == write_fat_entry(filled, new.cluster, EOC)
         IN  /\ marked \in Running(limit) /\ marked.cluster = new.cluster
             /\ \E P : /\ Allocates(r.disk, marked, P)
                       /\ marked.ok => P = {marked.cluster}
<1> DEFINE d == r.disk
           dots == [ZeroBlock EXCEPT ![1] = Dot, ![2] = Dot]
           new == alloc_cluster(r)
           x == new.cluster
           filled == write_cluster(new, x, dots)
           marked == write_fat_entry(filled, x, EOC)
<1>0. dots \in Blocks /\ Plain(dots) /\ ZeroBlock \in Blocks /\ Plain(ZeroBlock)
  BY DotBlock, SpecialSlots DEF Plain, Blocks
<1> HIDE DEF dots
<1>1. /\ new \in Running(limit) /\ Writes(r, new, SetData(d, x, ZeroBlock))
      /\ new.ok \/ new.disk # d => x \in FreeClusters(d)
      /\ d \in Disk
  BY AllocCluster, RunningFields
<1>2. new.ok \/ new.disk # d => x \in Clusters /\ d.fat[x] = FREE
  BY <1>1 DEF FreeClusters
<1> HIDE DEF new
<1>3. /\ filled \in Running(limit) /\ Writes(new, filled, SetData(new.disk, x, dots))
      /\ filled.cluster = x
  BY <1>0, <1>1, <1>2, WriteData
<1> HIDE DEF filled
<1>4. filled.ok => new.ok
  BY <1>3 DEF Writes
<1>5. /\ marked \in Running(limit) /\ Writes(filled, marked, SetFat(filled.disk, x, EOC))
      /\ marked.cluster = x
  BY <1>2, <1>3, <1>4, WriteFat DEF FatValues
<1> HIDE DEF marked
<1>6. \E P : Allocates(d, marked, P) /\ (marked.ok => P = {marked.cluster})
  <2>1. CASE ~new.ok /\ new.disk = d
    <3>1. ~marked.ok /\ marked.disk = d
      BY <1>3, <1>5, <2>1 DEF Writes
    <3>2. Allocates(d, marked, {})
      BY <3>1 DEF Allocates, Same
    <3> QED BY <3>1, <3>2
  <2>2. CASE new.ok \/ new.disk # d
    <3>1. new.disk = SetData(d, x, ZeroBlock) /\ x \in Clusters /\ d.fat[x] = FREE
          /\ x \in FreeClusters(d) /\ new.disk \in Disk
      BY <1>1, <1>2, <2>2, RunningFields DEF Writes
    <3>2. /\ new.disk.fat = d.fat
          /\ \A c \in Clusters : new.disk.data[c] = IF c = x THEN ZeroBlock ELSE d.data[c]
      BY <1>0, <1>1, <3>1, SetDataAt
    <3>3. /\ filled.disk \in Disk /\ filled.disk.fat = d.fat /\ Plain(filled.disk.data[x])
          /\ \A c \in Clusters \ {x} : filled.disk.data[c] = d.data[c]
      <4>1. filled.disk = new.disk \/ filled.disk = SetData(new.disk, x, dots)
        BY <1>3 DEF Writes
      <4>2. /\ SetData(new.disk, x, dots).fat = new.disk.fat
            /\ \A c \in Clusters :
                 SetData(new.disk, x, dots).data[c] = IF c = x THEN dots ELSE new.disk.data[c]
        BY <1>0, <3>1, SetDataAt
      <4>3. filled.disk \in Disk
        BY <1>3, RunningFields
      <4> QED BY <1>0, <3>1, <3>2, <4>1, <4>2, <4>3
    <3>4. /\ Plain(marked.disk.data[x]) /\ marked.disk.fat[x] \in {FREE, EOC}
          /\ \A c \in Clusters \ {x} : /\ marked.disk.data[c] = d.data[c]
                                       /\ marked.disk.fat[c] = d.fat[c]
          /\ marked.ok => marked.disk.fat[x] = EOC
      <4>1. \/ ~marked.ok /\ marked.disk = filled.disk
            \/ marked.disk = SetFat(filled.disk, x, EOC)
        BY <1>5 DEF Writes
      <4>2. /\ SetFat(filled.disk, x, EOC).data = filled.disk.data
            /\ \A c \in Clusters :
                 SetFat(filled.disk, x, EOC).fat[c] = IF c = x THEN EOC ELSE filled.disk.fat[c]
        BY <3>1, <3>3, SetFatAt DEF FatValues
      <4> QED BY <3>1, <3>3, <4>1, <4>2
    <3>5. Fresh(marked.disk, x, x) /\ Same(d, marked.disk, Clusters \ {x})
      BY <3>4 DEF Fresh, Same
    <3>6. Allocates(d, marked, {x})
      BY <1>5, <3>1, <3>4, <3>5, ClusterFacts DEF Allocates
    <3> QED BY <1>5, <3>6
  <2> QED BY <2>1, <2>2
<1> QED BY <1>5, <1>6 DEF marked, filled, new, dots

LEMMA MakeDirectoryType ==
  ASSUME TypeOK, NEW path \in Paths, NEW limit \in Limits, MakeDirectory(path, limit)
  PROVE  TypeOK'
<1> DEFINE s == ParentCluster(disk, path)
           new == alloc_cluster(Started(disk, limit))
           filled == write_cluster(new, new.cluster,
                                   [ZeroBlock EXCEPT ![1] = Dot, ![2] = Dot])
           marked == write_fat_entry(filled, new.cluster, EOC)
           entry == Slot("dir", Stored[Last(path)], new.cluster, 0)
           q == add_entry(marked, s, entry)
<1>1. limit \in Int /\ disk \in Disk
  BY LimitFacts DEF TypeOK
<1>2. Started(disk, limit) \in Running(limit) /\ Started(disk, limit).ok
  BY <1>1, StartedType
<1>3. Finish(q)
  BY DEF MakeDirectory
<1>4. marked \in Running(limit) /\ marked.cluster = new.cluster
  BY <1>2, NewDirectory
<1> HIDE DEF marked, new, s
<1>5. entry \in Slots
  <2>1. new.cluster \in Clusters \cup {0}
    BY <1>4, RunningFields
  <2> QED BY <2>1, NewEntryType
<1> HIDE DEF entry
<1>6. q \in Running(limit)
  BY <1>4, <1>5, AddEntry
<1> HIDE DEF q
<1> QED BY <1>3, <1>6, FinishType

LEMMA DeleteType ==
  ASSUME TypeOK, NEW path \in Paths, NEW limit \in Limits,
         EntryAt(disk, path) # End, Delete(path, limit)
  PROVE  TypeOK'
<1> DEFINE s == ParentCluster(disk, path)
           name == Last(path)
           r == Started(disk, limit)
           removed == remove_entry(r, s, name)
           h == EntryAt(disk, path).cluster
           q == IF removed.ok THEN free_chain(removed, h) ELSE removed
<1>1. limit \in Int /\ disk \in Disk
  BY LimitFacts DEF TypeOK
<1>2. r \in Running(limit) /\ r.ok /\ r.disk = disk
  BY <1>1, StartedType
<1>3. Finish(q)
  BY DEF Delete
<1>4. EntrySlot(disk, s, name) # 0
  BY <1>1, PathFacts, PathFound, EntrySlotFound
<1> HIDE DEF r, s, name, h
<1>5. removed \in Running(limit)
  BY <1>2, <1>4, RemoveEntry
<1> HIDE DEF removed
<1>6. q \in Running(limit)
  BY <1>5, FreeChain
<1> HIDE DEF q
<1> QED BY <1>3, <1>6, FinishType

LEMMA OperationsType ==
  ASSUME TypeOK, NEW path \in Paths
  PROVE  /\ \A content \in Seq(Texts) : create_file(path, content) => TypeOK'
         /\ mkdir(path) => TypeOK'
         /\ delete(path) => TypeOK'
<1>1. ASSUME NEW content \in Seq(Texts), create_file(path, content) PROVE TypeOK'
  BY <1>1, RefuseType, OverwriteType, CreateType DEF create_file
<1>2. ASSUME mkdir(path) PROVE TypeOK'
  BY <1>2, RefuseType, MakeDirectoryType DEF mkdir
<1>3. ASSUME delete(path) PROVE TypeOK'
  BY <1>3, RefuseType, DeleteType DEF delete
<1> QED BY <1>1, <1>2, <1>3

(* The disk of a new volume. *)
FirstDisk(root) ==
  [fat  |-> [c \in Clusters |-> IF c = Root THEN EOC ELSE FREE],
   data |-> [c \in Clusters |-> IF c = Root THEN root ELSE ZeroBlock]]

(* The entry of a file without a cluster. *)
EmptyFile(slot) == slot.kind = "file" /\ slot.cluster = 0 /\ slot.size = 0

LEMMA InitDisk ==
  ASSUME Init
  PROVE  \E root \in Blocks :
           /\ disk = FirstDisk(root) /\ disk \in Disk
           /\ \A j \in Places : IsEntry(root[j]) => j = 1 /\ EmptyFile(root[j])
<1>1. PICK root \in {ZeroBlock} \cup
                    {[ZeroBlock EXCEPT ![1] = Slot("file", n, 0, 0)] : n \in Names} :
        disk = FirstDisk(root)
  BY DEF Init, FirstDisk
<1>2. root \in Blocks /\ \A j \in Places : IsEntry(root[j]) => j = 1 /\ EmptyFile(root[j])
  <2>1. CASE root = ZeroBlock
    BY <2>1, SpecialSlots DEF Blocks
  <2>2. ASSUME NEW n \in Names, root = NewBlock(Slot("file", n, 0, 0))
        PROVE  root \in Blocks /\ \A j \in Places : IsEntry(root[j]) => j = 1 /\ EmptyFile(root[j])
    <3> DEFINE e == Slot("file", n, 0, 0)
    <3>1. e \in Slots /\ EmptyFile(e)
      BY DEF Slot, Slots, EmptyFile
    <3> HIDE DEF e
    <3> QED BY <2>2, <3>1, NewBlockType DEF e
  <2> QED BY <2>1, <2>2 DEF NewBlock
<1>3. FirstDisk(root) \in Disk
  <2> DEFINE f == [c \in Clusters |-> IF c = Root THEN EOC ELSE FREE]
             b == [c \in Clusters |-> IF c = Root THEN root ELSE ZeroBlock]
  <2>1. f \in [Clusters -> FatValues]
    BY DEF FatValues
  <2>2. b \in [Clusters -> Blocks]
    BY <1>2, SpecialSlots DEF Blocks
  <2>3. FirstDisk(root) = [fat |-> f, data |-> b]
    BY DEF FirstDisk
  <2> HIDE DEF f, b
  <2> QED BY <2>1, <2>2, <2>3, IsDisk
<1> QED BY <1>1, <1>2, <1>3

LEMMA InitType ==
  ASSUME Init
  PROVE  TypeOK
<1>1. disk \in Disk
  BY InitDisk
<1>2. damaged \in BOOLEAN /\ reply \in {"Ok", "Refused", "Error"}
  BY Zenon DEF Init
<1>3. faults \in 0 .. MaxFaults
  BY Fat32Assumption DEF Init
<1> QED BY <1>1, <1>2, <1>3 DEF TypeOK

LEMMA ContentFacts ==
  ASSUME NEW content \in Contents
  PROVE  content \in Seq(Texts)
BY Fat32Assumption

LEMMA NextType ==
  ASSUME TypeOK, [Next]_vars
  PROVE  TypeOK'
<1>1. CASE Next
  BY <1>1, OperationsType, ContentFacts DEF Next
<1>2. CASE UNCHANGED vars
  BY <1>2 DEF vars, TypeOK, Disk
<1> QED BY <1>1, <1>2

(* The volume keeps its types, and the table only ever holds clusters and  *)
(* the two marks, whatever write an operation stops at (create_file, mkdir *)
(* and delete of the VFS).                                                 *)
THEOREM TypeCorrect == Spec => []TypeOK
<1>1. Init => TypeOK
  BY InitType
<1>2. TypeOK /\ [Next]_vars => TypeOK'
  BY NextType
<1> QED BY <1>1, <1>2, PTL DEF Spec

-----------------------------------------------------------------------------
(***************************************************************************)
(* The volume as a forest: a set L of clusters, with the root, in which    *)
(* the table's links lead from a cluster to at most one other, and every   *)
(* entry names the first cluster of a chain that nothing else names.  The  *)
(* clusters outside L are free or lost: operations that stopped left them. *)
(***************************************************************************)
(* Clusters that lead only to each other, and to the end mark. *)
Closed(d, L) == L \subseteq Clusters /\ \A c \in L : d.fat[c] \in L \cup {EOC}

LEMMA ChainClosed ==
  ASSUME NEW d, NEW L, Closed(d, L), NEW x \in L
  PROVE  /\ IsChain(d, x, read_chain(d, x)) /\ x \in Clusters
         /\ \A i \in 1 .. Len(read_chain(d, x)) : read_chain(d, x)[i] \in L
         /\ Range(read_chain(d, x)) \subseteq L
<1> DEFINE c == read_chain(d, x)
           N == Len(c) - 1
           S == {n \in 0 .. N : c[n + 1] \in L}
<1>1. x \in Clusters
  BY DEF Closed
<1>2. IsChain(d, x, c)
  BY <1>1, ReadChain
<1>3. Range(c) = {c[i] : i \in 1 .. Len(c)}
  BY ChainType
<1> HIDE DEF c
<1>4. N \in Nat /\ c[1] = x /\ Len(c) \in Nat \ {0} /\ \A i \in 1 .. Len(c) : c[i] \in Clusters
  BY <1>2 DEF IsChain, Follows
<1>5. 0 \in S
  BY <1>4
<1>6. ASSUME NEW n \in 1 .. N, n - 1 \in S PROVE n \in S
  <2>1. c[n] \in L /\ n \in 1 .. Len(c) - 1 /\ n + 1 \in 1 .. Len(c) /\ n \in 0 .. N
    BY <1>4, <1>6
  <2>2. c[n + 1] = d.fat[c[n]] /\ c[n + 1] \in Clusters
    BY <1>2, <1>4, <2>1 DEF IsChain, Follows
  <2>3. c[n + 1] \in L
    BY <2>1, <2>2, ClusterFacts DEF Closed
  <2> QED BY <2>1, <2>3
<1>7. \A n \in 0 .. N : n \in S
  <2> HIDE DEF S
  <2> QED BY <1>4, <1>5, <1>6, UpTo, Zenon
<1>8. ASSUME NEW i \in 1 .. Len(c) PROVE c[i] \in L
  <2>1. i - 1 \in 0 .. N
    BY <1>4
  <2>2. i - 1 \in S
    BY <1>7, <2>1
  <2>3. (i - 1) + 1 = i
    BY <1>4
  <2> QED BY <2>2, <2>3
<1> QED BY <1>1, <1>2, <1>3, <1>8 DEF c

LEMMA ChainIn ==
  ASSUME NEW d, NEW L, ForestTable(d, L), NEW x \in L
  PROVE  /\ IsChain(d, x, read_chain(d, x)) /\ x \in Clusters
         /\ \A i \in 1 .. Len(read_chain(d, x)) : read_chain(d, x)[i] \in L
         /\ Range(read_chain(d, x)) \subseteq L
<1>1. Closed(d, L)
  BY DEF ForestTable, Closed
<1> QED BY <1>1, ChainClosed

(* The predecessor of a cluster in a chain links to it. *)
LEMMA ChainLinks ==
  ASSUME NEW d, NEW x, NEW c, IsChain(d, x, c), NEW i \in 1 .. Len(c), i # 1
  PROVE  i - 1 \in 1 .. Len(c) /\ Links(d, c[i - 1], c[i])
<1>1. Len(c) \in Nat \ {0}
  BY DEF IsChain, Follows
<1> DEFINE k == i - 1
<1>2. k \in 1 .. Len(c) - 1 /\ k \in 1 .. Len(c) /\ k # i /\ k + 1 = i
  BY <1>1
<1> HIDE DEF k
<1>3. c[i] = d.fat[c[k]] /\ c[k] # c[i]
  BY <1>2 DEF IsChain, Follows
<1> QED BY <1>2, <1>3 DEF Links, k

(* Chains from different tops are apart. *)
LEMMA ChainsApart ==
  ASSUME NEW d, NEW L, ForestTable(d, L), NEW x, NEW y, Top(d, L, x), Top(d, L, y),
         NEW z \in Range(read_chain(d, x)), z \in Range(read_chain(d, y))
  PROVE  x = y
<1> DEFINE c == read_chain(d, x)
           b == read_chain(d, y)
<1>1. /\ IsChain(d, x, c) /\ IsChain(d, y, b)
      /\ \A i \in 1 .. Len(c) : c[i] \in L
      /\ \A i \in 1 .. Len(b) : b[i] \in L
  BY ChainIn DEF Top
<1>2. PICK p \in 1 .. Len(c), q \in 1 .. Len(b) : c[p] = b[q]
  BY ChainType
<1> HIDE DEF c, b
<1> DEFINE S == {i \in 1 .. Len(c) : \E j \in 1 .. Len(b) : c[i] = b[j]}
           m == Min(S)
<1>3. p \in S /\ S \subseteq Nat
  BY <1>2
<1>4. m \in S /\ \A i \in S : m <= i
  <2> HIDE DEF S
  <2> QED BY <1>3, Least
<1> HIDE DEF m
<1>5. PICK j \in 1 .. Len(b) : c[m] = b[j]
  BY <1>4
<1>6. m \in 1 .. Len(c) /\ Len(c) \in Nat /\ Len(b) \in Nat /\ c[1] = x /\ b[1] = y
  BY <1>1, <1>4 DEF IsChain, Follows
<1>7. CASE m = 1 /\ j = 1
  BY <1>5, <1>6, <1>7
<1>8. CASE m = 1 /\ j # 1
  <2>1. j - 1 \in 1 .. Len(b) /\ Links(d, b[j - 1], b[j])
    BY <1>1, <1>8, ChainLinks
  <2> QED BY <1>1, <1>5, <1>6, <1>8, <2>1 DEF Top
<1>9. CASE m # 1 /\ j = 1
  <2>1. m - 1 \in 1 .. Len(c) /\ Links(d, c[m - 1], c[m])
    BY <1>1, <1>6, <1>9, ChainLinks
  <2> QED BY <1>1, <1>5, <1>6, <1>9, <2>1 DEF Top
<1>10. CASE m # 1 /\ j # 1
  <2>1. j - 1 \in 1 .. Len(b) /\ Links(d, b[j - 1], b[j])
    BY <1>1, <1>10, ChainLinks
  <2>2. m - 1 \in 1 .. Len(c) /\ Links(d, c[m - 1], c[m])
    BY <1>1, <1>6, <1>10, ChainLinks
  <2>3. c[m - 1] = b[j - 1]
    BY <1>1, <1>5, <1>6, <2>1, <2>2 DEF ForestTable
  <2>4. m - 1 \in S
    BY <2>1, <2>2, <2>3
  <2>5. m <= m - 1
    BY <1>4, <2>4
  <2> QED BY <1>6, <2>5
<1> QED BY <1>7, <1>8, <1>9, <1>10

(* A chain from a top ends in the table or at a cluster that names itself. *)
LEMMA ChainEnd ==
  ASSUME NEW d, NEW L, ForestTable(d, L), NEW x, Top(d, L, x)
  PROVE  LET l == Last(read_chain(d, x))
         IN  l \in L /\ d.fat[l] \in {EOC, l} /\ l \in Range(read_chain(d, x))
<1> DEFINE c == read_chain(d, x)
           n == Len(c)
<1>1. /\ IsChain(d, x, c) /\ \A i \in 1 .. n : c[i] \in L
      /\ Range(c) = {c[i] : i \in 1 .. n}
  BY ChainIn, ChainType DEF Top
<1> HIDE DEF c
<1>2. n \in Nat \ {0} /\ c[1] = x /\ n \in 1 .. n
  BY <1>1 DEF IsChain, Follows
<1>3. Last(c) = c[n] /\ c[n] \in L
  BY <1>1, <1>2 DEF Last
<1>4. d.fat[c[n]] \in {EOC, c[n]}
  <2> SUFFICES ASSUME d.fat[c[n]] # EOC, d.fat[c[n]] # c[n] PROVE FALSE
    OBVIOUS
  <2>1. d.fat[c[n]] \in L /\ d.fat[c[n]] \in Clusters
    BY <1>3 DEF ForestTable
  <2>2. PICK i \in 1 .. n : d.fat[c[n]] = c[i]
    BY <1>1, <2>1 DEF IsChain, Ended
  <2>3. Links(d, c[n], c[i])
    BY <2>2 DEF Links
  <2>4. CASE i = 1
    BY <1>2, <1>3, <2>3, <2>4 DEF Top
  <2>5. CASE i # 1
    <3>1. i - 1 \in 1 .. n /\ Links(d, c[i - 1], c[i])
      BY <1>1, <2>5, ChainLinks
    <3>2. c[i - 1] = c[n]
      BY <1>1, <1>3, <2>3, <3>1 DEF ForestTable
    <3>3. i - 1 = n
      BY <1>1, <1>2, <3>1, <3>2 DEF IsChain, Follows
    <3> QED BY <1>2, <3>3
  <2> QED BY <2>4, <2>5
<1> QED BY <1>1, <1>2, <1>3, <1>4 DEF c

LEMMA SlotHome ==
  ASSUME NEW d \in Disk, NEW s, NEW k \in DOMAIN SlotsOf(d, s)
  PROVE  /\ s \in Clusters /\ HomeOf(d, s, k) \in Range(read_chain(d, s))
         /\ HomeOf(d, s, k) \in Clusters /\ PlaceAt(k) \in Places
         /\ SlotsOf(d, s)[k] = d.data[HomeOf(d, s, k)][PlaceAt(k)]
<1> DEFINE c == read_chain(d, s)
<1>1. /\ BlockAt(k) \in 1 .. Len(c) /\ PlaceAt(k) \in Places /\ c[BlockAt(k)] \in Clusters
      /\ SlotsOf(d, s)[k] = d.data[c[BlockAt(k)]][PlaceAt(k)]
  BY SlotsOfType
<1>2. Range(c) = {c[i] : i \in 1 .. Len(c)}
  BY ChainType
<1>3. s \in Clusters
  <2> SUFFICES ASSUME s \notin Clusters PROVE FALSE
    OBVIOUS
  <2>1. c = <<>>
    BY NoChain
  <2> HIDE DEF c
  <2> QED BY <1>1, <2>1
<1> QED BY <1>1, <1>2, <1>3 DEF HomeOf

LEMMA PathSlotFound ==
  ASSUME NEW d \in Disk, NEW path \in Seq(Names), path # <<>>, EntryAt(d, path) # End
  PROVE  /\ ParentCluster(d, path) \in Clusters
         /\ \E c, j : PathSlot(d, path, c, j)
<1> DEFINE s == ParentCluster(d, path)
<1>1. PICK k : Found(d, s, Last(path), k) /\ EntryAt(d, path) = SlotsOf(d, s)[k]
  BY PathFound
<1>2. /\ k \in DOMAIN SlotsOf(d, s) /\ IsEntry(SlotsOf(d, s)[k])
      /\ SlotsOf(d, s)[k].name = Last(path)
  BY <1>1 DEF Found, Named
<1>3. /\ s \in Clusters /\ HomeOf(d, s, k) \in Range(read_chain(d, s))
      /\ PlaceAt(k) \in Places /\ SlotsOf(d, s)[k] = d.data[HomeOf(d, s, k)][PlaceAt(k)]
  BY <1>2, SlotHome
<1>4. PathSlot(d, path, HomeOf(d, s, k), PlaceAt(k))
  BY <1>1, <1>2, <1>3 DEF PathSlot, EntryIn
<1> QED BY <1>3, <1>4

(* Every path leads to no cluster or to a top. *)
Headed(d, L, p) ==
  EntryAt(d, p) # End => EntryAt(d, p).cluster = 0 \/ Top(d, L, EntryAt(d, p).cluster)

LEMMA PathHead ==
  ASSUME NEW d \in Disk, NEW L, Forest(d, L), NEW path \in Seq(Names)
  PROVE  Headed(d, L, path)
<1> DEFINE S == {n \in Nat : \A p \in Seq(Names) : Len(p) = n => Headed(d, L, p)}
           N == Len(path)
<1>1. 0 \in S
  <2> SUFFICES ASSUME NEW p \in Seq(Names), Len(p) = 0 PROVE Headed(d, L, p)
    OBVIOUS
  <2>1. p = <<>>
    OBVIOUS
  <2>2. EntryAt(d, p).cluster = Root
    BY <2>1, EntryAtRoot, SpecialSlots
  <2> QED BY <2>2 DEF Headed, Forest, ForestTable
<1>2. ASSUME NEW n \in 1 .. N, n - 1 \in S PROVE n \in S
  <2> SUFFICES ASSUME NEW p \in Seq(Names), Len(p) = n, EntryAt(d, p) # End
               PROVE  EntryAt(d, p).cluster = 0 \/ Top(d, L, EntryAt(d, p).cluster)
    BY DEF Headed
  <2>1. p # <<>>
    OBVIOUS
  <2> DEFINE up == Front(p)
             s == ParentCluster(d, p)
  <2>2. up \in Seq(Names) /\ Len(up) = n - 1
    BY <2>1, EntryAtStep
  <2>3. EntryAt(d, up) # End /\ s = EntryAt(d, up).cluster
    BY <2>1, PathFound DEF HasParent, ParentCluster
  <2>4. s \in Clusters
    BY <2>1, PathSlotFound
  <2>5. PICK c, j : PathSlot(d, p, c, j)
    BY <2>1, PathSlotFound
  <2>6. Headed(d, L, up)
    BY <1>2, <2>2
  <2> HIDE DEF up, s
  <2>7. Top(d, L, s)
    BY <2>3, <2>4, <2>6, ClusterFacts DEF Headed
  <2>8. c \in L
    BY <2>5, <2>7, ChainIn DEF PathSlot, Forest, Top, s
  <2> QED BY <2>5, <2>8 DEF PathSlot, Forest, ForestEntries, HeadIn
<1>3. N \in S
  <2>1. N \in Nat
    OBVIOUS
  <2> HIDE DEF S, N
  <2> QED BY <1>1, <1>2, <2>1, UpTo, Zenon
<1> QED BY <1>3

(* The parent of what a path leads to is a top, and the entry lies in L. *)
LEMMA ParentHead ==
  ASSUME NEW d \in Disk, NEW L, Forest(d, L), NEW path \in Seq(Names), path # <<>>,
         EntryAt(d, path) # End
  PROVE  /\ Top(d, L, ParentCluster(d, path)) /\ EntryAt(d, Front(path)) # End
         /\ ParentCluster(d, path) = EntryAt(d, Front(path)).cluster
         /\ \E c \in L, j \in Places : PathSlot(d, path, c, j)
<1> DEFINE up == Front(path)
           s == ParentCluster(d, path)
<1>1. up \in Seq(Names)
  BY EntryAtStep
<1>2. EntryAt(d, up) # End /\ s = EntryAt(d, up).cluster
  BY PathFound DEF HasParent, ParentCluster
<1>3. s \in Clusters
  BY PathSlotFound
<1>4. PICK c, j : PathSlot(d, path, c, j)
  BY PathSlotFound
<1>5. Headed(d, L, up)
  BY <1>1, PathHead
<1> HIDE DEF up, s
<1>6. Top(d, L, s)
  BY <1>2, <1>3, <1>5, ClusterFacts DEF Headed
<1>7. c \in L /\ j \in Places
  BY <1>4, <1>6, ChainIn DEF PathSlot, Forest, Top, s
<1> QED BY <1>2, <1>4, <1>6, <1>7 DEF up, s

(* No two paths lead to the same cluster. *)
Alone(d, p) ==
  \A q \in Seq(Names) :
    /\ EntryAt(d, p) # End /\ EntryAt(d, q) # End
    /\ EntryAt(d, p).cluster = EntryAt(d, q).cluster /\ EntryAt(d, p).cluster # 0
    => p = q

LEMMA SamePath ==
  ASSUME NEW p \in Seq(Names), NEW q \in Seq(Names), p # <<>>, q # <<>>,
         Front(p) = Front(q), Last(p) = Last(q)
  PROVE  p = q
<1> DEFINE m == Len(p)
           n == Len(q)
<1>1. m \in Nat \ {0} /\ n \in Nat \ {0}
  OBVIOUS
<1>2. Len(Front(p)) = m - 1 /\ Len(Front(q)) = n - 1
  BY FrontLast
<1>3. m = n
  BY <1>1, <1>2
<1>4. \A i \in 1 .. m - 1 : p[i] = Front(p)[i] /\ q[i] = Front(q)[i]
  BY <1>3, FrontLast
<1>5. p[m] = q[m]
  BY <1>3 DEF Last
<1>6. \A i \in 1 .. m : p[i] = q[i]
  BY <1>1, <1>4, <1>5
<1> QED BY <1>3, <1>6

LEMMA PathsApart ==
  ASSUME NEW d \in Disk, NEW L, Forest(d, L), NEW path \in Seq(Names)
  PROVE  Alone(d, path)
<1> DEFINE S == {n \in Nat : \A p \in Seq(Names) : Len(p) = n => Alone(d, p)}
           N == Len(path)
<1>0. EntryAt(d, <<>>).cluster = Root /\ Root # 0
  BY EntryAtRoot, SpecialSlots, ClusterFacts
<1>1. ASSUME NEW p \in Seq(Names), p # <<>>, EntryAt(d, p) # End PROVE EntryAt(d, p).cluster # Root
  <2>1. PICK c \in L, j \in Places : PathSlot(d, p, c, j)
    BY <1>1, ParentHead
  <2> QED BY <1>0, <2>1 DEF PathSlot, Forest, ForestEntries, HeadIn
<1>2. 0 \in S
  <2> SUFFICES ASSUME NEW p \in Seq(Names), Len(p) = 0, NEW q \in Seq(Names),
                      EntryAt(d, q) # End, EntryAt(d, p).cluster = EntryAt(d, q).cluster
               PROVE  p = q
    BY DEF Alone
  <2>1. p = <<>>
    OBVIOUS
  <2> QED BY <1>0, <1>1, <2>1
<1>3. ASSUME NEW n \in 1 .. N, n - 1 \in S PROVE n \in S
  <2> SUFFICES ASSUME NEW p \in Seq(Names), Len(p) = n, NEW q \in Seq(Names),
                      EntryAt(d, p) # End, EntryAt(d, q) # End,
                      EntryAt(d, p).cluster = EntryAt(d, q).cluster, EntryAt(d, p).cluster # 0
               PROVE  p = q
    BY DEF Alone
  <2>1. p # <<>>
    OBVIOUS
  <2>2. q # <<>>
    BY <1>0, <1>1, <2>1
  <2>3. PICK c \in L, j \in Places : PathSlot(d, p, c, j)
    BY <2>1, ParentHead
  <2>4. PICK e \in L, k \in Places : PathSlot(d, q, e, k)
    BY <2>2, ParentHead
  <2>5. c = e /\ j = k
    BY <2>3, <2>4 DEF PathSlot, Forest, ForestEntries, HeadIn
  <2> DEFINE s == ParentCluster(d, p)
             t == ParentCluster(d, q)
  <2>6. /\ Top(d, L, s) /\ EntryAt(d, Front(p)) # End /\ s = EntryAt(d, Front(p)).cluster
        /\ Top(d, L, t) /\ EntryAt(d, Front(q)) # End /\ t = EntryAt(d, Front(q)).cluster
    BY <2>1, <2>2, ParentHead
  <2>7. c \in Range(read_chain(d, s)) /\ c \in Range(read_chain(d, t))
    BY <2>3, <2>4, <2>5 DEF PathSlot
  <2> HIDE DEF s, t
  <2>8. s = t
    BY <2>6, <2>7, ChainsApart DEF Forest
  <2>9. s # 0
    BY <2>6, ClusterFacts DEF Top, Forest, ForestTable
  <2>10. /\ Front(p) \in Seq(Names) /\ Len(Front(p)) = n - 1 /\ Front(q) \in Seq(Names)
    BY <2>1, <2>2, EntryAtStep
  <2>11. Alone(d, Front(p))
    BY <1>3, <2>10
  <2>12. Front(p) = Front(q)
    BY <2>6, <2>8, <2>9, <2>10, <2>11 DEF Alone
  <2>13. Last(p) = Last(q)
    BY <2>3, <2>4, <2>5 DEF PathSlot
  <2> QED BY <2>1, <2>2, <2>12, <2>13, SamePath
<1>4. N \in S
  <2>1. N \in Nat
    OBVIOUS
  <2> HIDE DEF S, N
  <2> QED BY <1>2, <1>3, <2>1, UpTo, Zenon
<1> QED BY <1>4

(* What is read of a chain depends on its own clusters only. *)
LEMMA ChainKept ==
  ASSUME NEW d, NEW e, NEW x, Same(d, e, Range(read_chain(d, x)))
  PROVE  read_chain(e, x) = read_chain(d, x)
<1>1. CASE x \notin Clusters
  BY <1>1, NoChain
<1>2. CASE x \in Clusters
  <2> DEFINE c == read_chain(d, x)
             b == read_chain(e, x)
  <2>1. IsChain(d, x, c) /\ IsChain(e, x, b)
    BY <1>2, ReadChain
  <2>2. Range(c) = {c[i] : i \in 1 .. Len(c)}
    BY ChainType
  <2> HIDE DEF c, b
  <2>3. \A i \in 1 .. Len(c) : e.fat[c[i]] = d.fat[c[i]]
    BY <2>2 DEF Same, c
  <2>4. b = c
    BY <2>1, <2>3, ChainAgrees
  <2> QED BY <2>4 DEF b, c
<1> QED BY <1>1, <1>2

LEMMA SlotsKept ==
  ASSUME NEW d \in Disk, NEW e \in Disk, NEW x, Same(d, e, Range(read_chain(d, x)))
  PROVE  SlotsOf(e, x) = SlotsOf(d, x)
<1> DEFINE c == read_chain(d, x)
           m == Len(c) * SlotsPerBlock
           f == [k \in 1 .. m |-> d.data[c[BlockAt(k)]][PlaceAt(k)]]
           g == [k \in 1 .. m |-> e.data[c[BlockAt(k)]][PlaceAt(k)]]
<1>1. read_chain(e, x) = c
  BY ChainKept
<1>2. SlotsOf(d, x) = f
  BY Zenon DEF SlotsOf
<1>3. SlotsOf(e, x) = g
  BY <1>1, Zenon DEF SlotsOf
<1>4. ASSUME NEW k \in 1 .. m PROVE d.data[c[BlockAt(k)]] = e.data[c[BlockAt(k)]]
  <2>1. DOMAIN SlotsOf(d, x) = 1 .. m
    BY SlotsOfType
  <2>2. c[BlockAt(k)] \in Range(c)
    BY <2>1, SlotHome DEF HomeOf
  <2> HIDE DEF c
  <2> QED BY <2>2 DEF Same, c
<1> HIDE DEF m, c
<1> QED BY <1>2, <1>3, <1>4

LEMMA FindKept ==
  ASSUME NEW d \in Disk, NEW e \in Disk, NEW x, Same(d, e, Range(read_chain(d, x))), NEW name
  PROVE  find_entry(e, x, name) = find_entry(d, x, name)
<1>1. SlotsOf(e, x) = SlotsOf(d, x)
  BY SlotsKept
<1> QED BY <1>1, Zenon DEF find_entry

(* A path still leads where it led when nothing changed outside the chain  *)
(* it leads to: the chains above it are other ones.                        *)
LEMMA PathKept ==
  ASSUME NEW d \in Disk, NEW e \in Disk, NEW L, Forest(d, L), NEW path \in Seq(Names),
         EntryAt(d, path) # End, EntryAt(d, path).cluster # 0,
         Same(d, e, L \ Range(read_chain(d, EntryAt(d, path).cluster)))
  PROVE  EntryAt(e, path) = EntryAt(d, path)
<1> DEFINE N == Len(path)
           x == EntryAt(d, path).cluster
           Kept(p) == EntryAt(d, p) # End => EntryAt(e, p) = EntryAt(d, p)
           S == {n \in Nat : \A p \in Seq(Names) : Len(p) = n => Kept(p)}
<1>0. Top(d, L, x) /\ Alone(d, path) /\ N \in Nat
  BY PathHead, PathsApart DEF Headed
<1>1. 0 \in S
  <2> SUFFICES ASSUME NEW p \in Seq(Names), Len(p) = 0 PROVE Kept(p)
    OBVIOUS
  <2>1. p = <<>>
    OBVIOUS
  <2> QED BY <2>1, EntryAtRoot
<1> HIDE DEF x
<1>2. ASSUME NEW n \in 1 .. N, n - 1 \in S PROVE n \in S
  <2> SUFFICES ASSUME NEW p \in Seq(Names), Len(p) = n, EntryAt(d, p) # End
               PROVE  EntryAt(e, p) = EntryAt(d, p)
    OBVIOUS
  <2>1. p # <<>>
    OBVIOUS
  <2> DEFINE up == Front(p)
             s == ParentCluster(d, p)
             name == Last(p)
  <2>2. up \in Seq(Names) /\ Len(up) = n - 1
    BY <2>1, EntryAtStep
  <2>3. Top(d, L, s) /\ EntryAt(d, up) # End /\ s = EntryAt(d, up).cluster
    BY <2>1, ParentHead
  <2>4. EntryAt(e, up) = EntryAt(d, up)
    BY <1>2, <2>2, <2>3
  <2>5. EntryAt(d, p) = find_entry(d, s, name)
    BY <2>1, PathFound
  <2>6. EntryAt(e, p) = find_entry(e, s, name)
    <3>1. EntryAt(e, p) = IF EntryAt(e, up) = End THEN End
                          ELSE find_entry(e, EntryAt(e, up).cluster, name)
      BY <2>1, EntryAtStep
    <3> HIDE DEF up, s, name
    <3> QED BY <2>3, <2>4, <3>1
  <2>7. up # path
    BY <1>0, <2>2
  <2> HIDE DEF up, s, name
  <2>8. s # x
    BY <1>0, <2>2, <2>3, <2>7 DEF Alone, x
  <2>9. Range(read_chain(d, s)) \subseteq L \ Range(read_chain(d, x))
    <3>1. Range(read_chain(d, s)) \subseteq L
      BY <2>3, ChainIn DEF Top, Forest
    <3>2. \A z \in Range(read_chain(d, s)) : z \notin Range(read_chain(d, x))
      BY <1>0, <2>3, <2>8, ChainsApart DEF Forest
    <3> QED BY <3>1, <3>2
  <2>10. Same(d, e, Range(read_chain(d, s)))
    BY <2>9 DEF Same, x
  <2>11. find_entry(e, s, name) = find_entry(d, s, name)
    BY <2>10, FindKept
  <2> QED BY <2>5, <2>6, <2>11
<1>3. N \in S
  <2> HIDE DEF S, N
  <2> QED BY <1>0, <1>1, <1>2, UpTo, Zenon
<1> QED BY <1>3

(* In a forest no two paths share a cluster. *)
LEMMA ForestApart ==
  ASSUME NEW d \in Disk, NEW L, Forest(d, L), NEW p \in Seq(Names), NEW q \in Seq(Names),
         p # q, EntryAt(d, q) # End
  PROVE  Range(read_chain(d, EntryAt(d, p).cluster)) \cap
           Range(read_chain(d, EntryAt(d, q).cluster)) = {}
<1> DEFINE x == EntryAt(d, p).cluster
           y == EntryAt(d, q).cluster
<1> SUFFICES ASSUME NEW z \in Range(read_chain(d, x)), z \in Range(read_chain(d, y))
             PROVE  FALSE
  OBVIOUS
<1>2. x \in Clusters /\ y \in Clusters
  <2>1. ASSUME NEW u, u \notin Clusters PROVE Range(read_chain(d, u)) = {}
    BY <2>1, NoChain DEF Range
  <2> QED BY <2>1
<1>3. x # 0 /\ y # 0 /\ EntryAt(d, p) # End
  BY <1>2, ClusterFacts, SpecialSlots
<1>4. Top(d, L, x) /\ Top(d, L, y)
  BY <1>3, PathHead DEF Headed
<1>5. x = y
  <2> HIDE DEF x, y
  <2> QED BY <1>4, ChainsApart DEF Forest
<1>6. Alone(d, p)
  BY PathsApart
<1> QED BY <1>3, <1>5, <1>6 DEF Alone

LEMMA SurveyClusters ==
  ASSUME view = Survey(disk), NEW p \in Paths
  PROVE  view[p].clusters = Range(read_chain(disk, EntryAt(disk, p).cluster))
<1>1. view[p] = Look(disk, p)
  BY DEF Survey
<1> QED BY <1>1 DEF Look

LEMMA ForestNoCrossLinks ==
  ASSUME disk \in Disk, view = Survey(disk), NEW L, Forest(disk, L)
  PROVE  NoCrossLinks
<1> SUFFICES ASSUME NEW p \in Paths, NEW q \in Paths
             PROVE  /\ view[p].clusters \cap RootClusters(disk) = {}
                    /\ p # q => view[p].clusters \cap view[q].clusters = {}
  BY DEF NoCrossLinks
<1>1. view[p].clusters \cap RootClusters(disk) = {}
  <2> DEFINE root == <<>>
  <2>1. root \in Seq(Names) /\ p # root /\ p \in Seq(Names)
    BY PathFacts
  <2>2. EntryAt(disk, root) # End /\ EntryAt(disk, root).cluster = Root
    BY EntryAtRoot, SpecialSlots
  <2> HIDE DEF root
  <2>3. Range(read_chain(disk, EntryAt(disk, p).cluster)) \cap
          Range(read_chain(disk, EntryAt(disk, root).cluster)) = {}
    BY <2>1, <2>2, ForestApart
  <2> QED BY <2>2, <2>3, SurveyClusters DEF RootClusters
<1>2. ASSUME p # q PROVE view[p].clusters \cap view[q].clusters = {}
  <2>1. CASE EntryAt(disk, q) = End
    <3>1. EntryAt(disk, q).cluster \notin Clusters
      BY <2>1, SpecialSlots, ClusterFacts
    <3>2. view[q].clusters = {}
      BY <3>1, SurveyClusters, NoChain DEF Range
    <3> QED BY <3>2
  <2>2. CASE EntryAt(disk, q) # End
    <3>1. p \in Seq(Names) /\ q \in Seq(Names)
      BY PathFacts
    <3> QED BY <1>2, <2>2, <3>1, ForestApart, SurveyClusters
  <2> QED BY <2>1, <2>2
<1> QED BY <1>1, <1>2

-----------------------------------------------------------------------------
(***************************************************************************)
(* What the operations do to the forest.                                   *)
(***************************************************************************)
LEMMA ForestSame ==
  ASSUME NEW d, NEW e, NEW L, Forest(d, L), Same(d, e, L)
  PROVE  Forest(e, L)
<1>1. \A c \in L : \A z : Links(e, c, z) <=> Links(d, c, z)
  BY DEF Same, Links
<1>2. \A x : Top(e, L, x) <=> Top(d, L, x)
  BY <1>1 DEF Top
<1>3. \A c \in L : \A j : (EntryIn(e, c, j) <=> EntryIn(d, c, j)) /\ HeadIn(e, c, j) = HeadIn(d, c, j)
  BY DEF Same, EntryIn, HeadIn
<1>4. ForestTable(e, L)
  BY <1>1, <1>2 DEF Forest, ForestTable, Same
<1>5. ForestEntries(e, L)
  BY <1>2, <1>3 DEF Forest, ForestEntries
<1> QED BY <1>4, <1>5 DEF Forest

(* An entry is removed: its chain leaves the forest. *)
LEMMA ForestDrop ==
  ASSUME NEW d, NEW e, NEW L, Forest(d, L), NEW c \in L, NEW j \in Places,
         EntryIn(d, c, j), NEW slot, ~IsEntry(slot), NEW C,
         C = Range(read_chain(d, HeadIn(d, c, j))), c \notin C,
         Changed(d, e, L \ C, c, j, slot)
  PROVE  Forest(e, L \ C)
<1> DEFINE h == HeadIn(d, c, j)
           M == L \ C
<1>0. ForestTable(d, L) /\ ForestEntries(d, L)
  BY DEF Forest
<1>1. h # 0 => /\ Top(d, L, h) /\ h # Root
               /\ \A b \in L, k \in Places : EntryIn(d, b, k) /\ HeadIn(d, b, k) = h => b = c /\ k = j
  BY <1>0 DEF ForestEntries
<1>2. h = 0 => C = {}
  BY NoChain, ClusterFacts DEF Range
<1>3. ASSUME NEW x, Top(d, L, x), x # h PROVE Top(d, M, x)
  <2>1. x \in L /\ x \in Range(read_chain(d, x))
    <3>1. x \in L
      BY <1>3 DEF Top
    <3> DEFINE a == read_chain(d, x)
    <3>2. IsChain(d, x, a) /\ Range(a) = {a[i] : i \in 1 .. Len(a)}
      BY <1>0, <3>1, ChainIn, ChainType
    <3> HIDE DEF a
    <3>3. a[1] = x /\ 1 \in 1 .. Len(a)
      BY <3>2 DEF IsChain, Follows
    <3> QED BY <3>1, <3>2, <3>3 DEF a
  <2>2. x \notin C
    <3> HIDE DEF h
    <3> QED BY <1>0, <1>1, <1>2, <1>3, <2>1, ChainsApart DEF h
  <2> QED BY <1>3, <2>1, <2>2 DEF Top
<1>4. ASSUME NEW a \in M PROVE d.fat[a] \in M \cup {EOC}
  <2> SUFFICES ASSUME d.fat[a] \in C PROVE FALSE
    BY <1>0 DEF ForestTable
  <2> DEFINE b == read_chain(d, h)
             z == d.fat[a]
  <2>1. h # 0 /\ Top(d, L, h)
    BY <1>1, <1>2
  <2>2. IsChain(d, h, b) /\ (\A i \in 1 .. Len(b) : b[i] \in L) /\ C = {b[i] : i \in 1 .. Len(b)}
    BY <1>0, <2>1, ChainIn, ChainType DEF Top
  <2> HIDE DEF b, h
  <2>3. PICK i \in 1 .. Len(b) : z = b[i]
    BY <2>2
  <2>4. Links(d, a, z) /\ a \in L
    BY DEF Links
  <2>5. CASE i = 1
    <3>1. z = h
      BY <2>2, <2>3, <2>5 DEF IsChain, Follows
    <3> QED BY <2>1, <2>4, <3>1 DEF Top
  <2>6. CASE i # 1
    <3>1. i - 1 \in 1 .. Len(b) /\ Links(d, b[i - 1], b[i])
      BY <2>2, <2>6, ChainLinks
    <3>2. a = b[i - 1]
      BY <1>0, <2>2, <2>3, <2>4, <3>1 DEF ForestTable
    <3> QED BY <2>2, <3>1, <3>2
  <2> QED BY <2>5, <2>6
<1>5. \A a \in M : e.fat[a] = d.fat[a] /\ \A z : Links(e, a, z) <=> Links(d, a, z)
  BY DEF Changed, Links
<1>6. \A x : Top(d, M, x) => Top(e, M, x)
  BY <1>5 DEF Top
<1>7. ForestTable(e, M)
  <2>1. M \subseteq Clusters /\ M \subseteq L
    BY <1>0 DEF ForestTable
  <2>2. Top(e, M, Root)
    <3>1. Top(d, L, Root) /\ Root # h
      BY <1>0, <1>1, ClusterFacts DEF ForestTable
    <3> QED BY <1>3, <1>6, <3>1
  <2>3. \A a \in M : e.fat[a] \in M \cup {EOC}
    BY <1>4, <1>5
  <2>4. \A a, b, x \in M : Links(e, a, x) /\ Links(e, b, x) => a = b
    BY <1>0, <1>5, <2>1 DEF ForestTable
  <2> HIDE DEF M
  <2> QED BY <2>1, <2>2, <2>3, <2>4 DEF ForestTable
<1>8. \A a \in M, k \in Places :
        EntryIn(e, a, k) => /\ a # c \/ k # j
                            /\ EntryIn(d, a, k) /\ HeadIn(e, a, k) = HeadIn(d, a, k)
  BY DEF Changed, EntryIn, HeadIn
<1>9. ForestEntries(e, M)
  <2> SUFFICES ASSUME NEW a \in M, NEW k \in Places, EntryIn(e, a, k), HeadIn(e, a, k) # 0
               PROVE  /\ Top(e, M, HeadIn(e, a, k)) /\ HeadIn(e, a, k) # Root
                      /\ \A b \in M, i \in Places :
                           EntryIn(e, b, i) /\ HeadIn(e, b, i) = HeadIn(e, a, k) => b = a /\ i = k
    BY DEF ForestEntries
  <2>1. EntryIn(d, a, k) /\ HeadIn(e, a, k) = HeadIn(d, a, k) /\ (a # c \/ k # j) /\ a \in L
    BY <1>8
  <2>2. HeadIn(d, a, k) # h
    BY <1>1, <2>1
  <2>3. /\ Top(d, L, HeadIn(d, a, k)) /\ HeadIn(d, a, k) # Root
        /\ \A b \in L, i \in Places :
             EntryIn(d, b, i) /\ HeadIn(d, b, i) = HeadIn(d, a, k) => b = a /\ i = k
    BY <1>0, <2>1 DEF ForestEntries
  <2>4. Top(e, M, HeadIn(e, a, k))
    BY <1>3, <1>6, <2>1, <2>2, <2>3
  <2> QED BY <1>8, <2>1, <2>3, <2>4
<1> QED BY <1>7, <1>9 DEF Forest

(* An entry for it is put where none was. *)
LEMMA ForestPut ==
  ASSUME NEW d, NEW e, NEW L, Forest(d, L), NEW c \in L, NEW j \in Places,
         ~EntryIn(d, c, j), NEW slot, IsEntry(slot), NEW C, Loose(e, L, C, slot.cluster),
         Changed(d, e, L, c, j, slot)
  PROVE  Forest(e, L \cup C)
<1> DEFINE x == slot.cluster
           M == L \cup C
<1>0. ForestTable(d, L) /\ ForestEntries(d, L)
  BY DEF Forest
<1>1. \A a \in L : e.fat[a] = d.fat[a] /\ \A z : Links(e, a, z) <=> Links(d, a, z)
  BY DEF Changed, Links
<1>2. /\ \A a \in L : \A z \in C : ~Links(e, a, z)
      /\ \A a \in C : \A z \in L : ~Links(e, a, z)
  <2>1. EOC \notin L /\ EOC \notin C
    BY <1>0, ClusterFacts DEF ForestTable, Loose
  <2> QED BY <1>0, <1>1, <2>1 DEF ForestTable, Loose, Links
<1>3. ASSUME NEW y, Top(d, L, y) PROVE Top(e, M, y)
  BY <1>1, <1>2, <1>3 DEF Top
<1>4. Top(e, M, x)
  BY <1>2 DEF Top, Loose
<1>5. ForestTable(e, M)
  <2>1. M \subseteq Clusters
    BY <1>0 DEF ForestTable, Loose
  <2>2. Top(e, M, Root)
    BY <1>0, <1>3 DEF ForestTable
  <2>3. \A a \in M : e.fat[a] \in M \cup {EOC}
    BY <1>0, <1>1 DEF ForestTable, Loose
  <2>4. \A a, b, z \in M : Links(e, a, z) /\ Links(e, b, z) => a = b
    <3> SUFFICES ASSUME NEW a \in M, NEW b \in M, NEW z \in M, Links(e, a, z), Links(e, b, z)
                 PROVE  a = b
      OBVIOUS
    <3>1. CASE z \in L
      <4>1. a \in L /\ b \in L
        BY <1>2, <3>1
      <4> QED BY <1>0, <1>1, <3>1, <4>1 DEF ForestTable
    <3>2. CASE z \in C
      <4>1. a \in C /\ b \in C
        BY <1>2, <3>2
      <4> QED BY <3>2, <4>1 DEF Loose
    <3> QED BY <3>1, <3>2
  <2> HIDE DEF M
  <2> QED BY <2>1, <2>2, <2>3, <2>4 DEF ForestTable
<1>6. \A a \in M, k \in Places :
        EntryIn(e, a, k) => \/ a = c /\ k = j /\ HeadIn(e, a, k) = x
                            \/ /\ a \in L /\ EntryIn(d, a, k) /\ HeadIn(e, a, k) = HeadIn(d, a, k)
                               /\ a # c \/ k # j
  <2>1. \A a \in C, k \in Places : ~EntryIn(e, a, k)
    BY DEF Loose, Plain, EntryIn
  <2> QED BY <2>1 DEF Changed, EntryIn, HeadIn
<1>7. \A a \in L, k \in Places : EntryIn(d, a, k) => HeadIn(d, a, k) \in L \cup {0}
  BY <1>0 DEF ForestEntries, Top
<1>8. x \in C /\ x \notin L /\ x # 0 /\ x # Root
  BY <1>0, ClusterFacts DEF Loose, Top, ForestTable
<1>9. ForestEntries(e, M)
  <2> SUFFICES ASSUME NEW a \in M, NEW k \in Places, EntryIn(e, a, k), HeadIn(e, a, k) # 0
               PROVE  /\ Top(e, M, HeadIn(e, a, k)) /\ HeadIn(e, a, k) # Root
                      /\ \A b \in M, i \in Places :
                           EntryIn(e, b, i) /\ HeadIn(e, b, i) = HeadIn(e, a, k) => b = a /\ i = k
    BY DEF ForestEntries
  <2> HIDE DEF x, M
  <2>1. CASE a = c /\ k = j
    <3>1. HeadIn(e, a, k) = x
      BY <1>6, <2>1
    <3>2. ASSUME NEW b \in M, NEW i \in Places, EntryIn(e, b, i), HeadIn(e, b, i) = x
          PROVE  b = a /\ i = k
      BY <1>6, <1>7, <1>8, <2>1, <3>2
    <3> QED BY <1>4, <1>8, <3>1, <3>2
  <2>2. CASE ~(a = c /\ k = j)
    <3>1. a \in L /\ EntryIn(d, a, k) /\ HeadIn(e, a, k) = HeadIn(d, a, k)
      BY <1>6, <2>2
    <3>2. /\ Top(d, L, HeadIn(d, a, k)) /\ HeadIn(d, a, k) # Root
          /\ \A b \in L, i \in Places :
               EntryIn(d, b, i) /\ HeadIn(d, b, i) = HeadIn(d, a, k) => b = a /\ i = k
      BY <1>0, <3>1 DEF ForestEntries
    <3>3. HeadIn(d, a, k) # x
      BY <1>8, <3>2 DEF Top
    <3> QED BY <1>3, <1>6, <3>1, <3>2, <3>3
  <2> QED BY <2>1, <2>2
<1> QED BY <1>5, <1>9 DEF Forest

(* The last cluster of a chain is linked to a new one. *)
LEMMA ForestGrow ==
  ASSUME NEW d, NEW e, NEW L, Forest(d, L), NEW l \in L, d.fat[l] \in {EOC, l},
         NEW n \in Clusters, n \notin L, Same(d, e, L \ {l}),
         e.fat[l] = n, e.data[l] = d.data[l], e.fat[n] \in {EOC, n}, Plain(e.data[n])
  PROVE  Forest(e, L \cup {n})
<1> DEFINE M == L \cup {n}
<1>0. ForestTable(d, L) /\ ForestEntries(d, L) /\ EOC \notin L /\ EOC # n
  BY ClusterFacts DEF Forest, ForestTable
<1>1. /\ \A a \in L : \A z \in L : Links(e, a, z) => Links(d, a, z)
      /\ \A z \in M : ~Links(e, n, z)
      /\ \A a \in M : Links(e, a, n) => a = l
  BY <1>0 DEF Same, Links, ForestTable
<1>2. ASSUME NEW y, Top(d, L, y) PROVE Top(e, M, y)
  BY <1>1, <1>2 DEF Top
<1>3. ForestTable(e, M)
  <2>1. M \subseteq Clusters
    BY <1>0 DEF ForestTable
  <2>2. Top(e, M, Root)
    BY <1>0, <1>2 DEF ForestTable
  <2>3. \A a \in M : e.fat[a] \in M \cup {EOC}
    BY <1>0 DEF ForestTable, Same
  <2>4. \A a, b, z \in M : Links(e, a, z) /\ Links(e, b, z) => a = b
    <3> SUFFICES ASSUME NEW a \in M, NEW b \in M, NEW z \in M, Links(e, a, z), Links(e, b, z)
                 PROVE  a = b
      OBVIOUS
    <3>1. CASE z = n
      BY <1>1, <3>1
    <3>2. CASE z \in L
      BY <1>0, <1>1, <3>2 DEF ForestTable
    <3> QED BY <3>1, <3>2
  <2> HIDE DEF M
  <2> QED BY <2>1, <2>2, <2>3, <2>4 DEF ForestTable
<1>4. \A a \in M, k \in Places :
        EntryIn(e, a, k) => /\ a \in L /\ EntryIn(d, a, k)
                            /\ HeadIn(e, a, k) = HeadIn(d, a, k)
  BY DEF Same, EntryIn, HeadIn, Plain
<1>5. ForestEntries(e, M)
  <2> SUFFICES ASSUME NEW a \in M, NEW k \in Places, EntryIn(e, a, k), HeadIn(e, a, k) # 0
               PROVE  /\ Top(e, M, HeadIn(e, a, k)) /\ HeadIn(e, a, k) # Root
                      /\ \A b \in M, i \in Places :
                           EntryIn(e, b, i) /\ HeadIn(e, b, i) = HeadIn(e, a, k) => b = a /\ i = k
    BY DEF ForestEntries
  <2>1. a \in L /\ EntryIn(d, a, k) /\ HeadIn(e, a, k) = HeadIn(d, a, k)
    BY <1>4
  <2>2. /\ Top(d, L, HeadIn(d, a, k)) /\ HeadIn(d, a, k) # Root
        /\ \A b \in L, i \in Places :
             EntryIn(d, b, i) /\ HeadIn(d, b, i) = HeadIn(d, a, k) => b = a /\ i = k
    BY <1>0, <2>1 DEF ForestEntries
  <2> HIDE DEF M
  <2> QED BY <1>2, <1>4, <2>1, <2>2
<1> QED BY <1>3, <1>5 DEF Forest

LEMMA SlotSet ==
  ASSUME NEW d \in Disk, NEW c \in Clusters, NEW j \in Places, NEW slot \in Slots
  PROVE  /\ SetSlot(d, c, j, slot) \in Disk /\ SetSlot(d, c, j, slot).fat = d.fat
         /\ Changed(d, SetSlot(d, c, j, slot), Clusters, c, j, slot)
         /\ Same(d, SetSlot(d, c, j, slot), Clusters \ {c})
<1> DEFINE b == [d.data[c] EXCEPT ![j] = slot]
<1>1. b \in Blocks /\ \A k \in Places : b[k] = IF k = j THEN slot ELSE d.data[c][k]
  BY DiskFields DEF Blocks
<1>2. SetSlot(d, c, j, slot) = SetData(d, c, b)
  BY DEF SetSlot
<1> HIDE DEF b
<1>3. /\ SetData(d, c, b) \in Disk /\ SetData(d, c, b).fat = d.fat
      /\ \A e \in Clusters : SetData(d, c, b).data[e] = IF e = c THEN b ELSE d.data[e]
  <2>1. SetData(d, c, b) \in Disk
    BY <1>1, SetDataType
  <2>2. /\ SetData(d, c, b).fat = d.fat
        /\ \A e \in Clusters : SetData(d, c, b).data[e] = IF e = c THEN b ELSE d.data[e]
    BY <1>1, SetDataAt
  <2> QED BY <2>1, <2>2
<1> QED BY <1>1, <1>2, <1>3 DEF Changed, Same

LEMMA ChainOfTwo ==
  ASSUME NEW d, NEW x \in Clusters, NEW y \in Clusters, x # y, d.fat[x] = y,
         d.fat[y] \notin Clusters \/ d.fat[y] = y
  PROVE  Range(read_chain(d, x)) = {x, y}
<1> DEFINE one == <<x>>
           two == Append(one, y)
<1>1. Follows(d, x, one) /\ Len(one) = 1 /\ one[1] = x
  BY FollowsOne
<1>2. Len(two) = 2 /\ two[1] = x /\ two[2] = y /\ two \in Seq(Clusters)
  OBVIOUS
<1>3. ~Ended(d, one)
  BY <1>1 DEF Ended
<1>4. two = Append(one, d.fat[one[Len(one)]])
  BY <1>1
<1> HIDE DEF one, two
<1>5. Follows(d, x, two)
  BY <1>1, <1>3, <1>4, FollowsOn
<1>6. Ended(d, two)
  BY <1>2 DEF Ended
<1>7. read_chain(d, x) = two
  BY <1>5, <1>6, ReadChain, ChainAgrees DEF IsChain
<1>8. Range(two) = {two[1], two[2]}
  BY <1>2 DEF Range
<1> QED BY <1>2, <1>7, <1>8

LEMMA ChainFirst ==
  ASSUME NEW d, NEW x \in Clusters
  PROVE  x \in Range(read_chain(d, x))
<1> DEFINE a == read_chain(d, x)
<1>1. IsChain(d, x, a) /\ Range(a) = {a[i] : i \in 1 .. Len(a)}
  BY ReadChain, ChainType
<1> HIDE DEF a
<1>2. a[1] = x /\ 1 \in 1 .. Len(a)
  BY <1>1 DEF IsChain, Follows
<1> QED BY <1>1, <1>2 DEF a

(* A chain in freshly allocated clusters that runs into no free one. *)
LEMMA LooseFresh ==
  ASSUME NEW e, NEW L, NEW x \in Clusters, NEW y \in Clusters, x \notin L, y \notin L,
         Fresh(e, x, y), NEW h \in {x, y},
         \A z \in Range(read_chain(e, h)) : e.fat[z] # FREE
  PROVE  Loose(e, L, Range(read_chain(e, h)), h)
<1> DEFINE C == Range(read_chain(e, h))
<1>0. FREE \notin Clusters /\ EOC \notin Clusters /\ h \in C
  BY ClusterFacts, ChainFirst
<1>1. CASE e.fat[h] \notin Clusters \/ e.fat[h] = h
  <2>1. C = {h}
    <3> DEFINE one == <<h>>
    <3>1. read_chain(e, h) = one
      BY <1>1, ChainOfOne
    <3>2. Range(one) = {h}
      BY DEF Range
    <3> QED BY <3>1, <3>2
  <2>2. e.fat[h] \in {h, EOC}
    BY <1>0, <1>1 DEF Fresh
  <2> HIDE DEF C
  <2> QED BY <2>1, <2>2 DEF Loose, Top, Links, Fresh, C
<1>2. CASE ~(e.fat[h] \notin Clusters \/ e.fat[h] = h)
  <2>1. h = x /\ x # y /\ e.fat[x] = y
    BY <1>0, <1>2 DEF Fresh
  <2>2. e.fat[y] \notin Clusters \/ e.fat[y] = y
    BY <1>0 DEF Fresh
  <2>3. C = {x, y}
    BY <2>1, <2>2, ChainOfTwo
  <2>4. e.fat[y] \in {y, EOC}
    BY <2>3 DEF Fresh
  <2> HIDE DEF C
  <2> QED BY <1>0, <2>1, <2>3, <2>4 DEF Loose, Top, Links, Fresh, C
<1> QED BY <1>1, <1>2

(* A cluster of the forest is not free. *)
LEMMA ForestUsed ==
  ASSUME NEW d, NEW L, Forest(d, L)
  PROVE  /\ L \cap FreeClusters(d) = {} /\ L \subseteq Clusters
         /\ \A z \in L : d.fat[z] # FREE
BY ClusterFacts DEF Forest, ForestTable, FreeClusters

LEMMA ChainFat ==
  ASSUME NEW d, NEW e, NEW x, e.fat = d.fat
  PROVE  read_chain(e, x) = read_chain(d, x)
<1>1. CASE x \notin Clusters
  BY <1>1, NoChain
<1>2. CASE x \in Clusters
  <2>1. IsChain(d, x, read_chain(d, x)) /\ IsChain(e, x, read_chain(e, x))
    BY <1>2, ReadChain
  <2> QED BY <2>1, ChainAgrees
<1> QED BY <1>1, <1>2

LEMMA PathPlaced ==
  ASSUME NEW d \in Disk, NEW L, Forest(d, L), NEW path \in Seq(Names), path # <<>>,
         EntryAt(d, path) # End
  PROVE  \E c, j : Placed(d, L, path, c, j)
<1> DEFINE s == ParentCluster(d, path)
           i == EntrySlot(d, s, Last(path))
           h == EntryAt(d, path).cluster
           c == HomeOf(d, s, i)
           j == PlaceAt(i)
           up == Front(path)
<1>1. PICK k : Found(d, s, Last(path), k) /\ EntryAt(d, path) = SlotsOf(d, s)[k]
  BY PathFound
<1>2. i = k /\ i # 0
  BY <1>1, EntrySlotFound
<1>3. i \in DOMAIN SlotsOf(d, s) /\ IsEntry(SlotsOf(d, s)[i]) /\ SlotsOf(d, s)[i] = EntryAt(d, path)
  BY <1>1, <1>2 DEF Found, Named
<1> HIDE DEF i
<1>4. /\ s \in Clusters /\ c \in Range(read_chain(d, s)) /\ c \in Clusters /\ j \in Places
      /\ d.data[c][j] = EntryAt(d, path)
  BY <1>3, SlotHome
<1>5. Top(d, L, s) /\ EntryAt(d, up) # End /\ s = EntryAt(d, up).cluster
  BY ParentHead
<1>6. up \in Seq(Names) /\ up # path
  <2>1. Len(up) = Len(path) - 1 /\ Len(path) \in Nat /\ up \in Seq(Names)
    BY EntryAtStep
  <2>2. Len(up) # Len(path)
    BY <2>1
  <2> QED BY <2>1, <2>2
<1>7. Range(read_chain(d, s)) \subseteq L
  BY <1>5, ChainIn DEF Top, Forest
<1>8. ASSUME NEW z \in Range(read_chain(d, s)), z \in Range(read_chain(d, h)) PROVE FALSE
  <2>1. h # 0
    <3> SUFFICES ASSUME h = 0 PROVE FALSE
      OBVIOUS
    <3>1. Range(read_chain(d, h)) = {}
      BY NoChain, ClusterFacts DEF Range
    <3> QED BY <1>8, <3>1
  <2>2. Top(d, L, h)
    BY <2>1, PathHead DEF Headed
  <2>3. s # h
    BY <1>5, <1>6, <2>1, PathsApart DEF Alone
  <2> HIDE DEF s, h
  <2> QED BY <1>5, <1>8, <2>2, <2>3, ChainsApart DEF Forest
<1>9. Range(read_chain(d, s)) \subseteq L \ Range(read_chain(d, h))
  BY <1>7, <1>8
<1>10. Placed(d, L, path, c, j)
  BY <1>2, <1>3, <1>4, <1>7, <1>9 DEF Placed, EntryIn, i
<1> QED BY <1>10

-----------------------------------------------------------------------------
(***************************************************************************)
(* Directories in order.                                                   *)
(***************************************************************************)
LEMMA DirectoryTop ==
  ASSUME NEW d, NEW L, Forest(d, L), NEW x, IsDirectory(d, L, x)
  PROVE  x = 0 \/ Top(d, L, x)
BY DEF IsDirectory, Forest, ForestTable, ForestEntries

(* Slots without entries. *)
LEMMA OrderlyPlain ==
  ASSUME NEW e \in Disk, NEW x, \A z \in Range(read_chain(e, x)) : Plain(e.data[z])
  PROVE  Orderly(SlotsOf(e, x))
<1>1. ASSUME NEW k \in DOMAIN SlotsOf(e, x) PROVE ~IsEntry(SlotsOf(e, x)[k])
  BY SlotHome DEF Plain
<1> QED BY <1>1 DEF Orderly

LEMMA OrderlyNone ==
  ASSUME NEW e \in Disk
  PROVE  Orderly(SlotsOf(e, 0))
<1>1. Range(read_chain(e, 0)) = {}
  BY NoChain, ClusterFacts DEF Range
<1> QED BY <1>1, OrderlyPlain

(* No two slots of a chain are in the same place. *)
LEMMA PlaceOnce ==
  ASSUME NEW d \in Disk, NEW x, NEW i \in DOMAIN SlotsOf(d, x), NEW k \in DOMAIN SlotsOf(d, x),
         HomeOf(d, x, i) = HomeOf(d, x, k), PlaceAt(i) = PlaceAt(k)
  PROVE  i = k
<1> DEFINE c == read_chain(d, x)
           n == Len(c)
<1>1. x \in Clusters
  BY SlotHome
<1>2. /\ IsChain(d, x, c) /\ DOMAIN SlotsOf(d, x) = 1 .. n * SlotsPerBlock /\ n \in Nat
  BY <1>1, ReadChain, SlotsOfType, ChainType
<1>3. c[BlockAt(i)] = c[BlockAt(k)]
  BY DEF HomeOf
<1> HIDE DEF c
<1>4. /\ BlockAt(i) \in 1 .. n /\ i = (BlockAt(i) - 1) * SlotsPerBlock + PlaceAt(i)
      /\ BlockAt(k) \in 1 .. n /\ k = (BlockAt(k) - 1) * SlotsPerBlock + PlaceAt(k)
  BY <1>2, SlotPlace
<1>5. BlockAt(i) = BlockAt(k)
  BY <1>2, <1>3, <1>4 DEF IsChain, Follows
<1> QED BY <1>4, <1>5

(* A slot of a chain is changed, or none. *)
LEMMA SlotsChanged ==
  ASSUME NEW d \in Disk, NEW e \in Disk, NEW x, NEW c, NEW j, NEW slot,
         Changed(d, e, Range(read_chain(d, x)), c, j, slot)
  PROVE  /\ read_chain(e, x) = read_chain(d, x)
         /\ DOMAIN SlotsOf(e, x) = DOMAIN SlotsOf(d, x)
         /\ \A k \in DOMAIN SlotsOf(d, x) :
              SlotsOf(e, x)[k] = IF HomeOf(d, x, k) = c /\ PlaceAt(k) = j THEN slot
                                 ELSE SlotsOf(d, x)[k]
<1>1. read_chain(e, x) = read_chain(d, x)
  <2>1. CASE x \notin Clusters
    BY <2>1, NoChain
  <2>2. CASE x \in Clusters
    <3> DEFINE c1 == read_chain(d, x)
               c2 == read_chain(e, x)
    <3>1. IsChain(d, x, c1) /\ IsChain(e, x, c2)
      BY <2>2, ReadChain
    <3>2. Range(c1) = {c1[i] : i \in 1 .. Len(c1)}
      BY ChainType
    <3>3. \A i \in 1 .. Len(c1) : e.fat[c1[i]] = d.fat[c1[i]]
      BY <3>2 DEF Changed
    <3> HIDE DEF c1, c2
    <3>4. c2 = c1
      BY <3>1, <3>3, ChainAgrees
    <3> QED BY <3>4 DEF c1, c2
  <2> QED BY <2>1, <2>2
<1>2. /\ DOMAIN SlotsOf(e, x) = DOMAIN SlotsOf(d, x)
      /\ \A k : HomeOf(e, x, k) = HomeOf(d, x, k)
  BY <1>1, SlotsOfType DEF HomeOf
<1>3. ASSUME NEW k \in DOMAIN SlotsOf(d, x)
      PROVE  SlotsOf(e, x)[k] = IF HomeOf(d, x, k) = c /\ PlaceAt(k) = j THEN slot
                                ELSE SlotsOf(d, x)[k]
  <2> DEFINE h == HomeOf(d, x, k)
             p == PlaceAt(k)
  <2>1. h \in Range(read_chain(d, x)) /\ p \in Places /\ SlotsOf(d, x)[k] = d.data[h][p]
    BY SlotHome
  <2>2. SlotsOf(e, x)[k] = e.data[h][p]
    <3>1. SlotsOf(e, x)[k] = e.data[HomeOf(e, x, k)][PlaceAt(k)]
      BY <1>2, SlotHome
    <3> QED BY <1>2, <3>1
  <2>3. e.data[h][p] = IF h = c /\ p = j THEN slot ELSE d.data[h][p]
    BY <2>1 DEF Changed
  <2> QED BY <2>1, <2>2, <2>3
<1> QED BY <1>1, <1>2, <1>3

(* A directory stays in order when a slot of it becomes a deleted one, or  *)
(* an entry is replaced by one of the same name.                           *)
LEMMA OrderlyChanged ==
  ASSUME NEW d \in Disk, NEW e \in Disk, NEW x, Orderly(SlotsOf(d, x)), NEW c, NEW j, NEW slot,
         Changed(d, e, Range(read_chain(d, x)), c, j, slot),
         \/ ~IsEntry(slot) /\ slot # End
         \/ EntryIn(d, c, j) /\ slot # End /\ slot.name = d.data[c][j].name
  PROVE  Orderly(SlotsOf(e, x))
<1> DEFINE a == SlotsOf(d, x)
           b == SlotsOf(e, x)
<1>1. /\ DOMAIN b = DOMAIN a
      /\ \A k \in DOMAIN a : b[k] = IF HomeOf(d, x, k) = c /\ PlaceAt(k) = j THEN slot ELSE a[k]
  BY SlotsChanged
<1>2. \A k \in DOMAIN a : a[k] = d.data[HomeOf(d, x, k)][PlaceAt(k)]
  BY SlotHome
<1>3. \A k \in DOMAIN a : a[k] # End => b[k] # End
  BY <1>1
<1>4. \A k \in DOMAIN a : IsEntry(b[k]) => IsEntry(a[k]) /\ b[k].name = a[k].name
  BY <1>1, <1>2 DEF EntryIn
<1> HIDE DEF a, b
<1> QED BY <1>1, <1>3, <1>4 DEF Orderly, a, b

(* No entry of the directory has the name, when none is found and no entry *)
(* is hidden.                                                              *)
LEMMA NameFree ==
  ASSUME NEW d \in Disk, NEW x, Orderly(SlotsOf(d, x)), NEW name, find_entry(d, x, name) = End,
         NEW k \in DOMAIN SlotsOf(d, x), IsEntry(SlotsOf(d, x)[k])
  PROVE  SlotsOf(d, x)[k].name # name
<1> DEFINE a == SlotsOf(d, x)
<1> SUFFICES ASSUME a[k].name = name PROVE FALSE
  OBVIOUS
<1>1. Named(d, x, name, k)
  BY DEF Named
<1>2. PICK i \in 1 .. k - 1 : a[i] = End
  BY <1>1, FindEntry
<1>3. i \in DOMAIN a /\ i < k
  BY SlotsOfType
<1> HIDE DEF a
<1> QED BY <1>2, <1>3 DEF Orderly, a

(* An entry of a new name goes to the first free slot. *)
LEMMA OrderlyAdded ==
  ASSUME NEW d \in Disk, NEW e \in Disk, NEW x, Orderly(SlotsOf(d, x)), FreeSlot(d, x) # 0,
         NEW slot, IsEntry(slot), find_entry(d, x, slot.name) = End,
         Changed(d, e, Range(read_chain(d, x)), HomeOf(d, x, FreeSlot(d, x)),
                 PlaceAt(FreeSlot(d, x)), slot)
  PROVE  Orderly(SlotsOf(e, x))
<1> DEFINE a == SlotsOf(d, x)
           b == SlotsOf(e, x)
           i == FreeSlot(d, x)
           c == HomeOf(d, x, i)
           p == PlaceAt(i)
<1>1. i \in DOMAIN a /\ \A k \in 1 .. i - 1 : a[k] \notin {End, Deleted}
  BY FreeSlotFound
<1>2. a[i] = End \/ a[i] = Deleted
  BY FreeSlotFound
<1> HIDE DEF i
<1>3. Changed(d, e, Range(read_chain(d, x)), c, p, slot)
  BY DEF i
<1>4. \A k \in DOMAIN a : HomeOf(d, x, k) = c /\ PlaceAt(k) = p => k = i
  BY <1>1, PlaceOnce
<1>5. /\ DOMAIN b = DOMAIN a
      /\ \A k \in DOMAIN a : b[k] = IF HomeOf(d, x, k) = c /\ PlaceAt(k) = p THEN slot ELSE a[k]
  <2> HIDE DEF c, p
  <2> QED BY <1>3, SlotsChanged
<1>6. \A k \in DOMAIN a : IsEntry(a[k]) => a[k].name # slot.name
  BY NameFree
<1>7. DOMAIN a \subseteq Nat /\ \A k \in DOMAIN a : \A n \in 1 .. k - 1 : n \in DOMAIN a
  BY SlotsOfType
<1>8. \A k \in DOMAIN a : b[k] = IF k = i THEN slot ELSE a[k]
  BY <1>4, <1>5
<1> HIDE DEF a, b, c, p
<1>9. slot # End /\ 0 \notin DOMAIN a
  <2>1. slot # End
    BY SpecialSlots
  <2>2. 0 \notin DOMAIN a
    BY SlotsOfType DEF a
  <2> QED BY <2>1, <2>2
<1>10. ASSUME NEW m \in DOMAIN a, NEW n \in DOMAIN a, m < n, IsEntry(b[n])
       PROVE  b[m] # End /\ ~(IsEntry(b[m]) /\ b[m].name = b[n].name)
  <2>1. CASE n = i
    <3>1. b[n] = slot /\ b[m] = a[m] /\ m \in 1 .. i - 1
      BY <1>7, <1>8, <1>9, <1>10, <2>1
    <3> QED BY <1>1, <1>6, <3>1
  <2>2. CASE n # i
    <3>1. b[n] = a[n] /\ IsEntry(a[n])
      BY <1>8, <1>10, <2>2
    <3>2. a[m] # End /\ ~(IsEntry(a[m]) /\ a[m].name = a[n].name)
      BY <1>10, <3>1 DEF Orderly, a
    <3>3. a[n].name # slot.name
      BY <1>6, <3>1
    <3> QED BY <1>8, <1>9, <3>1, <3>2, <3>3
  <2> QED BY <2>1, <2>2
<1> QED BY <1>5, <1>10 DEF Orderly, a, b

LEMMA OrderlyKept ==
  ASSUME NEW d \in Disk, NEW e \in Disk, NEW x, Orderly(SlotsOf(d, x)),
         Same(d, e, Range(read_chain(d, x)))
  PROVE  Orderly(SlotsOf(e, x))
BY SlotsKept

(* The directories of the forest lie in it. *)
LEMMA DirectoryIn ==
  ASSUME NEW d \in Disk, NEW L, Forest(d, L), NEW x, IsDirectory(d, L, x)
  PROVE  Range(read_chain(d, x)) \subseteq L
<1>1. x = 0 \/ Top(d, L, x)
  BY DirectoryTop
<1>2. CASE x = 0
  <2>1. Range(read_chain(d, x)) = {}
    BY <1>2, NoChain, ClusterFacts DEF Range
  <2> QED BY <2>1
<1>3. CASE Top(d, L, x)
  BY <1>3, ChainIn DEF Forest, Top
<1> QED BY <1>1, <1>2, <1>3

LEMMA TidySame ==
  ASSUME NEW d \in Disk, NEW e \in Disk, NEW L, Forest(d, L), Tidy(d, L), Same(d, e, L)
  PROVE  Tidy(e, L)
<1> SUFFICES ASSUME NEW x, IsDirectory(e, L, x) PROVE Orderly(SlotsOf(e, x))
  BY DEF Tidy
<1>1. IsDirectory(d, L, x)
  BY DEF IsDirectory, Same, EntryIn, HeadIn
<1>2. Same(d, e, Range(read_chain(d, x)))
  BY <1>1, DirectoryIn DEF Same
<1> QED BY <1>1, <1>2, OrderlyKept DEF Tidy

(* An entry is removed, or replaced by a file of its name: what it names   *)
(* may go, and clusters without entries may join.                          *)
LEMMA TidyChange ==
  ASSUME NEW d \in Disk, NEW e \in Disk, NEW L, Forest(d, L), Tidy(d, L),
         NEW c \in L, NEW j \in Places, EntryIn(d, c, j), NEW slot, NEW C,
         C = Range(read_chain(d, HeadIn(d, c, j))), Changed(d, e, L \ C, c, j, slot),
         \/ ~IsEntry(slot) /\ slot # End
         \/ slot.kind = "file" /\ slot # End /\ slot.name = d.data[c][j].name,
         NEW D, \A z \in D : Plain(e.data[z])
  PROVE  Tidy(e, (L \ C) \cup D)
<1> SUFFICES ASSUME NEW x, IsDirectory(e, (L \ C) \cup D, x) PROVE Orderly(SlotsOf(e, x))
  BY DEF Tidy
<1> DEFINE h == HeadIn(d, c, j)
<1>1. CASE x = 0
  BY <1>1, OrderlyNone
<1>2. CASE x # 0
  <2>1. IsDirectory(d, L, x) /\ x # h
    <3>1. CASE x = Root
      <4>1. h # Root
        BY ClusterFacts DEF Forest, ForestEntries
      <4> QED BY <3>1, <4>1 DEF IsDirectory
    <3>2. CASE x # Root
      <4>1. PICK z \in (L \ C) \cup D, k \in Places :
              EntryIn(e, z, k) /\ e.data[z][k].kind = "dir" /\ x = HeadIn(e, z, k)
        BY <3>2 DEF IsDirectory
      <4>2. z \in L \ C
        BY <4>1 DEF Plain, EntryIn
      <4>3. ~(z = c /\ k = j) /\ e.data[z][k] = d.data[z][k]
        BY <4>1, <4>2 DEF Changed, EntryIn
      <4>4. z \in L /\ EntryIn(d, z, k) /\ d.data[z][k].kind = "dir" /\ x = HeadIn(d, z, k)
        BY <4>1, <4>2, <4>3 DEF EntryIn, HeadIn
      <4>5. h # x
        BY <1>2, <4>3, <4>4 DEF Forest, ForestEntries
      <4> QED BY <4>4, <4>5 DEF IsDirectory
    <3> QED BY <3>1, <3>2
  <2>2. Range(read_chain(d, x)) \subseteq L /\ Top(d, L, x)
    BY <1>2, <2>1, DirectoryIn, DirectoryTop
  <2>3. ASSUME NEW z \in Range(read_chain(d, x)), z \in C PROVE FALSE
    <3>1. h # 0
      <4> SUFFICES ASSUME h = 0 PROVE FALSE
        OBVIOUS
      <4>1. Range(read_chain(d, h)) = {}
        BY NoChain, ClusterFacts DEF Range
      <4> QED BY <2>3, <4>1
    <3>2. Top(d, L, h)
      BY <3>1 DEF Forest, ForestEntries
    <3> HIDE DEF h
    <3> QED BY <2>1, <2>2, <2>3, <3>2, ChainsApart DEF Forest, h
  <2>4. Changed(d, e, Range(read_chain(d, x)), c, j, slot)
    BY <2>2, <2>3 DEF Changed
  <2>5. Orderly(SlotsOf(d, x))
    BY <2>1 DEF Tidy
  <2> QED BY <2>4, <2>5, OrderlyChanged
<1> QED BY <1>1, <1>2

(* The chain of clusters that lead only to each other. *)
LEMMA LooseChain ==
  ASSUME NEW e, NEW L, NEW C, NEW x, Loose(e, L, C, x)
  PROVE  Range(read_chain(e, x)) \subseteq C /\ \A z \in Range(read_chain(e, x)) : Plain(e.data[z])
<1>1. Closed(e, C) /\ x \in C
  BY DEF Loose, Closed, Top
<1>2. Range(read_chain(e, x)) \subseteq C
  BY <1>1, ChainClosed
<1> QED BY <1>2 DEF Loose

(* An entry of a new name for a loose chain goes to the first free slot. *)
LEMMA TidyPut ==
  ASSUME NEW d \in Disk, NEW e \in Disk, NEW L, Forest(d, L), Tidy(d, L),
         NEW s, Top(d, L, s), FreeSlot(d, s) # 0, NEW slot, IsEntry(slot),
         find_entry(d, s, slot.name) = End,
         NEW C, Loose(e, L, C, slot.cluster),
         Changed(d, e, L, HomeOf(d, s, FreeSlot(d, s)), PlaceAt(FreeSlot(d, s)), slot)
  PROVE  Tidy(e, L \cup C)
<1> DEFINE i == FreeSlot(d, s)
           c == HomeOf(d, s, i)
           j == PlaceAt(i)
<1>0. c \in Range(read_chain(d, s))
  BY FreeSlotFound, SlotHome
<1> SUFFICES ASSUME NEW x, IsDirectory(e, L \cup C, x) PROVE Orderly(SlotsOf(e, x))
  BY DEF Tidy
<1> HIDE DEF i
<1>1. CASE x = 0
  BY <1>1, OrderlyNone
<1>2. CASE x = slot.cluster
  BY <1>2, LooseChain, OrderlyPlain
<1>3. CASE x # 0 /\ x # slot.cluster
  <2>1. IsDirectory(d, L, x)
    <3>1. CASE x = Root
      BY <3>1 DEF IsDirectory
    <3>2. CASE x # Root
      <4>1. PICK z \in L \cup C, k \in Places :
              EntryIn(e, z, k) /\ e.data[z][k].kind = "dir" /\ x = HeadIn(e, z, k)
        BY <3>2 DEF IsDirectory
      <4>2. z \in L
        BY <4>1 DEF Loose, Plain, EntryIn
      <4>3. ~(z = c /\ k = j) /\ e.data[z][k] = d.data[z][k]
        BY <1>3, <4>1, <4>2 DEF Changed, HeadIn, i
      <4> QED BY <4>1, <4>2, <4>3 DEF IsDirectory, EntryIn, HeadIn
    <3> QED BY <3>1, <3>2
  <2>2. Range(read_chain(d, x)) \subseteq L /\ Top(d, L, x) /\ Orderly(SlotsOf(d, x))
    BY <1>3, <2>1, DirectoryIn, DirectoryTop DEF Tidy
  <2>3. Changed(d, e, Range(read_chain(d, x)), c, j, slot)
    BY <2>2 DEF Changed, i
  <2>4. CASE x = s
    BY <2>2, <2>3, <2>4, OrderlyAdded DEF i
  <2>5. CASE x # s
    <3>1. c \notin Range(read_chain(d, x))
      BY <1>0, <2>2, <2>5, ChainsApart DEF Forest, i
    <3> HIDE DEF c, j
    <3>2. \A k \in DOMAIN SlotsOf(d, x) : HomeOf(d, x, k) # c
      BY <3>1, SlotHome
    <3>3. /\ DOMAIN SlotsOf(e, x) = DOMAIN SlotsOf(d, x)
          /\ \A k \in DOMAIN SlotsOf(d, x) :
               SlotsOf(e, x)[k] = IF HomeOf(d, x, k) = c /\ PlaceAt(k) = j THEN slot
                                  ELSE SlotsOf(d, x)[k]
      BY <2>3, SlotsChanged
    <3> QED BY <2>2, <3>2, <3>3 DEF Orderly
  <2> QED BY <2>4, <2>5
<1> QED BY <1>1, <1>2, <1>3

LEMMA ChainGrown ==
  ASSUME NEW d, NEW e, NEW L, Forest(d, L), NEW s, Top(d, L, s), NEW n, Extended(d, e, L, s, n)
  PROVE  read_chain(e, s) = Append(read_chain(d, s), n)
<1> DEFINE c == read_chain(d, s)
           l == Last(c)
           k == Len(c)
           b == Append(c, n)
<1>1. /\ \A z \in L : e.fat[z] = IF z = l THEN n ELSE d.fat[z]
      /\ n \in Clusters /\ n \notin L /\ e.fat[n] \notin Clusters
  BY DEF Extended
<1>2. /\ IsChain(d, s, c) /\ \A i \in 1 .. k : c[i] \in L
      /\ s \in Clusters /\ L \subseteq Clusters
  BY ChainIn DEF Top, Forest, ForestTable
<1> HIDE DEF c
<1>3. c \in Seq(Clusters) /\ k \in Nat \ {0} /\ l = c[k] /\ k \in 1 .. k
  BY <1>2 DEF IsChain, Follows, Last
<1>4. \A i \in 1 .. k : c[i] \in Clusters /\ c[i] # n /\ (i # k => c[i] # l)
  BY <1>1, <1>2, <1>3 DEF IsChain, Follows
<1>5. Follows(e, s, c)
  <2>1. ASSUME NEW i \in 1 .. k - 1 PROVE c[i + 1] = e.fat[c[i]]
    <3>1. i \in 1 .. k /\ i # k
      BY <1>3
    <3>2. e.fat[c[i]] = d.fat[c[i]]
      BY <1>1, <1>2, <1>4, <3>1
    <3> QED BY <1>2, <3>2 DEF IsChain, Follows
  <2> QED BY <1>2, <2>1 DEF IsChain, Follows
<1>6. e.fat[c[k]] = n
  BY <1>1, <1>2, <1>3
<1>7. ~Ended(e, c)
  BY <1>1, <1>3, <1>4, <1>6 DEF Ended
<1>8. Follows(e, s, b)
  BY <1>5, <1>6, <1>7, FollowsOn
<1>9. b \in Seq(Clusters) /\ Len(b) = k + 1 /\ b[k + 1] = n
  BY <1>1, <1>3
<1>10. IsChain(e, s, b)
  BY <1>1, <1>8, <1>9 DEF IsChain, Ended
<1> HIDE DEF b
<1>11. read_chain(e, s) = b
  BY <1>2, <1>10, ReadChain, ChainAgrees
<1> QED BY <1>11 DEF b, c

(* Slots of the new cluster follow the ones that were there. *)
LEMMA SlotsGrown ==
  ASSUME NEW d \in Disk, NEW e \in Disk, NEW s, NEW n,
         read_chain(e, s) = Append(read_chain(d, s), n),
         \A z \in Range(read_chain(d, s)) : e.data[z] = d.data[z]
  PROVE  LET a == SlotsOf(d, s)
             b == SlotsOf(e, s)
         IN  /\ DOMAIN a \subseteq DOMAIN b /\ \A k \in DOMAIN a : b[k] = a[k]
             /\ \A k \in DOMAIN b \ DOMAIN a :
                  /\ PlaceAt(k) \in Places /\ b[k] = e.data[n][PlaceAt(k)]
                  /\ \A i \in DOMAIN b : i \notin DOMAIN a /\ i < k => PlaceAt(k) # 1
             /\ \A i \in DOMAIN b, k \in DOMAIN a : i < k => i \in DOMAIN a
<1> DEFINE c == read_chain(d, s)
           f == read_chain(e, s)
           a == SlotsOf(d, s)
           b == SlotsOf(e, s)
           w == SlotsPerBlock
           m == Len(c)
<1>1. /\ DOMAIN a = 1 .. m * w /\ DOMAIN b = 1 .. Len(f) * w /\ m \in Nat /\ c \in Seq(Clusters)
      /\ \A k \in DOMAIN a : a[k] = d.data[c[BlockAt(k)]][PlaceAt(k)]
      /\ \A k \in DOMAIN b : b[k] = e.data[f[BlockAt(k)]][PlaceAt(k)]
      /\ Range(c) = {c[i] : i \in 1 .. m}
  BY SlotsOfType, ChainType
<1> HIDE DEF a, b, c, f
<1>2. Len(f) = m + 1 /\ f[m + 1] = n /\ \A i \in 1 .. m : f[i] = c[i]
  BY <1>1 DEF f, c
<1>3. w \in Nat /\ w > 1 /\ m * w \in Nat /\ (m + 1) * w = m * w + w
  BY <1>1, Fat32Assumption
<1>4. DOMAIN a \subseteq DOMAIN b
  BY <1>1, <1>2, <1>3
<1>5. ASSUME NEW k \in DOMAIN a PROVE b[k] = a[k]
  <2>1. BlockAt(k) \in 1 .. m
    BY <1>1, SlotPlace
  <2>2. f[BlockAt(k)] = c[BlockAt(k)] /\ c[BlockAt(k)] \in Range(c)
    BY <1>1, <1>2, <2>1
  <2>3. e.data[c[BlockAt(k)]] = d.data[c[BlockAt(k)]]
    BY <2>2 DEF c
  <2> QED BY <1>1, <1>4, <2>2, <2>3
<1>6. ASSUME NEW k \in DOMAIN b \ DOMAIN a
      PROVE  /\ PlaceAt(k) \in Places /\ b[k] = e.data[n][PlaceAt(k)]
             /\ k = m * w + PlaceAt(k)
  <2>1. k \in 1 .. (m + 1) * w /\ k > m * w /\ m + 1 \in Nat
    BY <1>1, <1>2, <1>3
  <2>2. /\ BlockAt(k) \in 1 .. m + 1 /\ PlaceAt(k) \in Places
        /\ k = (BlockAt(k) - 1) * w + PlaceAt(k)
    BY <2>1, SlotPlace
  <2>3. BlockAt(k) = m + 1
    <3> SUFFICES ASSUME BlockAt(k) \in 1 .. m PROVE FALSE
      BY <1>1, <2>2
    <3>1. (BlockAt(k) - 1) * w + w <= m * w
      <4>1. BlockAt(k) <= m /\ BlockAt(k) \in Nat
        OBVIOUS
      <4>2. (m - BlockAt(k)) * w >= 0
        BY <1>1, <1>3, <4>1
      <4>3. (m - BlockAt(k)) * w = m * w - ((BlockAt(k) - 1) * w + w)
        BY <1>1, <1>3, <4>1
      <4>4. (BlockAt(k) - 1) * w \in Int
        BY <1>3, <4>1
      <4> HIDE DEF w
      <4> QED BY <1>3, <4>2, <4>3, <4>4
    <3>2. PlaceAt(k) <= w /\ PlaceAt(k) \in Nat
      BY <1>3, <2>2 DEF Places
    <3>3. (BlockAt(k) - 1) * w \in Int
      BY <1>3
    <3> QED BY <1>3, <2>1, <2>2, <3>1, <3>2, <3>3
  <2>4. (BlockAt(k) - 1) * w = m * w
    BY <1>1, <2>3
  <2> QED BY <1>1, <1>2, <2>2, <2>3, <2>4
<1>7. ASSUME NEW k \in DOMAIN b \ DOMAIN a, NEW i \in DOMAIN b, i \notin DOMAIN a, i < k
      PROVE  PlaceAt(k) # 1
  <2>1. i >= m * w + 1
    BY <1>1, <1>2, <1>3, <1>7
  <2>2. k = m * w + PlaceAt(k)
    BY <1>6
  <2> QED BY <1>1, <1>2, <1>3, <1>7, <2>1, <2>2
<1>8. \A i \in DOMAIN b, k \in DOMAIN a : i < k => i \in DOMAIN a
  BY <1>1, <1>2, <1>3
<1> QED BY <1>4, <1>5, <1>6, <1>7, <1>8 DEF a, b

LEMMA OrderlyGrown ==
  ASSUME NEW d \in Disk, NEW e \in Disk, NEW s, Orderly(SlotsOf(d, s)), NEW n,
         read_chain(e, s) = Append(read_chain(d, s), n),
         \A z \in Range(read_chain(d, s)) : e.data[z] = d.data[z],
         \A j \in Places : j # 1 => ~IsEntry(e.data[n][j]),
         NEW entry, IsEntry(e.data[n][1]) => e.data[n][1] = entry,
         FreeSlot(d, s) = 0, find_entry(d, s, entry.name) = End
  PROVE  Orderly(SlotsOf(e, s))
<1> DEFINE a == SlotsOf(d, s)
           b == SlotsOf(e, s)
<1>1. /\ DOMAIN a \subseteq DOMAIN b /\ \A k \in DOMAIN a : b[k] = a[k]
      /\ \A k \in DOMAIN b \ DOMAIN a :
           /\ PlaceAt(k) \in Places /\ b[k] = e.data[n][PlaceAt(k)]
           /\ \A i \in DOMAIN b : i \notin DOMAIN a /\ i < k => PlaceAt(k) # 1
      /\ \A i \in DOMAIN b, k \in DOMAIN a : i < k => i \in DOMAIN a
  BY SlotsGrown
<1>2. \A k \in DOMAIN a : a[k] # End
  BY FreeSlotFound
<1>3. \A k \in DOMAIN a : IsEntry(a[k]) => a[k].name # entry.name
  BY NameFree
<1> HIDE DEF a, b
<1>4. ASSUME NEW i \in DOMAIN b, NEW k \in DOMAIN b, i < k, IsEntry(b[k])
      PROVE  b[i] # End /\ ~(IsEntry(b[i]) /\ b[i].name = b[k].name)
  <2>1. CASE k \in DOMAIN a
    <3>1. i \in DOMAIN a /\ b[i] = a[i] /\ b[k] = a[k]
      BY <1>1, <1>4, <2>1
    <3> QED BY <1>4, <2>1, <3>1 DEF Orderly, a
  <2>2. CASE k \notin DOMAIN a
    <3>1. PlaceAt(k) = 1 /\ b[k] = entry
      BY <1>1, <1>4, <2>2
    <3>2. i \in DOMAIN a /\ b[i] = a[i]
      BY <1>1, <1>4, <2>2, <3>1
    <3> QED BY <1>2, <1>3, <3>1, <3>2
  <2> QED BY <2>1, <2>2
<1> QED BY <1>4 DEF Orderly, b

LEMMA TidyGrow ==
  ASSUME NEW d \in Disk, NEW e \in Disk, NEW L, Forest(d, L), Tidy(d, L),
         NEW s, Top(d, L, s), FreeSlot(d, s) = 0, NEW n, Extended(d, e, L, s, n),
         NEW entry, GrownBy(d, e, L, n, entry), find_entry(d, s, entry.name) = End,
         NEW C, \A z \in C : Plain(e.data[z]),
         \A z \in Range(read_chain(e, entry.cluster)) : Plain(e.data[z])
  PROVE  Tidy(e, L \cup {n} \cup C)
<1> SUFFICES ASSUME NEW x, IsDirectory(e, L \cup {n} \cup C, x) PROVE Orderly(SlotsOf(e, x))
  BY DEF Tidy
<1>1. CASE x = 0
  BY <1>1, OrderlyNone
<1>2. CASE x = entry.cluster
  BY <1>2, OrderlyPlain
<1>3. CASE x # 0 /\ x # entry.cluster
  <2>1. IsDirectory(d, L, x)
    <3>1. CASE x = Root
      BY <3>1 DEF IsDirectory
    <3>2. CASE x # Root
      <4>1. PICK z \in L \cup {n} \cup C, k \in Places :
              EntryIn(e, z, k) /\ e.data[z][k].kind = "dir" /\ x = HeadIn(e, z, k)
        BY <3>2 DEF IsDirectory
      <4>2. z \in L
        BY <1>3, <4>1 DEF Plain, EntryIn, HeadIn, GrownBy
      <4>3. e.data[z][k] = d.data[z][k]
        BY <4>2 DEF GrownBy
      <4> QED BY <4>1, <4>2, <4>3 DEF IsDirectory, EntryIn, HeadIn
    <3> QED BY <3>1, <3>2
  <2>2. Range(read_chain(d, x)) \subseteq L /\ Top(d, L, x) /\ Orderly(SlotsOf(d, x))
    BY <1>3, <2>1, DirectoryIn, DirectoryTop DEF Tidy
  <2>3. CASE x = s
    <3>1. read_chain(e, s) = Append(read_chain(d, s), n)
      BY ChainGrown
    <3>2. \A z \in Range(read_chain(d, s)) : e.data[z] = d.data[z]
      BY <2>2, <2>3 DEF GrownBy
    <3>3. Orderly(SlotsOf(e, s))
      BY <2>2, <2>3, <3>1, <3>2, OrderlyGrown DEF GrownBy
    <3> QED BY <2>3, <3>3
  <2>4. CASE x # s
    <3> DEFINE l == Last(read_chain(d, s))
    <3>1. l \in Range(read_chain(d, s))
      BY ChainEnd DEF Forest
    <3>2. l \notin Range(read_chain(d, x))
      BY <2>2, <2>4, <3>1, ChainsApart DEF Forest
    <3> HIDE DEF l
    <3>3. Same(d, e, Range(read_chain(d, x)))
      BY <2>2, <3>2 DEF Same, Extended, GrownBy, l
    <3> QED BY <2>2, <3>3, OrderlyKept
  <2> QED BY <2>3, <2>4
<1> QED BY <1>1, <1>2, <1>3

-----------------------------------------------------------------------------
(***************************************************************************)
(* Operations without a failing write end early only for lack of space.    *)
(***************************************************************************)
LEMMA WriteGoesOn ==
  ASSUME NEW limit, limit < 0, NEW r \in Running(limit), r.ok, NEW d
  PROVE  Write(r, d).ok
<1>1. r.left < 0 /\ r.left \in Int
  BY DEF Running
<1>2. Write(r, d) = [r EXCEPT !.disk = d, !.left = @ - 2]
  BY <1>1 DEF Write
<1> QED BY <1>2 DEF Running

LEMMA CallsGoOn ==
  ASSUME NEW limit, limit < 0, NEW r \in Running(limit), r.ok
  PROVE  /\ \A c, v : write_fat_entry(r, c, v).ok
         /\ \A c, b : write_cluster(r, c, b).ok
         /\ \A s, i, slot : PutSlot(r, s, i, slot).ok
         /\ FreeClusters(r.disk) # {} => alloc_cluster(r).ok
<1>1. \A c, v : write_fat_entry(r, c, v).ok
  BY WriteGoesOn DEF write_fat_entry
<1>2. \A c, b : write_cluster(r, c, b).ok
  BY WriteGoesOn DEF write_cluster
<1>3. \A s, i, slot : PutSlot(r, s, i, slot).ok
  BY <1>2 DEF PutSlot
<1>4. ASSUME FreeClusters(r.disk) # {} PROVE alloc_cluster(r).ok
  <2> DEFINE F == FreeClusters(r.disk)
             c == Min(F)
             q == [r EXCEPT !.cluster = c]
  <2>1. F \subseteq Clusters /\ F \subseteq Nat
    BY ClusterFacts DEF FreeClusters
  <2>2. c \in F
    <3> HIDE DEF F
    <3> QED BY <1>4, <2>1, Least DEF F
  <2>3. alloc_cluster(r) = write_cluster(q, c, ZeroBlock)
    BY <1>4 DEF alloc_cluster
  <2>4. c \in Clusters
    BY <2>1, <2>2
  <2> HIDE DEF c
  <2>5. q \in Running(limit) /\ q.ok
    BY <2>4, ClusterSet
  <2> HIDE DEF q
  <2> QED BY <2>3, <2>5, WriteGoesOn DEF write_cluster
<1> QED BY <1>1, <1>2, <1>3, <1>4

LEMMA FreeChainGoesOn ==
  ASSUME NEW limit, limit < 0, NEW r \in Running(limit), r.ok, NEW s
  PROVE  free_chain(r, s).ok
<1> DEFINE N == Len(read_chain(r.disk, s))
<1>1. N \in Nat
  BY ChainType
<1>2. PICK f : FreeRun(limit, r, s, f)
  BY FreeChainRun
<1>3. /\ f \in [0 .. N -> Running(limit)] /\ f[0] = r /\ free_chain(r, s) = f[N]
      /\ \A n \in 1 .. N : f[n] = write_fat_entry(f[n - 1], read_chain(r.disk, s)[n], FREE)
  BY <1>2 DEF FreeRun
<1> HIDE DEF N
<1> DEFINE S == {n \in 0 .. N : f[n].ok}
<1>4. 0 \in S
  BY <1>1, <1>3
<1>5. ASSUME NEW n \in 1 .. N, n - 1 \in S PROVE n \in S
  <2>1. f[n - 1] \in Running(limit) /\ f[n - 1].ok /\ n \in 0 .. N
    BY <1>1, <1>3, <1>5
  <2> QED BY <1>3, <2>1, CallsGoOn
<1>6. N \in S
  <2> HIDE DEF S
  <2> QED BY <1>1, <1>4, <1>5, UpTo, Zenon
<1> QED BY <1>3, <1>6

LEMMA AllocateGoesOn ==
  ASSUME NEW limit, limit < 0, NEW r \in Running(limit), r.ok, NEW count \in Nat,
         FreeClusters(r.disk) # {}
  PROVE  AllocateTimes(r, count).ok
<1>1. PICK f : AllocRun(limit, r, count, f)
  BY AllocateRun
<1>2. /\ f \in [0 .. count -> Running(limit)] /\ f[0] = r /\ AllocateTimes(r, count) = f[count]
      /\ \A n \in 1 .. count : f[n] = alloc_cluster(f[n - 1])
  BY <1>1 DEF AllocRun
<1> DEFINE S == {n \in 0 .. count : f[n].ok /\ f[n].disk.fat = r.disk.fat}
<1>3. 0 \in S
  BY <1>2
<1>4. ASSUME NEW n \in 1 .. count, n - 1 \in S PROVE n \in S
  <2> DEFINE p == f[n - 1]
             q == f[n]
  <2>1. p \in Running(limit) /\ p.ok /\ p.disk.fat = r.disk.fat /\ q = alloc_cluster(p) /\ n \in 0 .. count
    BY <1>2, <1>4
  <2> HIDE DEF p, q
  <2>2. FreeClusters(p.disk) # {}
    BY <2>1 DEF FreeClusters
  <2>3. q.ok
    BY <2>1, <2>2, CallsGoOn
  <2>4. q.disk = SetData(p.disk, q.cluster, ZeroBlock)
    BY <2>1, <2>3, AllocCluster DEF Writes
  <2>5. q.disk.fat = r.disk.fat
    BY <2>1, <2>4 DEF SetData
  <2> QED BY <2>1, <2>3, <2>5 DEF q
<1>5. count \in S
  <2> HIDE DEF S
  <2> QED BY <1>3, <1>4, UpTo, Zenon
<1> QED BY <1>2, <1>5

LEMMA FileDataGoesOn ==
  ASSUME NEW limit, limit < 0, NEW r \in Running(limit), r.ok, NEW s, NEW data \in Seq(Slots),
         FreeClusters(r.disk) # {}
  PROVE  write_file_data(r, s, data).ok
<1>0. PICK m \in Nat : \E cs : FileDataRun(r, s, data, m, cs)
  BY FileDataShape
<1>1. PICK cs : FileDataRun(r, s, data, m, cs)
  BY <1>0
<1> DEFINE g == AllocateTimes(r, m)
           b == WriteBlocks(g, cs, data)
<1>2. g \in Running(limit) /\ g.ok
  BY Allocate, AllocateGoesOn
<1>3. cs \in Seq(Clusters) /\ write_file_data(r, s, data) = WriteLinks(b, cs)
  BY <1>1, <1>2 DEF FileDataRun
<1> HIDE DEF g
<1>4. \A n \in 1 .. Len(cs) : BlockOf(data, n) \in Blocks
  BY <1>3, BlockType
<1> DEFINE N == Len(cs)
<1>5. N \in Nat
  BY <1>3
<1>6. b \in Running(limit) /\ b.ok
  <2>0. PICK f : BlocksRun(limit, g, cs, data, f)
    BY <1>2, <1>3, <1>4, WriteBlocksRun
  <2>1. /\ f \in [0 .. N -> Running(limit)] /\ f[0] = g /\ b = f[N]
        /\ \A n \in 1 .. N : f[n] = write_cluster(f[n - 1], cs[n], BlockOf(data, n))
    BY <2>0 DEF BlocksRun
  <2> HIDE DEF N, b
  <2> DEFINE S == {n \in 0 .. N : f[n].ok}
  <2>2. 0 \in S
    BY <1>2, <1>5, <2>1
  <2>3. ASSUME NEW n \in 1 .. N, n - 1 \in S PROVE n \in S
    <3>1. f[n - 1] \in Running(limit) /\ f[n - 1].ok /\ n \in 0 .. N
      BY <1>5, <2>1, <2>3
    <3> QED BY <2>1, <3>1, CallsGoOn
  <2>4. N \in S
    <3> HIDE DEF S
    <3> QED BY <1>5, <2>2, <2>3, UpTo, Zenon
  <2> QED BY <1>5, <2>1, <2>4
<1> HIDE DEF b
<1>7. PICK f : LinksRun(limit, b, cs, f)
  BY <1>3, <1>6, WriteLinksRun
<1>8. /\ f \in [0 .. N -> Running(limit)] /\ f[0] = b /\ WriteLinks(b, cs) = f[N]
      /\ \A n \in 1 .. N : f[n] = write_fat_entry(f[n - 1], cs[n], NextOf(cs, n))
  BY <1>7 DEF LinksRun
<1> HIDE DEF N
<1> DEFINE S == {n \in 0 .. N : f[n].ok}
<1>9. 0 \in S
  BY <1>5, <1>6, <1>8
<1>10. ASSUME NEW n \in 1 .. N, n - 1 \in S PROVE n \in S
  <2>1. f[n - 1] \in Running(limit) /\ f[n - 1].ok /\ n \in 0 .. N
    BY <1>5, <1>8, <1>10
  <2> QED BY <1>8, <2>1, CallsGoOn
<1>11. N \in S
  <2> HIDE DEF S
  <2> QED BY <1>5, <1>9, <1>10, UpTo, Zenon
<1> QED BY <1>3, <1>8, <1>11

(* Two free clusters are enough for a new file of any content: alloc_cluster *)
(* gives the second one as often as it is asked.                             *)
LEMMA NewFileGoesOn ==
  ASSUME NEW limit, limit < 0, NEW r \in Running(limit), r.ok, NEW data \in Seq(Slots),
         NEW a \in FreeClusters(r.disk), NEW b \in FreeClusters(r.disk), a # b
  PROVE  allocate_and_write(r, data).ok
<1> DEFINE d == r.disk
           first == alloc_cluster(r)
           x == first.cluster
           marked == write_fat_entry(first, x, EOC)
           done == IF data = <<>> THEN marked ELSE write_file_data(marked, x, data)
           res == allocate_and_write(r, data)
<1>1. res = IF ~marked.ok THEN marked ELSE [done EXCEPT !.cluster = x]
  BY Zenon DEF allocate_and_write
<1>2. first.ok
  BY CallsGoOn
<1>3. /\ d \in Disk /\ first \in Running(limit) /\ first.disk = SetData(d, x, ZeroBlock)
      /\ x \in FreeClusters(d) /\ first.disk \in Disk
  BY <1>2, AllocCluster, RunningFields DEF Writes
<1>4. x \in Clusters /\ first.disk.fat = d.fat
  BY <1>3 DEF FreeClusters, SetData
<1> HIDE DEF first, x
<1>5. marked \in Running(limit) /\ marked.ok /\ marked.disk = SetFat(first.disk, x, EOC)
  <2>1. marked.ok
    BY <1>2, <1>3, CallsGoOn
  <2>2. marked \in Running(limit) /\ Writes(first, marked, SetFat(first.disk, x, EOC))
    BY <1>3, <1>4, WriteFat DEF FatValues
  <2> QED BY <2>1, <2>2 DEF Writes
<1> HIDE DEF marked
<1>6. FreeClusters(marked.disk) # {}
  <2>1. PICK z \in FreeClusters(d) : z # x
    OBVIOUS
  <2>2. \A c \in Clusters : marked.disk.fat[c] = IF c = x THEN EOC ELSE d.fat[c]
    <3>1. EOC \in FatValues
      BY DEF FatValues
    <3> QED BY <1>3, <1>4, <1>5, <3>1, SetFatAt
  <2>3. z \in FreeClusters(marked.disk)
    BY <2>1, <2>2 DEF FreeClusters
  <2> QED BY <2>3
<1>7. done \in Running(limit) /\ done.ok
  <2>1. CASE data = <<>>
    BY <1>5, <2>1
  <2>2. CASE data # <<>>
    <3>1. write_file_data(marked, x, data) \in Running(limit)
      BY <1>5, FileDataType
    <3>2. write_file_data(marked, x, data).ok
      BY <1>5, <1>6, FileDataGoesOn
    <3> QED BY <2>2, <3>1, <3>2
  <2> QED BY <2>1, <2>2
<1> HIDE DEF done
<1>8. [done EXCEPT !.cluster = x].ok
  BY <1>4, <1>7, ClusterSet
<1> QED BY <1>1, <1>5, <1>8

LEMMA UpdateGoesOn ==
  ASSUME NEW limit, limit < 0, NEW r \in Running(limit), r.ok, NEW s, NEW name,
         EntrySlot(r.disk, s, name) # 0, NEW cluster, NEW size
  PROVE  update_dir_entry(r, s, name, cluster, size).ok
<1> DEFINE i == EntrySlot(r.disk, s, name)
           slot == Slot(SlotsOf(r.disk, s)[i].kind, name, cluster, size)
<1>1. update_dir_entry(r, s, name, cluster, size) =
        IF ~r.ok THEN r ELSE IF i = 0 THEN Fail(r) ELSE PutSlot(r, s, i, slot)
  BY Zenon DEF update_dir_entry, EntrySlot
<1> HIDE DEF i, slot
<1> QED BY <1>1, CallsGoOn DEF i

-----------------------------------------------------------------------------
(***************************************************************************)
(* Room: no file claims more than its chain holds.  This is so only while  *)
(* no sector write fails and no file needs more than two clusters.         *)
(***************************************************************************)
LEMMA BoundedLimit ==
  ASSUME Bounded, TypeOK, NEW limit \in Limits
  PROVE  limit < 0
<1>1. faults \in 0 .. 0
  BY DEF Bounded, TypeOK
<1> QED BY <1>1 DEF Limits, Bounded, NoLimit

(* A quotient up to two. *)
LEMMA Quotient ==
  ASSUME NEW a \in Nat, NEW m \in Nat \ {0}
  PROVE  /\ a < m => a \div m <= 0
         /\ a < 2 * m => a \div m <= 1
         /\ a < 3 * m => a \div m <= 2
         /\ a >= 2 * m => a \div m >= 2
<1> DEFINE q == a \div m
           r == a % m
<1>1. q \in Nat /\ r \in 0 .. m - 1 /\ a = m * q + r
  OBVIOUS
<1> HIDE DEF q, r
<1>2. ASSUME NEW k \in Nat, q >= k PROVE a >= m * k
  <2>1. PICK t \in Nat : q = k + t
    BY <1>1, <1>2
  <2>2. m * q = m * k + m * t /\ m * k \in Nat /\ m * t \in Nat
    BY <2>1
  <2> QED BY <1>1, <2>2
<1>3. q >= 1 => a >= m
  BY <1>2
<1>4. q >= 2 => a >= 2 * m
  BY <1>2
<1>5. q >= 3 => a >= 3 * m
  BY <1>2
<1>6. q = 0 => a < m
  BY <1>1
<1>7. q = 1 => a < 2 * m
  BY <1>1
<1> QED BY <1>1, <1>3, <1>4, <1>5, <1>6, <1>7 DEF q

LEMMA NeededBounds ==
  ASSUME NEW data, Len(data) \in Nat
  PROVE  /\ Len(data) = 0 => Needed(data) = 0
         /\ Len(data) <= SlotsPerBlock => Needed(data) <= 1
         /\ Len(data) <= 2 * SlotsPerBlock => Needed(data) <= 2
         /\ Len(data) > SlotsPerBlock => Needed(data) >= 2
<1> DEFINE m == SlotsPerBlock
           n == Len(data)
           a == n + m - 1
<1>1. m \in Nat \ {0} /\ n \in Nat
  BY Fat32Assumption
<1>2. a \in Nat /\ Needed(data) = a \div m /\ Needed(data) \in Nat
  BY <1>1, NeededType DEF Needed
<1> HIDE DEF m, n
<1>3. /\ n = 0 => a < m
      /\ n <= m => a < 2 * m
      /\ n <= 2 * m => a < 3 * m
      /\ n > m => a >= 2 * m
  BY <1>1
<1> HIDE DEF a
<1> QED BY <1>1, <1>2, <1>3, Quotient DEF m, n

(* A file that write_file_data has written completely and that needs more  *)
(* than one cluster has them: its first is linked to another.              *)
LEMMA FileLinked ==
  ASSUME NEW limit, NEW r \in Running(limit), NEW s \in Clusters, r.disk.fat[s] # FREE,
         NEW data \in Seq(Slots), Len(data) > SlotsPerBlock, write_file_data(r, s, data).ok
  PROVE  write_file_data(r, s, data).disk.fat[s] \in Clusters \ {s}
<1> DEFINE d == r.disk
           old == read_chain(d, s)
           k == Len(old)
           w == write_file_data(r, s, data)
<1>0. PICK m \in Nat : \E cs : FileDataRun(r, s, data, m, cs)
  BY FileDataShape
<1>1. PICK cs : FileDataRun(r, s, data, m, cs)
  BY <1>0
<1> DEFINE g == AllocateTimes(r, m)
           b == WriteBlocks(g, cs, data)
<1>2. g \in Running(limit) /\ (g.ok /\ m # 0 => g.cluster \in FreeClusters(d))
  BY Allocate
<1>3. IsChain(d, s, old)
  BY ReadChain
<1>4. k \in Nat \ {0} /\ old[1] = s /\ \A i, j \in 1 .. k : old[i] = old[j] => i = j
  BY <1>3 DEF IsChain, Follows
<1>5. /\ ~g.ok => w = g
      /\ Needed(data) <= k + m
      /\ g.ok => /\ cs \in Seq(Clusters) /\ Len(cs) = k + m
                 /\ \A i \in 1 .. k : cs[i] = old[i]
                 /\ \A i \in k + 1 .. Len(cs) : cs[i] = g.cluster
                 /\ w = WriteLinks(b, cs)
  BY <1>1 DEF FileDataRun
<1> HIDE DEF g, old, d, w
<1>6. g.ok
  BY <1>5 DEF w
<1>7. Len(cs) >= 2 /\ Len(cs) = k + m
  <2>1. Needed(data) \in Nat /\ Needed(data) >= 2
    BY NeededType, NeededBounds
  <2> QED BY <1>4, <1>5, <1>6, <2>1
<1>8. cs[1] = s /\ 1 \in 1 .. k
  BY <1>4, <1>5, <1>6
<1>9. ASSUME NEW n \in 1 .. Len(cs), n # 1 PROVE cs[n] # s
  <2>1. CASE n <= k
    <3>1. n \in 1 .. k
      BY <1>4, <2>1
    <3> QED BY <1>4, <1>5, <1>6, <1>8, <1>9, <3>1
  <2>2. CASE ~(n <= k)
    <3>1. n \in k + 1 .. Len(cs) /\ m # 0
      BY <1>4, <1>7, <2>2
    <3>2. cs[n] \in FreeClusters(d)
      BY <1>2, <1>5, <1>6, <3>1
    <3> QED BY <3>2 DEF FreeClusters, d
  <2> QED BY <2>1, <2>2
<1>10. b \in Running(limit)
  <2>1. \A n \in 1 .. Len(cs) : BlockOf(data, n) \in Blocks
    BY <1>5, <1>6, BlockType
  <2> QED BY <1>2, <1>5, <1>6, <2>1, BlocksWritten
<1> HIDE DEF b
<1>11. Linked(b, w, cs)
  BY <1>5, <1>6, <1>10, LinksWritten
<1>12. 1 \in 1 .. Len(cs) /\ 2 \in 1 .. Len(cs) /\ 1 < Len(cs)
  BY <1>4, <1>7
<1>13. w.ok
  BY DEF w
<1>14. PICK n \in 1 .. Len(cs) : cs[1] = cs[n] /\ w.disk.fat[cs[1]] = NextOf(cs, n)
  BY <1>11, <1>12, <1>13 DEF Linked
<1>15. w.disk.fat[s] = NextOf(cs, 1)
  BY <1>8, <1>9, <1>14
<1>16. NextOf(cs, 1) = cs[2] /\ cs[2] \in Clusters /\ cs[2] # s
  BY <1>5, <1>6, <1>9, <1>12 DEF NextOf
<1> QED BY <1>15, <1>16 DEF w

LEMMA NewFileLinked ==
  ASSUME NEW limit, NEW r \in Running(limit), NEW data \in Seq(Slots),
         Len(data) > SlotsPerBlock, allocate_and_write(r, data).ok
  PROVE  LET res == allocate_and_write(r, data)
         IN  res.disk.fat[res.cluster] \in Clusters \ {res.cluster}
<1> DEFINE first == alloc_cluster(r)
           x == first.cluster
           marked == write_fat_entry(first, x, EOC)
           w == write_file_data(marked, x, data)
           res == allocate_and_write(r, data)
<1>0. data # <<>>
  <2>1. Len(data) > 0
    BY Fat32Assumption
  <2> QED BY <2>1
<1>1. res = IF ~marked.ok THEN marked ELSE [w EXCEPT !.cluster = x]
  BY <1>0, Zenon DEF allocate_and_write
<1>2. /\ first \in Running(limit) /\ first.disk \in Disk
      /\ first.ok => x \in FreeClusters(r.disk)
  BY AllocCluster, RunningFields
<1>3. first.ok => x \in Clusters
  BY <1>2 DEF FreeClusters
<1> HIDE DEF first, x
<1>4. marked \in Running(limit) /\ Writes(first, marked, SetFat(first.disk, x, EOC))
  BY <1>2, <1>3, WriteFat DEF FatValues
<1>5. res.ok
  OBVIOUS
<1> HIDE DEF marked, res
<1>6. marked.ok /\ res = [w EXCEPT !.cluster = x]
  BY <1>1, <1>5
<1>7. x \in Clusters /\ marked.disk = SetFat(first.disk, x, EOC)
  BY <1>3, <1>4, <1>6 DEF Writes
<1>8. marked.disk.fat[x] # FREE
  <2>1. EOC \in FatValues
    BY DEF FatValues
  <2>2. SetFat(first.disk, x, EOC).fat[x] = EOC
    BY <1>2, <1>7, <2>1, SetFatAt
  <2> QED BY <1>7, <2>2 DEF FREE, EOC
<1>9. w \in Running(limit)
  BY <1>4, FileDataType
<1>10. res.disk = w.disk /\ res.ok = w.ok /\ res.cluster = x
  <2> HIDE DEF w
  <2> QED BY <1>6, <1>7, <1>9, ClusterSet
<1>11. w.disk.fat[x] \in Clusters \ {x}
  BY <1>4, <1>5, <1>7, <1>8, <1>10, FileLinked
<1> QED BY <1>10, <1>11 DEF res

(* What a new file gets is enough. *)
LEMMA NewFileFits ==
  ASSUME NEW limit, NEW r \in Running(limit), NEW data \in Seq(Slots),
         Len(data) <= 2 * SlotsPerBlock, \A k \in 1 .. Len(data) : ~IsEntry(data[k]),
         allocate_and_write(r, data).ok, NEW kind, NEW name
  PROVE  LET res == allocate_and_write(r, data)
         IN  Fits(res.disk, Slot(kind, name, res.cluster, Len(data)))
<1> DEFINE res == allocate_and_write(r, data)
<1>1. res.cluster # 0
  <2>1. PICK P : Allocates(r.disk, res, P)
    BY AllocateAndWrite
  <2>2. res.cluster \in Clusters
    BY <2>1 DEF Allocates, FreeClusters
  <2> QED BY <2>2, ClusterFacts
<1>2. Len(data) > SlotsPerBlock => res.disk.fat[res.cluster] \in Clusters \ {res.cluster}
  BY NewFileLinked
<1> HIDE DEF res
<1>3. Fits(res.disk, Slot(kind, name, res.cluster, Len(data)))
  BY <1>1, <1>2 DEF Fits, Slot
<1> QED BY <1>3 DEF res

(* The blocks of a complete write to different clusters. *)
LEMMA BlocksHeld ==
  ASSUME NEW limit, NEW r \in Running(limit), NEW cs \in Seq(Clusters), NEW data,
         \A n \in 1 .. Len(cs) : BlockOf(data, n) \in Blocks,
         \A i, n \in 1 .. Len(cs) : cs[i] = cs[n] => i = n,
         WriteBlocks(r, cs, data).ok
  PROVE  \A i \in 1 .. Len(cs) : WriteBlocks(r, cs, data).disk.data[cs[i]] = BlockOf(data, i)
<1> DEFINE N == Len(cs)
<1>1. N \in Nat /\ \A n \in 1 .. N : cs[n] \in Clusters
  OBVIOUS
<1>2. PICK f : BlocksRun(limit, r, cs, data, f)
  BY WriteBlocksRun
<1>3. /\ f \in [0 .. N -> Running(limit)] /\ f[0] = r /\ WriteBlocks(r, cs, data) = f[N]
      /\ \A n \in 1 .. N : f[n] = write_cluster(f[n - 1], cs[n], BlockOf(data, n))
  BY <1>2 DEF BlocksRun
<1> DEFINE Good(n) == f[n].ok => \A i \in 1 .. n : f[n].disk.data[cs[i]] = BlockOf(data, i)
           S == {n \in 0 .. N : Good(n)}
<1>4. 0 \in S
  BY <1>1
<1>5. ASSUME NEW n \in 1 .. N, n - 1 \in S PROVE n \in S
  <2> DEFINE p == f[n - 1]
             q == f[n]
             b == BlockOf(data, n)
  <2>1. /\ p \in Running(limit) /\ q = write_cluster(p, cs[n], b) /\ n \in 0 .. N
        /\ cs[n] \in Clusters /\ b \in Blocks
    BY <1>1, <1>3
  <2> SUFFICES ASSUME q.ok, NEW i \in 1 .. n PROVE q.disk.data[cs[i]] = BlockOf(data, i)
    BY <2>1
  <2>2. Good(n - 1)
    <3> HIDE DEF Good
    <3> QED BY <1>5
  <2>3. i # n => i \in 1 .. n - 1 /\ cs[i] # cs[n]
    BY <1>1
  <2>4. cs[i] \in Clusters
    BY <1>1
  <2> HIDE DEF p, q, b
  <2>5. Writes(p, q, SetData(p.disk, cs[n], b)) /\ p.disk \in Disk
    BY <2>1, WriteData, RunningFields
  <2>6. p.ok /\ q.disk = SetData(p.disk, cs[n], b)
    BY <2>5 DEF Writes
  <2>7. \A c \in Clusters : q.disk.data[c] = IF c = cs[n] THEN b ELSE p.disk.data[c]
    BY <2>1, <2>5, <2>6, SetDataAt
  <2>8. CASE i = n
    BY <2>4, <2>7, <2>8 DEF b
  <2>9. CASE i # n
    BY <2>2, <2>3, <2>4, <2>6, <2>7, <2>9 DEF p
  <2> QED BY <2>8, <2>9
<1>6. N \in S
  <2> HIDE DEF S, N
  <2> QED BY <1>1, <1>4, <1>5, UpTo, Zenon
<1> QED BY <1>3, <1>6

(* A file of up to two clusters that is written completely to a chain of   *)
(* one cluster holds its data.                                             *)
LEMMA FileHolds ==
  ASSUME NEW limit, NEW r \in Running(limit), NEW x \in Clusters, r.disk.fat[x] = EOC,
         NEW data \in Seq(Slots), Len(data) <= 2 * SlotsPerBlock, write_file_data(r, x, data).ok
  PROVE  Holds(write_file_data(r, x, data).disk, x, data)
<1> DEFINE d == r.disk
           old == read_chain(d, x)
           w == write_file_data(r, x, data)
<1>0. PICK m \in Nat : \E cs : FileDataRun(r, x, data, m, cs)
  BY FileDataShape
<1>1. PICK cs : FileDataRun(r, x, data, m, cs)
  BY <1>0
<1> DEFINE g == AllocateTimes(r, m)
           b == WriteBlocks(g, cs, data)
           N == Len(cs)
<1>2. g \in Running(limit) /\ (g.ok /\ m # 0 => g.cluster \in FreeClusters(d))
  BY Allocate
<1>3. Len(old) = 1 /\ old[1] = x
  <2> DEFINE one == <<x>>
  <2>1. old = one
    BY ClusterFacts, ChainOfOne
  <2>2. Len(one) = 1 /\ one[1] = x
    OBVIOUS
  <2> HIDE DEF one
  <2> QED BY <2>1, <2>2
<1>4. /\ ~g.ok => w = g
      /\ Needed(data) <= Len(old) + m /\ (m # 0 => Len(old) + m <= Needed(data))
      /\ g.ok => /\ cs \in Seq(Clusters) /\ Len(cs) = Len(old) + m
                 /\ \A i \in 1 .. Len(old) : cs[i] = old[i]
                 /\ \A i \in Len(old) + 1 .. Len(cs) : cs[i] = g.cluster
                 /\ w = WriteLinks(b, cs)
  BY <1>1 DEF FileDataRun
<1>5. w.ok
  OBVIOUS
<1> HIDE DEF g, old, d, w
<1>6. /\ g.ok /\ cs \in Seq(Clusters) /\ N = 1 + m /\ cs[1] = x
      /\ \A i \in 2 .. N : cs[i] = g.cluster
      /\ w = WriteLinks(b, cs)
  BY <1>3, <1>4, <1>5
<1>7. N \in {1, 2} /\ Len(data) <= N * SlotsPerBlock
  <2>1. Needed(data) \in Nat /\ Needed(data) <= 2 /\ Len(data) \in Nat
    BY NeededType, NeededBounds
  <2>2. Len(data) > SlotsPerBlock => Needed(data) >= 2
    BY <2>1, NeededBounds
  <2>3. SlotsPerBlock \in Nat
    BY Fat32Assumption
  <2>4. m = 0 \/ m = 1
    BY <1>3, <1>4, <2>1
  <2>5. CASE m = 0
    BY <1>3, <1>4, <1>6, <2>1, <2>2, <2>3, <2>5
  <2>6. CASE m = 1
    BY <1>6, <2>6
  <2> QED BY <2>4, <2>5, <2>6
<1>8. N = 2 => cs[2] # x
  <2> SUFFICES ASSUME N = 2 PROVE cs[2] # x
    OBVIOUS
  <2>1. m # 0 /\ cs[2] = g.cluster
    BY <1>6
  <2>2. g.cluster \in FreeClusters(d)
    BY <1>2, <1>6, <2>1
  <2> QED BY <2>1, <2>2, ClusterFacts DEF FreeClusters, d
<1>9. \A i, n \in 1 .. N : cs[i] = cs[n] => i = n
  BY <1>6, <1>7, <1>8
<1>10. \A n \in 1 .. N : BlockOf(data, n) \in Blocks
  BY <1>7, BlockType
<1>11. b \in Running(limit)
  BY <1>2, <1>6, <1>10, BlocksWritten
<1>12. Linked(b, w, cs)
  <2> HIDE DEF b
  <2> QED BY <1>6, <1>11, LinksWritten
<1>13. b.ok /\ w.disk.data = b.disk.data
  BY <1>5, <1>12 DEF Linked
<1>14. \A i \in 1 .. N : w.disk.data[cs[i]] = BlockOf(data, i)
  BY <1>2, <1>6, <1>9, <1>10, <1>13, BlocksHeld
<1>15. \A i \in 1 .. N : w.disk.fat[cs[i]] = NextOf(cs, i)
  BY <1>5, <1>9, <1>12 DEF Linked
<1>16. read_chain(w.disk, x) = cs
  <2>1. Follows(w.disk, x, cs)
    BY <1>6, <1>7, <1>9, <1>15 DEF Follows, NextOf
  <2>2. Ended(w.disk, cs)
    BY <1>6, <1>7, <1>15, ClusterFacts DEF Ended, NextOf
  <2> QED BY <2>1, <2>2, ReadChain, ChainAgrees DEF IsChain
<1>17. w.disk \in Disk
  <2>1. w \in Running(limit)
    BY FileDataType DEF w
  <2> QED BY <2>1, RunningFields
<1>18. ASSUME NEW k \in 1 .. Len(data)
       PROVE  k \in DOMAIN SlotsOf(w.disk, x) /\ SlotsOf(w.disk, x)[k] = data[k]
  <2>1. N \in Nat /\ SlotsPerBlock \in Nat /\ Len(data) \in Nat /\ N * SlotsPerBlock \in Nat
    BY <1>7, Fat32Assumption
  <2>2. k \in 1 .. N * SlotsPerBlock
    BY <1>7, <2>1
  <2>3. /\ k \in DOMAIN SlotsOf(w.disk, x)
        /\ SlotsOf(w.disk, x)[k] = w.disk.data[cs[BlockAt(k)]][PlaceAt(k)]
    BY <1>16, <1>17, <2>2, SlotsOfType
  <2>4. /\ BlockAt(k) \in 1 .. N /\ PlaceAt(k) \in Places
        /\ k = (BlockAt(k) - 1) * SlotsPerBlock + PlaceAt(k)
    BY <2>1, <2>2, SlotPlace
  <2>5. BlockOf(data, BlockAt(k))[PlaceAt(k)] = data[k]
    BY <2>1, <2>4 DEF BlockOf, Places
  <2> QED BY <1>14, <2>3, <2>4, <2>5
<1> QED BY <1>18 DEF Holds, w

LEMMA NewFileHolds ==
  ASSUME NEW limit, NEW r \in Running(limit), NEW data \in Seq(Slots),
         Len(data) <= 2 * SlotsPerBlock, allocate_and_write(r, data).ok
  PROVE  Holds(allocate_and_write(r, data).disk, allocate_and_write(r, data).cluster, data)
<1> DEFINE first == alloc_cluster(r)
           x == first.cluster
           marked == write_fat_entry(first, x, EOC)
           w == write_file_data(marked, x, data)
           res == allocate_and_write(r, data)
<1>0. SUFFICES ASSUME data # <<>> PROVE Holds(res.disk, res.cluster, data)
  <2>1. data = <<>> => Len(data) = 0
    OBVIOUS
  <2> QED BY <2>1 DEF Holds
<1>1. res = IF ~marked.ok THEN marked ELSE [w EXCEPT !.cluster = x]
  BY <1>0, Zenon DEF allocate_and_write
<1>2. /\ first \in Running(limit) /\ first.disk \in Disk
      /\ first.ok => x \in FreeClusters(r.disk)
  BY AllocCluster, RunningFields
<1>3. first.ok => x \in Clusters
  BY <1>2 DEF FreeClusters
<1> HIDE DEF first, x
<1>4. marked \in Running(limit) /\ Writes(first, marked, SetFat(first.disk, x, EOC))
  BY <1>2, <1>3, WriteFat DEF FatValues
<1>5. res.ok
  OBVIOUS
<1> HIDE DEF marked, res
<1>6. marked.ok /\ res = [w EXCEPT !.cluster = x]
  BY <1>1, <1>5
<1>7. x \in Clusters /\ marked.disk = SetFat(first.disk, x, EOC)
  BY <1>3, <1>4, <1>6 DEF Writes
<1>8. marked.disk.fat[x] = EOC
  <2>1. EOC \in FatValues
    BY DEF FatValues
  <2>2. SetFat(first.disk, x, EOC).fat[x] = EOC
    BY <1>2, <1>7, <2>1, SetFatAt
  <2> QED BY <1>7, <2>2
<1>9. w \in Running(limit)
  BY <1>4, FileDataType
<1>10. res.disk = w.disk /\ res.ok = w.ok /\ res.cluster = x
  <2> HIDE DEF w
  <2> QED BY <1>6, <1>7, <1>9, ClusterSet
<1>11. Holds(w.disk, x, data)
  BY <1>4, <1>5, <1>7, <1>8, <1>10, FileHolds
<1> QED BY <1>10, <1>11

LEMMA FileClaims ==
  ASSUME NEW limit, NEW r \in Running(limit), NEW x \in Clusters, r.disk.fat[x] = EOC,
         NEW data \in Seq(Slots), write_file_data(r, x, data).ok
  PROVE  Claims(r.disk, write_file_data(r, x, data).disk, x)
<1> DEFINE d == r.disk
           old == read_chain(d, x)
           w == write_file_data(r, x, data)
<1>0. PICK m \in Nat : \E cs : FileDataRun(r, x, data, m, cs)
  BY FileDataShape
<1>1. PICK cs : FileDataRun(r, x, data, m, cs)
  BY <1>0
<1> DEFINE g == AllocateTimes(r, m)
           b == WriteBlocks(g, cs, data)
           N == Len(cs)
           y == g.cluster
<1>2. /\ g \in Running(limit) /\ (g.ok /\ m # 0 => y \in FreeClusters(d))
      /\ g.disk.fat = d.fat
  BY Allocate
<1>3. Len(old) = 1 /\ old[1] = x
  <2> DEFINE one == <<x>>
  <2>1. old = one
    BY ClusterFacts, ChainOfOne
  <2>2. Len(one) = 1 /\ one[1] = x
    OBVIOUS
  <2> HIDE DEF one
  <2> QED BY <2>1, <2>2
<1>4. /\ ~g.ok => w = g
      /\ g.ok => /\ cs \in Seq(Clusters) /\ Len(cs) = Len(old) + m
                 /\ \A i \in 1 .. Len(old) : cs[i] = old[i]
                 /\ \A i \in Len(old) + 1 .. Len(cs) : cs[i] = y
                 /\ w = WriteLinks(b, cs)
  BY <1>1 DEF FileDataRun
<1>5. w.ok
  OBVIOUS
<1> HIDE DEF g, old, w
<1>6. /\ g.ok /\ cs \in Seq(Clusters) /\ N = 1 + m /\ cs[1] = x
      /\ \A i \in 2 .. N : cs[i] = y
      /\ w = WriteLinks(b, cs)
  BY <1>3, <1>4, <1>5
<1>7. b \in Running(limit) /\ b.disk.fat = d.fat
  <2>1. \A n \in 1 .. Len(cs) : BlockOf(data, n) \in Blocks
    BY <1>6, BlockType
  <2> QED BY <1>2, <1>6, <2>1, BlocksWritten
<1> HIDE DEF b, d
<1>8. Linked(b, w, cs)
  BY <1>6, <1>7, LinksWritten
<1>9. \A c \in Clusters : w.disk.fat[c] # d.fat[c] => \E n \in 1 .. N : c = cs[n]
  BY <1>7, <1>8 DEF Linked
<1>10. x \in Range(read_chain(w.disk, x))
  BY ChainFirst
<1>11. ASSUME m # 0 PROVE y \in Range(read_chain(w.disk, x))
  <2>1. y \in Clusters /\ y # x
    BY <1>2, <1>6, <1>11, ClusterFacts DEF FreeClusters, d
  <2>2. N \in Nat /\ N >= 2 /\ 1 \in 1 .. N /\ 2 \in 1 .. N
    BY <1>6, <1>11
  <2>3. ASSUME NEW n \in 1 .. N, cs[n] = x PROVE n = 1
    BY <1>6, <2>1, <2>2, <2>3
  <2>4. w.disk.fat[x] = y
    <3>1. PICK n \in 1 .. N : cs[1] = cs[n] /\ w.disk.fat[cs[1]] = NextOf(cs, n)
      BY <1>5, <1>8, <2>2 DEF Linked
    <3>2. n = 1
      BY <1>6, <2>3, <3>1
    <3> QED BY <1>6, <2>2, <3>1, <3>2 DEF NextOf
  <2>5. w.disk.fat[y] \in {y, EOC}
    <3>1. PICK n \in 1 .. N : cs[2] = cs[n] /\ 2 <= n /\ w.disk.fat[cs[2]] = NextOf(cs, n)
      BY <1>5, <1>8, <2>2 DEF Linked
    <3>2. cs[2] = y
      BY <1>6, <2>2
    <3>3. NextOf(cs, n) \in {y, EOC}
      BY <1>6, <2>2, <3>1 DEF NextOf
    <3> QED BY <3>1, <3>2, <3>3
  <2>6. Range(read_chain(w.disk, x)) = {x, y}
    <3>1. w.disk.fat[y] \notin Clusters \/ w.disk.fat[y] = y
      BY <2>5, ClusterFacts
    <3> HIDE DEF y
    <3> QED BY <2>1, <2>4, <3>1, ChainOfTwo
  <2> QED BY <2>6
<1>12. ASSUME NEW n \in 1 .. N PROVE cs[n] \in Range(read_chain(w.disk, x))
  <2>1. n = 1 \/ (m # 0 /\ n \in 2 .. N)
    BY <1>6
  <2> QED BY <1>6, <1>10, <1>11, <2>1
<1> QED BY <1>9, <1>12 DEF Claims, w, d

LEMMA NewFileClaims ==
  ASSUME NEW limit, NEW r \in Running(limit), NEW data \in Seq(Slots), allocate_and_write(r, data).ok
  PROVE  Claims(r.disk, allocate_and_write(r, data).disk, allocate_and_write(r, data).cluster)
<1> DEFINE first == alloc_cluster(r)
           x == first.cluster
           marked == write_fat_entry(first, x, EOC)
           w == write_file_data(marked, x, data)
           res == allocate_and_write(r, data)
           done == IF data = <<>> THEN marked ELSE w
<1>1. res = IF ~marked.ok THEN marked ELSE [done EXCEPT !.cluster = x]
  BY Zenon DEF allocate_and_write
<1>2. /\ first \in Running(limit) /\ first.disk \in Disk /\ r.disk \in Disk
      /\ Writes(r, first, SetData(r.disk, x, ZeroBlock))
      /\ first.ok => x \in FreeClusters(r.disk)
  BY AllocCluster, RunningFields
<1>3. first.ok => x \in Clusters
  BY <1>2 DEF FreeClusters
<1> HIDE DEF first, x
<1>4. marked \in Running(limit) /\ Writes(first, marked, SetFat(first.disk, x, EOC))
  BY <1>2, <1>3, WriteFat DEF FatValues
<1>5. res.ok
  OBVIOUS
<1> HIDE DEF marked, res
<1>6. marked.ok /\ res = [done EXCEPT !.cluster = x]
  BY <1>1, <1>5
<1>7. x \in Clusters /\ marked.disk = SetFat(first.disk, x, EOC) /\ first.ok
  BY <1>3, <1>4, <1>6 DEF Writes
<1>8. \A c \in Clusters : marked.disk.fat[c] = IF c = x THEN EOC ELSE r.disk.fat[c]
  <2>1. EOC \in FatValues /\ ZeroBlock \in Blocks
    BY SpecialSlots DEF FatValues, Blocks
  <2>2. \A c \in Clusters : SetFat(first.disk, x, EOC).fat[c] = IF c = x THEN EOC ELSE first.disk.fat[c]
    BY <1>2, <1>7, <2>1, SetFatAt
  <2>3. first.disk = SetData(r.disk, x, ZeroBlock)
    BY <1>2, <1>7 DEF Writes
  <2>4. SetData(r.disk, x, ZeroBlock).fat = r.disk.fat
    BY <1>2, <1>7, <2>1, SetDataAt
  <2> QED BY <1>7, <2>2, <2>3, <2>4
<1>9. w \in Running(limit)
  BY <1>4, FileDataType
<1>10. done \in Running(limit)
  BY <1>4, <1>9
<1> HIDE DEF done
<1>11. res.disk = done.disk /\ res.ok = done.ok /\ res.cluster = x
  BY <1>6, <1>7, <1>10, ClusterSet
<1>12. x \in Range(read_chain(done.disk, x))
  BY <1>7, ChainFirst
<1>13. Claims(marked.disk, done.disk, x)
  <2>1. CASE data = <<>>
    BY <2>1 DEF Claims, done
  <2>2. CASE data # <<>>
    <3>1. w.ok /\ done = w
      BY <1>5, <1>11, <2>2 DEF done
    <3>2. Claims(marked.disk, w.disk, x)
      BY <1>4, <1>7, <1>8, <3>1, FileClaims
    <3> QED BY <3>1, <3>2
  <2> QED BY <2>1, <2>2
<1>14. Claims(r.disk, done.disk, x)
  BY <1>8, <1>12, <1>13 DEF Claims
<1> QED BY <1>11, <1>14 DEF res

(* Room is kept where entries stay or fit and the links of files stay. *)
LEMMA RoomKept ==
  ASSUME NEW d, NEW L, Forest(d, L), Room(d, L), NEW e, NEW M, Forest(e, M),
         \A z \in L \cap M : d.fat[z] \in Clusters \ {z} => e.fat[z] = d.fat[z],
         \A c \in M, j \in Places : EntryIn(e, c, j) =>
           \/ Fits(e, e.data[c][j])
           \/ c \in L /\ e.data[c][j] = d.data[c][j]
  PROVE  Room(e, M)
<1> SUFFICES ASSUME NEW c \in M, NEW j \in Places, EntryIn(e, c, j) PROVE Fits(e, e.data[c][j])
  BY DEF Room
<1>1. CASE Fits(e, e.data[c][j])
  BY <1>1
<1>2. CASE c \in L /\ e.data[c][j] = d.data[c][j]
  <2> DEFINE slot == d.data[c][j]
             h == slot.cluster
  <2>1. EntryIn(d, c, j) /\ Fits(d, slot) /\ h = HeadIn(d, c, j) /\ h = HeadIn(e, c, j)
    BY <1>2 DEF Room, EntryIn, HeadIn
  <2>2. h # 0 => h \in L /\ h \in M
    BY <1>2, <2>1 DEF Forest, ForestEntries, Top
  <2> HIDE DEF slot
  <2>3. Fits(e, slot)
    BY <2>1, <2>2 DEF Fits
  <2> QED BY <1>2, <2>3 DEF slot
<1> QED BY <1>1, <1>2

LEMMA RoomSame ==
  ASSUME NEW d, NEW L, Forest(d, L), Room(d, L), NEW e, Same(d, e, L)
  PROVE  Room(e, L)
<1>1. Forest(e, L)
  BY ForestSame
<1> QED BY <1>1, RoomKept DEF Same

LEMMA RoomChanged ==
  ASSUME NEW d, NEW L, Forest(d, L), Room(d, L), NEW e, NEW M, NEW D, M \subseteq L,
         NEW c, NEW j, NEW slot, Changed(d, e, M, c, j, slot), ~IsEntry(slot) \/ Fits(e, slot),
         Forest(e, M \cup D), D \cap L = {}, \A z \in D : Plain(e.data[z])
  PROVE  Room(e, M \cup D)
<1>1. \A z \in L \cap (M \cup D) : e.fat[z] = d.fat[z]
  BY DEF Changed
<1>2. ASSUME NEW z \in M \cup D, NEW k \in Places, EntryIn(e, z, k)
      PROVE  Fits(e, e.data[z][k]) \/ (z \in L /\ e.data[z][k] = d.data[z][k])
  <2>1. z \in M
    BY <1>2 DEF Plain, EntryIn
  <2>2. e.data[z][k] = IF z = c /\ k = j THEN slot ELSE d.data[z][k]
    BY <2>1 DEF Changed
  <2> QED BY <1>2, <2>1, <2>2 DEF EntryIn
<1> QED BY <1>1, <1>2, RoomKept

LEMMA FinishView ==
  ASSUME NEW r, Finish(r), NEW p \in Paths
  PROVE  /\ disk' = r.disk /\ view' = Survey(r.disk) /\ view'[p] = Look(r.disk, p)
         /\ view'[p].clusters = Range(read_chain(r.disk, EntryAt(r.disk, p).cluster))
         /\ EntryAt(r.disk, p) # End => view'[p].kind = EntryAt(r.disk, p).kind
<1>1. disk' = r.disk /\ view' = Survey(r.disk)
  BY DEF Finish
<1>2. view'[p] = Look(r.disk, p)
  BY <1>1 DEF Survey
<1> QED BY <1>1, <1>2 DEF Look

(* A free cluster in the chain of a path, or of the root, is damage. *)
LEMMA DamageSeen ==
  ASSUME NEW r, Finish(r), r.disk \in Disk, NEW p, p = <<>> \/ p \in Paths,
         NEW z \in Range(read_chain(r.disk, EntryAt(r.disk, p).cluster)),
         r.disk.fat[z] = FREE
  PROVE  damaged'
<1>1. z \in InUse(r.disk, view')
  <2>1. CASE p = <<>>
    <3>1. z \in RootClusters(r.disk)
      BY <2>1, EntryAtRoot, SpecialSlots DEF RootClusters
    <3> QED BY <3>1 DEF InUse
  <2>2. CASE p \in Paths
    <3>1. z \in view'[p].clusters
      BY <2>2, FinishView
    <3> QED BY <2>2, <3>1 DEF InUse
  <2> QED BY <2>1, <2>2
<1> QED BY <1>1 DEF Finish

LEMMA DeleteForest ==
  ASSUME TypeOK, NEW path \in Paths, NEW limit \in Limits, EntryAt(disk, path) # End,
         Delete(path, limit), NEW L, Forest(disk, L)
  PROVE  /\ ForestFrom(L) /\ (NothingDone(L) \/ SlotChanges(L, path, Deleted))
         /\ reply' = "Ok" => Keeps(path, {})
<1> DEFINE s == ParentCluster(disk, path)
           name == Last(path)
           r == Started(disk, limit)
           removed == remove_entry(r, s, name)
           h == EntryAt(disk, path).cluster
           q == IF removed.ok THEN free_chain(removed, h) ELSE removed
           i == EntrySlot(disk, s, name)
           C == Range(read_chain(disk, h))
<1>1. limit \in Int /\ disk \in Disk /\ path \in Seq(Names) /\ path # <<>>
  BY LimitFacts, PathFacts DEF TypeOK
<1>2. r \in Running(limit) /\ r.ok /\ r.disk = disk
  BY <1>1, StartedType
<1>a. Finish(q)
  BY DEF Delete
<1>3. disk' = q.disk
  BY <1>a DEF Finish
<1>4. PICK c, j : Placed(disk, L, path, c, j)
  BY <1>1, PathPlaced
<1>5. /\ i # 0 /\ c = HomeOf(disk, s, i) /\ j = PlaceAt(i)
      /\ c \in L /\ c \in Clusters /\ j \in Places
      /\ EntryIn(disk, c, j) /\ HeadIn(disk, c, j) = h /\ c \notin C
  BY <1>4 DEF Placed, HeadIn
<1> HIDE DEF r
<1>6. removed \in Running(limit) /\ Writes(r, removed, SetSlot(disk, c, j, Deleted))
  BY <1>2, <1>5, RemoveEntry
<1> HIDE DEF removed, s, name, h, i
<1>7. CASE ~removed.ok /\ removed.disk = disk
  <2>1. disk' = disk
    BY <1>3, <1>7
  <2>2. reply' = "Error"
    BY <1>7, <1>a DEF Finish
  <2> QED BY <2>1, <2>2 DEF ForestFrom, NothingDone, Same
<1>8. CASE removed.ok \/ removed.disk # disk
  <2> DEFINE d1 == SetSlot(disk, c, j, Deleted)
             b == read_chain(removed.disk, h)
  <2>1. removed.disk = d1
    BY <1>2, <1>6, <1>8 DEF Writes
  <2>a. Deleted \in Slots
    BY SpecialSlots
  <2>b. d1 \in Disk /\ Changed(disk, d1, Clusters, c, j, Deleted)
    BY <1>1, <1>5, <2>a, SlotSet
  <2>c. d1.fat = disk.fat
    BY <1>1 DEF SetSlot, SetData
  <2>2. /\ d1 \in Disk /\ d1.fat = disk.fat /\ Changed(disk, d1, Clusters, c, j, Deleted)
    BY <2>b, <2>c
  <2> HIDE DEF d1
  <2>3. b = read_chain(disk, h)
    BY <2>1, <2>2, ChainFat
  <2>4. PICK n \in 0 .. Len(b) : q.disk = Freed(d1, Upto(b, n)) /\ (q.ok => n = Len(b))
    <3>1. CASE removed.ok
      BY <1>6, <2>1, <3>1, FreeChain
    <3>2. CASE ~removed.ok
      <4>1. q.disk = Freed(d1, Upto(b, 0)) /\ ~q.ok
        BY <2>1, <2>2, <3>2, FreedNone
      <4>2. 0 \in 0 .. Len(b)
        BY <2>3, ChainType
      <4> QED BY <4>1, <4>2
    <3> QED BY <3>1, <3>2
  <2>5. Upto(b, n) \subseteq C
    <3>1. C = {b[k] : k \in 1 .. Len(b)} /\ Len(b) \in Nat
      BY <2>3, ChainType
    <3>2. 1 .. n \subseteq 1 .. Len(b)
      BY <3>1
    <3> QED BY <3>1, <3>2 DEF Upto
  <2> HIDE DEF b, C
  <2>6. L \subseteq Clusters
    BY ForestUsed
  <2>7. Changed(disk, disk', L \ C, c, j, Deleted)
    <3> SUFFICES ASSUME NEW z \in L \ C
                 PROVE  /\ disk'.fat[z] = disk.fat[z]
                        /\ \A k \in Places : disk'.data[z][k] =
                             IF z = c /\ k = j THEN Deleted ELSE disk.data[z][k]
      BY DEF Changed
    <3>1. disk'.fat[z] = d1.fat[z] /\ disk'.data = d1.data /\ z \in Clusters
      BY <1>3, <2>4, <2>5, <2>6 DEF Freed
    <3> QED BY <2>2, <3>1 DEF Changed
  <2>8. Forest(disk', L \ C)
    BY <1>5, <2>7, ForestDrop, SpecialSlots DEF C
  <2>9. disk' \in Disk
    BY DeleteType DEF TypeOK
  <2>10. ASSUME Tidy(disk, L) PROVE Tidy(disk', L \ C)
    <3> DEFINE none == {}
    <3>1. \A z \in none : Plain(disk'.data[z])
      OBVIOUS
    <3>2. ~IsEntry(Deleted) /\ Deleted # End
      BY SpecialSlots
    <3>3. C = Range(read_chain(disk, HeadIn(disk, c, j)))
      BY <1>5 DEF C
    <3> HIDE DEF none
    <3>4. Tidy(disk', (L \ C) \cup none)
      BY <1>1, <1>5, <2>7, <2>9, <2>10, <3>1, <3>2, <3>3, TidyChange
    <3> QED BY <3>4 DEF none
  <2>11. ASSUME Room(disk, L) PROVE Room(disk', L \ C)
    <3> DEFINE none == {}
               M == L \ C
    <3>1. none \cap L = {} /\ \A z \in none : Plain(disk'.data[z])
      OBVIOUS
    <3>2. Forest(disk', M \cup none) /\ M \subseteq L /\ Changed(disk, disk', M, c, j, Deleted)
      BY <2>7, <2>8
    <3>3. ~IsEntry(Deleted)
      BY SpecialSlots
    <3> HIDE DEF none, M
    <3>4. Room(disk', M \cup none)
      BY <2>11, <3>1, <3>2, <3>3, RoomChanged
    <3> QED BY <3>4 DEF none, M
  <2>12. SlotChanges(L, path, Deleted)
    BY <1>4, <2>7 DEF SlotChanges, C, h
  <2>13. ASSUME reply' = "Ok" PROVE Keeps(path, {})
    <3>1. n = Len(b)
      BY <1>a, <2>4, <2>13 DEF Finish
    <3>2. Upto(b, n) = C
      BY <2>3, <3>1, ChainType DEF Upto, C, b
    <3>3. disk' = Freed(d1, C)
      BY <1>3, <2>4, <3>2
    <3> QED BY <2>2, <3>3 DEF Freed, Keeps, C, h
  <2> QED BY <2>8, <2>10, <2>11, <2>12, <2>13 DEF ForestFrom
<1> QED BY <1>7, <1>8

LEMMA OverwriteForest ==
  ASSUME TypeOK, view = Survey(disk), NEW path \in Paths, NEW content \in Seq(Texts),
         NEW limit \in Limits, EntryAt(disk, path).kind = "file",
         Overwrite(path, [i \in DOMAIN content |-> Text(content[i])], limit),
         Bounded => Len(content) <= 2 * SlotsPerBlock,
         NEW L, Forest(disk, L)
  PROVE  /\ ForestOrWindow(L)
         /\ Overwritten(L, path, [i \in DOMAIN content |-> Text(content[i])])
<1> DEFINE data == [i \in DOMAIN content |-> Text(content[i])]
           s == ParentCluster(disk, path)
           name == Last(path)
           entry == EntryAt(disk, path)
           h == entry.cluster
           start == Started(disk, limit)
           freed == free_chain(start, h)
           new == allocate_and_write(freed, data)
           q == update_dir_entry(new, s, name, new.cluster, Len(data))
           i == EntrySlot(disk, s, name)
           b == read_chain(disk, h)
           C == Range(b)
           M == L \ C
<1>1. limit \in Int /\ disk \in Disk /\ path \in Seq(Names) /\ path # <<>> /\ entry # End
  BY LimitFacts, PathFacts, SpecialSlots DEF TypeOK
<1>2. /\ find_entry(disk, s, name) = entry /\ name \in Names
      /\ IsEntry(entry) /\ entry \in Slots
  BY <1>1, PathFound
<1>3. Finish(q)
  BY <1>2 DEF Overwrite
<1>4. start \in Running(limit) /\ start.ok /\ start.disk = disk
  BY <1>1, StartedType
<1> HIDE DEF start
<1>5. /\ freed \in Running(limit)
      /\ \E n \in 0 .. Len(b) : /\ freed.disk = Freed(disk, Upto(b, n))
                                /\ freed.ok => n = Len(b)
  BY <1>4, FreeChain
<1>6. data \in Seq(Slots) /\ Len(data) \in Nat /\ \A k \in 1 .. Len(data) : ~IsEntry(data[k])
  BY TextData
<1>b. Len(data) = Len(content)
  BY TextData
<1> HIDE DEF freed, data
<1>7. /\ new \in Running(limit) /\ (new.ok => freed.ok) /\ (~freed.ok => new.disk = freed.disk)
      /\ \E P : Allocates(freed.disk, new, P)
  BY <1>5, <1>6, AllocateAndWrite
<1>8. PICK n \in 0 .. Len(b) : freed.disk = Freed(disk, Upto(b, n)) /\ (freed.ok => n = Len(b))
  BY <1>5
<1>9. PICK P : Allocates(freed.disk, new, P)
  BY <1>7
<1>10. PICK c, j : Placed(disk, L, path, c, j)
  BY <1>1, PathPlaced
<1>11. /\ i # 0 /\ c = HomeOf(disk, s, i) /\ j = PlaceAt(i)
       /\ c \in L /\ c \in Clusters /\ j \in Places
       /\ disk.data[c][j] = entry /\ EntryIn(disk, c, j) /\ HeadIn(disk, c, j) = h /\ c \notin C
       /\ Range(read_chain(disk, s)) \subseteq M
  BY <1>10 DEF Placed, HeadIn
<1>12. C = {b[k] : k \in 1 .. Len(b)} /\ Len(b) \in Nat
  BY ChainType
<1>13. \/ h = 0 /\ C = {}
       \/ h \in Clusters /\ h # 0 /\ Len(b) > 0 /\ b[1] = h
  <2>1. h \in Clusters \cup {0}
    BY <1>2 DEF Slots
  <2>2. h = 0 => C = {}
    BY NoChain, ClusterFacts DEF Range
  <2>3. h \in Clusters => Len(b) > 0 /\ b[1] = h
    BY ReadChain DEF IsChain, Follows
  <2> QED BY <2>1, <2>2, <2>3, ClusterFacts
<1>c. Bounded /\ new.ok => Fits(new.disk, Slot("file", name, new.cluster, Len(data)))
  BY <1>5, <1>6, <1>b, NewFileFits
<1>i. new.ok /\ Len(data) <= 2 * SlotsPerBlock => Holds(new.disk, new.cluster, data)
  BY <1>5, <1>6, NewFileHolds
<1>k. new.ok => Claims(freed.disk, new.disk, new.cluster)
  BY <1>5, <1>6, NewFileClaims
<1>d. ASSUME Bounded, disk.fat[h] \in Clusters \ {h}, h \in Clusters PROVE new.ok
  <2>1. limit < 0
    BY <1>d, BoundedLimit
  <2>2. freed.ok
    <3>1. free_chain(start, h).ok
      BY <1>4, <2>1, FreeChainGoesOn
    <3> QED BY <3>1 DEF freed
  <2>3. IsChain(disk, h, b)
    BY <1>d, ReadChain
  <2> HIDE DEF b
  <2>4. Len(b) > 1
    <3>1. Len(b) \in Nat \ {0} /\ b[1] = h
      BY <2>3 DEF IsChain, Follows
    <3> DEFINE k == Len(b)
    <3>2. k # 1
      <4> SUFFICES ASSUME k = 1 PROVE FALSE
        OBVIOUS
      <4>1. disk.fat[b[1]] \notin Clusters \/ \E z \in 1 .. 1 : disk.fat[b[1]] = b[z]
        BY <2>3 DEF IsChain, Ended
      <4> QED BY <1>d, <3>1, <4>1
    <3>3. k \in Nat \ {0}
      BY <3>1
    <3> HIDE DEF k
    <3>4. k > 1
      BY <3>2, <3>3
    <3> QED BY <3>4 DEF k
  <2>5. b[1] # b[2] /\ b[1] \in C /\ b[2] \in C
    <3>1. 1 \in 1 .. Len(b) /\ 2 \in 1 .. Len(b)
      BY <1>12, <2>4
    <3> QED BY <1>12, <2>3, <3>1 DEF IsChain, Follows
  <2>6. C \subseteq FreeClusters(freed.disk)
    <3>1. freed.disk = Freed(disk, C)
      BY <1>8, <1>12, <2>2 DEF Upto
    <3>2. C \subseteq Clusters
      BY <1>12, ChainType DEF b
    <3> QED BY <3>1, <3>2 DEF Freed, FreeClusters
  <2> HIDE DEF C
  <2> QED BY <1>5, <1>6, <2>1, <2>2, <2>5, <2>6, NewFileGoesOn
<1>e. ASSUME Bounded, new.ok, EntrySlot(new.disk, s, name) # 0 PROVE q.ok
  <2>1. limit < 0
    BY <1>e, BoundedLimit
  <2> HIDE DEF new, s, name
  <2> QED BY <1>7, <1>e, <2>1, UpdateGoesOn
<1> HIDE DEF new, s, name, h, i, b, C
<1>14. Upto(b, n) \subseteq C
  <2>1. 1 .. n \subseteq 1 .. Len(b)
    BY <1>12
  <2> QED BY <1>12, <2>1 DEF Upto
<1>15. L \subseteq Clusters /\ \A z \in L : disk.fat[z] # FREE
  BY ForestUsed
<1>16. P \cap M = {} /\ P \subseteq Clusters
  <2>1. \A z \in M : freed.disk.fat[z] = disk.fat[z]
    BY <1>8, <1>14, <1>15 DEF Freed
  <2> QED BY <1>9, <1>15, <2>1 DEF Allocates, FreeClusters
<1>17. Same(disk, new.disk, M)
  <2>1. \A z \in M : freed.disk.fat[z] = disk.fat[z] /\ freed.disk.data[z] = disk.data[z]
    BY <1>8, <1>14, <1>15 DEF Freed
  <2>2. \A z \in M : new.disk.fat[z] = freed.disk.fat[z] /\ new.disk.data[z] = freed.disk.data[z]
    BY <1>9, <1>15, <1>16 DEF Allocates, Same
  <2> QED BY <2>1, <2>2 DEF Same
<1>18. new.disk \in Disk
  BY <1>7, RunningFields
<1>19. /\ EntrySlot(new.disk, s, name) = i /\ HomeOf(new.disk, s, i) = c
       /\ SlotsOf(new.disk, s) = SlotsOf(disk, s)
  <2>1. Same(disk, new.disk, Range(read_chain(disk, s)))
    BY <1>11, <1>17 DEF Same
  <2>2. SlotsOf(new.disk, s) = SlotsOf(disk, s) /\ read_chain(new.disk, s) = read_chain(disk, s)
    BY <1>1, <1>18, <2>1, SlotsKept, ChainKept
  <2> QED BY <1>11, <2>2, Zenon DEF EntrySlot, HomeOf, i
<1> DEFINE slot == Slot(SlotsOf(disk, s)[i].kind, name, new.cluster, Len(data))
<1>20. /\ q \in Running(limit)
       /\ \/ ~q.ok /\ q.disk = new.disk
          \/ /\ new.ok /\ slot \in Slots /\ IsEntry(slot)
             /\ q.disk = SetSlot(new.disk, c, j, slot)
  <2>1. new.cluster \in Clusters \cup {0}
    BY <1>7, RunningFields
  <2> QED BY <1>2, <1>6, <1>7, <1>11, <1>19, <2>1, UpdateEntry
<1>21. slot.cluster = new.cluster
  BY DEF Slot
<1>a. slot.kind = "file" /\ slot.name = entry.name /\ entry.kind = "file" /\ slot # End
  <2>1. i \in DOMAIN SlotsOf(disk, s)
    BY <1>10 DEF Placed, i, s, name
  <2>2. SlotsOf(disk, s)[i] = disk.data[c][j]
    BY <1>1, <1>11, <2>1, SlotHome
  <2>3. SlotsOf(disk, s)[i].kind = "file"
    BY <1>11, <2>2
  <2>4. entry.name = name
    BY <1>1, <1>2, FindEntry
  <2> QED BY <2>3, <2>4, SpecialSlots DEF Slot
<1>f. Bounded /\ new.ok => Fits(new.disk, slot)
  <2>1. SlotsOf(disk, s)[i].kind = "file"
    BY <1>a DEF Slot
  <2> QED BY <1>c, <2>1
<1>g. ASSUME Bounded, Room(disk, L), ~q.ok PROVE ~(entry.size > SlotsPerBlock) /\ Fits(disk, entry)
  <2>1. Fits(disk, entry)
    BY <1>11, <1>g DEF Room
  <2>2. ASSUME entry.size > SlotsPerBlock PROVE FALSE
    <3>1. h # 0 /\ disk.fat[h] \in Clusters \ {h}
      BY <1>a, <2>1, <2>2 DEF Fits, h
    <3> QED BY <1>11, <1>13, <1>19, <1>d, <1>e, <1>g, <3>1
  <2> QED BY <2>1, <2>2
<1> HIDE DEF q, slot, entry
<1> DEFINE d0 == SetSlot(disk, c, j, Deleted)
<1>22. d0 \in Disk /\ Changed(disk, d0, Clusters, c, j, Deleted)
  BY <1>1, <1>11, SlotSet, SpecialSlots
<1> HIDE DEF d0
<1>23. Forest(d0, M)
  <2>1. Changed(disk, d0, M, c, j, Deleted)
    BY <1>15, <1>22 DEF Changed
  <2> QED BY <1>11, <2>1, ForestDrop, SpecialSlots DEF C, b
<1>24. c \in M /\ ~EntryIn(d0, c, j)
  BY <1>11, <1>22, SpecialSlots DEF Changed, EntryIn
<1>25. disk' = q.disk
  BY <1>3 DEF Finish
<1>h. ASSUME Room(disk, L) PROVE Room(d0, M)
  <2> DEFINE none == {}
  <2>1. none \cap L = {} /\ \A z \in none : Plain(d0.data[z])
    OBVIOUS
  <2>2. Forest(d0, M \cup none) /\ M \subseteq L /\ ~IsEntry(Deleted)
    BY <1>23, SpecialSlots
  <2>3. Changed(disk, d0, M, c, j, Deleted)
    BY <1>15, <1>22 DEF Changed
  <2> HIDE DEF none, M
  <2>4. Room(d0, M \cup none)
    BY <1>h, <2>1, <2>2, <2>3, RoomChanged
  <2> QED BY <2>4 DEF none
<1> HIDE DEF M
<1>j. \A u : Changed(disk, disk', M, c, j, u) => SlotChanges(L, path, u)
  BY <1>10 DEF SlotChanges, M, C, b, h, entry
<1>26. ASSUME q.ok \/ q.disk # new.disk PROVE ForestOrWindow(L) /\ Overwritten(L, path, data)
  <2> DEFINE e == q.disk
  <2>1. new.ok /\ slot \in Slots /\ IsEntry(slot) /\ e = SetSlot(new.disk, c, j, slot)
    BY <1>20, <1>26
  <2>2. e \in Disk /\ Changed(new.disk, e, Clusters, c, j, slot) /\ Same(new.disk, e, Clusters \ {c})
    BY <1>11, <1>18, <2>1, SlotSet
  <2> HIDE DEF e
  <2>3. PICK x \in P, y \in P :
          /\ P = {x, y} /\ Fresh(new.disk, x, y) /\ new.cluster = x
          /\ new.disk.fat[x] # FREE /\ new.disk.fat[y] # FREE
    BY <1>9, <2>1 DEF Allocates
  <2>4. x \in Clusters /\ y \in Clusters /\ x \notin M /\ y \notin M /\ x # c /\ y # c
    BY <1>16, <1>24, <2>3 DEF M
  <2>5. Fresh(e, x, y) /\ e.fat[x] # FREE /\ e.fat[y] # FREE
    BY <2>2, <2>3, <2>4 DEF Same, Fresh
  <2>6. \A z \in Range(read_chain(e, x)) : e.fat[z] # FREE
    <3>1. CASE e.fat[x] \notin Clusters \/ e.fat[x] = x
      <4>1. Range(read_chain(e, x)) = {x}
        BY <2>4, <3>1, ChainOfOne DEF Range
      <4> QED BY <2>5, <4>1
    <3>2. CASE ~(e.fat[x] \notin Clusters \/ e.fat[x] = x)
      <4>1. x # y /\ e.fat[x] = y /\ (e.fat[y] \notin Clusters \/ e.fat[y] = y)
        BY <2>5, <3>2, ClusterFacts DEF Fresh
      <4>2. Range(read_chain(e, x)) = {x, y}
        BY <2>4, <4>1, ChainOfTwo
      <4> QED BY <2>5, <4>2
    <3> QED BY <3>1, <3>2
  <2>7. Loose(e, M, Range(read_chain(e, x)), x)
    BY <2>4, <2>5, <2>6, LooseFresh
  <2>8. Changed(d0, e, M, c, j, slot)
    <3>1. M \subseteq Clusters
      BY <1>15 DEF M
    <3> QED BY <1>17, <1>22, <2>2, <3>1 DEF Changed, Same
  <2>9. Forest(e, M \cup Range(read_chain(e, x)))
    BY <1>11, <1>21, <1>23, <1>24, <2>1, <2>3, <2>7, <2>8, ForestPut
  <2>10. Changed(disk, e, M, c, j, slot)
    <3>1. M \subseteq Clusters
      BY <1>15 DEF M
    <3> QED BY <1>17, <2>2, <3>1 DEF Changed, Same
  <2>11. \A z \in Range(read_chain(e, x)) : Plain(e.data[z])
    BY <2>7 DEF Loose
  <2>12. ASSUME Tidy(disk, L) PROVE Tidy(e, M \cup Range(read_chain(e, x)))
    <3> DEFINE D == Range(read_chain(e, x))
    <3>1. \A z \in D : Plain(e.data[z])
      BY <2>11
    <3> HIDE DEF D
    <3>2. Tidy(e, (L \ C) \cup D)
      <4>1. Changed(disk, e, L \ C, c, j, slot) /\ C = Range(read_chain(disk, HeadIn(disk, c, j)))
        BY <1>11, <2>10 DEF M, C, b
      <4>2. slot.kind = "file" /\ slot # End /\ slot.name = disk.data[c][j].name
        BY <1>11, <1>a
      <4> QED BY <1>1, <1>11, <2>2, <2>12, <3>1, <4>1, <4>2, TidyChange
    <3> QED BY <3>2 DEF D, M
  <2>13. ASSUME Bounded, Room(disk, L) PROVE Room(e, M \cup Range(read_chain(e, x)))
    <3> DEFINE D == Range(read_chain(e, x))
    <3>1. D \cap M = {}
      BY <2>7 DEF Loose
    <3>2. Fits(e, slot)
      <4>1. e.fat[x] = new.disk.fat[x] /\ slot.cluster = x
        BY <1>21, <2>2, <2>3, <2>4 DEF Same
      <4> QED BY <1>f, <2>1, <2>13, <4>1 DEF Fits
    <3> HIDE DEF D
    <3>3. Forest(e, M \cup D) /\ \A z \in D : Plain(e.data[z])
      BY <2>9, <2>11 DEF D
    <3>4. Room(e, M \cup D)
      BY <1>23, <1>h, <2>8, <2>13, <3>1, <3>2, <3>3, RoomChanged
    <3> QED BY <3>4 DEF D
  <2>14. ASSUME Len(data) <= 2 * SlotsPerBlock PROVE Holds(e, x, data)
    <3>1. Holds(new.disk, x, data)
      BY <1>i, <2>1, <2>3, <2>14
    <3>2. c \notin Range(read_chain(e, x)) /\ Range(read_chain(e, x)) \subseteq Clusters
      BY <1>24, <2>7 DEF Loose
    <3>3. Same(e, new.disk, Range(read_chain(e, x)))
      BY <2>2, <3>2 DEF Same
    <3>4. SlotsOf(new.disk, x) = SlotsOf(e, x)
      BY <1>18, <2>2, <3>3, SlotsKept
    <3> QED BY <3>1, <3>4 DEF Holds
  <2>15. Overwritten(L, path, data)
    <3>1. SlotChanges(L, path, slot)
      BY <1>25, <1>j, <2>10 DEF e
    <3>2. slot.kind = "file" /\ slot.name = Last(path) /\ slot.cluster = x /\ slot.size = Len(data)
      BY <1>21, <1>a, <2>3 DEF slot, Slot, name
    <3>3. reply' \in {"Ok", "Error"}
      BY <1>3 DEF Finish
    <3>4. Keeps(path, Range(read_chain(e, x)))
      <4>1. freed.disk = Freed(disk, C)
        BY <1>7, <1>8, <1>12, <2>1 DEF Upto
      <4>2. read_chain(e, x) = read_chain(new.disk, x) /\ e.fat = new.disk.fat
        <5>1. e.fat = new.disk.fat
          BY <1>18, <2>1 DEF SetSlot, SetData
        <5> QED BY <5>1, ChainFat
      <4>3. Claims(freed.disk, new.disk, x)
        BY <1>k, <2>1, <2>3
      <4>4. ASSUME NEW z \in Clusters, e.fat[z] # FREE, z \notin Range(read_chain(e, x))
            PROVE  disk.fat[z] # FREE /\ z \notin C
        <5>1. e.fat[z] = freed.disk.fat[z]
          BY <4>2, <4>3, <4>4 DEF Claims
        <5> QED BY <4>1, <4>4, <5>1 DEF Freed
      <4> QED BY <1>25, <4>4 DEF Keeps, C, b, h, entry, e
    <3> QED BY <1>25, <2>11, <2>14, <3>1, <3>2, <3>3, <3>4 DEF Overwritten, e
  <2> QED BY <1>25, <2>9, <2>12, <2>13, <2>15 DEF ForestOrWindow, ForestFrom, e
<1>27. ASSUME ~q.ok, q.disk = new.disk PROVE ForestOrWindow(L) /\ Overwritten(L, path, data)
  <2> DEFINE e == new.disk
  <2>1. q.disk = e /\ disk' = e
    BY <1>20, <1>25, <1>27
  <2>a. reply' = "Error"
    BY <1>3, <1>27 DEF Finish
  <2>b. Same(disk, e, L) => Overwritten(L, path, data)
    BY <2>1, <2>a DEF Overwritten, NothingDone
  <2>2. CASE h = 0
    <3>1. M = L
      BY <1>13, <2>2, ClusterFacts DEF M
    <3>2. Forest(e, L)
      BY <1>17, <3>1, ForestSame
    <3>3. Tidy(disk, L) => Tidy(e, L)
      BY <1>1, <1>17, <1>18, <3>1, TidySame
    <3>4. Room(disk, L) => Room(e, L)
      BY <1>17, <3>1, RoomSame
    <3> QED BY <1>17, <2>1, <2>b, <3>1, <3>2, <3>3, <3>4 DEF ForestOrWindow, ForestFrom
  <2>3. CASE h # 0 /\ n = 0
    <3>1. ~freed.ok
      BY <1>8, <1>13, <2>3
    <3>2. Upto(b, n) = {}
      BY <2>3 DEF Upto
    <3>3. Same(disk, e, L)
      BY <1>7, <1>8, <1>15, <3>1, <3>2 DEF Freed, Same
    <3>4. Forest(e, L)
      BY <3>3, ForestSame
    <3>5. Tidy(disk, L) => Tidy(e, L)
      BY <1>1, <1>18, <3>3, TidySame
    <3>6. Room(disk, L) => Room(e, L)
      BY <3>3, RoomSame
    <3> QED BY <2>1, <2>b, <3>3, <3>4, <3>5, <3>6 DEF ForestOrWindow, ForestFrom
  <2>4. CASE h # 0 /\ n # 0
    <3>1. h \in Clusters /\ freed.disk.fat[h] = FREE
      <4>1. h \in Upto(b, n)
        BY <1>12, <1>13, <2>4 DEF Upto
      <4> QED BY <1>8, <1>13, <2>4, <4>1 DEF Freed
    <3>2. EntryAt(e, path) = entry
      <4>1. Same(disk, e, L \ Range(read_chain(disk, entry.cluster)))
        BY <1>17 DEF M, C, b, h
      <4> QED BY <1>1, <1>18, <2>4, <4>1, PathKept DEF h, entry
    <3> DEFINE K == Range(read_chain(e, h))
    <3>3. CASE \E z \in K : e.fat[z] = FREE
      <4>1. PICK z \in K : e.fat[z] = FREE
        BY <3>3
      <4>2. damaged'
        BY <1>3, <1>18, <2>1, <3>2, <4>1, DamageSeen DEF h
      <4>3. view[path].kind = "file"
        <5>1. view[path] = Look(disk, path)
          BY DEF Survey
        <5> QED BY <1>1, <5>1 DEF Look, entry
      <4>4. view'[path].kind = "file" /\ z \in view'[path].clusters
        BY <1>1, <1>3, <2>1, <3>2, <4>1, FinishView DEF h, entry
      <4>5. reply' = "Error"
        BY <1>3, <1>27 DEF Finish
      <4>6. Window
        BY <2>1, <4>1, <4>3, <4>4, <4>5 DEF Window
      <4> QED BY <4>2, <4>6 DEF ForestOrWindow, ForestFrom, Overwritten
    <3>4. CASE \A z \in K : e.fat[z] # FREE
      <4>1. e.fat[h] # FREE
        BY <3>1, <3>4, ChainFirst
      <4>2. h \in P
        BY <1>9, <3>1, <4>1 DEF Allocates, Same
      <4>3. PICK x \in P, y \in P : P = {x, y} /\ Fresh(e, x, y)
        BY <1>9, <4>2 DEF Allocates
      <4>4. x \in Clusters /\ y \in Clusters /\ x \notin M /\ y \notin M /\ h \in {x, y}
        BY <1>16, <4>2, <4>3 DEF M
      <4>5. Loose(e, M, K, h)
        BY <3>4, <4>3, <4>4, LooseFresh
      <4>6. Changed(d0, e, M, c, j, entry)
        <5>1. M \subseteq Clusters
          BY <1>15 DEF M
        <5> QED BY <1>11, <1>17, <1>22, <5>1 DEF Changed, Same
      <4>7. Forest(e, M \cup K)
        <5> HIDE DEF K, e
        <5>1. entry.cluster = h
          BY DEF h
        <5> QED BY <1>2, <1>11, <1>23, <1>24, <4>5, <4>6, <5>1, ForestPut
      <4>8. Changed(disk, e, M, c, j, entry)
        BY <1>11, <1>17 DEF Changed, Same
      <4>9. \A z \in K : Plain(e.data[z])
        BY <4>5 DEF Loose
      <4>10. ASSUME Tidy(disk, L) PROVE Tidy(e, M \cup K)
        <5>1. Changed(disk, e, L \ C, c, j, entry) /\ C = Range(read_chain(disk, HeadIn(disk, c, j)))
          BY <1>11, <4>8 DEF M, C, b
        <5>2. entry.kind = "file" /\ entry # End /\ entry.name = disk.data[c][j].name
          BY <1>1, <1>11, <1>a
        <5> HIDE DEF K
        <5>3. Tidy(e, (L \ C) \cup K)
          BY <1>1, <1>11, <1>18, <4>9, <4>10, <5>1, <5>2, TidyChange
        <5> QED BY <5>3 DEF M
      <4>11. ASSUME Bounded, Room(disk, L) PROVE Room(e, M \cup K)
        <5>1. K \cap M = {}
          BY <4>5 DEF Loose
        <5>2. Fits(e, entry)
          BY <1>27, <1>g, <4>11 DEF Fits
        <5> HIDE DEF K, e
        <5> QED BY <1>23, <1>h, <4>6, <4>7, <4>9, <4>11, <5>1, <5>2, RoomChanged
      <4>12. Overwritten(L, path, data)
        <5>1. SlotChanges(L, path, entry)
          BY <1>j, <2>1, <4>8
        <5>2. entry.kind = "file" /\ entry.name = Last(path) /\ entry.cluster = h
          BY <1>1, <1>2, <1>a, FindEntry DEF name, h
        <5> QED BY <2>1, <2>a, <4>9, <5>1, <5>2 DEF Overwritten
      <4> QED BY <2>1, <4>7, <4>10, <4>11, <4>12 DEF ForestOrWindow, ForestFrom
    <3> QED BY <3>3, <3>4
  <2> QED BY <2>2, <2>3, <2>4
<1> QED BY <1>26, <1>27 DEF data

(* A new cluster: zeroed, linked to the end of a chain, marked. *)
LEMMA GrownDisk ==
  ASSUME NEW d \in Disk, NEW L, Forest(d, L), NEW s, Top(d, L, s), NEW n \in FreeClusters(d)
  PROVE  LET l == Last(read_chain(d, s))
         IN  /\ n \in Clusters /\ n \notin L /\ l \in L /\ l # n /\ d.fat[l] \in {EOC, l}
             /\ Attached(d, s, n) \in Disk /\ Marked(d, s, n) \in Disk
             /\ \A z \in Clusters :
                  /\ Attached(d, s, n).fat[z] = IF z = l THEN n ELSE d.fat[z]
                  /\ Marked(d, s, n).fat[z] = IF z = l THEN n ELSE IF z = n THEN EOC ELSE d.fat[z]
                  /\ Attached(d, s, n).data[z] = IF z = n THEN ZeroBlock ELSE d.data[z]
                  /\ Marked(d, s, n).data[z] = IF z = n THEN ZeroBlock ELSE d.data[z]
<1> DEFINE l == Last(read_chain(d, s))
           a == Allocated(d, n)
           e == Attached(d, s, n)
           m == Marked(d, s, n)
<1>1. l \in L /\ d.fat[l] \in {EOC, l}
  BY ChainEnd DEF Forest
<1>2. L \cap FreeClusters(d) = {} /\ L \subseteq Clusters
  BY ForestUsed
<1>3. n \in Clusters /\ n \notin L /\ l \in Clusters /\ l # n
  BY <1>1, <1>2 DEF FreeClusters
<1> HIDE DEF l
<1>4. ZeroBlock \in Blocks
  BY SpecialSlots DEF Blocks
<1>5. /\ a \in Disk /\ a.fat = d.fat
      /\ \A z \in Clusters : a.data[z] = IF z = n THEN ZeroBlock ELSE d.data[z]
  <2>1. SetData(d, n, ZeroBlock) \in Disk
    BY <1>3, <1>4, SetDataType
  <2>2. /\ SetData(d, n, ZeroBlock).fat = d.fat
        /\ \A z \in Clusters : SetData(d, n, ZeroBlock).data[z] = IF z = n THEN ZeroBlock ELSE d.data[z]
    BY <1>3, <1>4, SetDataAt
  <2> QED BY <2>1, <2>2 DEF Allocated
<1> HIDE DEF a
<1>6. n \in FatValues /\ EOC \in FatValues
  BY <1>3 DEF FatValues
<1>7. /\ e \in Disk /\ e.data = a.data
      /\ \A z \in Clusters : e.fat[z] = IF z = l THEN n ELSE a.fat[z]
  <2>0. e = SetFat(a, l, n)
    BY DEF Attached, a, l
  <2>1. SetFat(a, l, n) \in Disk
    BY <1>3, <1>5, <1>6, SetFatType
  <2>2. /\ SetFat(a, l, n).data = a.data
        /\ \A z \in Clusters : SetFat(a, l, n).fat[z] = IF z = l THEN n ELSE a.fat[z]
    BY <1>3, <1>5, <1>6, SetFatAt
  <2> QED BY <2>0, <2>1, <2>2
<1> HIDE DEF e
<1>8. /\ m \in Disk /\ m.data = e.data
      /\ \A z \in Clusters : m.fat[z] = IF z = n THEN EOC ELSE e.fat[z]
  <2>0. m = SetFat(e, n, EOC)
    BY DEF Marked, e
  <2>1. SetFat(e, n, EOC) \in Disk
    BY <1>3, <1>7, <1>6, SetFatType
  <2>2. /\ SetFat(e, n, EOC).data = e.data
        /\ \A z \in Clusters : SetFat(e, n, EOC).fat[z] = IF z = n THEN EOC ELSE e.fat[z]
    BY <1>3, <1>7, <1>6, SetFatAt
  <2> QED BY <2>0, <2>1, <2>2
<1> HIDE DEF m
<1>9. \A z \in Clusters :
        /\ e.fat[z] = IF z = l THEN n ELSE d.fat[z]
        /\ m.fat[z] = IF z = l THEN n ELSE IF z = n THEN EOC ELSE d.fat[z]
        /\ e.data[z] = IF z = n THEN ZeroBlock ELSE d.data[z]
        /\ m.data[z] = IF z = n THEN ZeroBlock ELSE d.data[z]
  BY <1>3, <1>5, <1>7, <1>8
<1> QED BY <1>1, <1>3, <1>7, <1>8, <1>9 DEF l, e, m

(* While the new cluster is linked and not marked, the chain runs into it. *)
LEMMA AttachedChain ==
  ASSUME NEW d \in Disk, NEW L, Forest(d, L), NEW s, Top(d, L, s), NEW n \in FreeClusters(d)
  PROVE  LET e == Attached(d, s, n)
         IN  /\ Last(read_chain(e, s)) = n /\ n \in Range(read_chain(e, s))
             /\ e.fat[n] = FREE /\ e \in Disk
             /\ Same(d, e, L \ Range(read_chain(d, s)))
<1> DEFINE c == read_chain(d, s)
           l == Last(c)
           e == Attached(d, s, n)
           k == Len(c)
           b == Append(c, n)
<1>1. /\ n \in Clusters /\ n \notin L /\ l \in L /\ l # n
      /\ e \in Disk
      /\ \A z \in Clusters : /\ e.fat[z] = IF z = l THEN n ELSE d.fat[z]
                             /\ e.data[z] = IF z = n THEN ZeroBlock ELSE d.data[z]
  BY GrownDisk
<1>2. /\ IsChain(d, s, c) /\ \A i \in 1 .. k : c[i] \in L
      /\ Range(c) = {c[i] : i \in 1 .. k} /\ s \in Clusters /\ L \subseteq Clusters
  BY ChainIn, ChainType DEF Top, Forest, ForestTable
<1> HIDE DEF c, e
<1>3. c \in Seq(Clusters) /\ k \in Nat \ {0} /\ l = c[k] /\ k \in 1 .. k
  BY <1>2 DEF IsChain, Follows, Last
<1>4. \A i \in 1 .. k : c[i] \in Clusters /\ c[i] # n /\ (i # k => c[i] # l)
  BY <1>1, <1>2, <1>3 DEF IsChain, Follows
<1>5. Follows(e, s, c)
  <2>1. ASSUME NEW i \in 1 .. k - 1 PROVE c[i + 1] = e.fat[c[i]]
    <3>1. i \in 1 .. k /\ i # k
      BY <1>3
    <3>2. e.fat[c[i]] = d.fat[c[i]]
      BY <1>1, <1>4, <3>1
    <3> QED BY <1>2, <3>2 DEF IsChain, Follows
  <2> QED BY <1>2, <2>1 DEF IsChain, Follows
<1>6. e.fat[c[k]] = n
  BY <1>1, <1>3, <1>4
<1>7. ~Ended(e, c)
  BY <1>1, <1>3, <1>4, <1>6 DEF Ended
<1>8. Follows(e, s, b)
  BY <1>5, <1>6, <1>7, FollowsOn
<1>9. b \in Seq(Clusters) /\ Len(b) = k + 1 /\ b[k + 1] = n
  BY <1>1, <1>3
<1>10. e.fat[n] = FREE
  BY <1>1, ClusterFacts DEF FreeClusters
<1>11. IsChain(e, s, b)
  BY <1>8, <1>9, <1>10, ClusterFacts DEF IsChain, Ended
<1> HIDE DEF b
<1>12. read_chain(e, s) = b
  BY <1>2, <1>11, ReadChain, ChainAgrees
<1>13. Last(b) = n /\ n \in Range(b)
  <2>1. Len(b) \in 1 .. Len(b) /\ DOMAIN b = 1 .. Len(b)
    BY <1>3, <1>9
  <2>2. b[Len(b)] \in Range(b)
    BY <2>1 DEF Range
  <2> QED BY <1>9, <2>2 DEF Last
<1>14. Same(d, e, L \ Range(c))
  <2>1. l \in Range(c)
    BY <1>2, <1>3
  <2> QED BY <1>1, <1>2, <2>1 DEF Same
<1> QED BY <1>1, <1>10, <1>12, <1>13, <1>14 DEF e, c

(* An entry for a loose chain is added to a forest: the volume stays a     *)
(* forest, unless it stops between linking and marking a new cluster.      *)
LEMMA AddedForest ==
  ASSUME NEW d \in Disk, NEW L, Forest(d, L), NEW s, s = 0 \/ Top(d, L, s),
         NEW entry \in Slots, IsEntry(entry), NEW C, Loose(d, L, C, entry.cluster),
         NEW q, q.disk \in Disk, Added(d, q, s, entry)
  PROVE  AddOutcome(d, L, q, s, entry)
<1> USE DEF AddOutcome
<1>0. L \cap FreeClusters(d) = {} /\ L \subseteq Clusters /\ FREE \notin Clusters /\ FREE # EOC
  BY ForestUsed, ClusterFacts
<1>1. CASE q.disk = d
  BY <1>1
<1>2. CASE /\ FreeSlot(d, s) # 0
           /\ q.disk = SetSlot(d, HomeOf(d, s, FreeSlot(d, s)), PlaceAt(FreeSlot(d, s)), entry)
  <2> DEFINE i == FreeSlot(d, s)
             c == HomeOf(d, s, i)
             j == PlaceAt(i)
             e == q.disk
  <2>1. i \in DOMAIN SlotsOf(d, s) /\ SlotsOf(d, s)[i] \in {End, Deleted}
    BY <1>2, FreeSlotFound
  <2> HIDE DEF i
  <2>2. /\ s \in Clusters /\ c \in Range(read_chain(d, s)) /\ c \in Clusters /\ j \in Places
        /\ SlotsOf(d, s)[i] = d.data[c][j]
    BY <2>1, SlotHome
  <2>3. ~EntryIn(d, c, j)
    BY <2>1, <2>2, SpecialSlots DEF EntryIn
  <2>4. c \in L
    BY <2>2, ChainIn, ClusterFacts DEF Top, Forest
  <2>5. e = SetSlot(d, c, j, entry)
    BY <1>2 DEF i
  <2> HIDE DEF c, j
  <2>6. Changed(d, e, Clusters, c, j, entry) /\ Same(d, e, Clusters \ {c})
    BY <2>2, <2>5, SlotSet
  <2> HIDE DEF e
  <2>7. Changed(d, e, L, c, j, entry)
    BY <1>0, <2>6 DEF Changed
  <2>8. Loose(e, L, C, entry.cluster)
    <3>1. \A z \in C : e.fat[z] = d.fat[z] /\ e.data[z] = d.data[z]
      BY <2>4, <2>6 DEF Same, Loose
    <3> QED BY <3>1 DEF Loose, Top, Links
  <2>9. Forest(e, L \cup C)
    BY <2>2, <2>3, <2>4, <2>7, <2>8, ForestPut
  <2>10. ASSUME Tidy(d, L), find_entry(d, s, entry.name) = End PROVE Tidy(e, L \cup C)
    <3>1. Top(d, L, s) /\ e \in Disk
      BY <2>2, ClusterFacts DEF e
    <3>2. Changed(d, e, L, HomeOf(d, s, FreeSlot(d, s)), PlaceAt(FreeSlot(d, s)), entry)
      BY <2>7 DEF c, j, i
    <3> QED BY <1>2, <2>8, <2>10, <3>1, <3>2, TidyPut
  <2>11. ASSUME Room(d, L), Fits(d, entry) PROVE Room(e, L \cup C)
    <3>1. C \cap L = {} /\ \A z \in C : Plain(e.data[z])
      BY <2>8 DEF Loose
    <3>2. Fits(e, entry)
      <4>1. entry.cluster \in C /\ e.fat[entry.cluster] = d.fat[entry.cluster]
        BY <2>4, <2>6 DEF Same, Loose, Top
      <4> QED BY <2>11, <4>1 DEF Fits
    <3> QED BY <2>7, <2>9, <2>11, <3>1, <3>2, RoomChanged
  <2> QED BY <2>9, <2>10, <2>11 DEF e
<1>3. ASSUME FreeSlot(d, s) = 0, NEW n \in FreeClusters(d), q.disk = Allocated(d, n)
      PROVE  /\ Forest(q.disk, L) /\ (Tidy(d, L) => Tidy(q.disk, L))
             /\ Room(d, L) => Room(q.disk, L)
  <2>1. n \notin L /\ n \in Clusters /\ ZeroBlock \in Blocks
    BY <1>0, SpecialSlots DEF FreeClusters, Blocks
  <2>2. Same(d, SetData(d, n, ZeroBlock), L)
    <3>1. /\ SetData(d, n, ZeroBlock).fat = d.fat
          /\ \A z \in Clusters : SetData(d, n, ZeroBlock).data[z] = IF z = n THEN ZeroBlock ELSE d.data[z]
      BY <2>1, SetDataAt
    <3> QED BY <1>0, <2>1, <3>1 DEF Same
  <2>3. Same(d, q.disk, L)
    BY <1>3, <2>2 DEF Allocated
  <2>4. Forest(q.disk, L)
    BY <2>3, ForestSame
  <2>5. Tidy(d, L) => Tidy(q.disk, L)
    BY <2>3, TidySame
  <2>6. Room(d, L) => Room(q.disk, L)
    BY <2>3, RoomSame
  <2> QED BY <2>4, <2>5, <2>6
<1>4. ASSUME FreeSlot(d, s) = 0, Top(d, L, s), NEW n \in FreeClusters(d)
      PROVE  /\ q.disk = Marked(d, s, n) =>
                  /\ Forest(q.disk, L \cup {n})
                  /\ Tidy(d, L) /\ find_entry(d, s, entry.name) = End =>
                       Tidy(q.disk, L \cup {n})
                  /\ Room(d, L) => Room(q.disk, L \cup {n})
             /\ q.disk = SetData(Marked(d, s, n), n, NewBlock(entry)) =>
                  /\ Forest(q.disk, L \cup {n} \cup C)
                  /\ Tidy(d, L) /\ find_entry(d, s, entry.name) = End =>
                       Tidy(q.disk, L \cup {n} \cup C)
                  /\ Room(d, L) /\ Fits(d, entry) => Room(q.disk, L \cup {n} \cup C)
  <2> DEFINE l == Last(read_chain(d, s))
             m == Marked(d, s, n)
             e == SetData(m, n, NewBlock(entry))
  <2>1. /\ n \in Clusters /\ n \notin L /\ l \in L /\ l # n /\ d.fat[l] \in {EOC, l}
        /\ m \in Disk
        /\ \A z \in Clusters :
             /\ m.fat[z] = IF z = l THEN n ELSE IF z = n THEN EOC ELSE d.fat[z]
             /\ m.data[z] = IF z = n THEN ZeroBlock ELSE d.data[z]
    BY <1>4, GrownDisk
  <2> HIDE DEF l, m
  <2>2. Plain(ZeroBlock)
    BY SpecialSlots DEF Plain
  <2>3. Forest(m, L \cup {n})
    <3>1. Same(d, m, L \ {l})
      BY <1>0, <2>1 DEF Same
    <3>2. m.fat[l] = n /\ m.data[l] = d.data[l] /\ m.fat[n] = EOC /\ m.data[n] = ZeroBlock
      BY <1>0, <2>1
    <3> QED BY <2>1, <2>2, <3>1, <3>2, ForestGrow
  <2>a. \A z \in C : z \in Clusters /\ z # n /\ z # l /\ m.fat[z] = d.fat[z] /\ m.data[z] = d.data[z]
    <3>1. \A z \in C : d.fat[z] # FREE
      BY <1>0 DEF Loose
    <3> QED BY <2>1, <3>1 DEF Loose, FreeClusters
  <2>b. ASSUME Tidy(d, L), find_entry(d, s, entry.name) = End PROVE Tidy(m, L \cup {n})
    <3>1. Extended(d, m, L, s, n)
      BY <1>0, <2>1, ClusterFacts DEF Extended, l
    <3>2. GrownBy(d, m, L, n, entry)
      <4>1. m.data[n] = ZeroBlock /\ \A z \in L : m.data[z] = d.data[z]
        BY <1>0, <2>1
      <4>2. \A k \in Places : ~IsEntry(ZeroBlock[k])
        BY <2>2 DEF Plain
      <4>3. 1 \in Places
        BY NewBlockType
      <4> QED BY <4>1, <4>2, <4>3 DEF GrownBy
    <3>3. Loose(m, L, C, entry.cluster)
      BY <2>a DEF Loose, Top, Links
    <3>4. \A z \in Range(read_chain(m, entry.cluster)) : Plain(m.data[z])
      BY <3>3, LooseChain
    <3> DEFINE none == {}
    <3>5. \A z \in none : Plain(m.data[z])
      OBVIOUS
    <3> HIDE DEF none
    <3>6. Tidy(m, L \cup {n} \cup none)
      BY <1>4, <2>1, <2>b, <3>1, <3>2, <3>4, <3>5, TidyGrow
    <3>7. L \cup {n} \cup none = L \cup {n}
      BY DEF none
    <3> QED BY <3>6, <3>7
  <2>c. ASSUME Room(d, L) PROVE Room(m, L \cup {n})
    <3>1. \A z \in L : d.fat[z] \in Clusters \ {z} => m.fat[z] = d.fat[z]
      BY <1>0, <2>1, ClusterFacts
    <3>2. ASSUME NEW z \in L \cup {n}, NEW k \in Places, EntryIn(m, z, k)
          PROVE  z \in L /\ m.data[z][k] = d.data[z][k]
      BY <1>0, <2>1, <2>2, <3>2 DEF EntryIn, Plain
    <3> QED BY <2>3, <2>c, <3>1, <3>2, RoomKept
  <2>4. /\ Forest(e, L \cup {n} \cup C)
        /\ Tidy(d, L) /\ find_entry(d, s, entry.name) = End /\ e \in Disk =>
             Tidy(e, L \cup {n} \cup C)
        /\ Room(d, L) /\ Fits(d, entry) => Room(e, L \cup {n} \cup C)
    <3> DEFINE M == L \cup {n}
               nb == NewBlock(entry)
    <3>1. nb \in Blocks /\ 1 \in Places /\ nb[1] = entry /\ \A j \in Places : j # 1 => ~IsEntry(nb[j])
      BY NewBlockType
    <3> HIDE DEF nb
    <3>2. /\ e.fat = m.fat /\ \A z \in Clusters : e.data[z] = IF z = n THEN nb ELSE m.data[z]
      <4>1. e = SetData(m, n, nb)
        BY DEF nb
      <4> QED BY <2>1, <3>1, <4>1, SetDataAt
    <3> HIDE DEF e
    <3>3. m.data[n] = ZeroBlock /\ nb \in [Places -> Slots] /\ ZeroBlock \in [Places -> Slots]
      BY <2>1, <3>1, SpecialSlots DEF Blocks
    <3>4. ~EntryIn(m, n, 1) /\ n \in M
      BY <2>2, <3>1, <3>3 DEF EntryIn, Plain
    <3>x. \A j \in Places : j # 1 => nb[j] = ZeroBlock[j]
      BY <3>3 DEF nb, NewBlock
    <3>5. Changed(m, e, M, n, 1, entry)
      BY <1>0, <2>1, <3>1, <3>2, <3>3, <3>x DEF Changed
    <3>6. n \notin C /\ l \notin C /\ C \subseteq Clusters /\ C \cap L = {}
      <4>1. \A z \in C : d.fat[z] # FREE
        BY <1>0 DEF Loose
      <4> QED BY <2>1, <4>1 DEF Loose, FreeClusters
    <3>7. \A z \in C : e.fat[z] = d.fat[z] /\ e.data[z] = d.data[z]
      BY <2>1, <3>2, <3>6
    <3>8. Loose(e, M, C, entry.cluster)
      BY <3>6, <3>7 DEF Loose, Top, Links
    <3> HIDE DEF M
    <3>9. Forest(e, M \cup C)
      BY <2>3, <3>1, <3>4, <3>5, <3>8, ForestPut DEF M
    <3>10. ASSUME Tidy(d, L), find_entry(d, s, entry.name) = End, e \in Disk
           PROVE  Tidy(e, L \cup {n} \cup C)
      <4>1. Extended(d, e, L, s, n)
        BY <1>0, <2>1, <3>2, ClusterFacts DEF Extended, l
      <4>2. GrownBy(d, e, L, n, entry)
        <5>1. e.data[n] = nb /\ \A z \in L : e.data[z] = d.data[z]
          BY <1>0, <2>1, <3>2
        <5> QED BY <3>1, <5>1 DEF GrownBy
      <4>3. \A z \in Range(read_chain(e, entry.cluster)) : Plain(e.data[z])
        BY <3>8, LooseChain
      <4>4. \A z \in C : Plain(e.data[z])
        BY <3>8 DEF Loose
      <4> QED BY <1>4, <3>10, <4>1, <4>2, <4>3, <4>4, TidyGrow
    <3>11. ASSUME Room(d, L), Fits(d, entry) PROVE Room(e, M \cup C)
      <4>1. C \cap M = {} /\ \A z \in C : Plain(e.data[z])
        BY <3>8 DEF Loose
      <4>2. Fits(e, entry)
        <5>1. entry.cluster \in C
          BY DEF Loose, Top
        <5> QED BY <3>7, <3>11, <5>1 DEF Fits
      <4>3. Room(m, M) /\ Forest(m, M)
        BY <2>3, <2>c, <3>11 DEF M
      <4> QED BY <3>5, <3>9, <4>1, <4>2, <4>3, RoomChanged
    <3> QED BY <3>9, <3>10, <3>11 DEF M
  <2> QED BY <2>3, <2>b, <2>c, <2>4 DEF m, e
<1>5. s \in Clusters => Top(d, L, s)
  BY ClusterFacts
<1>6. CASE \E n \in FreeClusters(d) :
                /\ FreeSlot(d, s) = 0 /\ s \in Clusters
                /\ \/ q.disk = Marked(d, s, n)
                   \/ q.disk = SetData(Marked(d, s, n), n, NewBlock(entry))
  <2>1. PICK n \in FreeClusters(d) :
                /\ FreeSlot(d, s) = 0 /\ s \in Clusters
                /\ \/ q.disk = Marked(d, s, n)
                   \/ q.disk = SetData(Marked(d, s, n), n, NewBlock(entry))
    BY <1>6
  <2> QED BY <1>4, <1>5, <2>1
<1> QED BY <1>1, <1>2, <1>3, <1>5, <1>6 DEF Added

(* Every chain a path leads to lies in the forest. *)
LEMMA PathsIn ==
  ASSUME NEW d \in Disk, NEW L, Forest(d, L), NEW path \in Seq(Names)
  PROVE  Range(read_chain(d, EntryAt(d, path).cluster)) \subseteq L
<1> DEFINE h == EntryAt(d, path).cluster
<1>1. h = 0 \/ Top(d, L, h)
  BY PathHead, SpecialSlots DEF Headed
<1> HIDE DEF h
<1>2. CASE h = 0
  <2>1. Range(read_chain(d, h)) = {}
    BY <1>2, NoChain, ClusterFacts DEF Range
  <2> QED BY <2>1 DEF h
<1>3. CASE Top(d, L, h)
  BY <1>3, ChainIn DEF Forest, Top, h
<1> QED BY <1>1, <1>2, <1>3

(* What was allocated and is marked: a chain that no free cluster is in. *)
LEMMA LooseNew ==
  ASSUME NEW d \in Disk, NEW L, Forest(d, L), NEW new, new.ok, NEW P, Allocates(d, new, P)
  PROVE  \E C : Loose(new.disk, L, C, new.cluster)
<1> DEFINE e == new.disk
<1>1. PICK x \in P, y \in P :
        /\ P = {x, y} /\ Fresh(e, x, y) /\ new.cluster = x
        /\ e.fat[x] # FREE /\ e.fat[y] # FREE
  BY DEF Allocates
<1>2. x \in Clusters /\ y \in Clusters /\ x \notin L /\ y \notin L
  BY <1>1, ForestUsed DEF Allocates, FreeClusters
<1> HIDE DEF e
<1>3. \A z \in Range(read_chain(e, x)) : e.fat[z] # FREE
  <2>1. CASE e.fat[x] \notin Clusters \/ e.fat[x] = x
    <3>1. Range(read_chain(e, x)) = {x}
      BY <1>2, <2>1, ChainOfOne DEF Range
    <3> QED BY <1>1, <3>1
  <2>2. CASE ~(e.fat[x] \notin Clusters \/ e.fat[x] = x)
    <3>1. x # y /\ e.fat[x] = y /\ (e.fat[y] \notin Clusters \/ e.fat[y] = y)
      BY <1>1, <2>2, ClusterFacts DEF Fresh
    <3>2. Range(read_chain(e, x)) = {x, y}
      BY <1>2, <3>1, ChainOfTwo
    <3> QED BY <1>1, <3>2
  <2> QED BY <2>1, <2>2
<1>4. Loose(e, L, Range(read_chain(e, x)), x)
  BY <1>1, <1>2, <1>3, LooseFresh
<1> QED BY <1>1, <1>4 DEF e

(* A new object: its chain is allocated, then its entry is added. *)
LEMMA NewForest ==
  ASSUME TypeOK, view = Survey(disk), NEW path \in Paths, HasParent(disk, path),
         EntryAt(disk, path) = End,
         NEW limit, NEW new \in Running(limit), NEW P, Allocates(disk, new, P),
         NEW entry \in Slots, IsEntry(entry), entry.cluster = new.cluster,
         entry.name = Stored[Last(path)], Bounded /\ new.ok => Fits(new.disk, entry),
         Finish(add_entry(new, ParentCluster(disk, path), entry)),
         NEW L, Forest(disk, L)
  PROVE  ForestOrWindow(L)
<1> DEFINE up == Front(path)
           s == ParentCluster(disk, path)
           d == new.disk
           q == add_entry(new, s, entry)
<1>1. /\ disk \in Disk /\ d \in Disk /\ path \in Seq(Names) /\ path # <<>>
      /\ up \in Seq(Names) /\ (up = <<>> \/ up \in Paths)
  BY PathFacts, RunningFields, EntryAtStep DEF TypeOK
<1>2. EntryAt(disk, up) # End /\ s = EntryAt(disk, up).cluster
  BY DEF HasParent, ParentCluster
<1>3. s = 0 \/ Top(disk, L, s)
  BY <1>1, <1>2, PathHead DEF Headed
<1>4. Same(disk, d, L)
  BY ForestUsed DEF Allocates, Same
<1>5. Forest(d, L)
  BY <1>4, ForestSame
<1>6. s = 0 \/ Top(d, L, s)
  BY <1>3, <1>4 DEF Top, Links, Same
<1>7. /\ q \in Running(limit) /\ (~new.ok => q = new)
      /\ (new.ok => Added(d, q, s, entry))
  BY AddEntry
<1>8. Finish(q) /\ disk' = q.disk
  BY DEF Finish
<1> HIDE DEF q, s, d
<1>a. Tidy(disk, L) => Tidy(d, L)
  BY <1>1, <1>4, TidySame
<1>c. Room(disk, L) => Room(d, L)
  BY <1>4, RoomSame
<1>b. ASSUME ShortNames PROVE find_entry(d, s, entry.name) = End
  <2>1. entry.name = Last(path)
    BY <1>b DEF ShortNames
  <2>2. find_entry(disk, s, Last(path)) = End
    BY <1>1, <1>2, EntryAtStep
  <2>3. Same(disk, d, Range(read_chain(disk, s)))
    <3>1. Range(read_chain(disk, s)) \subseteq L
      BY <1>1, <1>2, PathsIn
    <3> QED BY <1>4, <3>1 DEF Same
  <2> QED BY <1>1, <2>1, <2>2, <2>3, FindKept
<1>9. CASE ~new.ok
  <2>1. disk' = d
    BY <1>7, <1>8, <1>9 DEF d
  <2> QED BY <1>5, <1>a, <1>c, <2>1 DEF ForestOrWindow, ForestFrom
<1>10. CASE new.ok
  <2>1. PICK C : Loose(d, L, C, entry.cluster)
    BY <1>1, <1>10, LooseNew DEF d
  <2>2. CASE \E M : /\ Forest(q.disk, M)
                    /\ Tidy(d, L) /\ find_entry(d, s, entry.name) = End => Tidy(q.disk, M)
                    /\ Room(d, L) /\ Fits(d, entry) => Room(q.disk, M)
    <3>1. PICK M : /\ Forest(q.disk, M)
                   /\ Tidy(d, L) /\ find_entry(d, s, entry.name) = End => Tidy(q.disk, M)
                   /\ Room(d, L) /\ Fits(d, entry) => Room(q.disk, M)
      BY <2>2
    <3>2. ShortNames /\ Tidy(disk, L) => Tidy(q.disk, M)
      BY <1>a, <1>b, <3>1
    <3>3. Bounded /\ Room(disk, L) => Room(q.disk, M)
      BY <1>10, <1>c, <3>1 DEF d
    <3> QED BY <1>8, <3>1, <3>2, <3>3 DEF ForestOrWindow, ForestFrom
  <2>3. CASE /\ ~q.ok /\ FreeSlot(d, s) = 0 /\ Top(d, L, s)
             /\ \E n \in FreeClusters(d) : q.disk = Attached(d, s, n)
    <3> DEFINE e == q.disk
    <3>1. PICK n \in FreeClusters(d) : e = Attached(d, s, n)
      BY <2>3
    <3> HIDE DEF e
    <3> DEFINE f == Attached(d, s, n)
    <3>a. /\ Last(read_chain(f, s)) = n /\ n \in Range(read_chain(f, s))
          /\ f.fat[n] = FREE /\ f \in Disk
          /\ Same(d, f, L \ Range(read_chain(d, s)))
      BY <1>1, <1>5, <2>3, AttachedChain
    <3> HIDE DEF f
    <3>b. e = f
      BY <3>1 DEF f
    <3>2. /\ Last(read_chain(e, s)) = n /\ n \in Range(read_chain(e, s))
          /\ e.fat[n] = FREE /\ e \in Disk
          /\ Same(d, e, L \ Range(read_chain(d, s)))
      BY <3>a, <3>b
    <3>3. s # 0 /\ s \in Clusters /\ s \in L
      BY <2>3, ForestUsed, ClusterFacts DEF Top
    <3>4. Range(read_chain(disk, s)) \subseteq L
      BY <3>3, ChainIn DEF Forest
    <3>5. /\ read_chain(d, s) = read_chain(disk, s)
          /\ SlotsOf(d, s) = SlotsOf(disk, s)
      <4>1. Same(disk, d, Range(read_chain(disk, s)))
        BY <1>4, <3>4 DEF Same
      <4> QED BY <1>1, <4>1, ChainKept, SlotsKept
    <3>6. FreeSlot(disk, s) = 0
      BY <2>3, <3>5 DEF FreeSlot
    <3>7. Same(disk, e, L \ Range(read_chain(disk, s)))
      BY <1>4, <3>2, <3>5 DEF Same
    <3>8. EntryAt(e, up) = EntryAt(disk, up)
      BY <1>1, <1>2, <3>2, <3>3, <3>7, PathKept
    <3>9. damaged'
      BY <1>1, <1>2, <1>8, <3>2, <3>8, DamageSeen DEF e
    <3>10. reply' = "Error"
      BY <1>8, <2>3 DEF Finish
    <3>11. disk'.fat[n] = FREE /\ Last(read_chain(disk', s)) = n
      BY <1>8, <3>2 DEF e
    <3>12. Window
      <4>1. CASE up = <<>>
        <5>1. s = Root
          BY <1>1, <1>2, <4>1, EntryAtRoot, SpecialSlots
        <5>2. s \in Directories
          BY <5>1 DEF Directories
        <5> QED BY <3>6, <3>10, <3>11, <5>2 DEF Window
      <4>2. CASE up \in Paths /\ EntryAt(disk, up).kind = "dir"
        <5>1. view[up].kind = "dir"
          <6>1. view[up] = Look(disk, up)
            BY <4>2 DEF Survey
          <6> QED BY <1>2, <4>2, <6>1 DEF Look
        <5>2. s \in Directories
          BY <1>2, <4>2, <5>1 DEF Directories
        <5> QED BY <3>6, <3>10, <3>11, <5>2 DEF Window
      <4>3. CASE up \in Paths /\ EntryAt(disk, up).kind = "file"
        <5>1. view[up].kind = "file"
          <6>1. view[up] = Look(disk, up)
            BY <4>3 DEF Survey
          <6> QED BY <1>2, <4>3, <6>1 DEF Look
        <5>2. view'[up].kind = "file" /\ view'[up].clusters = Range(read_chain(e, s))
          BY <1>2, <1>8, <3>8, <4>3, FinishView DEF e
        <5> QED BY <3>2, <3>10, <3>11, <4>3, <5>1, <5>2 DEF Window
      <4>4. EntryAt(disk, up).kind \in {"file", "dir"}
        BY <1>1, <1>2, EntryAtType DEF IsEntry
      <4> QED BY <1>1, <4>1, <4>2, <4>3, <4>4
    <3> QED BY <3>9, <3>12 DEF ForestOrWindow, ForestFrom
  <2>a. q.disk \in Disk
    BY <1>7, RunningFields
  <2>4. AddOutcome(d, L, q, s, entry)
    BY <1>1, <1>5, <1>6, <1>7, <1>10, <2>1, <2>a, AddedForest
  <2> QED BY <2>2, <2>3, <2>4 DEF AddOutcome
<1> QED BY <1>9, <1>10

LEMMA CreateForest ==
  ASSUME TypeOK, view = Survey(disk), NEW path \in Paths, HasParent(disk, path),
         EntryAt(disk, path) = End,
         NEW content \in Seq(Texts), NEW limit \in Limits,
         Create(path, [i \in DOMAIN content |-> Text(content[i])], limit),
         Bounded => Len(content) <= 2 * SlotsPerBlock,
         NEW L, Forest(disk, L)
  PROVE  ForestOrWindow(L)
<1> DEFINE data == [i \in DOMAIN content |-> Text(content[i])]
           s == ParentCluster(disk, path)
           start == Started(disk, limit)
           new == allocate_and_write(start, data)
           entry == Slot("file", Stored[Last(path)], new.cluster, Len(data))
<1>1. limit \in Int /\ disk \in Disk
  BY LimitFacts DEF TypeOK
<1>2. start \in Running(limit) /\ start.disk = disk
  BY <1>1, StartedType
<1>3. data \in Seq(Slots) /\ Len(data) \in Nat /\ \A k \in 1 .. Len(data) : ~IsEntry(data[k])
  BY TextData
<1>4. Finish(add_entry(new, s, entry))
  BY DEF Create
<1>a. Len(data) = Len(content)
  BY TextData
<1> HIDE DEF data, start
<1>5. new \in Running(limit) /\ \E P : Allocates(disk, new, P)
  BY <1>2, <1>3, AllocateAndWrite
<1>b. Bounded /\ new.ok => Fits(new.disk, entry)
  BY <1>2, <1>3, <1>a, NewFileFits
<1> HIDE DEF new, s
<1>6. entry \in Slots /\ IsEntry(entry) /\ entry.cluster = new.cluster
  <2>1. new.cluster \in Clusters \cup {0}
    BY <1>5, RunningFields
  <2> QED BY <1>3, <2>1, NewEntryType
<1>7. entry.name = Stored[Last(path)]
  BY DEF Slot
<1> HIDE DEF entry
<1> QED BY <1>4, <1>5, <1>6, <1>7, <1>b, NewForest DEF s

LEMMA MakeDirectoryForest ==
  ASSUME TypeOK, view = Survey(disk), NEW path \in Paths, HasParent(disk, path),
         EntryAt(disk, path) = End,
         NEW limit \in Limits, MakeDirectory(path, limit), NEW L, Forest(disk, L)
  PROVE  ForestOrWindow(L)
<1> DEFINE s == ParentCluster(disk, path)
           start == Started(disk, limit)
           new == alloc_cluster(start)
           filled == write_cluster(new, new.cluster,
                                   [ZeroBlock EXCEPT ![1] = Dot, ![2] = Dot])
           marked == write_fat_entry(filled, new.cluster, EOC)
           entry == Slot("dir", Stored[Last(path)], new.cluster, 0)
<1>1. limit \in Int /\ disk \in Disk
  BY LimitFacts DEF TypeOK
<1>2. start \in Running(limit) /\ start.ok /\ start.disk = disk
  BY <1>1, StartedType
<1>3. Finish(add_entry(marked, s, entry))
  BY DEF MakeDirectory
<1> HIDE DEF start
<1>4. /\ marked \in Running(limit) /\ marked.cluster = new.cluster
      /\ \E P : Allocates(disk, marked, P)
  BY <1>2, NewDirectory
<1> HIDE DEF marked, new, s
<1>5. entry \in Slots /\ IsEntry(entry) /\ entry.cluster = marked.cluster
  <2>1. new.cluster \in Clusters \cup {0}
    BY <1>4, RunningFields
  <2>2. entry \in Slots /\ IsEntry(entry) /\ entry.cluster = new.cluster
    BY <2>1, NewEntryType
  <2> QED BY <1>4, <2>2
<1>6. entry.name = Stored[Last(path)]
  BY DEF Slot
<1>7. Fits(marked.disk, entry)
  BY DEF Fits, Slot
<1> HIDE DEF entry
<1> QED BY <1>3, <1>4, <1>5, <1>6, <1>7, NewForest DEF s

(* So an operation that leaves a forest damages nothing. *)
LEMMA ForestUndamaged ==
  ASSUME NEW r, Finish(r), r.disk \in Disk, NEW L, Forest(r.disk, L), damaged \in BOOLEAN
  PROVE  damaged' = damaged
<1>1. ASSUME NEW c \in InUse(r.disk, view') PROVE r.disk.fat[c] # FREE
  <2>1. CASE c \in RootClusters(r.disk)
    <3>1. c \in L
      BY <2>1, ChainIn DEF RootClusters, Forest, ForestTable, Top
    <3> QED BY <3>1, ForestUsed
  <2>2. ASSUME NEW p \in Paths, c \in view'[p].clusters PROVE r.disk.fat[c] # FREE
    <3>1. c \in Range(read_chain(r.disk, EntryAt(r.disk, p).cluster))
      BY <2>2, FinishView
    <3>2. c \in L
      BY <3>1, PathsIn, PathFacts
    <3> QED BY <3>2, ForestUsed
  <2> QED BY <2>1, <2>2 DEF InUse
<1> QED BY <1>1 DEF Finish

LEMMA InitForest ==
  ASSUME Init
  PROVE  ForestInv
<1>1. PICK root \in Blocks :
        /\ disk = FirstDisk(root) /\ disk \in Disk
        /\ \A j \in Places : IsEntry(root[j]) => j = 1 /\ EmptyFile(root[j])
  BY InitDisk
<1>2. Root \in Clusters
  BY ClusterFacts
<1>3. disk.fat[Root] = EOC /\ disk.data[Root] = root
  BY <1>1, <1>2 DEF FirstDisk
<1>4. Forest(disk, {Root})
  BY <1>1, <1>2, <1>3, ClusterFacts
  DEF Forest, ForestTable, ForestEntries, Top, Links, EntryIn, HeadIn, EmptyFile
<1>5. TypeOK /\ view = Survey(disk)
  BY InitType DEF Init
<1>6. Orderly(SlotsOf(disk, Root))
  <2>1. read_chain(disk, Root) = <<Root>>
    BY <1>2, <1>3, ClusterFacts, ChainOfOne
  <2>2. ASSUME NEW k \in DOMAIN SlotsOf(disk, Root), IsEntry(SlotsOf(disk, Root)[k]) PROVE k = 1
    <3>1. /\ HomeOf(disk, Root, k) \in Range(read_chain(disk, Root)) /\ PlaceAt(k) \in Places
          /\ SlotsOf(disk, Root)[k] = disk.data[HomeOf(disk, Root, k)][PlaceAt(k)]
      BY <1>1, <2>2, SlotHome
    <3>2. HomeOf(disk, Root, k) = Root
      BY <2>1, <3>1 DEF Range
    <3>3. PlaceAt(k) = 1
      BY <1>1, <1>3, <2>2, <3>1, <3>2
    <3>4. DOMAIN SlotsOf(disk, Root) = 1 .. 1 * SlotsPerBlock
      BY <1>1, <2>1, SlotsOfType
    <3>5. BlockAt(k) \in 1 .. 1 /\ k = (BlockAt(k) - 1) * SlotsPerBlock + PlaceAt(k)
      BY <2>2, <3>4, SlotPlace
    <3>6. BlockAt(k) = 1
      BY <3>5
    <3>7. SlotsPerBlock \in Nat
      BY Fat32Assumption
    <3>8. k = 0 * SlotsPerBlock + 1
      BY <3>3, <3>5, <3>6
    <3> QED BY <3>7, <3>8
  <2>3. DOMAIN SlotsOf(disk, Root) \subseteq Nat \ {0}
    BY <1>1, <2>1, SlotsOfType, ClusterFacts
  <2> QED BY <2>2, <2>3 DEF Orderly
<1>7. Tidy(disk, {Root})
  <2> SUFFICES ASSUME NEW x, IsDirectory(disk, {Root}, x) PROVE Orderly(SlotsOf(disk, x))
    BY DEF Tidy
  <2>1. x = Root \/ x = 0
    BY <1>1, <1>3 DEF IsDirectory, EntryIn, HeadIn, EmptyFile
  <2> QED BY <1>1, <1>6, <2>1, OrderlyNone
<1>8. Room(disk, {Root})
  <2> SUFFICES ASSUME NEW j \in Places, IsEntry(root[j]) PROVE Fits(disk, root[j])
    BY <1>3 DEF Room, EntryIn
  <2>1. root[j].size = 0 /\ SlotsPerBlock \in Nat
    BY <1>1, Fat32Assumption DEF EmptyFile
  <2> QED BY <2>1 DEF Fits
<1> QED BY <1>4, <1>5, <1>7, <1>8 DEF ForestInv

LEMMA OperationsForest ==
  ASSUME TypeOK, view = Survey(disk), NEW path \in Paths, NEW L, Forest(disk, L)
  PROVE  /\ \A content \in Seq(Texts) :
              (Bounded => Len(content) <= 2 * SlotsPerBlock) =>
                (create_file(path, content) => Lands(L))
         /\ mkdir(path) => Lands(L)
         /\ delete(path) => Lands(L)
<1>1. Refuse => Lands(L)
  BY DEF Refuse, Stays, Lands
<1>2. ASSUME NEW content \in Seq(Texts), Bounded => Len(content) <= 2 * SlotsPerBlock,
             create_file(path, content)
      PROVE  Lands(L)
  <2> DEFINE data == [i \in DOMAIN content |-> Text(content[i])]
  <2>1. ASSUME NEW limit \in Limits, EntryAt(disk, path).kind = "file", Overwrite(path, data, limit)
        PROVE  Lands(L)
    <3>1. ForestOrWindow(L)
      BY <1>2, <2>1, OverwriteForest
    <3>2. \E r : Finish(r)
      BY <2>1 DEF Overwrite
    <3> QED BY <3>1, <3>2 DEF Lands
  <2>2. ASSUME NEW limit \in Limits, HasParent(disk, path), EntryAt(disk, path) = End,
               Create(path, data, limit)
        PROVE  Lands(L)
    <3>1. ForestOrWindow(L)
      BY <1>2, <2>2, CreateForest
    <3>2. \E r : Finish(r)
      BY <2>2 DEF Create
    <3> QED BY <3>1, <3>2 DEF Lands
  <2> HIDE DEF data
  <2> QED BY <1>1, <1>2, <2>1, <2>2, Zenon DEF create_file, data
<1>3. ASSUME mkdir(path) PROVE Lands(L)
  <2>1. ASSUME NEW limit \in Limits, HasParent(disk, path), EntryAt(disk, path) = End,
               MakeDirectory(path, limit)
        PROVE  Lands(L)
    <3>1. ForestOrWindow(L)
      BY <2>1, MakeDirectoryForest
    <3>2. \E r : Finish(r)
      BY <2>1 DEF MakeDirectory
    <3> QED BY <3>1, <3>2 DEF Lands
  <2> QED BY <1>1, <1>3, <2>1, Zenon DEF mkdir
<1>4. ASSUME delete(path) PROVE Lands(L)
  <2>1. ASSUME NEW limit \in Limits, EntryAt(disk, path) # End, Delete(path, limit) PROVE Lands(L)
    <3>1. ForestOrWindow(L)
      BY <2>1, DeleteForest DEF ForestOrWindow
    <3>2. \E r : Finish(r)
      BY <2>1 DEF Delete
    <3> QED BY <3>1, <3>2 DEF Lands
  <2> QED BY <1>1, <1>4, <2>1, Zenon DEF delete
<1> QED BY <1>2, <1>3, <1>4

LEMMA NextForest ==
  ASSUME ForestInv, ~damaged, Next
  PROVE  Stays \/ ((\E r : Finish(r)) /\ StepForest)
<1>1. PICK L : Forest(disk, L) /\ (ShortNames => Tidy(disk, L)) /\ (Bounded => Room(disk, L))
  BY DEF ForestInv
<1>2. TypeOK /\ view = Survey(disk)
  BY DEF ForestInv
<1>3. PICK path \in Paths : \/ \E content \in Contents : create_file(path, content)
                            \/ mkdir(path) \/ delete(path)
  BY DEF Next
<1>4. Lands(L)
  <2>1. ASSUME NEW content \in Contents, create_file(path, content) PROVE Lands(L)
    BY <1>1, <1>2, <2>1, ContentFacts, OperationsForest DEF Bounded
  <2> QED BY <1>1, <1>2, <1>3, <2>1, OperationsForest
<1> QED BY <1>1, <1>4 DEF Lands, StepForest

(* The view is the survey of the disk after every step. *)
LEMMA NextView ==
  ASSUME view = Survey(disk), Next
  PROVE  view' = Survey(disk') /\ (damaged => damaged')
<1>1. PICK path \in Paths : \/ \E content \in Contents : create_file(path, content)
                            \/ mkdir(path) \/ delete(path)
  BY DEF Next
<1>2. Refuse => view' = Survey(disk') /\ (damaged => damaged')
  BY DEF Refuse
<1>3. ASSUME NEW r, Finish(r) PROVE view' = Survey(disk') /\ (damaged => damaged')
  BY <1>3 DEF Finish
<1>4. ASSUME NEW content \in Contents, create_file(path, content)
      PROVE  view' = Survey(disk') /\ (damaged => damaged')
  <2>1. Refuse \/ \E r : Finish(r)
    BY <1>4, Zenon DEF create_file, Overwrite, Create
  <2> QED BY <1>2, <1>3, <2>1
<1>5. mkdir(path) => Refuse \/ \E r : Finish(r)
  BY Zenon DEF mkdir, MakeDirectory
<1>6. delete(path) => Refuse \/ \E r : Finish(r)
  BY Zenon DEF delete, Delete
<1> QED BY <1>1, <1>2, <1>3, <1>4, <1>5, <1>6

LEMMA ForestStep ==
  ASSUME ForestInv, [Next]_vars
  PROVE  ForestInv' /\ (damaged' /\ ~damaged => Window)
<1>1. TypeOK /\ view = Survey(disk) /\ damaged \in BOOLEAN /\ disk \in Disk
  BY DEF ForestInv, TypeOK
<1>2. TypeOK' /\ disk' \in Disk
  BY <1>1, NextType DEF TypeOK
<1>3. CASE UNCHANGED vars
  <2>1. disk' = disk /\ view' = view /\ damaged' = damaged
    BY <1>3 DEF vars
  <2> QED BY <1>2, <2>1 DEF ForestInv
<1>4. CASE Next /\ damaged
  <2>1. view' = Survey(disk') /\ damaged'
    BY <1>1, <1>4, NextView
  <2> QED BY <1>2, <1>4, <2>1 DEF ForestInv
<1>5. CASE Next /\ ~damaged
  <2>1. Stays \/ ((\E r : Finish(r)) /\ StepForest)
    BY <1>5, NextForest
  <2>2. CASE Stays
    BY <1>2, <2>2 DEF Stays, ForestInv
  <2>3. CASE (\E r : Finish(r)) /\ StepForest
    <3>1. PICK r : Finish(r)
      BY <2>3
    <3>2. disk' = r.disk /\ view' = Survey(disk')
      BY <3>1 DEF Finish
    <3>3. ASSUME NEW L, Forest(disk', L) PROVE ~damaged'
      BY <1>1, <1>2, <1>5, <3>1, <3>2, <3>3, ForestUndamaged
    <3>4. CASE \E M : /\ Forest(disk', M) /\ (ShortNames => Tidy(disk', M))
                      /\ Bounded => Room(disk', M)
      BY <1>2, <3>2, <3>3, <3>4 DEF ForestInv
    <3>5. CASE Window /\ damaged'
      BY <1>2, <3>2, <3>5 DEF ForestInv
    <3> QED BY <2>3, <3>4, <3>5 DEF StepForest, ForestOrWindow, ForestFrom
  <2> QED BY <2>1, <2>2, <2>3
<1> QED BY <1>3, <1>4, <1>5

LEMMA ForestHolds == Spec => []ForestInv
<1>1. Init => ForestInv
  BY InitForest
<1>2. ForestInv /\ [Next]_vars => ForestInv'
  BY ForestStep
<1> QED BY <1>1, <1>2, PTL DEF Spec

(* No operation of the VFS, stopped at any of its writes, ever makes two   *)
(* objects share a cluster of a volume that was never damaged, on a volume *)
(* of any size and for any set of paths, names and contents.               *)
THEOREM NoSharedClusters == Spec => []NoCrossLinks
<1>1. ForestInv => NoCrossLinks
  <2>1. ASSUME ForestInv, damaged PROVE NoCrossLinks
    BY <2>1 DEF NoCrossLinks
  <2>2. ASSUME ForestInv, ~damaged PROVE NoCrossLinks
    <3>1. PICK L : Forest(disk, L)
      BY <2>2 DEF ForestInv
    <3> QED BY <2>2, <3>1, ForestNoCrossLinks DEF ForestInv, TypeOK
  <2> QED BY <2>1, <2>2
<1> QED BY <1>1, ForestHolds, PTL

(* A chain runs into a free cluster only by an operation that fails, in    *)
(* one of the two windows: an overwrite between free_chain and the rewrite *)
(* of the entry, or add_entry between linking and marking a new cluster.   *)
THEOREM OnlyWindowsDamage == Spec => DamageNeedsWindow
<1>1. ForestInv /\ [Next]_vars =>
        [damaged' /\ ~damaged => Window]_vars
  BY ForestStep
<1>2. Spec => [][damaged' /\ ~damaged => Window]_vars
  BY <1>1, ForestHolds, PTL DEF Spec
<1> QED BY <1>2, Zenon DEF DamageNeedsWindow, Window

LEMMA TidyDirectories ==
  ASSUME disk \in Disk, view = Survey(disk), NEW L, Forest(disk, L), Tidy(disk, L)
  PROVE  DirectoriesWellFormed
<1> SUFFICES ASSUME NEW dir \in Directories PROVE Orderly(SlotsOf(disk, dir))
  BY DEF DirectoriesWellFormed, Orderly
<1>1. IsDirectory(disk, L, dir)
  <2>1. CASE dir = Root
    BY <2>1 DEF IsDirectory
  <2>2. ASSUME NEW p \in Paths, view[p].kind = "dir", dir = EntryAt(disk, p).cluster
        PROVE  IsDirectory(disk, L, dir)
    <3>1. EntryAt(disk, p) # End /\ EntryAt(disk, p).kind = "dir"
      BY <2>2 DEF Survey, Look
    <3>2. PICK c \in L, j \in Places : PathSlot(disk, p, c, j)
      BY <3>1, PathFacts, ParentHead
    <3> QED BY <2>2, <3>1, <3>2 DEF PathSlot, IsDirectory, HeadIn
  <2> QED BY <2>1, <2>2 DEF Directories
<1> QED BY <1>1 DEF Tidy

(* No directory of a volume that was never damaged hides an entry behind   *)
(* an end mark or has two entries of one name (find_entry, add_entry,      *)
(* remove_entry and update_dir_entry), if set_name_83 keeps every name     *)
(* that clients use: create_file looks for the name it was given and       *)
(* stores the shortened one, so two long names could be stored alike.      *)
THEOREM DirectoriesInOrder ==
  ASSUME \A p \in Paths : Stored[Last(p)] = Last(p)
  PROVE  Spec => []DirectoriesWellFormed
<1>1. ShortNames
  BY DEF ShortNames
<1>2. ForestInv => DirectoriesWellFormed
  <2>1. damaged => DirectoriesWellFormed
    BY DEF DirectoriesWellFormed
  <2>2. ASSUME ForestInv, ~damaged PROVE DirectoriesWellFormed
    <3>1. PICK L : Forest(disk, L) /\ Tidy(disk, L)
      BY <1>1, <2>2 DEF ForestInv
    <3> QED BY <2>2, <3>1, TidyDirectories DEF ForestInv, TypeOK
  <2> QED BY <2>1, <2>2
<1> QED BY <1>2, ForestHolds, PTL

-----------------------------------------------------------------------------
(***************************************************************************)
(* The tree that clients see.                                              *)
(***************************************************************************)
(* In a directory in order an entry is found under its name. *)
LEMMA FindOrderly ==
  ASSUME NEW d \in Disk, NEW x, Orderly(SlotsOf(d, x)), NEW k \in DOMAIN SlotsOf(d, x),
         IsEntry(SlotsOf(d, x)[k])
  PROVE  find_entry(d, x, SlotsOf(d, x)[k].name) = SlotsOf(d, x)[k]
<1> DEFINE a == SlotsOf(d, x)
           name == a[k].name
<1>1. Named(d, x, name, k)
  BY DEF Named
<1>2. DOMAIN a \subseteq Nat /\ \A i \in DOMAIN a : \A n \in 1 .. i - 1 : n \in DOMAIN a /\ n < i
  BY SlotsOfType
<1>3. find_entry(d, x, name) # End
  <2> SUFFICES ASSUME find_entry(d, x, name) = End PROVE FALSE
    OBVIOUS
  <2>1. PICK i \in 1 .. k - 1 : a[i] = End
    BY <1>1, FindEntry
  <2> HIDE DEF a
  <2> QED BY <1>2, <2>1 DEF Orderly, a
<1>4. PICK i : Found(d, x, name, i) /\ find_entry(d, x, name) = a[i]
  BY <1>3, FindEntry
<1>5. i \in DOMAIN a /\ IsEntry(a[i]) /\ a[i].name = a[k].name
  BY <1>4 DEF Found, Named
<1>6. i = k
  <2> HIDE DEF a
  <2>1. ~(i < k) /\ ~(k < i)
    BY <1>5 DEF Orderly, a
  <2>2. i \in Nat /\ k \in Nat
    BY <1>2, <1>5 DEF a
  <2> QED BY <2>1, <2>2
<1> QED BY <1>4, <1>6

LEMMA FindNone ==
  ASSUME NEW d \in Disk, NEW x, NEW name,
         \A k \in DOMAIN SlotsOf(d, x) :
           IsEntry(SlotsOf(d, x)[k]) => SlotsOf(d, x)[k].name # name
  PROVE  find_entry(d, x, name) = End
BY FindEntry DEF Found, Named

LEMMA FindEdited ==
  ASSUME NEW d \in Disk, NEW e \in Disk, NEW s, Orderly(SlotsOf(d, s)), Orderly(SlotsOf(e, s)),
         NEW i, NEW name, Edits(SlotsOf(d, s), SlotsOf(e, s), i, name)
  PROVE  /\ find_entry(e, s, name) = IF IsEntry(SlotsOf(e, s)[i]) THEN SlotsOf(e, s)[i] ELSE End
         /\ \A n : n # name => find_entry(e, s, n) = find_entry(d, s, n)
<1> DEFINE a == SlotsOf(d, s)
           b == SlotsOf(e, s)
<1>1. ASSUME IsEntry(b[i]) PROVE find_entry(e, s, name) = b[i]
  <2>1. i \in DOMAIN b /\ b[i].name = name
    BY <1>1 DEF Edits
  <2>2. find_entry(e, s, b[i].name) = b[i]
    BY <1>1, <2>1, FindOrderly
  <2> QED BY <2>1, <2>2
<1>2. ASSUME ~IsEntry(b[i]) PROVE find_entry(e, s, name) = End
  <2>1. \A k \in DOMAIN b : IsEntry(b[k]) => b[k].name # name
    <3> HIDE DEF a, b
    <3> QED BY <1>2 DEF Edits, a, b
  <2> QED BY <2>1, FindNone
<1>3. ASSUME NEW n, n # name PROVE find_entry(e, s, n) = find_entry(d, s, n)
  <2>1. CASE find_entry(d, s, n) = End
    <3>1. \A k \in DOMAIN a : IsEntry(a[k]) => a[k].name # n
      BY <2>1, NameFree
    <3>2. \A k \in DOMAIN b : IsEntry(b[k]) => b[k].name # n
      <4> HIDE DEF a, b
      <4> QED BY <1>3, <3>1 DEF Edits, a, b
    <3> QED BY <2>1, <3>2, FindNone
  <2>2. CASE find_entry(d, s, n) # End
    <3>1. PICK k : Found(d, s, n, k) /\ find_entry(d, s, n) = a[k]
      BY <2>2, FindEntry
    <3>2. k \in DOMAIN a /\ IsEntry(a[k]) /\ a[k].name = n
      BY <3>1 DEF Found, Named
    <3>3. k \in DOMAIN b /\ b[k] = a[k]
      <4> HIDE DEF a, b
      <4> QED BY <1>3, <3>2 DEF Edits, a, b
    <3>4. find_entry(e, s, b[k].name) = b[k]
      BY <3>2, <3>3, FindOrderly
    <3> QED BY <3>1, <3>2, <3>3, <3>4
  <2> QED BY <2>1, <2>2
<1> QED BY <1>1, <1>2, <1>3

(* What a set of paths leads to is kept, if its names are found as before. *)
FoundAlike(d, e, q) ==
  EntryAt(d, Front(q)) # End =>
    find_entry(e, EntryAt(d, Front(q)).cluster, Last(q)) =
      find_entry(d, EntryAt(d, Front(q)).cluster, Last(q))

LEMMA EntriesKept ==
  ASSUME NEW d \in Disk, NEW e \in Disk, NEW K, K \subseteq Seq(Names),
         \A q \in K : q # <<>> => Front(q) \in K /\ FoundAlike(d, e, q),
         NEW path \in K
  PROVE  EntryAt(e, path) = EntryAt(d, path)
<1> DEFINE N == Len(path)
           S == {n \in Nat : \A q \in K : Len(q) = n => EntryAt(e, q) = EntryAt(d, q)}
<1>0. N \in Nat
  OBVIOUS
<1>1. 0 \in S
  <2> SUFFICES ASSUME NEW q \in K, Len(q) = 0 PROVE EntryAt(e, q) = EntryAt(d, q)
    OBVIOUS
  <2>1. q = <<>>
    OBVIOUS
  <2> QED BY <2>1, EntryAtRoot
<1>2. ASSUME NEW n \in 1 .. N, n - 1 \in S PROVE n \in S
  <2> SUFFICES ASSUME NEW q \in K, Len(q) = n PROVE EntryAt(e, q) = EntryAt(d, q)
    OBVIOUS
  <2>1. q # <<>> /\ q \in Seq(Names)
    OBVIOUS
  <2> DEFINE up == Front(q)
  <2>2. Len(up) = n - 1 /\ up \in K
    BY <2>1, EntryAtStep
  <2>3. EntryAt(e, up) = EntryAt(d, up)
    BY <1>2, <2>2
  <2>4. EntryAt(d, q) = IF EntryAt(d, up) = End THEN End
                        ELSE find_entry(d, EntryAt(d, up).cluster, Last(q))
    BY <2>1, EntryAtStep
  <2>5. EntryAt(e, q) = IF EntryAt(e, up) = End THEN End
                        ELSE find_entry(e, EntryAt(e, up).cluster, Last(q))
    BY <2>1, EntryAtStep
  <2>6. FoundAlike(d, e, q)
    BY <2>1
  <2> HIDE DEF up
  <2> QED BY <2>3, <2>4, <2>5, <2>6 DEF FoundAlike, up
<1>3. N \in S
  <2> HIDE DEF S, N
  <2> QED BY <1>0, <1>1, <1>2, UpTo, Zenon
<1> QED BY <1>3

LEMMA BeneathFront ==
  ASSUME NEW p \in Seq(Names), NEW q \in Seq(Names), p # <<>>, q # <<>>
  PROVE  Beneath(p, q) <=> q = p \/ Beneath(p, Front(q))
<1> DEFINE m == Len(p)
           n == Len(q)
           up == Front(q)
<1>1. m \in Nat \ {0} /\ n \in Nat \ {0}
  OBVIOUS
<1>2. Len(up) = n - 1 /\ \A k \in 1 .. n - 1 : up[k] = q[k]
  BY FrontLast
<1> HIDE DEF up
<1>3. ASSUME Beneath(p, q), m = n PROVE q = p
  BY <1>3 DEF Beneath
<1>4. ASSUME Beneath(p, q), m # n PROVE Beneath(p, up)
  BY <1>1, <1>2, <1>4 DEF Beneath
<1>5. ASSUME Beneath(p, up) PROVE Beneath(p, q)
  BY <1>1, <1>2, <1>5 DEF Beneath
<1>6. q = p => Beneath(p, q)
  BY <1>1 DEF Beneath
<1> QED BY <1>3, <1>4, <1>5, <1>6 DEF up

LEMMA EntriesGone ==
  ASSUME NEW e \in Disk, NEW path \in Seq(Names), path # <<>>, Sterile(e, EntryAt(e, path)),
         NEW q \in Seq(Names), Beneath(path, q), q # path
  PROVE  EntryAt(e, q) = End
<1> DEFINE N == Len(q)
           Gone(p) == Beneath(path, p) /\ p # path => EntryAt(e, p) = End
           S == {n \in Nat : \A p \in Seq(Names) : Len(p) = n => Gone(p)}
<1>0. N \in Nat
  OBVIOUS
<1>1. 0 \in S
  <2> SUFFICES ASSUME NEW p \in Seq(Names), Len(p) = 0 PROVE ~Beneath(path, p)
    OBVIOUS
  <2>1. Len(path) \in Nat \ {0}
    OBVIOUS
  <2> QED BY <2>1 DEF Beneath
<1>2. ASSUME NEW n \in 1 .. N, n - 1 \in S PROVE n \in S
  <2> SUFFICES ASSUME NEW p \in Seq(Names), Len(p) = n, Beneath(path, p), p # path
               PROVE  EntryAt(e, p) = End
    OBVIOUS
  <2>1. p # <<>>
    OBVIOUS
  <2> DEFINE up == Front(p)
  <2>2. up \in Seq(Names) /\ Len(up) = n - 1 /\ Last(p) \in Names
    BY <2>1, EntryAtStep
  <2>3. Beneath(path, up)
    BY <2>1, BeneathFront
  <2>4. EntryAt(e, p) = IF EntryAt(e, up) = End THEN End
                        ELSE find_entry(e, EntryAt(e, up).cluster, Last(p))
    BY <2>1, EntryAtStep
  <2>5. up # path => EntryAt(e, up) = End
    BY <1>2, <2>2, <2>3
  <2> HIDE DEF up
  <2> QED BY <2>2, <2>4, <2>5 DEF Sterile
<1>3. N \in S
  <2> HIDE DEF S, N
  <2> QED BY <1>0, <1>1, <1>2, UpTo, Zenon
<1> QED BY <1>3

LEMMA ShownAlike ==
  ASSUME NEW d, NEW e, NEW q, EntryAt(e, q) = EntryAt(d, q),
         \/ EntryAt(d, q).kind # "file"
         \/ SlotsOf(e, EntryAt(d, q).cluster) = SlotsOf(d, EntryAt(d, q).cluster)
  PROVE  Shown(e, q) = Shown(d, q)
BY DEF Shown, Look, read_file

LEMMA FindAlike ==
  ASSUME NEW d, NEW e, NEW x, NEW n, SlotsOf(e, x) = SlotsOf(d, x)
  PROVE  find_entry(e, x, n) = find_entry(d, x, n)
BY Zenon DEF find_entry

(* Where the forest stays the tree stays. *)
LEMMA TreeSame ==
  ASSUME NEW d \in Disk, NEW e \in Disk, NEW L, Forest(d, L), Same(d, e, L)
  PROVE  /\ \A q \in Seq(Names) : EntryAt(e, q) = EntryAt(d, q) /\ Shown(e, q) = Shown(d, q)
         /\ Barren(d) => Barren(e)
<1> DEFINE K == Seq(Names)
<1>1. ASSUME NEW q \in K
      PROVE  SlotsOf(e, EntryAt(d, q).cluster) = SlotsOf(d, EntryAt(d, q).cluster)
  <2> DEFINE x == EntryAt(d, q).cluster
  <2>1. Range(read_chain(d, x)) \subseteq L
    BY PathsIn
  <2> HIDE DEF x
  <2>2. Same(d, e, Range(read_chain(d, x)))
    BY <2>1 DEF Same
  <2> QED BY <2>2, SlotsKept DEF x
<1>2. ASSUME NEW q \in K, q # <<>> PROVE Front(q) \in K /\ FoundAlike(d, e, q)
  <2>1. Front(q) \in K
    BY <1>2, FrontLast
  <2> QED BY <1>1, <2>1, FindAlike DEF FoundAlike
<1>3. ASSUME NEW q \in K PROVE EntryAt(e, q) = EntryAt(d, q) /\ Shown(e, q) = Shown(d, q)
  <2>1. EntryAt(e, q) = EntryAt(d, q)
    <3> HIDE DEF K
    <3>1. K \subseteq Seq(Names)
      BY DEF K
    <3> QED BY <1>2, <3>1, EntriesKept
  <2> QED BY <1>1, <2>1, ShownAlike
<1>4. ASSUME Barren(d) PROVE Barren(e)
  <2> SUFFICES ASSUME NEW q \in K, EntryAt(e, q).kind = "file", NEW n \in Names,
                      EntryAt(e, q) # End
               PROVE  find_entry(e, EntryAt(e, q).cluster, n) = End
    BY DEF Barren, Sterile
  <2>1. find_entry(d, EntryAt(d, q).cluster, n) = End
    BY <1>3, <1>4 DEF Barren, Sterile
  <2> QED BY <1>1, <1>3, <2>1, FindAlike
<1> QED BY <1>3, <1>4

LEMMA EditedKept ==
  ASSUME NEW d \in Disk, NEW e \in Disk, NEW L, Forest(d, L), NEW path \in Seq(Names),
         path # <<>>, HasParent(d, path), Edited(d, e, L, path)
  PROVE  /\ \A q \in Seq(Names) : ~Beneath(path, q) =>
              /\ EntryAt(e, q) = EntryAt(d, q)
              /\ q # Front(path) =>
                   /\ SlotsOf(e, EntryAt(d, q).cluster) = SlotsOf(d, EntryAt(d, q).cluster)
                   /\ read_chain(e, EntryAt(d, q).cluster) = read_chain(d, EntryAt(d, q).cluster)
         /\ EntryAt(e, path) = find_entry(e, ParentCluster(d, path), Last(path))
<1> DEFINE top == Front(path)
           s == ParentCluster(d, path)
           K == {q \in Seq(Names) : ~Beneath(path, q)}
           C == Range(read_chain(d, EntryAt(d, path).cluster))
           B == Range(read_chain(d, s))
<1>0. /\ top \in Seq(Names) /\ EntryAt(d, top) # End /\ s = EntryAt(d, top).cluster
      /\ Last(path) \in Names
  BY FrontLast DEF HasParent, ParentCluster
<1>1. ASSUME NEW q \in Seq(Names), q # path, q # top
      PROVE  /\ SlotsOf(e, EntryAt(d, q).cluster) = SlotsOf(d, EntryAt(d, q).cluster)
             /\ read_chain(e, EntryAt(d, q).cluster) = read_chain(d, EntryAt(d, q).cluster)
  <2> DEFINE x == EntryAt(d, q).cluster
             R == Range(read_chain(d, x))
  <2>1. R \subseteq L
    BY PathsIn
  <2>2. R \cap C = {} /\ R \cap B = {}
    <3>1. CASE EntryAt(d, q) = End
      <4>1. x \notin Clusters
        BY <3>1, SpecialSlots, ClusterFacts
      <4>2. R = {}
        BY <4>1, NoChain DEF Range
      <4> QED BY <4>2
    <3>2. CASE EntryAt(d, q) # End
      <4>1. C \cap R = {}
        BY <1>1, <3>2, ForestApart
      <4>2. B \cap R = {}
        BY <1>0, <1>1, <3>2, ForestApart
      <4> QED BY <4>1, <4>2
    <3> QED BY <3>1, <3>2
  <2>3. Same(d, e, R)
    BY <2>1, <2>2 DEF Same, Edited
  <2> HIDE DEF x
  <2>4. read_chain(e, x) = read_chain(d, x)
    BY <2>3, ChainKept
  <2>5. SlotsOf(e, x) = SlotsOf(d, x)
    BY <2>3, SlotsKept
  <2> QED BY <2>4, <2>5 DEF x
<1>2. ASSUME NEW q \in K, q # <<>> PROVE Front(q) \in K /\ FoundAlike(d, e, q)
  <2>1. Front(q) \in Seq(Names) /\ Last(q) \in Names
    BY <1>2, FrontLast
  <2>2. ~Beneath(path, Front(q)) /\ q # path
    BY <1>2, BeneathFront
  <2>3. Front(q) # path
    <3>1. Beneath(path, path)
      BY DEF Beneath
    <3> QED BY <2>2, <3>1
  <2>4. CASE Front(q) = top
    <3>1. Last(q) # Last(path)
      BY <1>2, <2>2, <2>4, SamePath
    <3>2. find_entry(e, s, Last(q)) = find_entry(d, s, Last(q))
      BY <2>1, <3>1 DEF Edited
    <3> QED BY <1>0, <2>1, <2>2, <2>4, <3>2 DEF FoundAlike
  <2>5. CASE Front(q) # top
    <3>1. SlotsOf(e, EntryAt(d, Front(q)).cluster) = SlotsOf(d, EntryAt(d, Front(q)).cluster)
      BY <1>1, <2>1, <2>3, <2>5
    <3> QED BY <2>1, <2>2, <3>1, FindAlike DEF FoundAlike
  <2> QED BY <2>4, <2>5
<1>3. ASSUME NEW q \in K PROVE EntryAt(e, q) = EntryAt(d, q)
  <2> HIDE DEF K
  <2>1. K \subseteq Seq(Names)
    BY DEF K
  <2> QED BY <1>2, <2>1, EntriesKept
<1>4. top \in K
  <2>1. Len(top) = Len(path) - 1 /\ Len(path) \in Nat
    BY FrontLast
  <2> QED BY <1>0, <2>1 DEF Beneath
<1>5. EntryAt(e, path) = find_entry(e, s, Last(path))
  <2>1. EntryAt(e, top) = EntryAt(d, top)
    BY <1>3, <1>4
  <2>2. EntryAt(e, path) = IF EntryAt(e, top) = End THEN End
                           ELSE find_entry(e, EntryAt(e, top).cluster, Last(path))
    BY EntryAtStep
  <2> HIDE DEF top, s
  <2> QED BY <1>0, <2>1, <2>2
<1>6. Beneath(path, path)
  BY DEF Beneath
<1> QED BY <1>1, <1>3, <1>5, <1>6

LEMMA EditedTree ==
  ASSUME NEW d \in Disk, NEW e \in Disk, NEW L, Forest(d, L), NEW path \in Seq(Names),
         path # <<>>, HasParent(d, path), Edited(d, e, L, path),
         EntryAt(d, Front(path)).kind = "dir", Barren(d), Sterile(e, EntryAt(e, path))
  PROVE  /\ \A q \in Seq(Names) : ~Beneath(path, q) => Shown(e, q) = Shown(d, q)
         /\ \A q \in Seq(Names) : Beneath(path, q) /\ q # path => EntryAt(e, q) = End
         /\ Barren(e)
<1>1. /\ \A q \in Seq(Names) : ~Beneath(path, q) =>
           /\ EntryAt(e, q) = EntryAt(d, q)
           /\ q # Front(path) =>
                SlotsOf(e, EntryAt(d, q).cluster) = SlotsOf(d, EntryAt(d, q).cluster)
  BY EditedKept
<1>2. ASSUME NEW q \in Seq(Names), ~Beneath(path, q) PROVE Shown(e, q) = Shown(d, q)
  BY <1>1, <1>2, ShownAlike
<1>3. ASSUME NEW q \in Seq(Names), Beneath(path, q), q # path PROVE EntryAt(e, q) = End
  BY <1>3, EntriesGone
<1>4. Barren(e)
  <2> SUFFICES ASSUME NEW q \in Seq(Names), EntryAt(e, q).kind = "file"
               PROVE  Sterile(e, EntryAt(e, q))
    BY DEF Barren
  <2>1. CASE q = path
    BY <2>1
  <2>2. CASE Beneath(path, q) /\ q # path
    BY <1>3, <2>2, SpecialSlots
  <2>3. CASE ~Beneath(path, q)
    <3>1. EntryAt(e, q) = EntryAt(d, q) /\ q # Front(path)
      BY <1>1, <2>3
    <3>2. SlotsOf(e, EntryAt(d, q).cluster) = SlotsOf(d, EntryAt(d, q).cluster)
      BY <1>1, <2>3, <3>1
    <3>3. \A n : find_entry(e, EntryAt(d, q).cluster, n) = find_entry(d, EntryAt(d, q).cluster, n)
      BY <3>2, FindAlike
    <3>4. Sterile(d, EntryAt(d, q))
      BY <3>1 DEF Barren
    <3> QED BY <3>1, <3>3, <3>4 DEF Sterile
  <2> QED BY <2>1, <2>2, <2>3
<1> QED BY <1>2, <1>3, <1>4

(* The slot of a path's entry is changed. *)
LEMMA PlacedEdited ==
  ASSUME NEW d \in Disk, NEW e \in Disk, NEW L, Forest(d, L), NEW path \in Seq(Names),
         path # <<>>, EntryAt(d, path) # End, Orderly(SlotsOf(d, ParentCluster(d, path))),
         NEW c, NEW j, Placed(d, L, path, c, j), NEW slot,
         Changed(d, e, L \ Range(read_chain(d, EntryAt(d, path).cluster)), c, j, slot),
         slot # End, IsEntry(slot) => slot.name = Last(path)
  PROVE  /\ Edited(d, e, L, path)
         /\ find_entry(e, ParentCluster(d, path), Last(path)) = IF IsEntry(slot) THEN slot ELSE End
<1> DEFINE s == ParentCluster(d, path)
           name == Last(path)
           i == EntrySlot(d, s, name)
           C == Range(read_chain(d, EntryAt(d, path).cluster))
           B == Range(read_chain(d, s))
           a == SlotsOf(d, s)
           b == SlotsOf(e, s)
<1>1. /\ i \in DOMAIN a /\ c = HomeOf(d, s, i) /\ j = PlaceAt(i)
      /\ d.data[c][j] = EntryAt(d, path) /\ EntryIn(d, c, j) /\ B \subseteq L \ C
  BY DEF Placed
<1>2. EntryAt(d, path).name = name
  <2>1. find_entry(d, s, name) = EntryAt(d, path)
    BY PathFound
  <2> QED BY <2>1, FindEntry
<1>3. Changed(d, e, B, c, j, slot)
  BY <1>1 DEF Changed
<1> HIDE DEF i, C
<1>4. c \in B /\ a[i] = EntryAt(d, path) /\ IsEntry(a[i])
  BY <1>1, SlotHome DEF EntryIn
<1>5. /\ DOMAIN b = DOMAIN a
      /\ \A k \in DOMAIN a : b[k] = IF HomeOf(d, s, k) = c /\ PlaceAt(k) = j THEN slot ELSE a[k]
  BY <1>3, SlotsChanged
<1>6. \A k \in DOMAIN a : HomeOf(d, s, k) = c /\ PlaceAt(k) = j => k = i
  BY <1>1, PlaceOnce
<1>7. Orderly(b)
  <2>1. \/ ~IsEntry(slot) /\ slot # End
        \/ EntryIn(d, c, j) /\ slot # End /\ slot.name = d.data[c][j].name
    BY <1>1, <1>2
  <2> HIDE DEF s
  <2> QED BY <1>3, <2>1, OrderlyChanged DEF s
<1>8. \A k \in DOMAIN a : b[k] = IF k = i THEN slot ELSE a[k]
  BY <1>1, <1>5, <1>6
<1>9. ASSUME NEW k \in DOMAIN a, IsEntry(a[k]), a[k].name = name PROVE k = i
  <2>1. find_entry(d, s, a[k].name) = a[k]
    BY <1>9, FindOrderly
  <2>2. DOMAIN a \subseteq Nat
    BY SlotsOfType
  <2>3. a[i].name = name
    BY <1>2, <1>4
  <2> HIDE DEF a
  <2>4. ~(i < k) /\ ~(k < i)
    BY <1>1, <1>4, <1>9, <2>3 DEF Orderly, a
  <2>5. i \in Nat /\ k \in Nat
    BY <1>1, <1>9, <2>2
  <2> QED BY <2>4, <2>5
<1>10. Edits(a, b, i, name)
  <2> HIDE DEF a, b
  <2> QED BY <1>1, <1>2, <1>4, <1>5, <1>8, <1>9 DEF Edits
<1>11. /\ find_entry(e, s, name) = IF IsEntry(b[i]) THEN b[i] ELSE End
       /\ \A n : n # name => find_entry(e, s, n) = find_entry(d, s, n)
  <2> HIDE DEF s, name
  <2> QED BY <1>7, <1>10, FindEdited DEF s
<1>12. Same(d, e, L \ (C \cup B))
  <2> SUFFICES ASSUME NEW z \in L \ (C \cup B) PROVE e.fat[z] = d.fat[z] /\ e.data[z] = d.data[z]
    BY DEF Same
  <2>1. z \in Clusters /\ z # c /\ z \in L \ C
    BY <1>4, ForestUsed
  <2>2. e.fat[z] = d.fat[z] /\ \A k \in Places : e.data[z][k] = d.data[z][k]
    BY <2>1 DEF Changed, C
  <2>3. e.data[z] \in [Places -> Slots] /\ d.data[z] \in [Places -> Slots]
    BY <2>1, DiskFields DEF Blocks
  <2> QED BY <2>2, <2>3
<1>13. Edited(d, e, L, path)
  BY <1>11, <1>12 DEF Edited, C
<1>14. b[i] = slot
  BY <1>1, <1>8
<1> QED BY <1>11, <1>13, <1>14

LEMMA PutExtends ==
  ASSUME NEW d \in Disk, NEW e \in Disk, NEW L, Forest(d, L), NEW s, Orderly(SlotsOf(d, s)),
         NEW entry \in Slots, IsEntry(entry), find_entry(d, s, entry.name) = End,
         FreeSlot(d, s) # 0,
         e = SetSlot(d, HomeOf(d, s, FreeSlot(d, s)), PlaceAt(FreeSlot(d, s)), entry)
  PROVE  Extends(d, e, L, s, entry.name, entry)
<1> DEFINE i == FreeSlot(d, s)
           c == HomeOf(d, s, i)
           j == PlaceAt(i)
           name == entry.name
           a == SlotsOf(d, s)
           b == SlotsOf(e, s)
           B == Range(read_chain(d, s))
<1>1. i \in DOMAIN a /\ a[i] \in {End, Deleted}
  BY FreeSlotFound
<1> HIDE DEF i
<1>2. c \in B /\ c \in Clusters /\ j \in Places /\ B \subseteq Clusters
  BY <1>1, SlotHome, ChainType
<1>3. Changed(d, e, Clusters, c, j, entry) /\ Same(d, e, Clusters \ {c})
  BY <1>2, SlotSet DEF i
<1>4. Changed(d, e, B, c, j, entry)
  BY <1>2, <1>3 DEF Changed
<1>5. Orderly(b)
  <2>1. Changed(d, e, Range(read_chain(d, s)), HomeOf(d, s, FreeSlot(d, s)),
                PlaceAt(FreeSlot(d, s)), entry)
    BY <1>4 DEF i
  <2> QED BY <2>1, OrderlyAdded
<1> HIDE DEF c, j
<1>6. /\ DOMAIN b = DOMAIN a
      /\ \A k \in DOMAIN a : b[k] = IF HomeOf(d, s, k) = c /\ PlaceAt(k) = j THEN entry ELSE a[k]
  BY <1>4, SlotsChanged
<1>7. \A k \in DOMAIN a : HomeOf(d, s, k) = c /\ PlaceAt(k) = j => k = i
  BY <1>1, PlaceOnce DEF c, j
<1>8. \A k \in DOMAIN a : b[k] = IF k = i THEN entry ELSE a[k]
  BY <1>1, <1>6, <1>7 DEF c, j
<1>9. \A k \in DOMAIN a : IsEntry(a[k]) => a[k].name # name
  BY NameFree
<1>10. Edits(a, b, i, name)
  <2>1. ~IsEntry(a[i])
    BY <1>1, SpecialSlots
  <2> HIDE DEF a, b
  <2> QED BY <1>1, <1>6, <1>8, <1>9, <2>1 DEF Edits
<1> HIDE DEF name
<1>11. /\ find_entry(e, s, name) = IF IsEntry(b[i]) THEN b[i] ELSE End
       /\ \A n : n # name => find_entry(e, s, n) = find_entry(d, s, n)
  BY <1>5, <1>10, FindEdited
<1>12. b[i] = entry
  BY <1>1, <1>8
<1>13. Same(d, e, L \ B)
  BY <1>2, <1>3, ForestUsed DEF Same
<1> QED BY <1>11, <1>12, <1>13 DEF Extends, name

LEMMA GrowExtends ==
  ASSUME NEW d \in Disk, NEW e \in Disk, NEW L, Forest(d, L), NEW s, Top(d, L, s),
         Orderly(SlotsOf(d, s)), FreeSlot(d, s) = 0, NEW n, Extended(d, e, L, s, n),
         NEW entry, GrownBy(d, e, L, n, entry), find_entry(d, s, entry.name) = End
  PROVE  Extends(d, e, L, s, entry.name, IF IsEntry(e.data[n][1]) THEN e.data[n][1] ELSE End)
<1> DEFINE name == entry.name
           a == SlotsOf(d, s)
           b == SlotsOf(e, s)
           B == Range(read_chain(d, s))
           m == Len(read_chain(d, s))
           w == SlotsPerBlock
           i == m * w + 1
<1>1. B \subseteq L
  BY ChainIn DEF Top, Forest
<1>2. read_chain(e, s) = Append(read_chain(d, s), n)
  BY ChainGrown
<1>3. \A z \in B : e.data[z] = d.data[z]
  BY <1>1 DEF GrownBy
<1>4. Orderly(b)
  BY <1>2, <1>3, OrderlyGrown DEF GrownBy
<1>5. /\ DOMAIN a \subseteq DOMAIN b /\ \A k \in DOMAIN a : b[k] = a[k]
      /\ \A k \in DOMAIN b \ DOMAIN a :
           /\ PlaceAt(k) \in Places /\ b[k] = e.data[n][PlaceAt(k)]
           /\ \A h \in DOMAIN b : h \notin DOMAIN a /\ h < k => PlaceAt(k) # 1
  BY <1>2, <1>3, SlotsGrown
<1>6. /\ m \in Nat /\ w \in Nat /\ w > 1 /\ m * w \in Nat /\ (m + 1) * w = m * w + w
      /\ DOMAIN a = 1 .. m * w
  BY SlotsOfType, ChainType, Fat32Assumption
<1>7. DOMAIN b = 1 .. (m + 1) * w
  <2>1. Len(read_chain(e, s)) = m + 1
    BY <1>2, ChainType
  <2>2. DOMAIN b = 1 .. Len(read_chain(e, s)) * w
    BY SlotsOfType
  <2> QED BY <2>1, <2>2
<1>8. PlaceAt(i) = 1
  <2> DEFINE t == m + 1
             k == (t - 1) * SlotsPerBlock + 1
  <2>1. t \in Nat /\ t \in 1 .. t /\ 1 \in Places /\ t - 1 = m
    BY <1>6 DEF Places
  <2> HIDE DEF t
  <2>2. PlaceAt(k) = 1
    BY <2>1, PlaceSlot
  <2> QED BY <2>1, <2>2
<1> HIDE DEF a, b, m, w
<1>9. i \in DOMAIN b /\ i \notin DOMAIN a
  BY <1>6, <1>7
<1>10. b[i] = e.data[n][1]
  BY <1>5, <1>8, <1>9
<1>11. ASSUME NEW k \in DOMAIN b \ DOMAIN a, k # i PROVE ~IsEntry(b[k])
  <2>1. i < k
    BY <1>6, <1>7, <1>11
  <2>2. PlaceAt(k) \in Places /\ PlaceAt(k) # 1 /\ b[k] = e.data[n][PlaceAt(k)]
    BY <1>5, <1>9, <2>1
  <2> QED BY <2>2 DEF GrownBy
<1>12. \A k \in DOMAIN a : IsEntry(a[k]) => a[k].name # name
  BY NameFree DEF a
<1> HIDE DEF i
<1>13. Edits(a, b, i, name)
  <2>1. IsEntry(b[i]) => b[i].name = name
    BY <1>10 DEF GrownBy
  <2> QED BY <1>5, <1>9, <1>11, <1>12, <2>1 DEF Edits
<1> HIDE DEF name
<1>14. /\ find_entry(e, s, name) = IF IsEntry(b[i]) THEN b[i] ELSE End
       /\ \A x : x # name => find_entry(e, s, x) = find_entry(d, s, x)
  BY <1>4, <1>13, FindEdited DEF a, b
<1>15. Same(d, e, L \ B)
  <2>1. Last(read_chain(d, s)) \in B
    BY ChainEnd DEF Forest
  <2> QED BY <2>1 DEF Same, Extended, GrownBy
<1> QED BY <1>10, <1>14, <1>15 DEF Extends, name

LEMMA RangeGrown ==
  ASSUME NEW c \in Seq(Clusters), NEW n \in Clusters
  PROVE  Range(c) \subseteq Range(Append(c, n)) /\ n \in Range(Append(c, n))
<1> DEFINE b == Append(c, n)
           m == Len(c)
<1>1. /\ m \in Nat /\ DOMAIN c = 1 .. m /\ DOMAIN b = 1 .. m + 1
      /\ \A i \in 1 .. m : b[i] = c[i]
      /\ b[m + 1] = n
  OBVIOUS
<1> HIDE DEF b, m
<1>2. m + 1 \in DOMAIN b /\ \A i \in DOMAIN c : i \in DOMAIN b /\ b[i] = c[i]
  BY <1>1
<1> QED BY <1>1, <1>2 DEF Range, b

LEMMA AddedTree ==
  ASSUME NEW d \in Disk, NEW L, Forest(d, L), NEW s, s = 0 \/ Top(d, L, s),
         Orderly(SlotsOf(d, s)), NEW entry \in Slots, IsEntry(entry),
         find_entry(d, s, entry.name) = End, NEW C, Loose(d, L, C, entry.cluster),
         NEW q, q.disk \in Disk, Added(d, q, s, entry)
  PROVE  AddedTo(d, q, L, s, entry, C)
<1> DEFINE e == q.disk
<1>0. L \cap FreeClusters(d) = {} /\ L \subseteq Clusters /\ FREE \notin Clusters /\ FREE # EOC
  BY ForestUsed, ClusterFacts
<1>1. \A z \in C : z \in Clusters \ L /\ z \notin FreeClusters(d)
  <2>1. \A z \in C : d.fat[z] # FREE
    BY <1>0 DEF Loose
  <2> QED BY <2>1 DEF Loose, FreeClusters
<1>2. s \in Clusters => Top(d, L, s)
  BY ClusterFacts
<1>3. CASE ~q.ok /\ e = d
  BY <1>3 DEF AddedTo, Same
<1>4. CASE /\ FreeSlot(d, s) # 0
           /\ e = SetSlot(d, HomeOf(d, s, FreeSlot(d, s)), PlaceAt(FreeSlot(d, s)), entry)
  <2> DEFINE i == FreeSlot(d, s)
             c == HomeOf(d, s, i)
             j == PlaceAt(i)
  <2>1. Extends(d, e, L, s, entry.name, entry)
    BY <1>4, PutExtends
  <2>2. i \in DOMAIN SlotsOf(d, s)
    BY <1>4, FreeSlotFound
  <2> HIDE DEF i
  <2>3. s \in Clusters /\ c \in Range(read_chain(d, s)) /\ c \in Clusters /\ j \in Places
    BY <2>2, SlotHome
  <2>4. c \in L
    BY <1>2, <2>3, ChainIn DEF Top, Forest
  <2>5. e = SetSlot(d, c, j, entry)
    BY <1>4 DEF i
  <2> HIDE DEF c, j
  <2>6. Same(d, e, Clusters \ {c})
    BY <2>3, <2>5, SlotSet
  <2>7. Same(d, e, C)
    BY <1>1, <2>4, <2>6 DEF Same
  <2>8. e.fat = d.fat
    BY <2>5 DEF SetSlot, SetData
  <2>9. Gains(d, e, s)
    BY <2>8, ChainFat DEF Gains
  <2> QED BY <1>4, <2>1, <2>7, <2>9 DEF AddedTo
<1>5. ASSUME NEW n \in FreeClusters(d), ~q.ok, e = Allocated(d, n)
      PROVE  AddedTo(d, q, L, s, entry, C)
  <2>1. n \notin L /\ n \in Clusters /\ ZeroBlock \in Blocks
    BY <1>0, SpecialSlots DEF FreeClusters, Blocks
  <2>2. /\ SetData(d, n, ZeroBlock).fat = d.fat
        /\ \A z \in Clusters : SetData(d, n, ZeroBlock).data[z] = IF z = n THEN ZeroBlock ELSE d.data[z]
    BY <2>1, SetDataAt
  <2>3. Same(d, e, L)
    BY <1>0, <1>5, <2>1, <2>2 DEF Same, Allocated
  <2> QED BY <1>5, <2>3 DEF AddedTo
<1>6. ASSUME NEW n \in FreeClusters(d), FreeSlot(d, s) = 0, Top(d, L, s)
      PROVE  /\ e = Marked(d, s, n) => Extends(d, e, L, s, entry.name, End)
             /\ e = SetData(Marked(d, s, n), n, NewBlock(entry)) =>
                  Extends(d, e, L, s, entry.name, entry) /\ Same(d, e, C) /\ Gains(d, e, s)
  <2> DEFINE l == Last(read_chain(d, s))
             m == Marked(d, s, n)
             nb == NewBlock(entry)
  <2>1. /\ n \in Clusters /\ n \notin L /\ l \in L /\ l # n
        /\ m \in Disk
        /\ \A z \in Clusters :
             /\ m.fat[z] = IF z = l THEN n ELSE IF z = n THEN EOC ELSE d.fat[z]
             /\ m.data[z] = IF z = n THEN ZeroBlock ELSE d.data[z]
    BY <1>6, GrownDisk
  <2>2. /\ nb \in Blocks /\ 1 \in Places /\ nb[1] = entry
        /\ \A j \in Places : j # 1 => ~IsEntry(nb[j])
    BY NewBlockType
  <2>3. \A k \in Places : ~IsEntry(ZeroBlock[k])
    BY SpecialSlots
  <2> HIDE DEF l, m, nb
  <2>4. ASSUME e = m PROVE Extends(d, e, L, s, entry.name, End)
    <3>1. Extended(d, m, L, s, n)
      BY <1>0, <2>1, ClusterFacts DEF Extended, l
    <3>2. m.data[n] = ZeroBlock /\ \A z \in L : m.data[z] = d.data[z]
      BY <1>0, <2>1
    <3>3. GrownBy(d, m, L, n, entry) /\ ~IsEntry(m.data[n][1])
      BY <2>2, <2>3, <3>2 DEF GrownBy
    <3>4. Extends(d, m, L, s, entry.name, IF IsEntry(m.data[n][1]) THEN m.data[n][1] ELSE End)
      BY <1>6, <2>1, <3>1, <3>3, GrowExtends
    <3> QED BY <2>4, <3>3, <3>4
  <2>5. ASSUME e = SetData(m, n, nb)
        PROVE  Extends(d, e, L, s, entry.name, entry) /\ Same(d, e, C) /\ Gains(d, e, s)
    <3> DEFINE f == SetData(m, n, nb)
    <3>1. f.fat = m.fat /\ \A z \in Clusters : f.data[z] = IF z = n THEN nb ELSE m.data[z]
      BY <2>1, <2>2, SetDataAt
    <3>2. f \in Disk
      BY <2>5
    <3> HIDE DEF f
    <3>3. Extended(d, f, L, s, n)
      BY <1>0, <2>1, <3>1, ClusterFacts DEF Extended, l
    <3>4. f.data[n] = nb /\ \A z \in L : f.data[z] = d.data[z]
      BY <1>0, <2>1, <3>1
    <3>5. GrownBy(d, f, L, n, entry) /\ IsEntry(f.data[n][1]) /\ f.data[n][1] = entry
      BY <2>2, <3>4 DEF GrownBy
    <3>6. Extends(d, f, L, s, entry.name, IF IsEntry(f.data[n][1]) THEN f.data[n][1] ELSE End)
      BY <1>6, <3>2, <3>3, <3>5, GrowExtends
    <3>7. Same(d, f, C)
      BY <1>1, <2>1, <3>1 DEF Same
    <3>8. read_chain(f, s) = Append(read_chain(d, s), n)
      BY <1>6, <3>3, ChainGrown
    <3>9. read_chain(d, s) \in Seq(Clusters)
      BY ChainType
    <3>10. Range(read_chain(d, s)) \subseteq Range(read_chain(f, s)) /\ n \in Range(read_chain(f, s))
      BY <2>1, <3>8, <3>9, RangeGrown
    <3>11. ASSUME NEW z \in Clusters, f.fat[z] # FREE
           PROVE  d.fat[z] # FREE \/ z \in Range(read_chain(f, s))
      <4>1. CASE z = l
        BY <1>0, <2>1, <4>1 DEF FreeClusters
      <4>2. CASE z = n
        BY <3>10, <4>2
      <4>3. CASE z # l /\ z # n
        BY <2>1, <3>1, <3>11, <4>3
      <4> QED BY <4>1, <4>2, <4>3
    <3>12. Gains(d, f, s)
      BY <3>10, <3>11 DEF Gains
    <3> QED BY <2>5, <3>5, <3>6, <3>7, <3>12 DEF f
  <2> QED BY <2>4, <2>5 DEF m, nb
<1>7. ASSUME NEW n \in FreeClusters(d), FreeSlot(d, s) = 0, s \in Clusters,
             \/ ~q.ok /\ e = Attached(d, s, n)
             \/ ~q.ok /\ e = Marked(d, s, n)
             \/ e = SetData(Marked(d, s, n), n, NewBlock(entry))
      PROVE  AddedTo(d, q, L, s, entry, C)
  <2>1. Top(d, L, s)
    BY <1>2, <1>7
  <2>2. CASE ~q.ok /\ e = Attached(d, s, n)
    BY <2>1, <2>2 DEF AddedTo
  <2>3. CASE ~q.ok /\ e = Marked(d, s, n)
    BY <1>6, <1>7, <2>1, <2>3 DEF AddedTo
  <2>4. CASE e = SetData(Marked(d, s, n), n, NewBlock(entry))
    BY <1>6, <1>7, <2>1, <2>4 DEF AddedTo
  <2> QED BY <1>7, <2>2, <2>3, <2>4
<1> HIDE DEF e
<1>8. \/ ~q.ok /\ e = d
      \/ /\ FreeSlot(d, s) # 0
         /\ e = SetSlot(d, HomeOf(d, s, FreeSlot(d, s)), PlaceAt(FreeSlot(d, s)), entry)
      \/ /\ FreeSlot(d, s) = 0
         /\ \E n \in FreeClusters(d) :
              \/ ~q.ok /\ e = Allocated(d, n)
              \/ /\ s \in Clusters
                 /\ \/ ~q.ok /\ e = Attached(d, s, n)
                    \/ ~q.ok /\ e = Marked(d, s, n)
                    \/ e = SetData(Marked(d, s, n), n, NewBlock(entry))
  BY DEF Added, e
<1> QED BY <1>3, <1>4, <1>5, <1>7, <1>8

(* A directory in order, whatever directory it is. *)
LEMMA DirectoryOrderly ==
  ASSUME NEW d \in Disk, NEW L, Forest(d, L), Tidy(d, L), NEW path \in Seq(Names),
         EntryAt(d, path) # End, EntryAt(d, path).kind = "dir"
  PROVE  Orderly(SlotsOf(d, EntryAt(d, path).cluster))
<1>1. IsDirectory(d, L, EntryAt(d, path).cluster)
  <2>1. CASE path = <<>>
    <3>1. EntryAt(d, path).cluster = Root
      BY <2>1, EntryAtRoot, SpecialSlots
    <3> QED BY <3>1 DEF IsDirectory
  <2>2. CASE path # <<>>
    <3>1. PICK c \in L, j \in Places : PathSlot(d, path, c, j)
      BY <2>2, ParentHead
    <3> QED BY <3>1 DEF PathSlot, IsDirectory, HeadIn
  <2> QED BY <2>1, <2>2
<1> QED BY <1>1 DEF Tidy

(* Allocating, then adding a name, is an edit of the name. *)
LEMMA ExtendsEdited ==
  ASSUME NEW c \in Disk, NEW d \in Disk, NEW e \in Disk, NEW L, Forest(c, L), Same(c, d, L),
         NEW path \in Seq(Names), path # <<>>, HasParent(c, path), EntryAt(c, path) = End,
         NEW new, Extends(d, e, L, ParentCluster(c, path), Last(path), new)
  PROVE  Edited(c, e, L, path) /\ EntryAt(e, path) = new
<1> DEFINE s == ParentCluster(c, path)
           B == Range(read_chain(c, s))
<1>1. B \subseteq L
  <2>1. s = EntryAt(c, Front(path)).cluster /\ Front(path) \in Seq(Names)
    BY FrontLast DEF ParentCluster
  <2> QED BY <2>1, PathsIn
<1>2. Same(c, d, B)
  BY <1>1 DEF Same
<1> HIDE DEF s
<1>3. read_chain(d, s) = read_chain(c, s)
  BY <1>2, ChainKept
<1>4. \A n : find_entry(d, s, n) = find_entry(c, s, n)
  BY <1>2, FindKept
<1>5. Range(read_chain(c, EntryAt(c, path).cluster)) = {}
  <2>1. EntryAt(c, path).cluster \notin Clusters
    BY SpecialSlots, ClusterFacts
  <2> QED BY <2>1, NoChain DEF Range
<1>6. Edited(c, e, L, path)
  <2>1. Same(c, e, L \ B)
    BY <1>3 DEF Same, Extends, s
  <2> QED BY <1>4, <1>5, <2>1 DEF Edited, Extends, s
<1>7. EntryAt(e, path) = find_entry(e, s, Last(path))
  BY <1>6, EditedKept DEF s
<1> QED BY <1>6, <1>7 DEF Extends, s

LEMMA NewTree ==
  ASSUME TypeOK, NEW path \in Paths, HasParent(disk, path), EntryAt(disk, path) = End,
         EntryAt(disk, Front(path)).kind = "dir",
         NEW limit, NEW new \in Running(limit), NEW P, Allocates(disk, new, P),
         new.ok => Claims(disk, new.disk, new.cluster),
         NEW entry \in Slots, IsEntry(entry), entry.cluster = new.cluster,
         entry.name = Last(path),
         Finish(add_entry(new, ParentCluster(disk, path), entry)),
         NEW L, Forest(disk, L), Tidy(disk, L)
  PROVE  Created(L, path, entry, new.disk)
<1> DEFINE up == Front(path)
           s == ParentCluster(disk, path)
           d == new.disk
           q == add_entry(new, s, entry)
           e == q.disk
<1>1. /\ disk \in Disk /\ d \in Disk /\ path \in Seq(Names) /\ path # <<>>
      /\ up \in Seq(Names) /\ (up = <<>> \/ up \in Paths)
  BY PathFacts, RunningFields, EntryAtStep DEF TypeOK
<1>2. EntryAt(disk, up) # End /\ s = EntryAt(disk, up).cluster
  BY DEF HasParent, ParentCluster
<1>3. s = 0 \/ Top(disk, L, s)
  BY <1>1, <1>2, PathHead DEF Headed
<1>4. Same(disk, d, L)
  BY ForestUsed DEF Allocates, Same
<1>5. Forest(d, L)
  BY <1>4, ForestSame
<1>6. s = 0 \/ Top(d, L, s)
  BY <1>3, <1>4 DEF Top, Links, Same
<1>7. /\ q \in Running(limit) /\ (~new.ok => q = new)
      /\ (new.ok => Added(d, q, s, entry))
  BY AddEntry
<1>8. Finish(q) /\ disk' = e /\ reply' = (IF q.ok THEN "Ok" ELSE "Error")
  BY DEF Finish
<1> HIDE DEF q, s, d
<1>9. e \in Disk
  BY <1>7, RunningFields
<1>10. Range(read_chain(disk, s)) \subseteq L
  BY <1>1, <1>2, PathsIn
<1>11. /\ SlotsOf(d, s) = SlotsOf(disk, s) /\ read_chain(d, s) = read_chain(disk, s)
       /\ find_entry(d, s, Last(path)) = find_entry(disk, s, Last(path))
  <2>1. Same(disk, d, Range(read_chain(disk, s)))
    BY <1>4, <1>10 DEF Same
  <2>2. SlotsOf(d, s) = SlotsOf(disk, s)
    BY <1>1, <2>1, SlotsKept
  <2> QED BY <1>1, <2>1, <2>2, FindKept, ChainKept
<1>12. find_entry(d, s, entry.name) = End
  <2>1. find_entry(disk, s, Last(path)) = End
    BY <1>1, <1>2, EntryAtStep
  <2> QED BY <1>11, <2>1
<1>13. Orderly(SlotsOf(d, s))
  BY <1>1, <1>2, <1>11, DirectoryOrderly
<1>14. CASE ~new.ok
  <2>1. disk' = d /\ reply' = "Error"
    BY <1>7, <1>8, <1>14 DEF d
  <2> QED BY <1>4, <2>1 DEF Created, NothingDone
<1>15. CASE new.ok
  <2>1. PICK C : Loose(d, L, C, entry.cluster)
    BY <1>1, <1>15, LooseNew DEF d
  <2>2. AddedTo(d, q, L, s, entry, C)
    BY <1>1, <1>5, <1>6, <1>7, <1>9, <1>12, <1>13, <1>15, <2>1, AddedTree
  <2> HIDE DEF e
  <2>3. CASE ~q.ok /\ Same(d, e, L)
    <3>1. Same(disk, disk', L)
      BY <1>4, <1>8, <2>3 DEF Same
    <3> QED BY <1>8, <2>3, <3>1 DEF Created, NothingDone
  <2>4. CASE ~q.ok /\ Extends(d, e, L, s, entry.name, End)
    <3>1. Edited(disk, e, L, path) /\ EntryAt(e, path) = End
      BY <1>1, <1>4, <1>9, <2>4, ExtendsEdited DEF s
    <3> QED BY <1>8, <2>4, <3>1 DEF Created
  <2>5. CASE Extends(d, e, L, s, entry.name, entry) /\ Same(d, e, C) /\ Gains(d, e, s)
    <3>1. Edited(disk, e, L, path) /\ EntryAt(e, path) = entry
      BY <1>1, <1>4, <1>9, <2>5, ExtendsEdited DEF s
    <3>2. /\ Range(read_chain(d, entry.cluster)) \subseteq C
          /\ \A z \in Range(read_chain(d, entry.cluster)) : Plain(d.data[z])
      BY <2>1, LooseChain
    <3> DEFINE x == entry.cluster
    <3> HIDE DEF x
    <3>3. Same(d, e, Range(read_chain(d, x)))
      BY <2>5, <3>2 DEF Same, x
    <3>4. SlotsOf(e, x) = SlotsOf(d, x) /\ read_chain(e, x) = read_chain(d, x)
      BY <1>1, <1>9, <3>3, SlotsKept, ChainKept
    <3>5. \A z \in Range(read_chain(e, x)) : Plain(e.data[z])
      BY <3>2, <3>3, <3>4 DEF Same, x
    <3>6. Range(read_chain(disk, EntryAt(disk, path).cluster)) = {}
      <4>1. EntryAt(disk, path).cluster \notin Clusters
        BY SpecialSlots, ClusterFacts
      <4> QED BY <4>1, NoChain DEF Range
    <3>7. ASSUME NEW z \in Clusters, e.fat[z] # FREE
          PROVE  \/ z \in Range(read_chain(e, x))
                 \/ z \in Range(read_chain(e, s))
                 \/ disk.fat[z] # FREE
      <4>1. d.fat[z] # FREE \/ z \in Range(read_chain(e, s))
        BY <2>5, <3>7 DEF Gains
      <4>2. d.fat[z] # disk.fat[z] => z \in Range(read_chain(d, x))
        BY <1>15 DEF Claims, d, x
      <4> QED BY <3>4, <4>1, <4>2
    <3>8. Range(read_chain(disk, s)) \subseteq Range(read_chain(e, s))
      BY <1>11, <2>5 DEF Gains
    <3>9. Thrifty(path)
      BY <1>8, <3>1, <3>6, <3>7, <3>8 DEF Thrifty, s, x
    <3> QED BY <1>8, <2>5, <3>1, <3>4, <3>5, <3>9 DEF Created, d, x
  <2>6. CASE ~q.ok /\ Top(d, L, s) /\ \E n \in FreeClusters(d) : e = Attached(d, s, n)
    <3>1. PICK n \in FreeClusters(d) : e = Attached(d, s, n)
      BY <2>6
    <3> DEFINE f == Attached(d, s, n)
    <3>a. /\ n \in Range(read_chain(f, s)) /\ f.fat[n] = FREE
          /\ Same(d, f, L \ Range(read_chain(d, s)))
      BY <1>1, <1>5, <2>6, AttachedChain
    <3> HIDE DEF f
    <3>2. /\ n \in Range(read_chain(e, s)) /\ e.fat[n] = FREE
          /\ Same(d, e, L \ Range(read_chain(d, s)))
      BY <3>1, <3>a DEF f
    <3>3. s # 0
      BY <2>6, ForestUsed, ClusterFacts DEF Top
    <3>4. Same(disk, e, L \ Range(read_chain(disk, s)))
      BY <1>4, <1>11, <3>2 DEF Same
    <3>5. EntryAt(e, up) = EntryAt(disk, up)
      BY <1>1, <1>2, <1>9, <3>3, <3>4, PathKept
    <3>6. damaged'
      BY <1>1, <1>2, <1>8, <1>9, <3>2, <3>5, DamageSeen DEF e
    <3> QED BY <3>6 DEF Created
  <2>7. AddedTo(d, q, L, s, entry, C) =>
          \/ ~q.ok /\ Same(d, e, L)
          \/ ~q.ok /\ Extends(d, e, L, s, entry.name, End)
          \/ Extends(d, e, L, s, entry.name, entry) /\ Same(d, e, C) /\ Gains(d, e, s)
          \/ ~q.ok /\ Top(d, L, s) /\ \E n \in FreeClusters(d) : e = Attached(d, s, n)
    BY DEF AddedTo, e
  <2> QED BY <2>2, <2>3, <2>4, <2>5, <2>6, <2>7
<1> QED BY <1>14, <1>15

LEMMA ShownAt ==
  ASSUME NEW d \in Disk, NEW path \in Seq(Names)
  PROVE  /\ EntryAt(d, path) = End => Shown(d, path) = ShownNone
         /\ EntryAt(d, path).kind = "dir" => Shown(d, path) = ShownDirectory
         /\ EntryAt(d, path) # End => Shown(d, path).kind = EntryAt(d, path).kind
<1>1. End.kind = "end"
  BY SpecialSlots
<1> QED BY <1>1 DEF Shown, Look, ShownNone, ShownDirectory

LEMMA ShownData ==
  ASSUME NEW d \in Disk, NEW path \in Seq(Names), EntryAt(d, path).kind = "file",
         NEW data \in Seq(Slots), EntryAt(d, path).size = Len(data),
         Holds(d, EntryAt(d, path).cluster, data)
  PROVE  Shown(d, path) = ShownFile(data)
<1> DEFINE entry == EntryAt(d, path)
           slots == SlotsOf(d, entry.cluster)
           m == Len(data)
<1>1. entry # End
  BY SpecialSlots
<1>2. DOMAIN slots = 1 .. Len(slots) /\ Len(slots) \in Nat
  BY SlotsOfType
<1>3. \A k \in 1 .. m : k \in DOMAIN slots /\ slots[k] = data[k]
  BY DEF Holds
<1>4. read_file(d, entry) = [i \in 1 .. m |-> IF i <= Len(slots) THEN slots[i] ELSE End]
  BY DEF read_file
<1>5. data = [i \in 1 .. m |-> data[i]]
  OBVIOUS
<1> HIDE DEF slots, m
<1>6. \A k \in 1 .. m : k <= Len(slots)
  BY <1>2, <1>3
<1>7. read_file(d, entry) = data
  BY <1>3, <1>4, <1>5, <1>6
<1> HIDE DEF entry
<1>8. Look(d, path).kind = "file" /\ Look(d, path).content = data
  BY <1>1, <1>7 DEF Look, entry
<1> QED BY <1>8 DEF Shown, ShownFile

LEMMA PlainSterile ==
  ASSUME NEW d \in Disk, NEW entry, \A z \in Range(read_chain(d, entry.cluster)) : Plain(d.data[z])
  PROVE  Sterile(d, entry)
<1> SUFFICES ASSUME NEW n \in Names PROVE find_entry(d, entry.cluster, n) = End
  BY DEF Sterile
<1>1. ASSUME NEW k \in DOMAIN SlotsOf(d, entry.cluster) PROVE ~IsEntry(SlotsOf(d, entry.cluster)[k])
  BY SlotHome DEF Plain
<1> QED BY <1>1, FindNone

LEMMA EditSeen ==
  ASSUME NEW d \in Disk, NEW e \in Disk, NEW L, Forest(d, L), NEW path \in Paths,
         HasParent(d, path), Edited(d, e, L, path), EntryAt(d, Front(path)).kind = "dir",
         Barren(d), Sterile(e, EntryAt(e, path))
  PROVE  /\ Barren(e)
         /\ \A q \in Paths : Shown(e, q) = IF q = path THEN Shown(e, path)
                                           ELSE IF Beneath(path, q) THEN ShownNone
                                           ELSE Shown(d, q)
         /\ EntryAt(d, path).kind # "dir" =>
              Seen(e) = [Seen(d) EXCEPT ![path] = Shown(e, path)]
<1>1. path \in Seq(Names) /\ path # <<>> /\ Paths \subseteq Seq(Names)
  BY PathFacts
<1>2. /\ \A q \in Seq(Names) : ~Beneath(path, q) => Shown(e, q) = Shown(d, q)
      /\ \A q \in Seq(Names) : Beneath(path, q) /\ q # path => EntryAt(e, q) = End
      /\ Barren(e)
  BY <1>1, EditedTree
<1>3. \A q \in Paths : Shown(e, q) = IF q = path THEN Shown(e, path)
                                     ELSE IF Beneath(path, q) THEN ShownNone
                                     ELSE Shown(d, q)
  BY <1>1, <1>2, ShownAt
<1>4. ASSUME EntryAt(d, path).kind # "dir"
      PROVE  Seen(e) = [Seen(d) EXCEPT ![path] = Shown(e, path)]
  <2>1. Sterile(d, EntryAt(d, path))
    <3>1. EntryAt(d, path) # End => EntryAt(d, path).kind = "file"
      BY <1>1, <1>4, EntryAtType DEF IsEntry
    <3> QED BY <1>1, <3>1 DEF Barren, Sterile
  <2>2. ASSUME NEW q \in Paths, Beneath(path, q), q # path PROVE Shown(d, q) = ShownNone
    <3>1. EntryAt(d, q) = End
      BY <1>1, <2>1, <2>2, EntriesGone
    <3> QED BY <1>1, <3>1, ShownAt
  <2>3. \A q \in Paths : Shown(e, q) = IF q = path THEN Shown(e, path) ELSE Shown(d, q)
    BY <1>3, <2>2
  <2> QED BY <2>3 DEF Seen
<1> QED BY <1>2, <1>3, <1>4

LEMMA NothingSeen ==
  ASSUME disk \in Disk, disk' \in Disk, NEW L, Forest(disk, L), NothingDone(L), Barren(disk)
  PROVE  Barren(disk') /\ Unseen
<1>1. Same(disk, disk', L) /\ reply' = "Error"
  BY DEF NothingDone
<1>2. /\ \A q \in Seq(Names) : Shown(disk', q) = Shown(disk, q)
      /\ Barren(disk')
  BY <1>1, TreeSame
<1>3. Paths \subseteq Seq(Names)
  BY PathFacts
<1> QED BY <1>1, <1>2, <1>3 DEF Seen, Unseen

LEMMA CreatedSeen ==
  ASSUME disk \in Disk, disk' \in Disk, NEW L, Forest(disk, L), Barren(disk), ~damaged',
         NEW path \in Paths, HasParent(disk, path), EntryAt(disk, path) = End,
         EntryAt(disk, Front(path)).kind = "dir", NEW entry, NEW d, Created(L, path, entry, d)
  PROVE  /\ Barren(disk')
         /\ \/ Unseen
            \/ /\ reply' \in {"Ok", "Error"} /\ Sets(path, Shown(disk', path))
               /\ EntryAt(disk', path) = entry
               /\ SlotsOf(disk', entry.cluster) = SlotsOf(d, entry.cluster)
         /\ reply' = "Ok" => Edited(disk, disk', L, path) /\ Thrifty(path)
<1>1. path \in Seq(Names) /\ EntryAt(disk, path).kind # "dir"
  BY PathFacts, SpecialSlots
<1>2. CASE NothingDone(L)
  BY <1>2, NothingSeen DEF NothingDone
<1>3. ASSUME Edited(disk, disk', L, path), Sterile(disk', EntryAt(disk', path))
      PROVE  Barren(disk') /\ Sets(path, Shown(disk', path))
  BY <1>1, <1>3, EditSeen DEF Sets
<1>4. CASE Edited(disk, disk', L, path) /\ reply' = "Error" /\ EntryAt(disk', path) = End
  <2>1. Barren(disk') /\ Sets(path, Shown(disk', path))
    BY <1>3, <1>4 DEF Sterile
  <2>2. Shown(disk', path) = Shown(disk, path)
    BY <1>1, <1>4, ShownAt
  <2>3. [Seen(disk) EXCEPT ![path] = Shown(disk, path)] = Seen(disk)
    BY DEF Seen
  <2> QED BY <1>4, <2>1, <2>2, <2>3 DEF Unseen, Sets
<1>5. CASE /\ Edited(disk, disk', L, path) /\ reply' \in {"Ok", "Error"}
           /\ EntryAt(disk', path) = entry /\ Thrifty(path)
           /\ SlotsOf(disk', entry.cluster) = SlotsOf(d, entry.cluster)
           /\ \A z \in Range(read_chain(disk', entry.cluster)) : Plain(disk'.data[z])
  <2>1. Sterile(disk', entry)
    BY <1>5, PlainSterile
  <2> QED BY <1>3, <1>5, <2>1
<1> QED BY <1>2, <1>4, <1>5 DEF Created

LEMMA CreateSeen ==
  ASSUME TypeOK, disk' \in Disk, ShortNames, NEW L, Forest(disk, L), Tidy(disk, L), Barren(disk),
         ~damaged', NEW path \in Paths, HasParent(disk, path), EntryAt(disk, path) = End,
         EntryAt(disk, Front(path)).kind = "dir",
         NEW content \in Seq(Texts), NEW limit \in Limits,
         Create(path, [i \in DOMAIN content |-> Text(content[i])], limit)
  PROVE  /\ Barren(disk')
         /\ Len(content) <= 2 * SlotsPerBlock =>
              \/ Unseen
              \/ /\ reply' \in {"Ok", "Error"}
                 /\ Sets(path, ShownFile([i \in DOMAIN content |-> Text(content[i])]))
         /\ reply' = "Ok" => Edited(disk, disk', L, path) /\ Thrifty(path)
<1> DEFINE data == [i \in DOMAIN content |-> Text(content[i])]
           s == ParentCluster(disk, path)
           start == Started(disk, limit)
           new == allocate_and_write(start, data)
           entry == Slot("file", Stored[Last(path)], new.cluster, Len(data))
<1>1. limit \in Int /\ disk \in Disk
  BY LimitFacts DEF TypeOK
<1>2. start \in Running(limit) /\ start.disk = disk
  BY <1>1, StartedType
<1>3. data \in Seq(Slots) /\ Len(data) \in Nat /\ \A k \in 1 .. Len(data) : ~IsEntry(data[k])
  BY TextData
<1>4. Finish(add_entry(new, s, entry))
  BY DEF Create
<1>5. Len(data) = Len(content)
  BY TextData
<1> HIDE DEF data, start
<1>6. new \in Running(limit) /\ \E P : Allocates(disk, new, P)
  BY <1>2, <1>3, AllocateAndWrite
<1>7. new.ok /\ Len(content) <= 2 * SlotsPerBlock => Holds(new.disk, new.cluster, data)
  BY <1>2, <1>3, <1>5, NewFileHolds
<1>c. new.ok => Claims(disk, new.disk, new.cluster)
  BY <1>2, <1>3, NewFileClaims
<1>a. ~new.ok => add_entry(new, s, entry) = new
  BY DEF add_entry
<1>b. ~new.ok => disk' = new.disk /\ reply' = "Error"
  BY <1>4, <1>a DEF Finish
<1> HIDE DEF new, s
<1>8. entry \in Slots /\ IsEntry(entry) /\ entry.cluster = new.cluster
  <2>1. new.cluster \in Clusters \cup {0}
    BY <1>6, RunningFields
  <2> QED BY <1>3, <2>1, NewEntryType
<1>9. entry.name = Last(path) /\ entry.size = Len(data) /\ entry.kind = "file"
  BY DEF Slot, ShortNames
<1> HIDE DEF entry
<1>10. PICK P : Allocates(disk, new, P)
  BY <1>6
<1>11. Created(L, path, entry, new.disk)
  BY <1>4, <1>6, <1>8, <1>9, <1>10, <1>c, NewTree DEF s
<1>12. /\ Barren(disk')
       /\ \/ Unseen
          \/ /\ reply' \in {"Ok", "Error"} /\ Sets(path, Shown(disk', path))
             /\ EntryAt(disk', path) = entry
             /\ SlotsOf(disk', entry.cluster) = SlotsOf(new.disk, entry.cluster)
       /\ reply' = "Ok" => Edited(disk, disk', L, path) /\ Thrifty(path)
  BY <1>1, <1>11, CreatedSeen
<1>13. ASSUME new.ok, Len(content) <= 2 * SlotsPerBlock, EntryAt(disk', path) = entry,
              SlotsOf(disk', entry.cluster) = SlotsOf(new.disk, entry.cluster)
       PROVE  Shown(disk', path) = ShownFile(data)
  <2>1. Holds(disk', entry.cluster, data)
    BY <1>7, <1>8, <1>13 DEF Holds
  <2> QED BY <1>3, <1>9, <1>13, <2>1, PathFacts, ShownData
<1>14. CASE ~new.ok
  <2>1. NothingDone(L)
    BY <1>10, <1>14, <1>b, ForestUsed DEF Allocates, Same, NothingDone
  <2> QED BY <1>1, <1>14, <1>b, <2>1, NothingSeen
<1>15. CASE new.ok
  BY <1>12, <1>13, <1>15 DEF data
<1> QED BY <1>14, <1>15

LEMMA MakeDirectorySeen ==
  ASSUME TypeOK, disk' \in Disk, ShortNames, NEW L, Forest(disk, L), Tidy(disk, L), Barren(disk),
         ~damaged', NEW path \in Paths, HasParent(disk, path), EntryAt(disk, path) = End,
         EntryAt(disk, Front(path)).kind = "dir",
         NEW limit \in Limits, MakeDirectory(path, limit)
  PROVE  /\ Barren(disk')
         /\ Unseen \/ (reply' \in {"Ok", "Error"} /\ Sets(path, ShownDirectory))
         /\ reply' = "Ok" => Edited(disk, disk', L, path) /\ Thrifty(path)
<1> DEFINE s == ParentCluster(disk, path)
           start == Started(disk, limit)
           new == alloc_cluster(start)
           filled == write_cluster(new, new.cluster,
                                   [ZeroBlock EXCEPT ![1] = Dot, ![2] = Dot])
           marked == write_fat_entry(filled, new.cluster, EOC)
           entry == Slot("dir", Stored[Last(path)], new.cluster, 0)
<1>1. limit \in Int /\ disk \in Disk
  BY LimitFacts DEF TypeOK
<1>2. start \in Running(limit) /\ start.ok /\ start.disk = disk
  BY <1>1, StartedType
<1>3. Finish(add_entry(marked, s, entry))
  BY DEF MakeDirectory
<1> HIDE DEF start
<1>4. /\ marked \in Running(limit) /\ marked.cluster = new.cluster
      /\ \E P : Allocates(disk, marked, P) /\ (marked.ok => P = {marked.cluster})
  BY <1>2, NewDirectory
<1> HIDE DEF marked, new, s
<1>5. entry \in Slots /\ IsEntry(entry) /\ entry.cluster = marked.cluster
  <2>1. new.cluster \in Clusters \cup {0}
    BY <1>4, RunningFields
  <2>2. entry \in Slots /\ IsEntry(entry) /\ entry.cluster = new.cluster
    BY <2>1, NewEntryType
  <2> QED BY <1>4, <2>2
<1>6. entry.name = Last(path) /\ entry.kind = "dir"
  BY DEF Slot, ShortNames
<1> HIDE DEF entry
<1>7. PICK P : Allocates(disk, marked, P) /\ (marked.ok => P = {marked.cluster})
  BY <1>4
<1>a. ASSUME marked.ok PROVE Claims(disk, marked.disk, marked.cluster)
  <2> DEFINE x == marked.cluster
  <2>1. P = {x} /\ x \in Clusters /\ Same(disk, marked.disk, Clusters \ P)
    BY <1>7, <1>a DEF Allocates, FreeClusters
  <2> HIDE DEF x
  <2>2. x \in Range(read_chain(marked.disk, x))
    BY <2>1, ChainFirst
  <2> QED BY <2>1, <2>2 DEF Claims, Same, x
<1>8. Created(L, path, entry, marked.disk)
  BY <1>3, <1>4, <1>5, <1>6, <1>7, <1>a, NewTree DEF s
<1>9. /\ Barren(disk')
      /\ \/ Unseen
         \/ /\ reply' \in {"Ok", "Error"} /\ Sets(path, Shown(disk', path))
            /\ EntryAt(disk', path) = entry
      /\ reply' = "Ok" => Edited(disk, disk', L, path) /\ Thrifty(path)
  BY <1>1, <1>8, CreatedSeen
<1>10. EntryAt(disk', path) = entry => Shown(disk', path) = ShownDirectory
  BY <1>6, PathFacts, ShownAt
<1> QED BY <1>9, <1>10

LEMMA SlotChangeSeen ==
  ASSUME disk \in Disk, disk' \in Disk, NEW L, Forest(disk, L), Tidy(disk, L), Barren(disk),
         NEW path \in Paths, EntryAt(disk, path) # End, EntryAt(disk, Front(path)).kind = "dir",
         NEW slot, SlotChanges(L, path, slot), slot # End, IsEntry(slot) => slot.name = Last(path)
  PROVE  /\ HasParent(disk, path) /\ Edited(disk, disk', L, path)
         /\ EntryAt(disk', path) = IF IsEntry(slot) THEN slot ELSE End
<1>1. path \in Seq(Names) /\ path # <<>> /\ Front(path) \in Seq(Names)
  BY PathFacts, FrontLast
<1>2. HasParent(disk, path)
  BY <1>1, PathFound
<1>3. Orderly(SlotsOf(disk, ParentCluster(disk, path)))
  BY <1>1, <1>2, DirectoryOrderly DEF HasParent, ParentCluster
<1>4. PICK c, j : /\ Placed(disk, L, path, c, j)
                  /\ Changed(disk, disk', L \ Range(read_chain(disk, EntryAt(disk, path).cluster)),
                             c, j, slot)
  BY DEF SlotChanges
<1>5. /\ Edited(disk, disk', L, path)
      /\ find_entry(disk', ParentCluster(disk, path), Last(path)) = IF IsEntry(slot) THEN slot ELSE End
  BY <1>1, <1>3, <1>4, PlacedEdited
<1>6. EntryAt(disk', path) = find_entry(disk', ParentCluster(disk, path), Last(path))
  BY <1>1, <1>2, <1>5, EditedKept
<1> QED BY <1>2, <1>5, <1>6

(* The parent of a changed slot keeps its chain. *)
LEMMA SlotChangeParent ==
  ASSUME disk \in Disk, disk' \in Disk, NEW L, NEW path, NEW slot, SlotChanges(L, path, slot)
  PROVE  read_chain(disk', ParentCluster(disk, path)) = read_chain(disk, ParentCluster(disk, path))
<1> DEFINE s == ParentCluster(disk, path)
           B == Range(read_chain(disk, s))
           C == Range(read_chain(disk, EntryAt(disk, path).cluster))
<1>1. PICK c, j : Placed(disk, L, path, c, j) /\ Changed(disk, disk', L \ C, c, j, slot)
  BY DEF SlotChanges
<1>2. B \subseteq L \ C
  BY <1>1 DEF Placed
<1>3. Changed(disk, disk', B, c, j, slot)
  BY <1>1, <1>2 DEF Changed
<1> HIDE DEF s
<1> QED BY <1>3, SlotsChanged DEF s

LEMMA OverwriteSeen ==
  ASSUME disk \in Disk, disk' \in Disk, NEW L, Forest(disk, L), Tidy(disk, L), Barren(disk),
         ~damaged', NEW path \in Paths, EntryAt(disk, path).kind = "file",
         EntryAt(disk, Front(path)).kind = "dir",
         NEW data \in Seq(Slots), Overwritten(L, path, data)
  PROVE  /\ Barren(disk')
         /\ Len(data) <= 2 * SlotsPerBlock =>
              \/ Unseen
              \/ /\ reply' = "Error" /\ Shown(disk', path).kind = "file"
                 /\ Sets(path, Shown(disk', path))
              \/ reply' = "Ok" /\ Sets(path, ShownFile(data))
         /\ reply' = "Ok" => Edited(disk, disk', L, path) /\ Thrifty(path)
<1>1. path \in Seq(Names) /\ EntryAt(disk, path) # End
  BY PathFacts, SpecialSlots
<1>2. CASE NothingDone(L)
  BY <1>2, NothingSeen DEF NothingDone
<1>3. ASSUME NEW slot, SlotChanges(L, path, slot), slot.kind = "file", slot.name = Last(path),
             \A z \in Range(read_chain(disk', slot.cluster)) : Plain(disk'.data[z])
      PROVE  /\ EntryAt(disk', path) = slot /\ Barren(disk') /\ Edited(disk, disk', L, path)
             /\ Shown(disk', path).kind = "file" /\ Sets(path, Shown(disk', path))
  <2>1. IsEntry(slot) /\ slot # End
    BY <1>3, SpecialSlots DEF IsEntry
  <2>2. /\ HasParent(disk, path) /\ Edited(disk, disk', L, path)
        /\ EntryAt(disk', path) = slot
    BY <1>1, <1>3, <2>1, SlotChangeSeen
  <2>3. Sterile(disk', slot)
    BY <1>3, PlainSterile
  <2>4. Barren(disk') /\ Sets(path, Shown(disk', path))
    BY <2>2, <2>3, EditSeen DEF Sets
  <2> QED BY <1>1, <1>3, <2>1, <2>2, <2>4, ShownAt
<1>4. ASSUME NEW slot, EntryAt(disk', path) = slot, slot.kind = "file", slot.size = Len(data),
             Holds(disk', slot.cluster, data)
      PROVE  Shown(disk', path) = ShownFile(data)
  BY <1>1, <1>4, ShownData
<1>5. CASE \E slot :
             /\ SlotChanges(L, path, slot) /\ slot.kind = "file" /\ slot.name = Last(path)
             /\ \A z \in Range(read_chain(disk', slot.cluster)) : Plain(disk'.data[z])
             /\ \/ reply' = "Error"
                \/ /\ reply' = "Ok" /\ slot.size = Len(data)
                   /\ Len(data) <= 2 * SlotsPerBlock => Holds(disk', slot.cluster, data)
                   /\ Keeps(path, Range(read_chain(disk', slot.cluster)))
  <2>1. PICK slot :
             /\ SlotChanges(L, path, slot) /\ slot.kind = "file" /\ slot.name = Last(path)
             /\ \A z \in Range(read_chain(disk', slot.cluster)) : Plain(disk'.data[z])
             /\ \/ reply' = "Error"
                \/ /\ reply' = "Ok" /\ slot.size = Len(data)
                   /\ Len(data) <= 2 * SlotsPerBlock => Holds(disk', slot.cluster, data)
                   /\ Keeps(path, Range(read_chain(disk', slot.cluster)))
    BY <1>5
  <2>2. /\ EntryAt(disk', path) = slot /\ Barren(disk') /\ Edited(disk, disk', L, path)
        /\ Shown(disk', path).kind = "file" /\ Sets(path, Shown(disk', path))
    BY <1>3, <2>1
  <2>3. ASSUME reply' = "Ok" PROVE Thrifty(path)
    <3>1. Keeps(path, Range(read_chain(disk', EntryAt(disk', path).cluster)))
      BY <2>1, <2>2, <2>3
    <3>2. read_chain(disk', ParentCluster(disk, path)) = read_chain(disk, ParentCluster(disk, path))
      BY <2>1, SlotChangeParent
    <3> QED BY <3>1, <3>2 DEF Keeps, Thrifty
  <2> QED BY <1>4, <2>1, <2>2, <2>3
<1> QED BY <1>2, <1>5 DEF Overwritten

LEMMA DeleteSeen ==
  ASSUME disk \in Disk, disk' \in Disk, NEW L, Forest(disk, L), Tidy(disk, L), Barren(disk),
         NEW path \in Paths, EntryAt(disk, path) # End, EntryAt(disk, Front(path)).kind = "dir",
         NothingDone(L) \/ SlotChanges(L, path, Deleted), reply' = "Ok" => Keeps(path, {})
  PROVE  /\ Barren(disk') /\ (Unseen \/ Removes(path))
         /\ reply' = "Ok" =>
              Edited(disk, disk', L, path) /\ Thrifty(path) /\ EntryAt(disk', path) = End
<1>1. CASE NothingDone(L)
  BY <1>1, NothingSeen DEF NothingDone
<1>2. CASE SlotChanges(L, path, Deleted)
  <2>1. Deleted # End /\ ~IsEntry(Deleted)
    BY SpecialSlots
  <2>2. /\ HasParent(disk, path) /\ Edited(disk, disk', L, path)
        /\ EntryAt(disk', path) = End
    <3> DEFINE slot == Deleted
    <3> HIDE DEF slot
    <3> QED BY <1>2, <2>1, SlotChangeSeen DEF slot
  <2>3. Sterile(disk', EntryAt(disk', path))
    BY <2>2 DEF Sterile
  <2>4. /\ Barren(disk')
        /\ \A q \in Paths : Shown(disk', q) = IF q = path THEN Shown(disk', path)
                                              ELSE IF Beneath(path, q) THEN ShownNone
                                              ELSE Shown(disk, q)
    BY <2>2, <2>3, EditSeen
  <2>5. Shown(disk', path) = ShownNone /\ Beneath(path, path)
    BY <2>2, PathFacts, ShownAt DEF Beneath
  <2>6. read_chain(disk', ParentCluster(disk, path)) = read_chain(disk, ParentCluster(disk, path))
    <3> DEFINE slot == Deleted
    <3> HIDE DEF slot
    <3> QED BY <1>2, SlotChangeParent DEF slot
  <2>7. reply' = "Ok" => Thrifty(path)
    BY <2>6 DEF Keeps, Thrifty
  <2> QED BY <2>2, <2>4, <2>5, <2>7 DEF Removes, Seen
<1> QED BY <1>1, <1>2

(* A thrifty edit leaks nothing: what it does not account for was leaked   *)
(* before, for all other paths keep their chains, and none is beneath the  *)
(* path, if it is no directory.                                            *)
InUseHas(d, c) == \E q \in Paths \cup {<<>>} : c \in Range(read_chain(d, EntryAt(d, q).cluster))

LEMMA InUsePaths ==
  ASSUME NEW d \in Disk, NEW c
  PROVE  c \in InUse(d, Survey(d)) <=> InUseHas(d, c)
<1> DEFINE none == <<>>
           Chain(q) == Range(read_chain(d, EntryAt(d, q).cluster))
<1>1. EntryAt(d, none).cluster = Root
  BY EntryAtRoot, SpecialSlots
<1>2. Chain(none) = RootClusters(d)
  BY <1>1 DEF RootClusters
<1>3. \A q \in Paths : Survey(d)[q].clusters = Chain(q)
  BY DEF Survey, Look
<1>4. c \in InUse(d, Survey(d)) <=> \/ c \in RootClusters(d)
                                   \/ \E q \in Paths : c \in Survey(d)[q].clusters
  BY DEF InUse
<1> HIDE DEF none, Chain
<1>5. InUseHas(d, c) <=> c \in Chain(none) \/ \E q \in Paths : c \in Chain(q)
  BY DEF InUseHas, none, Chain
<1> QED BY <1>2, <1>3, <1>4, <1>5

LEMMA ThriftyEdit ==
  ASSUME disk \in Disk, disk' \in Disk, view = Survey(disk), view' = Survey(disk'),
         NEW L, Forest(disk, L), Barren(disk), NEW path \in Paths, HasParent(disk, path),
         EntryAt(disk, path).kind # "dir", Edited(disk, disk', L, path), Thrifty(path)
  PROVE  Leaked(disk', view') \subseteq Leaked(disk, view)
<1> DEFINE up == Front(path)
           Chain(d, q) == Range(read_chain(d, EntryAt(d, q).cluster))
           Q == Paths \cup {<<>>}
<1>1. /\ path \in Seq(Names) /\ path # <<>> /\ up \in Q /\ up \in Seq(Names)
      /\ \A q \in Q : q \in Seq(Names)
  <2>1. path \in Seq(Names) /\ path # <<>> /\ up \in Seq(Names) /\ Paths \subseteq Seq(Names)
    BY PathFacts, FrontLast
  <2> DEFINE none == <<>>
  <2>2. up = none \/ up \in Paths
    BY <2>1, PathFacts, EntryAtStep
  <2>3. none \in Seq(Names)
    OBVIOUS
  <2> HIDE DEF none, up
  <2>4. up \in Paths \cup {none} /\ \A q \in Paths \cup {none} : q \in Seq(Names)
    BY <2>1, <2>2, <2>3
  <2> QED BY <2>1, <2>4 DEF none, up
<1>2. \A q \in Seq(Names) : ~Beneath(path, q) =>
        /\ EntryAt(disk', q) = EntryAt(disk, q)
        /\ q # up => read_chain(disk', EntryAt(disk, q).cluster) = read_chain(disk, EntryAt(disk, q).cluster)
  BY <1>1, EditedKept
<1>3. EntryAt(disk', up) = EntryAt(disk, up)
  <2>1. Len(up) = Len(path) - 1 /\ Len(path) \in Nat
    BY <1>1, FrontLast
  <2>2. ~Beneath(path, up)
    BY <2>1 DEF Beneath
  <2> QED BY <1>1, <1>2, <2>2
<1>4. ASSUME NEW q \in Q, Beneath(path, q), q # path PROVE Chain(disk, q) = {}
  <2>1. Sterile(disk, EntryAt(disk, path))
    <3>1. EntryAt(disk, path) # End => EntryAt(disk, path).kind = "file"
      BY <1>1, EntryAtType DEF IsEntry
    <3> QED BY <1>1, <3>1 DEF Barren, Sterile
  <2>2. EntryAt(disk, q) = End
    BY <1>1, <1>4, <2>1, EntriesGone
  <2>3. EntryAt(disk, q).cluster \notin Clusters
    BY <2>2, SpecialSlots, ClusterFacts
  <2> QED BY <2>3, NoChain DEF Range
<1>5. /\ Chain(disk, up) \subseteq Chain(disk', up)
      /\ \A z \in Clusters : disk'.fat[z] # FREE =>
           \/ z \in Chain(disk', path) \/ z \in Chain(disk', up)
           \/ disk.fat[z] # FREE /\ z \notin Chain(disk, path)
  <2>1. ParentCluster(disk, path) = EntryAt(disk, up).cluster
    BY DEF ParentCluster
  <2> QED BY <1>3, <2>1 DEF Thrifty
<1> SUFFICES ASSUME NEW z \in Clusters, disk'.fat[z] # FREE, ~InUseHas(disk', z)
             PROVE  disk.fat[z] # FREE /\ ~InUseHas(disk, z)
  BY InUsePaths DEF Leaked
<1>6. \A q \in Q : z \notin Chain(disk', q)
  BY DEF InUseHas
<1>7. disk.fat[z] # FREE /\ z \notin Chain(disk, path)
  BY <1>1, <1>5, <1>6
<1>8. ASSUME NEW q \in Q PROVE z \notin Chain(disk, q)
  <2>1. CASE q = path
    BY <1>7, <2>1
  <2>2. CASE q = up
    BY <1>1, <1>5, <1>6, <2>2
  <2>3. CASE Beneath(path, q) /\ q # path
    BY <1>4, <2>3
  <2>4. CASE ~Beneath(path, q) /\ q # up
    <3>1. Chain(disk', q) = Chain(disk, q)
      BY <1>1, <1>2, <2>4
    <3> QED BY <1>6, <3>1
  <2> QED BY <2>1, <2>2, <2>3, <2>4
<1> QED BY <1>7, <1>8 DEF InUseHas

LEMMA ParentDirectory ==
  ASSUME disk \in Disk, AnyParent = FALSE, NEW path \in Paths, Passed(path), HasParent(disk, path)
  PROVE  EntryAt(disk, Front(path)).kind = "dir" /\ WithinDirectory(path)
<1>1. path \in Seq(Names) /\ path # <<>> /\ Front(path) \in Seq(Names)
  BY PathFacts, FrontLast
<1>2. IsEntry(EntryAt(disk, Front(path)))
  BY <1>1, EntryAtType DEF HasParent
<1>3. EntryAt(disk, Front(path)).kind = "dir"
  BY <1>2 DEF Passed, IsEntry
<1>4. Shown(disk, Front(path)) = ShownDirectory
  BY <1>1, <1>3, ShownAt
<1>5. Len(path) > 1 => Front(path) \in Paths
  BY Fat32Assumption
<1> QED BY <1>3, <1>4, <1>5 DEF WithinDirectory, Seen

LEMMA RefuseSeen ==
  ASSUME Refuse, Barren(disk), NEW path
  PROVE  StepSeen(path)
BY DEF Refuse, StepSeen, Saves, ClientStep

LEMMA OperationSeen ==
  ASSUME TypeOK, view = Survey(disk), view' = Survey(disk'), disk' \in Disk, ~damaged',
         ShortNames, AnyParent = FALSE,
         NEW L, Forest(disk, L), Tidy(disk, L), Barren(disk), NEW path \in Paths
  PROVE  /\ \A content \in Contents :
              create_file(path, content) => StepSeen(path)
         /\ mkdir(path) => StepSeen(path)
         /\ delete(path) => StepSeen(path)
<1>0. disk \in Disk /\ path \in Seq(Names) /\ path # <<>>
  BY PathFacts DEF TypeOK
<1>1. Seen(disk)[path] = Shown(disk, path)
  BY DEF Seen
<1>2. Refuse => StepSeen(path)
  BY RefuseSeen
<1>3. ASSUME Passed(path), HasParent(disk, path)
      PROVE  EntryAt(disk, Front(path)).kind = "dir" /\ WithinDirectory(path)
  BY <1>0, <1>3, ParentDirectory
<1>4. EntryAt(disk, path) = End => Shown(disk, path) = ShownNone
  BY <1>0, ShownAt
<1>5. EntryAt(disk, path) # End => Shown(disk, path).kind = EntryAt(disk, path).kind
  BY <1>0, ShownAt
<1>e. ASSUME HasParent(disk, path), EntryAt(disk, path).kind # "dir",
             reply' = "Ok" => Edited(disk, disk', L, path) /\ Thrifty(path)
      PROVE  reply' = "Ok" => Saves(path)
  BY <1>0, <1>e, ThriftyEdit DEF Saves
<1>6. ASSUME NEW content \in Contents, create_file(path, content)
      PROVE  StepSeen(path)
  <2> DEFINE data == [i \in DOMAIN content |-> Text(content[i])]
  <2>1. content \in Seq(Texts) /\ (ShortFiles => Len(content) <= 2 * SlotsPerBlock)
    BY ContentFacts DEF ShortFiles
  <2>b. Bounded => Len(content) <= 2 * SlotsPerBlock
    BY DEF Bounded
  <2>2. data \in Seq(Slots) /\ (ShortFiles => Len(data) <= 2 * SlotsPerBlock)
    BY <2>1, TextData
  <2>3. ASSUME NEW limit \in Limits, Passed(path), HasParent(disk, path),
               EntryAt(disk, path).kind = "file", Overwrite(path, data, limit)
        PROVE  StepSeen(path)
    <3>1. Overwritten(L, path, data)
      BY <2>1, <2>3, <2>b, OverwriteForest
    <3>2. EntryAt(disk, Front(path)).kind = "dir" /\ WithinDirectory(path)
      BY <1>3, <2>3
    <3>3. Shown(disk, path).kind = "file"
      BY <1>5, <2>3, SpecialSlots
    <3> HIDE DEF data
    <3>4. /\ Barren(disk')
          /\ Len(data) <= 2 * SlotsPerBlock =>
               \/ Unseen
               \/ /\ reply' = "Error" /\ Shown(disk', path).kind = "file"
                  /\ Sets(path, Shown(disk', path))
               \/ reply' = "Ok" /\ Sets(path, ShownFile(data))
          /\ reply' = "Ok" => Edited(disk, disk', L, path) /\ Thrifty(path)
      BY <1>0, <2>2, <2>3, <3>1, <3>2, OverwriteSeen
    <3>5. ShortFiles => ClientStep(path)
      BY <1>1, <2>2, <3>2, <3>3, <3>4 DEF ClientStep, data
    <3>6. reply' = "Ok" => Saves(path)
      BY <1>e, <2>3, <3>4
    <3>7. reply' \in {"Ok", "Error"}
      BY <2>3 DEF Overwrite, Finish
    <3> QED BY <3>4, <3>5, <3>6, <3>7 DEF StepSeen, Saves
  <2>4. ASSUME NEW limit \in Limits, Passed(path), HasParent(disk, path),
               EntryAt(disk, path) = End, Create(path, data, limit)
        PROVE  StepSeen(path)
    <3>1. EntryAt(disk, Front(path)).kind = "dir" /\ WithinDirectory(path)
      BY <1>3, <2>4
    <3>2. /\ Barren(disk')
          /\ Len(content) <= 2 * SlotsPerBlock =>
               Unseen \/ (reply' \in {"Ok", "Error"} /\ Sets(path, ShownFile(data)))
          /\ reply' = "Ok" => Edited(disk, disk', L, path) /\ Thrifty(path)
      BY <2>1, <2>4, <3>1, CreateSeen
    <3>3. Shown(disk, path).kind # "dir" /\ EntryAt(disk, path).kind # "dir"
      BY <1>4, <2>4, SpecialSlots DEF ShownNone
    <3>7. reply' \in {"Ok", "Error"}
      BY <2>4 DEF Create, Finish
    <3> HIDE DEF data
    <3>5. ShortFiles => ClientStep(path)
      BY <1>1, <2>1, <3>1, <3>2, <3>3 DEF ClientStep, data
    <3>6. reply' = "Ok" => Saves(path)
      BY <1>e, <2>4, <3>2, <3>3
    <3> QED BY <3>2, <3>5, <3>6, <3>7 DEF StepSeen, Saves
  <2> HIDE DEF data
  <2> QED BY <1>2, <1>6, <2>3, <2>4, Zenon DEF create_file, data
<1>7. ASSUME mkdir(path) PROVE StepSeen(path)
  <2>1. ASSUME NEW limit \in Limits, Passed(path), HasParent(disk, path),
               EntryAt(disk, path) = End, MakeDirectory(path, limit)
        PROVE  StepSeen(path)
    <3>1. EntryAt(disk, Front(path)).kind = "dir" /\ WithinDirectory(path)
      BY <1>3, <2>1
    <3>2. /\ Barren(disk')
          /\ Unseen \/ (reply' \in {"Ok", "Error"} /\ Sets(path, ShownDirectory))
          /\ reply' = "Ok" => Edited(disk, disk', L, path) /\ Thrifty(path)
      BY <2>1, <3>1, MakeDirectorySeen
    <3>3. ClientStep(path)
      BY <1>1, <1>4, <2>1, <3>1, <3>2 DEF ClientStep
    <3>4. reply' = "Ok" => Saves(path)
      BY <1>e, <2>1, <3>2, SpecialSlots
    <3>5. reply' \in {"Ok", "Error"}
      BY <2>1 DEF MakeDirectory, Finish
    <3> QED BY <3>2, <3>3, <3>4, <3>5 DEF StepSeen, Saves
  <2> QED BY <1>2, <1>7, <2>1, Zenon DEF mkdir
<1>8. ASSUME delete(path) PROVE StepSeen(path)
  <2>1. ASSUME NEW limit \in Limits, Passed(path), EntryAt(disk, path) # End, Delete(path, limit)
        PROVE  StepSeen(path)
    <3>1. HasParent(disk, path) /\ IsEntry(EntryAt(disk, path))
      BY <1>0, <2>1, PathFound
    <3>2. EntryAt(disk, Front(path)).kind = "dir"
      BY <1>3, <2>1, <3>1
    <3>3. /\ NothingDone(L) \/ SlotChanges(L, path, Deleted)
          /\ reply' = "Ok" => Keeps(path, {})
      BY <2>1, DeleteForest
    <3>4. /\ Barren(disk') /\ (Unseen \/ Removes(path))
          /\ reply' = "Ok" =>
               Edited(disk, disk', L, path) /\ Thrifty(path) /\ EntryAt(disk', path) = End
      BY <1>0, <2>1, <3>2, <3>3, DeleteSeen
    <3>5. Shown(disk, path) # ShownNone
      BY <1>5, <2>1, <3>1 DEF IsEntry, ShownNone
    <3>6. reply' \in {"Ok", "Error"}
      BY <2>1 DEF Delete, Finish
    <3>7. ClientStep(path)
      BY <1>1, <3>4, <3>5, <3>6 DEF ClientStep
    <3>8. ASSUME reply' = "Ok" PROVE Saves(path)
      <4>1. CASE EntryAt(disk, path).kind # "dir"
        BY <1>e, <3>1, <3>4, <3>8, <4>1
      <4>2. CASE EntryAt(disk, path).kind = "dir"
        <5>1. Shown(disk, path) = ShownDirectory /\ Shown(disk', path) = ShownNone
          BY <1>0, <3>4, <3>8, <4>2, ShownAt
        <5>2. view[path].kind = "dir" /\ view'[path].kind = "absent"
          BY <5>1 DEF Survey, Shown, ShownDirectory, ShownNone
        <5> QED BY <5>2 DEF Saves
      <4> QED BY <4>1, <4>2
    <3> QED BY <3>4, <3>6, <3>7, <3>8 DEF StepSeen, Saves
  <2> QED BY <1>2, <1>8, <2>1, Zenon DEF delete
<1> QED BY <1>6, <1>7, <1>8

(* On a new volume there is at most an empty file in the root. *)
LEMMA InitTree ==
  ASSUME Init
  PROVE  Barren(disk) /\ Seen(disk) \in [Paths -> {ShownNone, ShownFile(<<>>)}]
<1>1. PICK root \in Blocks :
        /\ disk = FirstDisk(root) /\ disk \in Disk
        /\ \A j \in Places : IsEntry(root[j]) => j = 1 /\ EmptyFile(root[j])
  BY InitDisk
<1>2. ASSUME NEW q \in Seq(Names), q # <<>>, EntryAt(disk, q) # End
      PROVE  EmptyFile(EntryAt(disk, q))
  <2> DEFINE s == ParentCluster(disk, q)
  <2>1. PICK c, j : PathSlot(disk, q, c, j)
    BY <1>1, <1>2, PathSlotFound
  <2>2. Range(read_chain(disk, s)) \subseteq Clusters
    BY ChainType
  <2>3. c \in Clusters /\ j \in Places /\ disk.data[c][j] = EntryAt(disk, q) /\ IsEntry(disk.data[c][j])
    BY <2>1, <2>2 DEF PathSlot, EntryIn
  <2>4. disk.data[c] = IF c = Root THEN root ELSE ZeroBlock
    BY <1>1, <2>3 DEF FirstDisk
  <2>5. disk.data[c] = root
    BY <2>3, <2>4, SpecialSlots
  <2> QED BY <1>1, <2>3, <2>5
<1>3. Barren(disk)
  <2> SUFFICES ASSUME NEW q \in Seq(Names), EntryAt(disk, q).kind = "file", NEW n \in Names
               PROVE  find_entry(disk, EntryAt(disk, q).cluster, n) = End
    BY DEF Barren, Sterile
  <2>1. q # <<>> /\ EntryAt(disk, q) # End
    <3>1. RootEntry.kind = "dir" /\ End.kind = "end"
      BY DEF RootEntry, Slot, End
    <3>2. EntryAt(disk, <<>>) = RootEntry
      BY <1>1, EntryAtRoot
    <3>3. ASSUME q = <<>> PROVE FALSE
      <4>1. EntryAt(disk, q) = RootEntry
        BY <3>2, <3>3, Zenon
      <4> QED BY <3>1, <4>1
    <3> QED BY <3>1, <3>3
  <2>2. EntryAt(disk, q).cluster = 0
    BY <1>2, <2>1 DEF EmptyFile
  <2> DEFINE x == EntryAt(disk, q).cluster
  <2>3. x \notin Clusters
    BY <2>2, ClusterFacts
  <2> HIDE DEF x
  <2>4. \A k \in DOMAIN SlotsOf(disk, x) : FALSE
    BY <1>1, <2>3, SlotHome
  <2> QED BY <1>1, <2>4, FindNone DEF x
<1>4. ASSUME NEW p \in Paths PROVE Shown(disk, p) \in {ShownNone, ShownFile(<<>>)}
  <2>1. p \in Seq(Names) /\ p # <<>>
    BY PathFacts
  <2>2. CASE EntryAt(disk, p) = End
    BY <1>1, <2>1, <2>2, ShownAt
  <2>3. CASE EntryAt(disk, p) # End
    <3> DEFINE none == <<>>
    <3>1. EmptyFile(EntryAt(disk, p))
      BY <1>2, <2>1, <2>3
    <3>2. none \in Seq(Slots) /\ Len(none) = 0
      OBVIOUS
    <3> HIDE DEF none
    <3>3. Holds(disk, EntryAt(disk, p).cluster, none)
      BY <3>2 DEF Holds
    <3>4. Shown(disk, p) = ShownFile(none)
      BY <1>1, <2>1, <3>1, <3>2, <3>3, ShownData DEF EmptyFile
    <3> QED BY <3>4 DEF none
  <2> QED BY <2>2, <2>3
<1> QED BY <1>3, <1>4 DEF Seen

(* The refinement: view is what the clients see. *)
LEMMA SeenView ==
  ASSUME NEW d, NEW v, v = Survey(d)
  PROVE  [p \in Paths |-> [kind |-> v[p].kind, content |-> v[p].content]] = Seen(d)
BY DEF Survey, Seen, Shown

LEMMA UnderBeneath ==
  ASSUME NEW p \in Seq(Names), NEW q \in Seq(Names)
  PROVE  Tree!Under(p, q) <=> Beneath(p, q)
<1> DEFINE m == Len(p)
           n == Len(q)
           u == SubSeq(q, 1, m)
<1>1. m \in Nat /\ n \in Nat
  OBVIOUS
<1>2. ASSUME m <= n PROVE u = p <=> \A i \in 1 .. m : q[i] = p[i]
  <2>1. u = [i \in 1 .. m |-> q[i]]
    BY <1>1, <1>2
  <2>2. p = [i \in 1 .. m |-> p[i]]
    OBVIOUS
  <2> HIDE DEF u
  <2> QED BY <2>1, <2>2
<1> QED BY <1>2 DEF Tree!Under, Beneath

LEMMA ClientStepTree ==
  ASSUME view = Survey(disk), view' = Survey(disk'), NEW path \in Paths, ClientStep(path)
  PROVE  Tree!Complete \/ Tree!Refuse \/ Tree!Fail
<1> DEFINE t == Seen(disk)
           u == Seen(disk')
<1>1. /\ [p \in Paths |-> [kind |-> view[p].kind, content |-> view[p].content]] = t
      /\ [p \in Paths |-> [kind |-> view'[p].kind, content |-> view'[p].content]] = u
  BY SeenView
<1>2. u[path] = Shown(disk', path)
  BY DEF Seen
<1>3. Front(path) = SubSeq(path, 1, Len(path) - 1)
  BY DEF Front
<1> HIDE DEF t, u
<1>4. CASE reply' = "Refused" /\ u = t
  BY <1>1, <1>4 DEF Tree!Refuse
<1>5. CASE reply' = "Error" /\ u = t
  BY <1>1, <1>5 DEF Tree!Fail
<1>a. Tree!Change /\ reply' \in {"Ok", "Error"} => Tree!Complete \/ Tree!Fail
  BY DEF Tree!Complete, Tree!Fail
<1>6. ASSUME WithinDirectory(path), t[path].kind # "dir", NEW content \in Contents,
             Sets(path, ShownFile([i \in DOMAIN content |-> Text(content[i])]))
      PROVE  Tree!Change
  <2> DEFINE data == [i \in DOMAIN content |-> Text(content[i])]
  <2>1. Tree!Put(path, data)
    BY <1>1, <1>3, <1>6 DEF Tree!Put, Tree!InDirectory, Tree!File, Tree!Directory,
      WithinDirectory, ShownDirectory, ShownFile, Sets, t, u
  <2> QED BY <1>6, <2>1 DEF Tree!Change
<1>7. ASSUME WithinDirectory(path), t[path] = ShownNone, Sets(path, ShownDirectory)
      PROVE  Tree!Change
  <2>1. Tree!MakeDirectory(path)
    BY <1>1, <1>3, <1>7 DEF Tree!MakeDirectory, Tree!InDirectory, Tree!Directory, Tree!Absent,
      WithinDirectory, ShownDirectory, ShownNone, Sets, t, u
  <2> QED BY <2>1 DEF Tree!Change
<1>8. CASE /\ reply' = "Error" /\ t[path].kind = "file" /\ Shown(disk', path).kind = "file"
           /\ Sets(path, Shown(disk', path))
  <2>1. Tree!Tear(path)
    BY <1>1, <1>2, <1>8 DEF Tree!Tear, Sets, t, u
  <2> QED BY <1>8, <2>1 DEF Tree!Fail
<1>9. ASSUME t[path] # ShownNone, Removes(path) PROVE Tree!Change
  <2>1. \A q \in Paths : Tree!Under(path, q) <=> Beneath(path, q)
    BY PathFacts, UnderBeneath
  <2>2. u = [q \in Paths |-> IF Tree!Under(path, q) THEN ShownNone ELSE t[q]]
    BY <1>9, <2>1 DEF Removes, t, u
  <2>3. Tree!Remove(path)
    BY <1>1, <1>9, <2>2 DEF Tree!Remove, Tree!Absent, ShownNone
  <2> QED BY <2>3 DEF Tree!Change
<1> QED BY <1>4, <1>5, <1>6, <1>7, <1>8, <1>9, <1>a DEF ClientStep, Unseen, t, u

LEMMA NextTree ==
  ASSUME ShortNames, AnyParent = FALSE, TreeInv, [Next]_vars
  PROVE  /\ TreeInv'
         /\ ShortFiles => [Tree!TreeNext]_(Tree!treeVars)
         /\ Next /\ ~damaged' => \E path \in Paths : Saves(path)
<1>1. TypeOK /\ view = Survey(disk) /\ damaged \in BOOLEAN
  BY DEF TreeInv, ForestInv, TypeOK
<1>2. ForestInv'
  BY ForestStep DEF TreeInv
<1>3. disk' \in Disk /\ view' = Survey(disk')
  BY <1>2 DEF ForestInv, TypeOK
<1>4. CASE UNCHANGED vars
  <2>1. disk' = disk /\ view' = view /\ damaged' = damaged /\ reply' = reply
    BY <1>4 DEF vars
  <2>2. Leaked(disk', view') \subseteq Leaked(disk, view)
    BY <2>1
  <2>3. Next => \E path \in Paths : Saves(path)
    BY <2>2 DEF Next, Saves
  <2> QED BY <1>2, <2>1, <2>3 DEF TreeInv, Tree!treeVars
<1>5. CASE Next /\ damaged'
  BY <1>2, <1>5 DEF TreeInv, Tree!TreeNext
<1>6. CASE Next /\ ~damaged'
  <2>1. ~damaged
    BY <1>1, <1>6, NextView
  <2>2. PICK L : Forest(disk, L) /\ Tidy(disk, L)
    BY <2>1 DEF TreeInv, ForestInv
  <2>3. Barren(disk)
    BY <2>1 DEF TreeInv
  <2>4. PICK path \in Paths : \/ \E content \in Contents : create_file(path, content)
                              \/ mkdir(path) \/ delete(path)
    BY <1>6 DEF Next
  <2>a. StepSeen(path)
    BY <1>1, <1>3, <1>6, <2>2, <2>3, <2>4, OperationSeen
  <2>5. Barren(disk') /\ Saves(path) /\ (ShortFiles => ClientStep(path))
    BY <2>a DEF StepSeen
  <2>6. ShortFiles => Tree!Complete \/ Tree!Refuse \/ Tree!Fail
    BY <1>1, <1>3, <2>5, ClientStepTree
  <2> QED BY <1>2, <1>6, <2>1, <2>5, <2>6 DEF TreeInv, Tree!TreeNext
<1> QED BY <1>4, <1>5, <1>6

(* create_file, mkdir and delete do to the tree of files what they answer: *)
(* every operation that answers with success has happened completely, one  *)
(* that is refused or fails has left the tree as it was, and none touches  *)
(* another path, whatever sector write it stops at; only an overwrite that *)
(* fails may lose its own file's content, and a delete that fails may have *)
(* happened.  So it is while no chain has run into a free cluster, for     *)
(* clients that look at the parent first, whose names set_name_83 keeps    *)
(* and whose files need no more than two clusters: write_file_data hands   *)
(* out the same cluster for every missing one.                             *)
THEOREM VolumeIsFileTree ==
  ASSUME \A p \in Paths : Stored[Last(p)] = Last(p), AnyParent = FALSE,
         \A content \in Contents : Len(content) <= 2 * SlotsPerBlock
  PROVE  Spec => ImplementsFileTree
<1>1. ShortNames
  BY DEF ShortNames
<1>f. ShortFiles
  BY DEF ShortFiles
<1>2. Init => TreeInv /\ Tree!TreeInit
  <2> SUFFICES ASSUME Init PROVE TreeInv /\ Tree!TreeInit
    OBVIOUS
  <2>1. ForestInv /\ view = Survey(disk) /\ reply = "Ok" /\ damaged = FALSE
    BY InitForest DEF Init
  <2>2. Barren(disk) /\ Seen(disk) \in [Paths -> {ShownNone, ShownFile(<<>>)}]
    BY InitTree
  <2>3. [p \in Paths |-> [kind |-> view[p].kind, content |-> view[p].content]] = Seen(disk)
    BY <2>1, SeenView
  <2> QED BY <2>1, <2>2, <2>3
       DEF TreeInv, Tree!TreeInit, Tree!Absent, Tree!File, ShownNone, ShownFile
<1>3. TreeInv /\ [Next]_vars => TreeInv' /\ [Tree!TreeNext]_(Tree!treeVars)
  BY <1>1, <1>f, NextTree
<1> QED BY <1>2, <1>3, PTL DEF Spec, ImplementsFileTree, Tree!TreeSpec

(* No operation that answers with success loses space, but for what a      *)
(* directory held that is deleted: each cluster that create_file, mkdir or *)
(* delete has newly marked is in the chain of the name it changed or of    *)
(* the directory of that name, and free_chain has freed the chain that the *)
(* name had before.  So it is while no chain has run into a free cluster,  *)
(* for clients that look at the parent first and whose names set_name_83   *)
(* keeps, whatever the size of the files.                                  *)
THEOREM LeaksOnlyByFailure ==
  ASSUME \A p \in Paths : Stored[Last(p)] = Last(p), AnyParent = FALSE
  PROVE  Spec => LeaksNeedFailure
<1>1. ShortNames
  BY DEF ShortNames
<1>2. Init => TreeInv
  <2> SUFFICES ASSUME Init PROVE TreeInv
    OBVIOUS
  <2> QED BY InitForest, InitTree DEF TreeInv
<1>3. TreeInv /\ [Next]_vars =>
        /\ TreeInv'
        /\ [~damaged' /\ ~(Leaked(disk', view') \subseteq Leaked(disk, view)) =>
              \/ reply' = "Error"
              \/ \E p \in Paths : view[p].kind = "dir" /\ view'[p].kind = "absent"]_vars
  <2> SUFFICES ASSUME TreeInv, [Next]_vars
               PROVE  /\ TreeInv'
                      /\ Next /\ ~damaged' /\ ~(Leaked(disk', view') \subseteq Leaked(disk, view)) =>
                           \/ reply' = "Error"
                           \/ \E p \in Paths : view[p].kind = "dir" /\ view'[p].kind = "absent"
    OBVIOUS
  <2>1. TreeInv' /\ (Next /\ ~damaged' => \E path \in Paths : Saves(path))
    BY <1>1, NextTree
  <2> QED BY <2>1 DEF Saves
<1> QED BY <1>2, <1>3, PTL DEF Spec, LeaksNeedFailure

-----------------------------------------------------------------------------
(***************************************************************************)
(* The shell and the open files.                                           *)
(***************************************************************************)
FilesOK(table, fd) ==
  /\ table \subseteq Descriptors
  /\ \A f \in table : f.fd \in 3 .. fd - 1 /\ f.pos <= f.size
  /\ \A f, g \in table : f.fd = g.fd => f = g

LEMMA ShellInvParts ==
  ShellInv <=> /\ TypeOK /\ cwd \in Seq(Names)
               /\ next_fd \in 3 .. 3 + MaxOpens /\ calls \in Nat
               /\ FilesOK(file_table, next_fd)
<1>1. ASSUME ShellInv PROVE FilesOK(file_table, next_fd)
  BY <1>1 DEF ShellInv, ShellTypeOK, FilesOK
<1>2. ASSUME FilesOK(file_table, next_fd), NEW f \in file_table
      PROVE  /\ f.fd \in 3 .. next_fd - 1 /\ f.path \in Paths /\ f.writable \in BOOLEAN
             /\ f.size \in Nat /\ f.pos \in 0 .. f.size
             /\ f.cluster \in Clusters \cup {0}
             /\ \A g \in file_table : f.fd = g.fd => f = g
  BY <1>2 DEF FilesOK, Descriptors
<1>3. FilesOK(file_table, next_fd) => file_table \subseteq Descriptors
  BY DEF FilesOK
<1> QED BY <1>1, <1>2, <1>3 DEF ShellInv, ShellTypeOK

LEMMA SizeUpdated ==
  ASSUME NEW limit, NEW r \in Running(limit), NEW path, NEW size \in Nat
  PROVE  /\ update_file_size(r, path, size) \in Running(limit)
         /\ ~r.ok => update_file_size(r, path, size) = r
         /\ Resized(r.disk, update_file_size(r, path, size).disk, path, size)
<1> DEFINE d == r.disk
           dir == ParentCluster(d, path)
           slots == SlotsOf(d, dir)
           P(x) == x = End \/ (IsEntry(x) /\ x.name = Last(path))
           I == {i \in 1 .. Len(slots) : P(slots[i])}
           k == IF I # {} THEN Min(I) ELSE 0
           q == update_file_size(r, path, size)
           slot == [slots[k] EXCEPT !.size = size]
<1>1. q = IF ~r.ok THEN r ELSE IF ~HasParent(d, path) THEN Fail(r)
          ELSE IF k = 0 \/ slots[k] = End THEN r ELSE PutSlot(r, dir, k, slot)
  BY Zenon DEF update_file_size, SelectInSeq
<1>2. d \in Disk
  BY RunningFields
<1>3. Fail(r) \in Running(limit) /\ Fail(r).disk = d
  BY FailType
<1>4. slots \in Seq(Slots) /\ DOMAIN slots = 1 .. Len(slots)
  <2>1. slots \in Seq(Slots)
    BY <1>2, SlotsOfType
  <2> HIDE DEF slots
  <2> QED BY <2>1
<1>5. k # 0 => k \in DOMAIN slots /\ P(slots[k])
  <2> SUFFICES ASSUME NEW z \in I PROVE k \in I
    BY <1>4
  <2>1. I \subseteq Nat
    OBVIOUS
  <2> HIDE DEF I
  <2> QED BY <2>1, Least
<1> HIDE DEF q, k
<1>6. CASE r.ok /\ HasParent(d, path) /\ k # 0 /\ slots[k] # End
  <2>1. slots[k] \in Slots
    <3> HIDE DEF slots
    <3> QED BY <1>4, <1>5, <1>6
  <2>2. slot \in Slots
    <3> HIDE DEF slots
    <3> QED BY <2>1 DEF Slots
  <2>3. IsEntry(slots[k]) /\ k \in DOMAIN slots
    BY <1>5, <1>6
  <2>f. slots[k] = find_entry(d, dir, Last(path))
    <3>1. find_entry(d, dir, Last(path)) = IF k = 0 THEN End ELSE slots[k]
      BY Zenon DEF find_entry, SelectInSeq, k
    <3> QED BY <1>6, <3>1
  <2> DEFINE c == HomeOf(d, dir, k)
             j == PlaceAt(k)
  <2>4. Resized(d, SetSlot(d, c, j, slot), path, size) /\ Resized(d, d, path, size)
    BY <1>6, <2>3, <2>f DEF Resized
  <2> HIDE DEF slot
  <2>5. /\ PutSlot(r, dir, k, slot) \in Running(limit)
        /\ Writes(r, PutSlot(r, dir, k, slot), SetSlot(d, c, j, slot))
    BY <1>5, <1>6, <2>2, PutSlotDone
  <2>6. q = PutSlot(r, dir, k, slot)
    BY <1>1, <1>6
  <2> HIDE DEF c, j, dir, slots, d
  <2> QED BY <1>6, <2>4, <2>5, <2>6 DEF q, d, Writes
<1>7. CASE ~(r.ok /\ HasParent(d, path) /\ k # 0 /\ slots[k] # End)
  <2>1. q = r \/ (r.ok /\ q = Fail(r))
    BY <1>1, <1>7
  <2> HIDE DEF slots
  <2> QED BY <1>3, <2>1 DEF q, Resized
<1> QED BY <1>6, <1>7

LEMMA OverlayType ==
  ASSUME disk \in Disk, NEW file \in Descriptors, NEW data \in Seq(Slots)
  PROVE  Overlay(file, data) \in Seq(Slots)
<1> DEFINE slots == SlotsOf(disk, file.cluster)
           old == read_file(disk, file)
           end == file.pos + Len(data)
           n == Max({end, file.size})
           laid == [i \in 1 .. n |-> IF i \in file.pos + 1 .. end THEN data[i - file.pos]
                                     ELSE IF i <= file.size THEN old[i] ELSE End]
<1>1. Overlay(file, data) = IF file.pos = 0 THEN data ELSE laid
  BY Zenon DEF Overlay
<1>2. file.pos \in Nat /\ file.size \in Nat /\ Len(data) \in Nat /\ end \in Nat
  BY DEF Descriptors
<1>3. n \in Nat
  BY <1>2, MaxOf
<1>4. old = [i \in 1 .. file.size |-> IF i <= Len(slots) THEN slots[i] ELSE End]
  BY Zenon DEF read_file
<1>5. slots \in Seq(Slots)
  BY SlotsOfType
<1>6. End \in Slots
  BY SpecialSlots
<1> HIDE DEF slots, old, n
<1>7. \A i \in 1 .. file.size : old[i] \in Slots
  BY <1>2, <1>4, <1>5, <1>6
<1>8. ASSUME NEW i \in 1 .. n PROVE laid[i] \in Slots
  <2>1. CASE i \in file.pos + 1 .. end
    <3>1. i - file.pos \in 1 .. Len(data)
      BY <1>2, <2>1
    <3>2. data[i - file.pos] \in Slots
      BY <3>1
    <3> QED BY <2>1, <3>2
  <2>2. CASE i \notin file.pos + 1 .. end
    BY <1>2, <1>3, <1>6, <1>7, <2>2
  <2> QED BY <2>1, <2>2
<1>9. laid \in [1 .. n -> Slots]
  BY <1>8
<1>10. laid \in Seq(Slots)
  <2> HIDE DEF laid
  <2> QED BY <1>3, <1>9
<1> QED BY <1>1, <1>10

(* A new descriptor. *)
LEMMA OpenedType ==
  ASSUME ShellInv, next_fd < 3 + MaxOpens, NEW path \in Paths, NEW mode,
         NEW entry, entry.size \in Nat, entry.cluster \in Clusters \cup {0},
         Opened(path, mode, entry)
  PROVE  next_fd' \in 3 .. 3 + MaxOpens /\ FilesOK(file_table', next_fd')
<1> DEFINE f == Descriptor(path, mode, entry)
<1>1. next_fd \in 3 .. 3 + MaxOpens /\ FilesOK(file_table, next_fd) /\ MaxOpens \in Nat
  BY ShellInvParts, ShellAssumption
<1>2. f \in Descriptors /\ f.fd = next_fd /\ f.pos = 0 /\ f.pos <= f.size
  <2>1. (mode # "Read") \in BOOLEAN
    OBVIOUS
  <2> DEFINE w == mode # "Read"
  <2> HIDE DEF w
  <2>2. w \in BOOLEAN
    BY <2>1 DEF w
  <2>3. f = [fd |-> next_fd, path |-> path, writable |-> w, pos |-> 0,
             size |-> entry.size, cluster |-> entry.cluster]
    BY DEF Descriptor, w
  <2> HIDE DEF f
  <2> QED BY <1>1, <2>2, <2>3 DEF Descriptors
<1> HIDE DEF f
<1>3. file_table' = file_table \cup {f} /\ next_fd' = next_fd + 1
  BY DEF Opened, f
<1>4. \A g \in file_table : g.fd \in 3 .. next_fd - 1 /\ g.pos <= g.size
  BY <1>1 DEF FilesOK
<1>5. \A g \in file_table' : g.fd \in 3 .. next_fd' - 1 /\ g.pos <= g.size
  BY <1>1, <1>2, <1>3, <1>4
<1>6. \A g, h \in file_table' : g.fd = h.fd => g = h
  <2>1. \A g \in file_table : g.fd # f.fd
    BY <1>1, <1>2, <1>4
  <2> QED BY <1>1, <1>3, <2>1 DEF FilesOK
<1> QED BY <1>1, <1>2, <1>3, <1>5, <1>6 DEF FilesOK

LEMMA OpenNewType ==
  ASSUME ShellInv, next_fd < 3 + MaxOpens, NEW path \in Paths, NEW mode,
         NEW limit \in Limits, OpenNew(path, mode, limit)
  PROVE  TypeOK' /\ next_fd' \in 3 .. 3 + MaxOpens /\ FilesOK(file_table', next_fd')
<1> DEFINE s == ParentCluster(disk, path)
           none == <<>>
           new == allocate_and_write(Started(disk, limit), none)
           entry == Slot("file", Stored[Last(path)], new.cluster, 0)
           q == add_entry(new, s, entry)
<1>0. TypeOK /\ next_fd \in 3 .. 3 + MaxOpens /\ FilesOK(file_table, next_fd)
  BY ShellInvParts
<1>1. limit \in Int /\ disk \in Disk
  BY <1>0, LimitFacts DEF TypeOK
<1>2. Started(disk, limit) \in Running(limit)
  BY <1>1, StartedType
<1>3. none \in Seq(Slots) /\ \A k \in 1 .. Len(none) : ~IsEntry(none[k])
  OBVIOUS
<1>4. Finish(q) /\ (IF q.ok THEN Opened(path, mode, entry) ELSE UNCHANGED <<file_table, next_fd>>)
  BY DEF OpenNew
<1> HIDE DEF none
<1>5. new \in Running(limit)
  BY <1>2, <1>3, AllocateAndWrite
<1> HIDE DEF new, s
<1>6. entry \in Slots /\ entry.size \in Nat /\ entry.cluster \in Clusters \cup {0}
  <2>1. new.cluster \in Clusters \cup {0}
    BY <1>5, RunningFields
  <2>2. entry \in Slots
    BY <2>1, NewEntryType
  <2> HIDE DEF entry
  <2> QED BY <2>2 DEF Slots
<1> HIDE DEF entry
<1>7. q \in Running(limit)
  BY <1>5, <1>6, AddEntry
<1> HIDE DEF q
<1>8. TypeOK'
  BY <1>0, <1>4, <1>7, FinishType
<1>9. CASE q.ok
  <2>1. Opened(path, mode, entry)
    BY <1>4, <1>9
  <2> QED BY <1>6, <1>8, <2>1, OpenedType
<1>10. CASE ~q.ok
  BY <1>0, <1>4, <1>8, <1>10
<1> QED BY <1>9, <1>10

LEMMA WriteOpenType ==
  ASSUME ShellInv, NEW file \in file_table, NEW text \in Data, NEW limit \in Limits,
         WriteOpen(file, [i \in DOMAIN text |-> Text(text[i])], limit)
  PROVE  TypeOK' /\ FilesOK(file_table', next_fd)
<1> DEFINE data == [i \in DOMAIN text |-> Text(text[i])]
           written == write_file_data(Started(disk, limit), file.cluster, Overlay(file, data))
           pos == file.pos + Len(data)
           size == Max({pos, file.size})
           moved == [file EXCEPT !.pos = pos, !.size = size]
           q == IF size = 0 THEN written ELSE update_file_size(written, file.path, size)
<1>0. TypeOK /\ next_fd \in 3 .. 3 + MaxOpens /\ FilesOK(file_table, next_fd)
  BY ShellInvParts
<1>1. limit \in Int /\ disk \in Disk /\ file \in Descriptors
  BY <1>0, LimitFacts DEF TypeOK, FilesOK
<1>2. data \in Seq(Slots) /\ Len(data) \in Nat
  <2>1. text \in Seq(Texts)
    BY ShellAssumption
  <2> QED BY <2>1, TextData
<1>3. /\ Finish(q)
      /\ file_table' = (IF written.ok THEN (file_table \ {file}) \cup {moved} ELSE file_table)
  BY Zenon DEF WriteOpen
<1> HIDE DEF data
<1>4. pos \in Nat /\ file.size \in Nat
  BY <1>1, <1>2 DEF Descriptors
<1>5. size \in Nat /\ pos <= size
  <2> HIDE DEF pos
  <2> QED BY <1>4, MaxOf
<1>6. Started(disk, limit) \in Running(limit)
  BY <1>1, StartedType
<1>7. written \in Running(limit)
  <2>1. Overlay(file, data) \in Seq(Slots)
    BY <1>1, <1>2, OverlayType
  <2> QED BY <1>6, <2>1, FileDataType
<1> HIDE DEF written, size, pos
<1>8. q \in Running(limit)
  BY <1>5, <1>7, SizeUpdated
<1> HIDE DEF q
<1>9. TypeOK'
  BY <1>0, <1>3, <1>8, FinishType
<1>10. moved \in Descriptors /\ moved.fd = file.fd /\ moved.pos = pos /\ moved.size = size
  BY <1>1, <1>4, <1>5 DEF Descriptors
<1> HIDE DEF moved
<1>11. FilesOK((file_table \ {file}) \cup {moved}, next_fd)
  <2>1. \A g \in file_table \ {file} : g.fd # moved.fd
    BY <1>0, <1>10 DEF FilesOK
  <2>2. \A g \in (file_table \ {file}) \cup {moved} : g.fd \in 3 .. next_fd - 1 /\ g.pos <= g.size
    BY <1>0, <1>5, <1>10 DEF FilesOK
  <2>3. \A g, h \in (file_table \ {file}) \cup {moved} : g.fd = h.fd => g = h
    BY <1>0, <2>1 DEF FilesOK
  <2> QED BY <1>0, <1>10, <2>2, <2>3 DEF FilesOK
<1> QED BY <1>0, <1>3, <1>9, <1>11

(* What a step does to the parts of the shell's state. *)
ShellStep(table, fd) ==
  /\ TypeOK' /\ cwd' \in Seq(Names)
  /\ fd \in 3 .. 3 + MaxOpens /\ FilesOK(table, fd)

LEMMA CountedType ==
  ASSUME calls \in Nat, Counted
  PROVE  calls' \in Nat
<1>1. calls' = calls \/ calls' = calls + 1
  BY DEF Counted
<1> QED BY <1>1

LEMMA ChangeType ==
  ASSUME ShellInv, NEW path \in Seq(Names), ChangeTo(path)
  PROVE  TypeOK' /\ cwd' \in Seq(Names)
<1>1. TypeOK /\ cwd \in Seq(Names)
  BY ShellInvParts
<1> QED BY <1>1 DEF ChangeTo, TypeOK, Disk

LEMMA CanonicalType ==
  ASSUME ShellInv, NEW arg \in Arguments
  PROVE  canonicalize(arg) \in Seq(Names) /\ arg.path \in Paths
<1>1. cwd \in Seq(Names)
  BY ShellInvParts
<1>2. arg.path \in Paths
  BY DEF Arguments
<1>3. arg.path \in Seq(Names)
  BY <1>2, PathFacts
<1> QED BY <1>1, <1>2, <1>3 DEF canonicalize

LEMMA CommandType ==
  ASSUME ShellInv, process_command
  PROVE  ShellStep(file_table', next_fd') /\ Counted
<1>1. TypeOK /\ cwd \in Seq(Names) /\ next_fd \in 3 .. 3 + MaxOpens /\ FilesOK(file_table, next_fd)
  BY ShellInvParts
<1>2. ASSUME TypeOK', Command PROVE ShellStep(file_table', next_fd') /\ Counted
  BY <1>1, <1>2 DEF Command, OpenFilesUnchanged, ShellStep
<1>3. Refuse => TypeOK'
  BY <1>1, RefuseType
<1>4. ASSUME NEW arg \in Arguments, cmd_touch(arg) PROVE TypeOK' /\ Command
  <2>1. arg.path \in Paths
    BY CanonicalType
  <2>2. create_file(arg.path, <<>>) => TypeOK'
    <3> DEFINE none == <<>>
    <3>1. none \in Seq(Texts)
      OBVIOUS
    <3> HIDE DEF none
    <3>2. create_file(arg.path, none) => TypeOK'
      BY <1>1, <2>1, <3>1, OperationsType
    <3> QED BY <3>2 DEF none
  <2> QED BY <1>3, <1>4, <2>2, Zenon DEF cmd_touch
<1>5. ASSUME NEW arg \in Arguments, cmd_rm(arg) PROVE TypeOK' /\ Command
  <2>1. arg.path \in Paths
    BY CanonicalType
  <2>2. delete(arg.path) => TypeOK'
    BY <1>1, <2>1, OperationsType
  <2> QED BY <1>3, <1>5, <2>2, Zenon DEF cmd_rm
<1>6. ASSUME NEW path \in Paths, cmd_mkdir(path) PROVE TypeOK' /\ Command
  BY <1>1, <1>6, OperationsType DEF cmd_mkdir
<1>7. ASSUME NEW path \in Paths, cmd_write(path) PROVE TypeOK' /\ Command
  <2>1. PICK content \in Contents : create_file(path, content)
    BY <1>7 DEF cmd_write
  <2>2. TypeOK'
    BY <1>1, <2>1, ContentFacts, OperationsType
  <2> QED BY <1>7, <2>2 DEF cmd_write
<1>8. ASSUME cmd_cd PROVE ShellStep(file_table', next_fd') /\ Counted
  <2>1. ASSUME NEW arg \in Arguments, ChangeTo(canonicalize(arg)) PROVE TypeOK' /\ cwd' \in Seq(Names)
    BY <2>1, CanonicalType, ChangeType
  <2>2. ASSUME ChangeTo(<<>>) PROVE TypeOK' /\ cwd' \in Seq(Names)
    <3> DEFINE none == <<>>
    <3>1. none \in Seq(Names)
      OBVIOUS
    <3> HIDE DEF none
    <3> QED BY <2>2, <3>1, ChangeType DEF none
  <2>3. ASSUME ChangeTo(Parent(cwd)) PROVE TypeOK' /\ cwd' \in Seq(Names)
    <3>1. Parent(cwd) \in Seq(Names)
      BY <1>1, FrontLast DEF Parent
    <3> QED BY <2>3, <3>1, ChangeType
  <2>4. TypeOK' /\ cwd' \in Seq(Names)
    BY <1>8, <2>1, <2>2, <2>3, Zenon DEF cmd_cd
  <2> QED BY <1>1, <1>8, <2>4 DEF cmd_cd, OpenFilesUnchanged, ShellStep
<1> QED BY <1>2, <1>4, <1>5, <1>6, <1>7, <1>8 DEF process_command

LEMMA OpenType ==
  ASSUME ShellInv, NEW arg \in Arguments, NEW mode, open(arg, mode)
  PROVE  ShellStep(file_table', next_fd') /\ Counted
<1> DEFINE path == canonicalize(arg)
<1>1. TypeOK /\ cwd \in Seq(Names) /\ next_fd \in 3 .. 3 + MaxOpens /\ FilesOK(file_table, next_fd)
  BY ShellInvParts
<1>2. /\ next_fd < 3 + MaxOpens /\ path \in Paths /\ UNCHANGED <<cwd, strayed>> /\ Counted
      /\ \/ OpenExisting(path, mode) /\ EntryAt(disk, path) # End
         \/ \E limit \in Limits : OpenNew(path, mode, limit)
         \/ Refuse /\ UNCHANGED <<file_table, next_fd>>
  BY Zenon DEF open
<1> HIDE DEF path
<1>3. ASSUME Refuse, UNCHANGED <<file_table, next_fd>>
      PROVE  TypeOK' /\ next_fd' \in 3 .. 3 + MaxOpens /\ FilesOK(file_table', next_fd')
  <2>1. TypeOK'
    BY <1>1, <1>3, RefuseType
  <2> QED BY <1>1, <1>3, <2>1
<1>4. ASSUME OpenExisting(path, mode), EntryAt(disk, path) # End
      PROVE  TypeOK' /\ next_fd' \in 3 .. 3 + MaxOpens /\ FilesOK(file_table', next_fd')
  <2> DEFINE entry == EntryAt(disk, path)
  <2>1. \/ Refuse /\ UNCHANGED <<file_table, next_fd>>
        \/ /\ Opened(path, mode, entry) /\ reply' = "Ok"
           /\ UNCHANGED <<disk, faults, view, damaged>>
    BY <1>4, Zenon DEF OpenExisting
  <2>2. entry.size \in Nat /\ entry.cluster \in Clusters \cup {0}
    <3>1. entry \in Slots
      BY <1>1, <1>2, PathFacts, EntryAtType DEF TypeOK
    <3> HIDE DEF entry
    <3> QED BY <3>1 DEF Slots
  <2> HIDE DEF entry
  <2>3. ASSUME Opened(path, mode, entry), reply' = "Ok", UNCHANGED <<disk, faults, view, damaged>>
        PROVE  TypeOK' /\ next_fd' \in 3 .. 3 + MaxOpens /\ FilesOK(file_table', next_fd')
    <3>1. TypeOK'
      BY <1>1, <2>3 DEF TypeOK, Disk
    <3>2. next_fd' \in 3 .. 3 + MaxOpens /\ FilesOK(file_table', next_fd')
      BY <1>2, <2>2, <2>3, OpenedType
    <3> QED BY <3>1, <3>2
  <2> QED BY <1>3, <2>1, <2>3
<1>5. ASSUME NEW limit \in Limits, OpenNew(path, mode, limit)
      PROVE  TypeOK' /\ next_fd' \in 3 .. 3 + MaxOpens /\ FilesOK(file_table', next_fd')
  BY <1>2, <1>5, OpenNewType
<1>6. TypeOK' /\ next_fd' \in 3 .. 3 + MaxOpens /\ FilesOK(file_table', next_fd')
  BY <1>2, <1>3, <1>4, <1>5
<1> QED BY <1>1, <1>2, <1>6 DEF ShellStep

LEMMA FileType ==
  ASSUME ShellInv, NEW file \in file_table
  PROVE  /\ close(file) => ShellStep(file_table', next_fd') /\ Counted
         /\ \A text \in Data : write(file, text) => ShellStep(file_table', next_fd') /\ Counted
<1>1. TypeOK /\ cwd \in Seq(Names) /\ next_fd \in 3 .. 3 + MaxOpens /\ FilesOK(file_table, next_fd)
  BY ShellInvParts
<1>2. ASSUME close(file) PROVE ShellStep(file_table', next_fd') /\ Counted
  <2>1. TypeOK'
    BY <1>1, <1>2 DEF close, TypeOK, Disk
  <2>2. FilesOK(file_table', next_fd)
    BY <1>1, <1>2 DEF close, FilesOK
  <2> QED BY <1>1, <1>2, <2>1, <2>2 DEF close, ShellStep
<1>3. ASSUME NEW text \in Data, write(file, text) PROVE ShellStep(file_table', next_fd') /\ Counted
  <2> DEFINE data == [i \in DOMAIN text |-> Text(text[i])]
  <2>1. /\ UNCHANGED <<cwd, next_fd>> /\ Counted
        /\ \/ Refuse /\ UNCHANGED <<file_table, strayed>>
           \/ \E limit \in Limits : WriteOpen(file, data, limit)
    BY <1>3, Zenon DEF write
  <2>2. ASSUME Refuse, UNCHANGED <<file_table, strayed>>
        PROVE  TypeOK' /\ FilesOK(file_table', next_fd)
    <3>1. TypeOK'
      BY <1>1, <2>2, RefuseType
    <3> QED BY <1>1, <2>2, <3>1
  <2>3. ASSUME NEW limit \in Limits, WriteOpen(file, data, limit)
        PROVE  TypeOK' /\ FilesOK(file_table', next_fd)
    BY <2>3, WriteOpenType
  <2> HIDE DEF data
  <2>4. TypeOK' /\ FilesOK(file_table', next_fd)
    BY <2>1, <2>2, <2>3
  <2> QED BY <1>1, <2>1, <2>4 DEF ShellStep
<1> QED BY <1>2, <1>3

LEMMA ShellNextType ==
  ASSUME ShellInv, [ShellNext]_shellVars
  PROVE  ShellInv'
<1>1. /\ TypeOK /\ cwd \in Seq(Names) /\ next_fd \in 3 .. 3 + MaxOpens
      /\ FilesOK(file_table, next_fd) /\ calls \in Nat
  BY ShellInvParts
<1>2. ASSUME ShellStep(file_table', next_fd'), calls' \in Nat PROVE ShellInv'
  <2>1. FilesOK(file_table', next_fd') /\ TypeOK' /\ cwd' \in Seq(Names)
        /\ next_fd' \in 3 .. 3 + MaxOpens
    BY <1>2 DEF ShellStep
  <2>2. ASSUME NEW f \in file_table'
        PROVE  /\ f.fd \in 3 .. next_fd' - 1 /\ f.path \in Paths /\ f.writable \in BOOLEAN
               /\ f.size \in Nat /\ f.pos \in 0 .. f.size
               /\ f.cluster \in Clusters \cup {0}
               /\ \A g \in file_table' : f.fd = g.fd => f = g
    BY <2>1 DEF FilesOK, Descriptors
  <2>3. file_table' \subseteq Descriptors
    BY <2>1 DEF FilesOK
  <2> QED BY <1>2, <2>1, <2>2, <2>3 DEF ShellInv, ShellTypeOK, Descriptors
<1>3. CASE UNCHANGED shellVars
  <2>1. TypeOK'
    BY <1>1, <1>3 DEF shellVars, TypeOK, Disk
  <2>2. ShellStep(file_table', next_fd') /\ calls' \in Nat
    BY <1>1, <1>3, <2>1 DEF shellVars, ShellStep
  <2> QED BY <1>2, <2>2
<1>4. CASE ShellNext
  <2>1. ShellStep(file_table', next_fd') /\ Counted
    <3>1. \/ process_command
          \/ \E arg \in Arguments, mode \in Modes : open(arg, mode)
          \/ \E file \in file_table : close(file) \/ \E text \in Data : write(file, text)
      BY <1>4 DEF ShellNext
    <3> QED BY <3>1, CommandType, OpenType, FileType
  <2> QED BY <1>1, <1>2, <2>1, CountedType
<1> QED BY <1>3, <1>4

LEMMA ShellInitType ==
  ASSUME ShellInit
  PROVE  ShellInv
<1>1. TypeOK /\ cwd = <<>> /\ file_table = {} /\ next_fd = 3 /\ calls = 0
  BY InitType DEF ShellInit
<1>2. FilesOK(file_table, next_fd)
  BY <1>1 DEF FilesOK
<1>3. cwd \in Seq(Names)
  BY <1>1
<1> QED BY <1>1, <1>2, <1>3, ShellInvParts, ShellAssumption

(* The shell and the open files keep their types, however commands, opens, *)
(* writes, closes and failing sector writes follow each other: descriptors *)
(* are never handed out twice while open, and none is past its own size    *)
(* (open, write and close of the VFS, the file commands of the terminal).  *)
THEOREM ShellTypeCorrect == ShellSpec => []ShellTypeOK
<1>1. ShellInit => ShellInv
  BY ShellInitType
<1>2. ShellInv /\ [ShellNext]_shellVars => ShellInv'
  BY ShellNextType
<1>3. ShellInv => ShellTypeOK
  BY DEF ShellInv
<1> QED BY <1>1, <1>2, <1>3, PTL DEF ShellSpec

-----------------------------------------------------------------------------
(***************************************************************************)
(* Writing through an open file.                                           *)
(***************************************************************************)
LEMMA ForestThinner ==
  ASSUME NEW d, NEW e, NEW L, Forest(d, L), Thinner(d, e, L),
         \A z \in L : /\ e.fat[z] \in L \cup {EOC}
                      /\ \A x \in L : Links(e, z, x) <=> Links(d, z, x)
  PROVE  Forest(e, L)
<1>1. \A x : Top(e, L, x) <=> Top(d, L, x)
  BY DEF Top
<1>2. \A c \in L, j \in Places : EntryIn(e, c, j) => EntryIn(d, c, j) /\ HeadIn(e, c, j) = HeadIn(d, c, j)
  BY DEF Thinner, EntryIn, HeadIn
<1>3. ForestTable(e, L)
  BY <1>1 DEF Forest, ForestTable
<1>4. ForestEntries(e, L)
  BY <1>1, <1>2 DEF Forest, ForestEntries
<1> QED BY <1>3, <1>4 DEF Forest

(* Data without entries, laid over a file, brings none into its blocks. *)
LEMMA OverlayBlocks ==
  ASSUME disk \in Disk, NEW file \in Descriptors, NEW data \in Seq(Slots),
         \A k \in 1 .. Len(data) : ~IsEntry(data[k]),
         NEW n \in Nat \ {0}, NEW j \in Places, IsEntry(BlockOf(Overlay(file, data), n)[j])
  PROVE  LET b == read_chain(disk, file.cluster)
         IN  n \in 1 .. Len(b) /\ BlockOf(Overlay(file, data), n)[j] = disk.data[b[n]][j]
<1> DEFINE over == Overlay(file, data)
           b == read_chain(disk, file.cluster)
           slots == SlotsOf(disk, file.cluster)
           old == read_file(disk, file)
           end == file.pos + Len(data)
           top == Max({end, file.size})
           laid == [i \in 1 .. top |-> IF i \in file.pos + 1 .. end THEN data[i - file.pos]
                                       ELSE IF i <= file.size THEN old[i] ELSE End]
           k == (n - 1) * SlotsPerBlock + j
<1>1. over = IF file.pos = 0 THEN data ELSE laid
  BY Zenon DEF Overlay
<1>2. file.pos \in Nat /\ file.size \in Nat /\ Len(data) \in Nat /\ end \in Nat
  BY DEF Descriptors
<1>3. top \in Nat
  <2>1. top = IF end < file.size THEN file.size ELSE end
    <3> HIDE DEF end
    <3> QED BY <1>2, MaxOf
  <2> QED BY <1>2, <2>1
<1>4. old = [i \in 1 .. file.size |-> IF i <= Len(slots) THEN slots[i] ELSE End]
  BY Zenon DEF read_file
<1>5. /\ over \in Seq(Slots) /\ Len(slots) \in Nat /\ DOMAIN slots = 1 .. Len(slots)
      /\ DOMAIN slots = 1 .. Len(b) * SlotsPerBlock /\ Len(b) \in Nat
      /\ \A i \in DOMAIN slots : BlockAt(i) \in 1 .. Len(b)
  <2>1. over \in Seq(Slots)
    BY OverlayType
  <2>2. /\ slots \in Seq(Slots) /\ Len(slots) \in Nat
        /\ DOMAIN slots = 1 .. Len(b) * SlotsPerBlock
        /\ \A i \in DOMAIN slots : BlockAt(i) \in 1 .. Len(b)
    BY SlotsOfType
  <2>3. DOMAIN slots = 1 .. Len(slots)
    <3> HIDE DEF slots
    <3> QED BY <2>2
  <2>4. Len(b) \in Nat
    BY ChainType
  <2> QED BY <2>1, <2>2, <2>3, <2>4
<1>6. k \in Nat \ {0} /\ BlockAt(k) = n /\ PlaceAt(k) = j
  <2>1. n \in 1 .. n
    OBVIOUS
  <2>2. k \in 1 .. n * SlotsPerBlock /\ BlockAt(k) = n /\ PlaceAt(k) = j
    BY <2>1, PlaceSlot
  <2> QED BY <2>2
<1>7. BlockOf(over, n)[j] = IF k <= Len(over) THEN over[k] ELSE End
  BY DEF BlockOf, Places
<1>8. ~IsEntry(End)
  BY SpecialSlots
<1>9. BlockOf(over, n)[j] = over[k] /\ k \in 1 .. Len(over) /\ IsEntry(over[k])
  <2> HIDE DEF over, k
  <2>1. Len(over) \in Nat
    BY <1>5
  <2> QED BY <1>6, <1>7, <1>8, <2>1 DEF over
<1> HIDE DEF k, slots, old
<1>10. over = laid
  <2>1. over # data
    BY <1>9
  <2> QED BY <1>1, <2>1
<1>11. k \in 1 .. top
  <2>1. DOMAIN over = 1 .. top /\ DOMAIN over = 1 .. Len(over)
    BY <1>3, <1>5, <1>10
  <2> QED BY <1>9, <2>1
<1>12. over[k] = IF k \in file.pos + 1 .. end THEN data[k - file.pos]
                 ELSE IF k <= file.size THEN old[k] ELSE End
  BY <1>10, <1>11
<1>13. k \notin file.pos + 1 .. end
  <2> SUFFICES ASSUME k \in file.pos + 1 .. end PROVE FALSE
    OBVIOUS
  <2>1. k - file.pos \in 1 .. Len(data)
    BY <1>2, <1>6
  <2> QED BY <1>9, <1>12, <2>1
<1>14. k \in 1 .. file.size /\ over[k] = old[k]
  BY <1>2, <1>6, <1>8, <1>9, <1>12, <1>13
<1>15. k \in DOMAIN slots /\ over[k] = slots[k]
  BY <1>4, <1>5, <1>6, <1>8, <1>9, <1>14
<1>16. slots[k] = disk.data[b[n]][j]
  BY <1>6, <1>15, SlotHome DEF HomeOf, slots
<1> QED BY <1>5, <1>6, <1>9, <1>15, <1>16

LEMMA FileRewritten ==
  ASSUME NEW limit, NEW r \in Running(limit), NEW L, Forest(r.disk, L),
         NEW h, Top(r.disk, L, h), NEW over \in Seq(Slots),
         Harmless(r.disk, read_chain(r.disk, h), over)
  PROVE  LET w == write_file_data(r, h, over)
         IN  Rewrites(r.disk, w.disk, w.ok, L, read_chain(r.disk, h))
<1> DEFINE d == r.disk
           b == read_chain(d, h)
           k == Len(b)
           w == write_file_data(r, h, over)
           e == w.disk
<1>0. /\ d \in Disk /\ IsChain(d, h, b) /\ \A i \in 1 .. k : b[i] \in L
      /\ Range(b) = {b[i] : i \in 1 .. k} /\ L \subseteq Clusters
      /\ L \cap FreeClusters(d) = {} /\ FREE \notin Clusters /\ EOC \notin Clusters
  <2>1. IsChain(d, h, b) /\ \A i \in 1 .. k : b[i] \in L
    BY ChainIn DEF Top, Forest
  <2>2. Range(b) = {b[i] : i \in 1 .. k}
    BY ChainType
  <2>3. L \subseteq Clusters /\ L \cap FreeClusters(d) = {}
    BY ForestUsed
  <2> QED BY <2>1, <2>2, <2>3, RunningFields, ClusterFacts
<1>1. PICK m \in Nat : \E cs : FileDataRun(r, h, over, m, cs)
  BY FileDataShape
<1>2. PICK cs : FileDataRun(r, h, over, m, cs)
  BY <1>1
<1>h. Harmless(d, b, over)
  OBVIOUS
<1> DEFINE g == AllocateTimes(r, m)
           y == Min(FreeClusters(d))
           f == WriteBlocks(g, cs, over)
<1>3. /\ g \in Running(limit) /\ g.disk.fat = d.fat
      /\ \A c \in Clusters : g.disk.data[c] = d.data[c] \/ (c = y /\ y \in FreeClusters(d))
      /\ g.ok /\ m # 0 => y \in FreeClusters(d) /\ g.cluster = y /\ g.disk.data[y] = ZeroBlock
  BY Allocate
<1>4. /\ ~g.ok => w = g
      /\ g.ok => /\ cs \in Seq(Clusters) /\ Len(cs) = k + m
                 /\ \A i \in 1 .. k : cs[i] = b[i]
                 /\ \A i \in k + 1 .. Len(cs) : cs[i] = g.cluster
                 /\ w = WriteLinks(f, cs)
  BY <1>2 DEF FileDataRun
<1> HIDE DEF g, y, w, b
<1>5. k \in Nat \ {0} /\ Last(b) = b[k] /\ k \in 1 .. k
  BY <1>0 DEF IsChain, Follows, Last
<1>6. \A c \in L : g.disk.data[c] = d.data[c]
  BY <1>0, <1>3
<1>7. ASSUME ~g.ok PROVE Rewrites(d, e, w.ok, L, b)
  <2>1. Same(d, e, L)
    BY <1>3, <1>4, <1>6, <1>7 DEF Same
  <2> QED BY <1>0, <1>5, <2>1 DEF Rewrites, Same, Thinner
<1>8. ASSUME g.ok PROVE Rewrites(d, e, w.ok, L, b)
  <2>1. \A n \in 1 .. Len(cs) : BlockOf(over, n) \in Blocks
    BY <1>4, <1>8, BlockType
  <2>2. /\ f \in Running(limit) /\ f.disk.fat = d.fat
        /\ \A c \in Clusters :
             \/ f.disk.data[c] = g.disk.data[c]
             \/ \E n \in 1 .. Len(cs) : c = cs[n] /\ f.disk.data[c] = BlockOf(over, n)
    BY <1>3, <1>4, <1>8, <2>1, BlocksWritten
  <2> HIDE DEF f
  <2>3. Linked(f, w, cs)
    BY <1>4, <1>8, <2>2, LinksWritten
  <2>4. e.data = f.disk.data
    BY <2>3 DEF Linked
  <2>5. ASSUME NEW n \in 1 .. Len(cs)
        PROVE  \/ n \in 1 .. k /\ cs[n] = b[n] /\ cs[n] \in L
               \/ n \in k + 1 .. Len(cs) /\ m # 0 /\ cs[n] = y /\ cs[n] \in FreeClusters(d)
    <3>1. Len(cs) = k + m /\ k \in Nat /\ m \in Nat
      BY <1>4, <1>5, <1>8
    <3>2. CASE n <= k
      <4>1. n \in 1 .. k
        BY <3>1, <3>2
      <4> QED BY <1>0, <1>4, <1>8, <4>1
    <3>3. CASE ~(n <= k)
      <4>1. n \in k + 1 .. Len(cs) /\ m # 0
        BY <3>1, <3>3
      <4> QED BY <1>3, <1>4, <1>8, <4>1
    <3> QED BY <3>2, <3>3
  <2>6. ASSUME NEW c \in L
        PROVE  \/ e.data[c] = d.data[c]
               \/ \E n \in 1 .. k : c = b[n] /\ e.data[c] = BlockOf(over, n)
    BY <1>0, <1>6, <2>2, <2>4, <2>5
  <2>7. Thinner(d, e, L)
    <3> SUFFICES ASSUME NEW c \in L, NEW j \in Places, e.data[c] # d.data[c], IsEntry(e.data[c][j])
                 PROVE  e.data[c][j] = d.data[c][j]
      BY DEF Thinner
    <3>1. PICK n \in 1 .. k : c = b[n] /\ e.data[c] = BlockOf(over, n)
      BY <2>6
    <3>2. n \in Nat \ {0}
      BY <1>5
    <3> QED BY <1>h, <3>1, <3>2 DEF Harmless
  <2>8. \A c \in L \ Range(b) : e.data[c] = d.data[c]
    BY <1>0, <2>6
  <2>9. ASSUME NEW c \in L
        PROVE  \/ e.fat[c] = d.fat[c]
               \/ c = b[k] /\ m = 0 /\ e.fat[c] = EOC
               \/ c = b[k] /\ m # 0 /\ e.fat[c] = y
    <3> SUFFICES ASSUME e.fat[c] # d.fat[c]
                 PROVE  c = b[k] /\ ((m = 0 /\ e.fat[c] = EOC) \/ (m # 0 /\ e.fat[c] = y))
      OBVIOUS
    <3>1. PICK n \in 1 .. Len(cs) : c = cs[n] /\ e.fat[c] = NextOf(cs, n)
      BY <1>0, <2>2, <2>3 DEF Linked
    <3>2. n \in 1 .. k /\ cs[n] = b[n] /\ Len(cs) = k + m
      BY <1>0, <1>4, <1>8, <2>5, <3>1
    <3>3. CASE n # k
      <4>1. n \in 1 .. k - 1 /\ n + 1 \in 1 .. k /\ n < Len(cs)
        BY <1>5, <3>2, <3>3
      <4>2. b[n + 1] = d.fat[b[n]]
        BY <1>0, <4>1 DEF IsChain, Follows
      <4>3. e.fat[c] = b[n + 1]
        BY <1>4, <1>8, <3>1, <4>1 DEF NextOf
      <4> QED BY <3>1, <3>2, <4>2, <4>3
    <3>4. CASE n = k /\ m = 0
      <4>1. ~(n < Len(cs))
        BY <1>5, <3>2, <3>4
      <4> QED BY <3>1, <3>2, <3>4, <4>1 DEF NextOf
    <3>5. CASE n = k /\ m # 0
      <4>1. n < Len(cs) /\ n + 1 \in k + 1 .. Len(cs)
        BY <1>5, <3>2, <3>5
      <4>2. cs[n + 1] = y
        BY <1>3, <1>4, <1>8, <3>5, <4>1
      <4> QED BY <3>1, <3>2, <3>5, <4>1, <4>2 DEF NextOf
    <3> QED BY <3>3, <3>4, <3>5
  <2>10. \A z \in L : z # Last(b) => e.fat[z] = d.fat[z]
    BY <1>5, <2>9
  <2>11. Same(d, e, L \ Range(b))
    BY <1>0, <1>5, <2>8, <2>10 DEF Same
  <2>12. CASE e.fat[b[k]] \in {d.fat[b[k]], EOC}
    BY <1>5, <2>7, <2>10, <2>11, <2>12 DEF Rewrites
  <2>13. CASE ~(e.fat[b[k]] \in {d.fat[b[k]], EOC})
    <3>1. m # 0 /\ e.fat[b[k]] = y
      BY <1>0, <1>5, <2>9, <2>13
    <3>2. y \in FreeClusters(d) /\ y \in Clusters /\ y \notin L /\ g.disk.data[y] = ZeroBlock
          /\ d.fat[y] = FREE /\ g.cluster = y
      BY <1>0, <1>3, <1>8, <3>1 DEF FreeClusters
    <3>3. Plain(e.data[y])
      <4>1. CASE e.data[y] = ZeroBlock
        BY <4>1, SpecialSlots DEF Plain
      <4>2. CASE e.data[y] # ZeroBlock
        <5>1. PICK n \in 1 .. Len(cs) : y = cs[n] /\ e.data[y] = BlockOf(over, n)
          BY <2>2, <2>4, <3>2, <4>2
        <5>2. n \in k + 1 .. Len(cs)
          BY <2>5, <3>2, <5>1
        <5>3. n \in Nat \ {0} /\ n \notin 1 .. k
          BY <1>5, <5>2
        <5> QED BY <1>h, <5>1, <5>3 DEF Harmless, Plain
      <4> QED BY <4>1, <4>2
    <3>4. ASSUME NEW n \in 1 .. Len(cs), y = cs[n] PROVE NextOf(cs, n) \in {EOC, y}
      <4>1. n \in k + 1 .. Len(cs) /\ Len(cs) \in Nat
        BY <1>4, <1>5, <1>8, <2>5, <3>2, <3>4
      <4>2. n < Len(cs) => n + 1 \in k + 1 .. Len(cs)
        BY <1>5, <4>1
      <4> QED BY <1>4, <1>8, <3>2, <4>2 DEF NextOf
    <3>5. e.fat[y] \in {FREE, EOC, y}
      BY <2>2, <2>3, <3>2, <3>4 DEF Linked
    <3>6. ASSUME w.ok PROVE e.fat[y] # FREE
      <4>1. k + 1 \in 1 .. Len(cs) /\ cs[k + 1] = y
        <5>1. Len(cs) = k + m /\ k \in Nat /\ m \in Nat
          BY <1>4, <1>5, <1>8
        <5>2. k + 1 \in 1 .. Len(cs) /\ k + 1 \in k + 1 .. Len(cs)
          BY <3>1, <5>1
        <5> QED BY <1>4, <1>8, <3>2, <5>2
      <4>2. PICK n \in 1 .. Len(cs) : y = cs[n] /\ e.fat[y] = NextOf(cs, n)
        BY <2>3, <3>6, <4>1 DEF Linked
      <4> QED BY <1>0, <3>2, <3>4, <4>2, ClusterFacts
    <3> QED BY <1>5, <2>7, <2>10, <2>11, <3>1, <3>2, <3>3, <3>5, <3>6 DEF Rewrites
  <2> QED BY <2>12, <2>13
<1>9. Rewrites(d, e, w.ok, L, b)
  BY <1>7, <1>8
<1> QED BY <1>9 DEF b, w

LEMMA RewrittenForest ==
  ASSUME NEW d, NEW e, NEW done, NEW L, Forest(d, L), NEW h, Top(d, L, h),
         Rewrites(d, e, done, L, read_chain(d, h))
  PROVE  RewriteOutcome(e, done, L, h)
<1> DEFINE b == read_chain(d, h)
           l == Last(b)
<1>0. l \in L /\ d.fat[l] \in {EOC, l} /\ L \subseteq Clusters
  BY ChainEnd DEF Forest, ForestTable
<1>1. /\ Thinner(d, e, L) /\ \A z \in L : z # l => e.fat[z] = d.fat[z]
      /\ \/ e.fat[l] \in {d.fat[l], EOC}
         \/ \E y \in Clusters \ L :
              /\ e.fat[l] = y /\ Plain(e.data[y])
              /\ e.fat[y] \in {FREE, EOC, y} /\ (done => e.fat[y] # FREE)
  BY DEF Rewrites
<1>2. EOC \notin Clusters /\ FREE \notin Clusters
  BY ClusterFacts
<1> HIDE DEF l
<1>3. \A z \in L : d.fat[z] \in L \cup {EOC}
  BY DEF Forest, ForestTable
<1>4. CASE e.fat[l] \in {d.fat[l], EOC}
  <2>1. ASSUME NEW z \in L
        PROVE  e.fat[z] \in L \cup {EOC} /\ \A x \in L : Links(e, z, x) <=> Links(d, z, x)
    BY <1>0, <1>1, <1>2, <1>3, <1>4 DEF Links
  <2>2. Forest(e, L)
    BY <1>1, <2>1, ForestThinner
  <2> DEFINE none == {}
  <2>3. Forest(e, L \cup none) /\ \A z \in none : Plain(e.data[z])
    BY <2>2
  <2> HIDE DEF none
  <2> QED BY <2>3 DEF RewriteOutcome
<1>5. ASSUME NEW y \in Clusters \ L, e.fat[l] = y, Plain(e.data[y]),
             e.fat[y] \in {FREE, EOC, y}, done => e.fat[y] # FREE
      PROVE  RewriteOutcome(e, done, L, h)
  <2>1. CASE e.fat[y] = FREE
    <3>1. Extended(d, e, L, h, y)
      BY <1>1, <1>2, <1>5, <2>1 DEF Extended, l
    <3>2. read_chain(e, h) = Append(b, y)
      BY <3>1, ChainGrown
    <3>3. b \in Seq(Clusters) /\ Len(b) \in Nat
      BY ChainType
    <3> HIDE DEF b
    <3>4. Append(b, y)[Len(b) + 1] = y /\ Len(b) + 1 \in DOMAIN Append(b, y)
      BY <3>3
    <3>5. y \in Range(read_chain(e, h))
      BY <3>2, <3>4 DEF Range
    <3> QED BY <1>5, <2>1, <3>5 DEF RewriteOutcome
  <2>2. CASE e.fat[y] \in {EOC, y}
    <3> DEFINE m == [fat |-> d.fat, data |-> e.data]
    <3>1. m.fat = d.fat /\ m.data = e.data
      OBVIOUS
    <3> HIDE DEF m
    <3>2. Thinner(d, m, L)
      BY <1>1, <3>1 DEF Thinner
    <3>3. \A z \in L : m.fat[z] \in L \cup {EOC} /\ \A x \in L : Links(m, z, x) <=> Links(d, z, x)
      BY <1>3, <3>1 DEF Links
    <3>4. Forest(m, L)
      BY <3>2, <3>3, ForestThinner
    <3>5. Same(m, e, L \ {l}) /\ m.fat[l] \in {EOC, l} /\ e.data[l] = m.data[l]
      BY <1>0, <1>1, <3>1 DEF Same
    <3>6. Forest(e, L \cup {y})
      BY <1>0, <1>5, <2>2, <3>4, <3>5, ForestGrow
    <3> DEFINE D == {y}
    <3>7. Forest(e, L \cup D) /\ \A z \in D : Plain(e.data[z])
      BY <1>5, <3>6
    <3> HIDE DEF D
    <3> QED BY <3>7 DEF RewriteOutcome
  <2> QED BY <1>5, <2>1, <2>2
<1> QED BY <1>1, <1>4, <1>5

(* The directories are apart from the file that is written. *)
LEMMA TidyRewritten ==
  ASSUME NEW d \in Disk, NEW e \in Disk, NEW L, Forest(d, L), Tidy(d, L),
         NEW c \in L, NEW j \in Places, EntryIn(d, c, j), d.data[c][j].kind = "file",
         NEW h, h = HeadIn(d, c, j), h # 0, Thinner(d, e, L),
         Same(d, e, L \ Range(read_chain(d, h))), NEW D, \A z \in D : Plain(e.data[z])
  PROVE  Tidy(e, L \cup D)
<1> SUFFICES ASSUME NEW x, IsDirectory(e, L \cup D, x) PROVE Orderly(SlotsOf(e, x))
  BY DEF Tidy
<1>1. CASE x = 0
  BY <1>1, OrderlyNone
<1>2. CASE x # 0
  <2>0. Top(d, L, h) /\ h # Root
    BY DEF Forest, ForestEntries
  <2>1. IsDirectory(d, L, x) /\ x # h
    <3>1. CASE x = Root
      BY <2>0, <3>1 DEF IsDirectory
    <3>2. CASE x # Root
      <4>1. PICK z \in L \cup D, k \in Places :
              EntryIn(e, z, k) /\ e.data[z][k].kind = "dir" /\ x = HeadIn(e, z, k)
        BY <3>2 DEF IsDirectory
      <4>2. z \in L
        BY <4>1 DEF Plain, EntryIn
      <4>3. e.data[z][k] = d.data[z][k]
        BY <4>1, <4>2 DEF Thinner, EntryIn
      <4>4. EntryIn(d, z, k) /\ d.data[z][k].kind = "dir" /\ x = HeadIn(d, z, k)
        BY <4>1, <4>3 DEF EntryIn, HeadIn
      <4>5. x # h
        BY <1>2, <4>2, <4>4 DEF Forest, ForestEntries
      <4> QED BY <4>2, <4>4, <4>5 DEF IsDirectory
    <3> QED BY <3>1, <3>2
  <2>2. Range(read_chain(d, x)) \subseteq L /\ Top(d, L, x)
    BY <1>2, <2>1, DirectoryIn, DirectoryTop
  <2>3. \A z \in Range(read_chain(d, x)) : z \notin Range(read_chain(d, h))
    BY <2>0, <2>1, <2>2, ChainsApart DEF Forest
  <2>4. Same(d, e, Range(read_chain(d, x)))
    BY <2>2, <2>3 DEF Same
  <2>5. Orderly(SlotsOf(d, x))
    BY <2>1 DEF Tidy
  <2> QED BY <2>4, <2>5, OrderlyKept
<1> QED BY <1>1, <1>2

(* An entry gets another size. *)
LEMMA ForestSized ==
  ASSUME NEW d \in Disk, NEW L, Forest(d, L), NEW path \in Seq(Names), path # <<>>,
         NEW size \in Nat, NEW e, Resized(d, e, path, size)
  PROVE  /\ e \in Disk /\ Forest(e, L) /\ (Tidy(d, L) => Tidy(e, L))
         /\ Room(d, L) /\ Fits(d, [EntryAt(d, path) EXCEPT !.size = size]) => Room(e, L)
<1>1. CASE e = d
  BY <1>1
<1>2. CASE e # d
  <2> DEFINE s == ParentCluster(d, path)
             up == Front(path)
  <2>0. HasParent(d, path)
    BY <1>2 DEF Resized
  <2>1. PICK k \in DOMAIN SlotsOf(d, s) :
          /\ IsEntry(SlotsOf(d, s)[k]) /\ SlotsOf(d, s)[k] = find_entry(d, s, Last(path))
          /\ e = SetSlot(d, HomeOf(d, s, k), PlaceAt(k), [SlotsOf(d, s)[k] EXCEPT !.size = size])
    BY <1>2 DEF Resized
  <2>2. s = 0 \/ Top(d, L, s)
    <3>1. up \in Seq(Names)
      BY EntryAtStep
    <3>2. EntryAt(d, up) # End /\ s = EntryAt(d, up).cluster
      BY <2>0 DEF HasParent, ParentCluster
    <3> HIDE DEF up
    <3> QED BY <3>1, <3>2, PathHead DEF Headed
  <2>e. EntryAt(d, path) = SlotsOf(d, s)[k]
    BY <2>0, <2>1, EntryAtStep DEF HasParent, ParentCluster
  <2> HIDE DEF s
  <2> DEFINE c == HomeOf(d, s, k)
             j == PlaceAt(k)
             old == SlotsOf(d, s)[k]
             slot == [old EXCEPT !.size = size]
  <2>3. /\ s \in Clusters /\ c \in Range(read_chain(d, s)) /\ c \in Clusters /\ j \in Places
        /\ old = d.data[c][j]
    BY SlotHome
  <2>4. Top(d, L, s) /\ c \in L
    <3>1. Top(d, L, s)
      BY <2>2, <2>3, ClusterFacts
    <3> QED BY <2>3, <3>1, ChainIn DEF Top, Forest
  <2>5. IsEntry(old) /\ e = SetSlot(d, c, j, slot) /\ old = EntryAt(d, path)
    BY <2>1, <2>e
  <2> HIDE DEF c, j, old
  <2>6. old \in Slots
    BY <2>3, DiskFields DEF Blocks
  <2>7. /\ slot \in Slots /\ slot.kind = old.kind /\ slot.name = old.name
        /\ slot.cluster = old.cluster
    BY <2>6 DEF Slots
  <2>s. slot = [EntryAt(d, path) EXCEPT !.size = size]
    BY <2>5
  <2> HIDE DEF slot
  <2>8. e \in Disk /\ Changed(d, e, Clusters, c, j, slot) /\ e.fat = d.fat
    BY <2>3, <2>5, <2>7, SlotSet
  <2>9. Changed(d, e, L, c, j, slot)
    BY <2>8 DEF Changed, Forest, ForestTable
  <2>10. /\ \A z \in L : e.fat[z] = d.fat[z]
         /\ \A z \in L, i \in Places : /\ EntryIn(e, z, i) <=> EntryIn(d, z, i)
                                       /\ HeadIn(e, z, i) = HeadIn(d, z, i)
                                       /\ e.data[z][i].kind = d.data[z][i].kind
    BY <2>3, <2>7, <2>9 DEF Changed, EntryIn, HeadIn, IsEntry
  <2>11. Forest(e, L)
    <3>1. \A a \in L : \A z : Links(e, a, z) <=> Links(d, a, z)
      BY <2>10 DEF Links
    <3>2. \A x : Top(e, L, x) <=> Top(d, L, x)
      BY <3>1 DEF Top
    <3>3. ForestTable(e, L)
      BY <2>10, <3>1, <3>2 DEF Forest, ForestTable
    <3>4. ForestEntries(e, L)
      BY <2>10, <3>2 DEF Forest, ForestEntries
    <3> QED BY <3>3, <3>4 DEF Forest
  <2>12. ASSUME Tidy(d, L), NEW x, IsDirectory(e, L, x) PROVE Orderly(SlotsOf(e, x))
    <3>1. IsDirectory(d, L, x)
      BY <2>10, <2>12 DEF IsDirectory
    <3>2. Orderly(SlotsOf(d, x)) /\ Range(read_chain(d, x)) \subseteq L
      BY <2>12, <3>1, DirectoryIn DEF Tidy
    <3>3. Changed(d, e, Range(read_chain(d, x)), c, j, slot)
      BY <2>9, <3>2 DEF Changed
    <3>4. EntryIn(d, c, j) /\ slot # End /\ slot.name = d.data[c][j].name
      BY <2>3, <2>5, <2>7, SpecialSlots DEF EntryIn, IsEntry
    <3> QED BY <2>8, <3>2, <3>3, <3>4, OrderlyChanged
  <2>13. ASSUME Room(d, L), Fits(d, slot) PROVE Room(e, L)
    <3> DEFINE none == {}
    <3>1. L \cup none = L /\ none \cap L = {} /\ \A z \in none : Plain(e.data[z])
      OBVIOUS
    <3>2. Fits(e, slot)
      BY <2>8, <2>13 DEF Fits
    <3> HIDE DEF none
    <3>3. Forest(e, L \cup none)
      BY <2>11, <3>1
    <3>4. Room(e, L \cup none)
      BY <2>9, <2>13, <3>1, <3>2, <3>3, RoomChanged
    <3> QED BY <3>1, <3>4
  <2> QED BY <2>8, <2>11, <2>12, <2>13, <2>s DEF Tidy
<1> QED BY <1>1, <1>2

(* The rewritten file and all others have room. *)
LEMMA RoomRewritten ==
  ASSUME NEW d, NEW e, NEW done, NEW L, Forest(d, L), Room(d, L), NEW h, Top(d, L, h),
         Rewrites(d, e, done, L, read_chain(d, h)),
         NEW D, Forest(e, L \cup D), \A z \in D : Plain(e.data[z])
  PROVE  Room(e, L \cup D)
<1> DEFINE M == L \cup D
           l == Last(read_chain(d, h))
<1>1. d.fat[l] \in {EOC, l} /\ EOC \notin Clusters
  BY ChainEnd, ClusterFacts DEF Forest
<1>2. Thinner(d, e, L) /\ \A z \in L : z # l => e.fat[z] = d.fat[z]
  BY DEF Rewrites
<1> HIDE DEF l
<1>3. \A z \in L \cap M : d.fat[z] \in Clusters \ {z} => e.fat[z] = d.fat[z]
  BY <1>1, <1>2
<1>4. ASSUME NEW c \in M, NEW j \in Places, EntryIn(e, c, j)
      PROVE  c \in L /\ e.data[c][j] = d.data[c][j]
  <2>1. c \in L
    BY <1>4 DEF Plain, EntryIn
  <2> QED BY <1>2, <1>4, <2>1 DEF Thinner, EntryIn
<1>5. Forest(e, M)
  OBVIOUS
<1> HIDE DEF M
<1>6. Room(e, M)
  BY <1>3, <1>4, <1>5, RoomKept
<1> QED BY <1>6 DEF M

(* What a descriptor writes is at least as long as the size it records, or *)
(* the file was that long before.                                          *)
LEMMA OverlayLength ==
  ASSUME disk \in Disk, NEW file \in Descriptors, NEW data \in Seq(Slots)
  PROVE  LET size == Max({file.pos + Len(data), file.size})
         IN  Len(Overlay(file, data)) >= size \/ size = file.size
<1> DEFINE over == Overlay(file, data)
           old == read_file(disk, file)
           end == file.pos + Len(data)
           top == Max({end, file.size})
           laid == [i \in 1 .. top |-> IF i \in file.pos + 1 .. end THEN data[i - file.pos]
                                       ELSE IF i <= file.size THEN old[i] ELSE End]
<1>1. over = IF file.pos = 0 THEN data ELSE laid
  BY Zenon DEF Overlay
<1>2. file.pos \in Nat /\ file.size \in Nat /\ Len(data) \in Nat /\ end \in Nat
  BY DEF Descriptors
<1>3. top \in Nat /\ top = IF end < file.size THEN file.size ELSE end
  BY <1>2, MaxOf
<1>4. over \in Seq(Slots)
  BY OverlayType
<1>5. CASE file.pos = 0
  <2>1. end = Len(data) /\ over = data
    BY <1>1, <1>2, <1>5
  <2> HIDE DEF over
  <2>2. Len(over) >= top \/ top = file.size
    BY <1>2, <1>3, <2>1
  <2> QED BY <2>2 DEF over
<1>6. CASE file.pos # 0
  <2>1. DOMAIN over = 1 .. top
    BY <1>1, <1>6
  <2> HIDE DEF over, top
  <2>2. Len(over) = top
    BY <1>3, <1>4, <2>1
  <2>3. Len(over) >= top
    BY <1>3, <2>2
  <2> QED BY <2>3 DEF over, top
<1> QED BY <1>5, <1>6

(* A chain of a forest that holds more than a block is linked. *)
LEMMA LongChain ==
  ASSUME NEW d \in Disk, NEW L, Forest(d, L), NEW h, Top(d, L, h),
         Len(SlotsOf(d, h)) > SlotsPerBlock
  PROVE  d.fat[h] \in Clusters \ {h} /\ h # Last(read_chain(d, h))
<1> DEFINE b == read_chain(d, h)
           k == Len(b)
<1>1. IsChain(d, h, b) /\ \A i \in 1 .. k : b[i] \in L
  BY ChainIn DEF Top, Forest
<1>2. /\ k \in Nat \ {0} /\ b[1] = h /\ Last(b) = b[k]
      /\ \A i \in 1 .. k - 1 : b[i + 1] = d.fat[b[i]]
      /\ \A i, j \in 1 .. k : b[i] = b[j] => i = j
  BY <1>1 DEF IsChain, Follows, Last
<1>3. Len(SlotsOf(d, h)) = k * SlotsPerBlock
  BY SlotsOfType
<1>4. L \subseteq Clusters
  BY ForestUsed
<1> HIDE DEF b, k
<1>5. k # 1
  BY <1>3, Fat32Assumption
<1>6. 1 \in 1 .. k - 1 /\ 1 \in 1 .. k /\ 2 \in 1 .. k /\ k \in 1 .. k
  BY <1>2, <1>5
<1>7. b[2] = d.fat[h] /\ b[2] \in Clusters /\ b[2] # h /\ b[k] # h
  BY <1>1, <1>2, <1>4, <1>5, <1>6
<1> QED BY <1>2, <1>7 DEF b

(* A write through a descriptor that owns its file. *)
LEMMA WriteOpenForest ==
  ASSUME ShellInv, view = Survey(disk), NEW file \in file_table, NEW text \in Data,
         NEW limit \in Limits, WriteOpen(file, [i \in DOMAIN text |-> Text(text[i])], limit),
         file.pos + Len([i \in DOMAIN text |-> Text(text[i])]) <= MaxSize,
         Bounded => file.size <= 2 * SlotsPerBlock,
         Owns(disk, file), NEW L, Forest(disk, L)
  PROVE  ForestFrom(L) \/ damaged'
<1> DEFINE data == [i \in DOMAIN text |-> Text(text[i])]
           over == Overlay(file, data)
           h == file.cluster
           path == file.path
           start == Started(disk, limit)
           w == write_file_data(start, h, over)
           pos == file.pos + Len(data)
           size == Max({pos, file.size})
           q == IF size = 0 THEN w ELSE update_file_size(w, path, size)
           b == read_chain(disk, h)
<1>0. TypeOK /\ FilesOK(file_table, next_fd)
  BY ShellInvParts
<1>1. limit \in Int /\ disk \in Disk /\ file \in Descriptors
  BY <1>0, LimitFacts DEF TypeOK, FilesOK
<1>2. path \in Paths /\ path \in Seq(Names) /\ path # <<>>
  <2>1. path \in Paths
    BY <1>1 DEF Descriptors
  <2> HIDE DEF path
  <2> QED BY <2>1, PathFacts
<1>3. data \in Seq(Slots) /\ Len(data) \in Nat /\ \A k \in 1 .. Len(data) : ~IsEntry(data[k])
  <2>1. text \in Seq(Texts)
    BY ShellAssumption
  <2> QED BY <2>1, TextData
<1>4. Finish(q) /\ pos <= MaxSize
  BY Zenon DEF WriteOpen
<1> HIDE DEF data
<1>a. /\ Len(over) >= size \/ size = file.size
      /\ pos \in Nat /\ file.size \in Nat /\ size = IF pos < file.size THEN file.size ELSE pos
  <2>1. Len(over) >= size \/ size = file.size
    BY <1>1, <1>3, OverlayLength
  <2>2. pos \in Nat /\ file.size \in Nat
    BY <1>1, <1>3 DEF Descriptors
  <2> HIDE DEF pos
  <2> QED BY <2>1, <2>2, MaxOf
<1>b. file.size <= Len(SlotsOf(disk, h))
  BY DEF Owns
<1>c. Bounded => size <= 2 * SlotsPerBlock
  <2>1. SlotsPerBlock \in Nat /\ MaxSize \in Nat
    BY Fat32Assumption, ShellAssumption
  <2> HIDE DEF pos, size
  <2> QED BY <1>4, <1>a, <2>1 DEF Bounded
<1>5. size \in Nat
  <2>1. pos \in Nat /\ file.size \in Nat
    BY <1>1, <1>3 DEF Descriptors
  <2> HIDE DEF pos
  <2> QED BY <2>1, MaxOf
<1>6. start \in Running(limit) /\ start.disk = disk
  BY <1>1, StartedType
<1>7. over \in Seq(Slots)
  BY <1>1, <1>3, OverlayType
<1>8. EntryAt(disk, path).kind = "file" /\ EntryAt(disk, path).cluster = h /\ h \in Clusters
  BY DEF Owns
<1> HIDE DEF size, path
<1>9. /\ EntryAt(disk, path) # End /\ EntryAt(disk, path).cluster # 0 /\ h # 0
      /\ Top(disk, L, h)
  <2>1. EntryAt(disk, path) # End /\ h # 0
    BY <1>8, SpecialSlots, ClusterFacts
  <2> HIDE DEF h
  <2> QED BY <1>1, <1>2, <1>8, <2>1, PathHead DEF Headed
<1>10. Harmless(disk, b, over)
  BY <1>1, <1>3, OverlayBlocks DEF Harmless
<1> HIDE DEF over, h, start
<1>11. Rewrites(disk, w.disk, w.ok, L, b)
  BY <1>6, <1>7, <1>9, <1>10, FileRewritten
<1>12. w \in Running(limit) /\ w.disk \in Disk
  BY <1>6, <1>7, FileDataType, RunningFields
<1>d. ASSUME size > SlotsPerBlock, w.ok PROVE w.disk.fat[h] \in Clusters \ {h}
  <2>1. SlotsPerBlock \in Nat /\ Len(over) \in Nat /\ Len(SlotsOf(disk, h)) \in Nat
    BY <1>1, <1>7, SlotsOfType, Fat32Assumption
  <2>2. CASE Len(over) > SlotsPerBlock
    <3>1. start.disk.fat[h] # FREE
      BY <1>6, <1>9, ForestUsed DEF Top
    <3> QED BY <1>6, <1>7, <1>8, <1>d, <2>2, <3>1, FileLinked
  <2>3. CASE ~(Len(over) > SlotsPerBlock)
    <3>1. Len(SlotsOf(disk, h)) > SlotsPerBlock
      <4> HIDE DEF pos
      <4> QED BY <1>5, <1>a, <1>b, <1>d, <2>1, <2>3
    <3>2. disk.fat[h] \in Clusters \ {h} /\ h # Last(b) /\ h \in L
      BY <1>1, <1>9, <3>1, LongChain DEF Top
    <3> HIDE DEF w, b
    <3>3. w.disk.fat[h] = disk.fat[h]
      BY <1>11, <3>2 DEF Rewrites
    <3> QED BY <3>2, <3>3
  <2> QED BY <2>2, <2>3
<1> HIDE DEF w
<1>e. EntryAt(w.disk, path) = EntryAt(disk, path)
  <2>1. Same(disk, w.disk, L \ Range(read_chain(disk, EntryAt(disk, path).cluster)))
    BY <1>8, <1>11 DEF Rewrites, b
  <2> QED BY <1>1, <1>2, <1>9, <1>12, <2>1, PathKept
<1>f. ASSUME Bounded, w.ok PROVE Fits(w.disk, [EntryAt(w.disk, path) EXCEPT !.size = size])
  <2>1. EntryAt(disk, path) \in Slots
    BY <1>1, <1>2, EntryAtType
  <2> DEFINE slot == [EntryAt(w.disk, path) EXCEPT !.size = size]
  <2>2. slot.cluster = h /\ slot.size = size
    BY <1>8, <1>e, <2>1 DEF Slots
  <2> HIDE DEF slot
  <2>3. Fits(w.disk, slot)
    BY <1>9, <1>c, <1>d, <1>f, <2>2 DEF Fits
  <2> QED BY <2>3 DEF slot
<1>13. RewriteOutcome(w.disk, w.ok, L, h)
  BY <1>9, <1>11, RewrittenForest
<1>14. /\ q \in Running(limit) /\ (~w.ok => q = w)
       /\ Resized(w.disk, q.disk, path, size)
  <2>1. CASE size = 0
    BY <1>12, <2>1 DEF Resized
  <2>2. CASE size # 0
    <3>1. q = update_file_size(w, path, size)
      BY <2>2
    <3> HIDE DEF q
    <3> QED BY <1>5, <1>12, <3>1, SizeUpdated
  <2> QED BY <2>1, <2>2
<1> HIDE DEF q
<1>15. ASSUME NEW D, Forest(w.disk, L \cup D), \A z \in D : Plain(w.disk.data[z])
       PROVE  ForestFrom(L)
  <2> DEFINE M == L \cup D
  <2>1. ASSUME Tidy(disk, L) PROVE Tidy(w.disk, M)
    <3>1. PICK c \in L, j \in Places : PathSlot(disk, path, c, j)
      BY <1>1, <1>2, <1>9, ParentHead
    <3>2. EntryIn(disk, c, j) /\ disk.data[c][j].kind = "file" /\ h = HeadIn(disk, c, j)
      BY <1>8, <3>1 DEF PathSlot, HeadIn
    <3>3. Thinner(disk, w.disk, L) /\ Same(disk, w.disk, L \ Range(read_chain(disk, h)))
      BY <1>11 DEF Rewrites
    <3> QED BY <1>1, <1>9, <1>12, <1>15, <2>1, <3>2, <3>3, TidyRewritten
  <2>2. Forest(w.disk, M)
    BY <1>15
  <2> HIDE DEF M
  <2>3. /\ Forest(q.disk, M) /\ (Tidy(w.disk, M) => Tidy(q.disk, M))
        /\ Room(w.disk, M) /\ Fits(w.disk, [EntryAt(w.disk, path) EXCEPT !.size = size]) =>
             Room(q.disk, M)
    BY <1>2, <1>5, <1>12, <1>14, <2>2, ForestSized
  <2>4. disk' = q.disk
    BY <1>4 DEF Finish
  <2>5. ASSUME Room(disk, L) PROVE Room(w.disk, M)
    BY <1>9, <1>11, <1>15, <2>5, RoomRewritten DEF M
  <2>6. ASSUME Bounded, Room(disk, L) PROVE Room(q.disk, M)
    <3>1. CASE w.ok
      BY <1>f, <2>3, <2>5, <2>6, <3>1
    <3>2. CASE ~w.ok
      BY <1>14, <2>5, <2>6, <3>2
    <3> QED BY <3>1, <3>2
  <2> QED BY <2>1, <2>3, <2>4, <2>6 DEF ForestFrom
<1>16. ASSUME ~w.ok, NEW y \in Range(read_chain(w.disk, h)), w.disk.fat[y] = FREE
       PROVE  damaged'
  <2>1. q = w
    BY <1>14, <1>16
  <2>2. y \in Range(read_chain(q.disk, EntryAt(q.disk, path).cluster)) /\ q.disk.fat[y] = FREE
    BY <1>8, <1>16, <1>e, <2>1
  <2>3. q.disk \in Disk
    BY <1>12, <2>1
  <2> QED BY <1>2, <1>4, <2>2, <2>3, DamageSeen
<1> QED BY <1>13, <1>15, <1>16 DEF RewriteOutcome

(* A file that open creates. *)
LEMMA OpenNewForest ==
  ASSUME TypeOK, view = Survey(disk), NEW path \in Paths, HasParent(disk, path),
         EntryAt(disk, path) = End, NEW mode, NEW limit \in Limits,
         OpenNew(path, mode, limit), NEW L, Forest(disk, L)
  PROVE  Lands(L)
<1> DEFINE none == <<>>
           s == ParentCluster(disk, path)
           start == Started(disk, limit)
           new == allocate_and_write(start, none)
           entry == Slot("file", Stored[Last(path)], new.cluster, 0)
<1>1. limit \in Int /\ disk \in Disk
  BY LimitFacts DEF TypeOK
<1>2. start \in Running(limit) /\ start.disk = disk
  BY <1>1, StartedType
<1>3. none \in Seq(Slots) /\ \A k \in 1 .. Len(none) : ~IsEntry(none[k])
  OBVIOUS
<1>4. Finish(add_entry(new, s, entry))
  BY DEF OpenNew
<1> HIDE DEF none, start
<1>5. new \in Running(limit) /\ \E P : Allocates(disk, new, P)
  BY <1>2, <1>3, AllocateAndWrite
<1> HIDE DEF new, s
<1>6. entry \in Slots /\ IsEntry(entry) /\ entry.cluster = new.cluster
  <2>1. new.cluster \in Clusters \cup {0}
    BY <1>5, RunningFields
  <2> QED BY <2>1, NewEntryType
<1>7. entry.name = Stored[Last(path)] /\ Fits(new.disk, entry)
  BY Fat32Assumption DEF Slot, Fits
<1> HIDE DEF entry
<1>8. ForestOrWindow(L)
  BY <1>4, <1>5, <1>6, <1>7, NewForest DEF s
<1> QED BY <1>4, <1>8 DEF Lands

(* A step of the shell leaves the volume alone or ends an operation. *)
LEMMA ShellRecords ==
  ASSUME ShellNext
  PROVE  (Stays \/ \E r : Finish(r)) /\ (strayed => strayed')
<1> DEFINE R == Stays \/ \E r : Finish(r)
<1>1. Refuse => R
  BY DEF Refuse, Stays
<1>2. ASSUME NEW path, NEW content, create_file(path, content) PROVE R
  <2>1. Refuse \/ \E r : Finish(r)
    BY <1>2, Zenon DEF create_file, Overwrite, Create
  <2> QED BY <1>1, <2>1
<1>3. ASSUME NEW path, mkdir(path) PROVE R
  <2>1. Refuse \/ \E r : Finish(r)
    BY <1>3, Zenon DEF mkdir, MakeDirectory
  <2> QED BY <1>1, <2>1
<1>4. ASSUME NEW path, delete(path) PROVE R
  <2>1. Refuse \/ \E r : Finish(r)
    BY <1>4, Zenon DEF delete, Delete
  <2> QED BY <1>1, <2>1
<1>5. UNCHANGED <<disk, faults, view, damaged>> => R
  BY DEF Stays
<1> HIDE DEF R
<1>6. Command => strayed' = strayed
  BY DEF Command, OpenFilesUnchanged
<1>7. ASSUME process_command PROVE R /\ strayed' = strayed
  <2>1. ASSUME NEW arg, cmd_touch(arg) PROVE R /\ Command
    BY <1>1, <1>2, <2>1, Zenon DEF cmd_touch
  <2>2. ASSUME NEW arg, cmd_rm(arg) PROVE R /\ Command
    BY <1>1, <1>4, <2>2, Zenon DEF cmd_rm
  <2>3. ASSUME NEW path, cmd_mkdir(path) PROVE R /\ Command
    BY <1>3, <2>3 DEF cmd_mkdir
  <2>4. ASSUME NEW path, cmd_write(path) PROVE R /\ Command
    BY <1>2, <2>4 DEF cmd_write
  <2>5. ASSUME NEW path, ChangeTo(path) PROVE R
    BY <1>5, <2>5 DEF ChangeTo
  <2>6. ASSUME cmd_cd PROVE R /\ strayed' = strayed
    <3>1. R
      BY <2>5, <2>6, Zenon DEF cmd_cd
    <3>2. strayed' = strayed
      BY <2>6 DEF cmd_cd, OpenFilesUnchanged
    <3> QED BY <3>1, <3>2
  <2> QED BY <1>6, <1>7, <2>1, <2>2, <2>3, <2>4, <2>6 DEF process_command
<1>8. ASSUME NEW arg, NEW mode, open(arg, mode) PROVE R /\ strayed' = strayed
  <2>1. \/ OpenExisting(canonicalize(arg), mode)
        \/ \E limit : OpenNew(canonicalize(arg), mode, limit)
        \/ Refuse
    BY <1>8, Zenon DEF open
  <2>2. strayed' = strayed
    BY <1>8, Zenon DEF open
  <2>3. ASSUME NEW path, OpenExisting(path, mode) PROVE R
    <3>1. Refuse \/ UNCHANGED <<disk, faults, view, damaged>>
      BY <2>3, Zenon DEF OpenExisting
    <3> QED BY <1>1, <1>5, <3>1
  <2>4. ASSUME NEW path, NEW limit, OpenNew(path, mode, limit) PROVE R
    <3>1. \E r : Finish(r)
      BY <2>4 DEF OpenNew
    <3> QED BY <3>1 DEF R
  <2> QED BY <1>1, <2>1, <2>2, <2>3, <2>4
<1>9. ASSUME NEW file, close(file) PROVE R /\ strayed' = strayed
  <2>1. Stays /\ strayed' = strayed
    BY <1>9 DEF close, Stays
  <2> QED BY <2>1 DEF R
<1>10. ASSUME NEW file, NEW text, write(file, text) PROVE R /\ (strayed => strayed')
  <2>1. \/ Refuse /\ UNCHANGED <<file_table, strayed>>
        \/ (\E r : Finish(r)) /\ strayed' = (strayed \/ ~Owns(disk, file))
    BY <1>10, Zenon DEF write, WriteOpen
  <2>2. CASE Refuse /\ UNCHANGED <<file_table, strayed>>
    BY <1>1, <2>2
  <2>3. CASE (\E r : Finish(r)) /\ strayed' = (strayed \/ ~Owns(disk, file))
    BY <2>3 DEF R
  <2> QED BY <2>1, <2>2, <2>3
<1>11. R /\ (strayed => strayed')
  BY <1>7, <1>8, <1>9, <1>10 DEF ShellNext
<1> QED BY <1>11 DEF R

LEMMA ShellKeeps ==
  ASSUME ShellInv, view = Survey(disk), ShellNext, ~strayed', NEW L, Forest(disk, L),
         Bounded => \A file \in file_table : file.size <= 2 * SlotsPerBlock
  PROVE  KeepsForest(L)
<1>0. TypeOK
  BY ShellInvParts
<1>1. Lands(L) => KeepsForest(L)
  BY DEF Lands, KeepsForest, ForestOrWindow
<1>2. Refuse => KeepsForest(L)
  BY DEF Refuse, KeepsForest, Stays
<1>3. UNCHANGED <<disk, faults, view, damaged>> => KeepsForest(L)
  BY DEF KeepsForest, Stays
<1>4. ASSUME process_command PROVE KeepsForest(L)
  <2>1. ASSUME NEW arg \in Arguments, cmd_touch(arg) PROVE KeepsForest(L)
    <3> DEFINE none == <<>>
    <3>1. arg.path \in Paths
      BY CanonicalType
    <3>2. none \in Seq(Texts) /\ Len(none) <= 2 * SlotsPerBlock
      BY Fat32Assumption
    <3>3. Refuse \/ create_file(arg.path, none)
      BY <2>1, Zenon DEF cmd_touch
    <3> HIDE DEF none
    <3> QED BY <1>0, <1>1, <1>2, <3>1, <3>2, <3>3, OperationsForest
  <2>2. ASSUME NEW arg \in Arguments, cmd_rm(arg) PROVE KeepsForest(L)
    <3>1. arg.path \in Paths
      BY CanonicalType
    <3>2. Refuse \/ delete(arg.path)
      BY <2>2, Zenon DEF cmd_rm
    <3> QED BY <1>0, <1>1, <1>2, <3>1, <3>2, OperationsForest
  <2>3. ASSUME NEW path \in Paths, cmd_mkdir(path) PROVE KeepsForest(L)
    BY <1>0, <1>1, <2>3, OperationsForest DEF cmd_mkdir
  <2>4. ASSUME NEW path \in Paths, cmd_write(path) PROVE KeepsForest(L)
    <3>1. PICK content \in Contents : create_file(path, content)
      BY <2>4 DEF cmd_write
    <3>2. content \in Seq(Texts) /\ (Bounded => Len(content) <= 2 * SlotsPerBlock)
      BY ContentFacts DEF Bounded
    <3> QED BY <1>0, <1>1, <3>1, <3>2, OperationsForest
  <2>5. ASSUME NEW path, ChangeTo(path) PROVE KeepsForest(L)
    BY <1>3, <2>5 DEF ChangeTo
  <2>6. cmd_cd => KeepsForest(L)
    BY <2>5, Zenon DEF cmd_cd
  <2> QED BY <1>4, <2>1, <2>2, <2>3, <2>4, <2>6 DEF process_command
<1>5. ASSUME NEW arg \in Arguments, NEW mode, open(arg, mode) PROVE KeepsForest(L)
  <2> DEFINE path == canonicalize(arg)
  <2>1. /\ path \in Paths
        /\ \/ OpenExisting(path, mode)
           \/ /\ EntryAt(disk, path) = End /\ HasParent(disk, path)
              /\ \E limit \in Limits : OpenNew(path, mode, limit)
           \/ Refuse
    BY <1>5, Zenon DEF open
  <2> HIDE DEF path
  <2>2. OpenExisting(path, mode) => Refuse \/ UNCHANGED <<disk, faults, view, damaged>>
    BY Zenon DEF OpenExisting
  <2>3. ASSUME EntryAt(disk, path) = End, HasParent(disk, path), NEW limit \in Limits,
               OpenNew(path, mode, limit)
        PROVE  KeepsForest(L)
    BY <1>0, <1>1, <2>1, <2>3, OpenNewForest
  <2> QED BY <1>2, <1>3, <2>1, <2>2, <2>3
<1>6. ASSUME NEW file, close(file) PROVE KeepsForest(L)
  BY <1>6 DEF close, KeepsForest, Stays
<1>7. ASSUME NEW file \in file_table, NEW text \in Data, write(file, text) PROVE KeepsForest(L)
  <2> DEFINE data == [i \in DOMAIN text |-> Text(text[i])]
  <2>1. \/ Refuse
        \/ /\ \E limit \in Limits : WriteOpen(file, data, limit)
           /\ strayed' = (strayed \/ ~Owns(disk, file))
    BY <1>7, Zenon DEF write
  <2>2. file.pos + Len(data) <= MaxSize
    BY <1>7 DEF write
  <2>3. ASSUME NEW limit \in Limits, WriteOpen(file, data, limit), Owns(disk, file)
        PROVE  KeepsForest(L)
    BY <2>2, <2>3, WriteOpenForest DEF KeepsForest
  <2> HIDE DEF data
  <2> QED BY <1>2, <2>1, <2>3
<1> QED BY <1>4, <1>5, <1>6, <1>7 DEF ShellNext

LEMMA SizesKept ==
  ASSUME ShellInv, ShellNext, Bounded, SmallFiles, NEW L, Forest(disk, L), Room(disk, L)
  PROVE  SmallFiles'
<1> DEFINE small(s) == s <= 2 * SlotsPerBlock
<1>0. disk \in Disk /\ FilesOK(file_table, next_fd) /\ SlotsPerBlock \in Nat /\ MaxSize \in Nat
  BY ShellInvParts, Fat32Assumption, ShellAssumption DEF TypeOK
<1>1. file_table' = file_table => SmallFiles'
  BY DEF SmallFiles
<1>2. ASSUME NEW path, NEW mode, NEW entry, small(entry.size), Opened(path, mode, entry)
      PROVE  SmallFiles'
  <2>1. file_table' = file_table \cup {Descriptor(path, mode, entry)}
    BY <1>2 DEF Opened
  <2>2. Descriptor(path, mode, entry).size = entry.size
    BY DEF Descriptor
  <2> QED BY <1>2, <2>1, <2>2 DEF SmallFiles
<1>3. ASSUME process_command PROVE SmallFiles'
  <2>1. OpenFilesUnchanged
    BY <1>3, Zenon DEF process_command, cmd_touch, cmd_rm, cmd_mkdir, cmd_write, cmd_cd, Command
  <2> QED BY <1>1, <2>1 DEF OpenFilesUnchanged
<1>4. ASSUME NEW arg, NEW mode, open(arg, mode) PROVE SmallFiles'
  <2> DEFINE path == canonicalize(arg)
  <2>1. /\ path \in Paths
        /\ \/ EntryAt(disk, path) # End /\ OpenExisting(path, mode)
           \/ \E limit \in Limits : OpenNew(path, mode, limit)
           \/ file_table' = file_table
    BY <1>4, Zenon DEF open
  <2> HIDE DEF path
  <2>2. ASSUME EntryAt(disk, path) # End, OpenExisting(path, mode) PROVE SmallFiles'
    <3> DEFINE entry == EntryAt(disk, path)
    <3>1. \/ file_table' = file_table
          \/ entry.kind # "dir" /\ Opened(path, mode, entry)
      BY <2>2, Zenon DEF OpenExisting
    <3>2. path \in Seq(Names) /\ path # <<>>
      BY <2>1, PathFacts
    <3>3. IsEntry(entry)
      BY <1>0, <2>2, <3>2, EntryAtType
    <3>4. PICK c \in L, j \in Places : PathSlot(disk, path, c, j)
      BY <1>0, <2>2, <3>2, ParentHead
    <3>5. EntryIn(disk, c, j) /\ disk.data[c][j] = entry
      BY <3>4 DEF PathSlot
    <3> HIDE DEF entry
    <3>6. entry.kind = "file" => small(entry.size)
      BY <3>5 DEF Room, Fits
    <3> QED BY <1>1, <1>2, <3>1, <3>3, <3>6 DEF IsEntry
  <2>3. ASSUME NEW limit, OpenNew(path, mode, limit) PROVE SmallFiles'
    <3>1. \/ file_table' = file_table
          \/ \E cluster : Opened(path, mode, Slot("file", Stored[Last(path)], cluster, 0))
      BY <2>3, Zenon DEF OpenNew
    <3>2. ASSUME NEW cluster, Opened(path, mode, Slot("file", Stored[Last(path)], cluster, 0))
          PROVE  SmallFiles'
      <4> DEFINE entry == Slot("file", Stored[Last(path)], cluster, 0)
      <4>1. small(entry.size)
        BY <1>0 DEF Slot
      <4>2. Opened(path, mode, entry)
        BY <3>2
      <4> HIDE DEF entry, small
      <4> QED BY <1>2, <4>1, <4>2
    <3> QED BY <1>1, <3>1, <3>2
  <2> QED BY <1>1, <2>1, <2>2, <2>3
<1>5. ASSUME NEW file, close(file) PROVE SmallFiles'
  <2>1. file_table' \subseteq file_table
    BY <1>5 DEF close
  <2> QED BY <2>1 DEF SmallFiles
<1>6. ASSUME NEW file \in file_table, NEW text \in Data, write(file, text) PROVE SmallFiles'
  <2> DEFINE data == [i \in DOMAIN text |-> Text(text[i])]
             pos == file.pos + Len(data)
             size == Max({pos, file.size})
             moved == [file EXCEPT !.pos = pos, !.size = size]
  <2>1. /\ pos <= MaxSize
        /\ \/ file_table' = file_table
           \/ file_table' = (file_table \ {file}) \cup {moved}
    BY <1>6, Zenon DEF write, WriteOpen
  <2>2. file \in Descriptors
    BY <1>0 DEF FilesOK
  <2>3. Len(data) \in Nat
    <3>1. text \in Seq(Texts)
      BY ShellAssumption
    <3> QED BY <3>1, TextData
  <2>4. pos \in Nat /\ file.size \in Nat
    BY <2>2, <2>3 DEF Descriptors
  <2> HIDE DEF data, pos
  <2>5. size = IF pos < file.size THEN file.size ELSE pos
    BY <2>4, MaxOf
  <2>6. small(size)
    <3>1. small(file.size)
      BY <1>6 DEF SmallFiles
    <3> HIDE DEF size
    <3> QED BY <1>0, <2>1, <2>4, <2>5, <3>1 DEF Bounded
  <2>7. moved.size = size
    BY <2>2 DEF Descriptors
  <2> HIDE DEF moved
  <2> QED BY <1>1, <2>1, <2>6, <2>7 DEF SmallFiles
<1> QED BY <1>3, <1>4, <1>5, <1>6 DEF ShellNext

LEMMA ShellForestStep ==
  ASSUME ShellForestInv, [ShellNext]_shellVars
  PROVE  ShellForestInv'
<1>1. ShellInv /\ view = Survey(disk)
  BY DEF ShellForestInv
<1>2. ShellInv'
  BY <1>1, ShellNextType
<1>3. CASE UNCHANGED shellVars
  <2>1. /\ disk' = disk /\ view' = view /\ damaged' = damaged /\ strayed' = strayed
        /\ file_table' = file_table
    BY <1>3 DEF shellVars
  <2> QED BY <1>2, <2>1 DEF ShellForestInv, SmallFiles
<1>4. CASE ShellNext
  <2>1. Stays \/ \E r : Finish(r)
    BY <1>4, ShellRecords
  <2>2. view' = Survey(disk') /\ (damaged => damaged')
    <3>1. CASE Stays
      BY <1>1, <3>1 DEF Stays
    <3>2. ASSUME NEW r, Finish(r) PROVE view' = Survey(disk') /\ (damaged => damaged')
      BY <3>2 DEF Finish
    <3> QED BY <2>1, <3>1, <3>2
  <2>3. ASSUME ~damaged', ~strayed'
        PROVE  /\ \E M : /\ Forest(disk', M) /\ (ShortNames => Tidy(disk', M))
                         /\ Bounded => Room(disk', M)
               /\ Bounded => SmallFiles'
    <3>1. ~damaged /\ ~strayed
      BY <1>4, <2>2, <2>3, ShellRecords
    <3> DEFINE Whole == \E M : /\ Forest(disk', M) /\ (ShortNames => Tidy(disk', M))
                               /\ Bounded => Room(disk', M)
    <3>2. /\ \E L : /\ Forest(disk, L) /\ (ShortNames => Tidy(disk, L))
                    /\ Bounded => Room(disk, L)
          /\ Bounded => SmallFiles
      BY <3>1 DEF ShellForestInv
    <3>3. PICK L : /\ Forest(disk, L) /\ (ShortNames => Tidy(disk, L))
                   /\ Bounded => Room(disk, L)
      BY <3>2
    <3>4. KeepsForest(L)
      BY <1>1, <1>4, <2>3, <3>2, <3>3, ShellKeeps DEF SmallFiles
    <3>5. ASSUME Stays PROVE Whole
      BY <3>3, <3>5 DEF Stays
    <3>6. ASSUME ForestFrom(L) PROVE Whole
      BY <3>3, <3>6 DEF ForestFrom
    <3>7. Whole
      BY <2>3, <3>4, <3>5, <3>6 DEF KeepsForest
    <3>8. Bounded => SmallFiles'
      BY <1>1, <1>4, <3>2, <3>3, SizesKept
    <3> QED BY <3>7, <3>8
  <2> QED BY <1>2, <2>2, <2>3 DEF ShellForestInv
<1> QED BY <1>3, <1>4

LEMMA ShellForestHolds == ShellSpec => []ShellForestInv
<1>1. ShellInit => ShellForestInv
  <2> SUFFICES ASSUME ShellInit PROVE ShellForestInv
    OBVIOUS
  <2>1. ShellInv
    BY ShellInitType
  <2>2. ForestInv
    BY InitForest DEF ShellInit
  <2>3. SmallFiles
    BY DEF ShellInit, SmallFiles
  <2> QED BY <2>1, <2>2, <2>3 DEF ShellForestInv, ForestInv
<1>2. ShellForestInv /\ [ShellNext]_shellVars => ShellForestInv'
  BY ShellForestStep
<1> QED BY <1>1, <1>2, PTL DEF ShellSpec

(* Files written through descriptors that own them never share a cluster   *)
(* with anything (write and write_file_data, which marks the clusters it   *)
(* adds only after it has written them), and leave the directories as the  *)
(* commands made them, whatever commands, opens, closes and failing sector *)
(* writes come in between: for volumes, files and writes of any size.  The *)
(* directories need names that set_name_83 keeps, as DirectoriesInOrder.   *)
THEOREM OpenFilesKeepForest ==
  /\ ShellSpec => [](~strayed => NoCrossLinks)
  /\ (\A p \in Paths : Stored[Last(p)] = Last(p)) =>
       (ShellSpec => [](~strayed => DirectoriesWellFormed))
<1>1. ASSUME ShellForestInv, ~strayed PROVE NoCrossLinks
  <2>1. CASE damaged
    BY <2>1 DEF NoCrossLinks
  <2>2. CASE ~damaged
    <3>1. PICK L : Forest(disk, L)
      BY <1>1, <2>2 DEF ShellForestInv
    <3>2. disk \in Disk /\ view = Survey(disk)
      BY <1>1, ShellInvParts DEF ShellForestInv, TypeOK
    <3> QED BY <3>1, <3>2, ForestNoCrossLinks
  <2> QED BY <2>1, <2>2
<1>2. ShellSpec => [](~strayed => NoCrossLinks)
  BY <1>1, ShellForestHolds, PTL
<1>3. ASSUME \A p \in Paths : Stored[Last(p)] = Last(p)
      PROVE  ShellForestInv => (~strayed => DirectoriesWellFormed)
  <2> SUFFICES ASSUME ShellForestInv, ~strayed PROVE DirectoriesWellFormed
    OBVIOUS
  <2>1. CASE damaged
    BY <2>1 DEF DirectoriesWellFormed
  <2>2. CASE ~damaged
    <3>1. PICK L : Forest(disk, L) /\ Tidy(disk, L)
      BY <1>3, <2>2 DEF ShellForestInv, ShortNames
    <3>2. disk \in Disk /\ view = Survey(disk)
      BY ShellInvParts DEF ShellForestInv, TypeOK
    <3> QED BY <3>1, <3>2, TidyDirectories
  <2> QED BY <2>1, <2>2
<1>4. ASSUME \A p \in Paths : Stored[Last(p)] = Last(p)
      PROVE  ShellSpec => [](~strayed => DirectoriesWellFormed)
  BY <1>3, <1>4, ShellForestHolds, PTL
<1> QED BY <1>2, <1>4

(* What a file claims is in its chain. *)
LEMMA FileHasRoom ==
  ASSUME disk \in Disk, view = Survey(disk), NEW L, Forest(disk, L), Room(disk, L),
         NEW p \in Paths, view[p].kind = "file"
  PROVE  Needed(view[p].content) <= Cardinality(view[p].clusters)
<1> DEFINE e == EntryAt(disk, p)
           h == e.cluster
           b == read_chain(disk, h)
           S == Range(b)
           content == read_file(disk, e)
           n == Cardinality(S)
<1>1. view[p] = Look(disk, p)
  BY DEF Survey
<1>2. e # End /\ e.kind = "file"
  BY <1>1 DEF Look
<1>3. view[p].content = content /\ view[p].clusters = S
  BY <1>1, <1>2 DEF Look
<1>4. p \in Seq(Names) /\ p # <<>>
  BY PathFacts
<1>5. e \in Slots /\ e.size \in Nat
  <2>1. e \in Slots
    BY <1>4, EntryAtType
  <2> HIDE DEF e
  <2> QED BY <2>1 DEF Slots
<1>6. Fits(disk, e)
  <2>1. PICK c \in L, j \in Places : PathSlot(disk, p, c, j)
    BY <1>2, <1>4, ParentHead
  <2> QED BY <2>1 DEF PathSlot, Room
<1>7. h = 0 \/ Top(disk, L, h)
  BY <1>2, <1>4, PathHead DEF Headed
<1>8. content \in [1 .. e.size -> Slots] /\ Len(content) = e.size
  <2> DEFINE slots == SlotsOf(disk, h)
  <2>1. content = [i \in 1 .. e.size |-> IF i <= Len(slots) THEN slots[i] ELSE End]
    BY Zenon DEF read_file
  <2>2. slots \in Seq(Slots) /\ Len(slots) \in Nat /\ End \in Slots
    BY SlotsOfType, SpecialSlots
  <2> HIDE DEF content, slots, e
  <2>3. content \in [1 .. e.size -> Slots]
    BY <1>5, <2>1, <2>2
  <2> QED BY <1>5, <2>3
<1>9. IsFiniteSet(S) /\ n \in Nat
  <2>1. S \subseteq Clusters
    BY ChainType
  <2> HIDE DEF S
  <2>2. IsFiniteSet(S)
    BY <2>1, ClusterFacts, FS_Subset
  <2> QED BY <2>2, FS_CardinalityType
<1>10. ASSUME Top(disk, L, h)
       PROVE  /\ h \in S
              /\ disk.fat[h] \in Clusters \ {h} => disk.fat[h] \in S
  <2> DEFINE k == Len(b)
  <2>1. IsChain(disk, h, b)
    BY <1>10, ChainIn DEF Top, Forest
  <2>2. /\ k \in Nat \ {0} /\ b[1] = h
        /\ \A i \in 1 .. k - 1 : b[i + 1] = disk.fat[b[i]]
        /\ disk.fat[b[k]] \notin Clusters \/ \E i \in 1 .. k : disk.fat[b[k]] = b[i]
    BY <2>1 DEF IsChain, Follows, Ended
  <2>3. S = {b[i] : i \in 1 .. k}
    BY ChainType
  <2> HIDE DEF b, S, k, h
  <2>4. h \in S
    BY <2>2, <2>3
  <2>5. CASE k = 1
    BY <2>2, <2>4, <2>5
  <2>6. CASE k # 1
    <3>1. 1 \in 1 .. k - 1 /\ 2 \in 1 .. k
      BY <2>2, <2>6
    <3>2. b[2] = disk.fat[h]
      BY <2>2, <3>1
    <3> QED BY <2>3, <2>4, <3>1, <3>2
  <2> QED BY <2>5, <2>6
<1> HIDE DEF S, content, h
<1>11. /\ h \in S => n >= 1
       /\ h \in S /\ disk.fat[h] \in S /\ disk.fat[h] # h => n >= 2
  <2>1. n = 0 <=> S = {}
    BY <1>9, FS_EmptySet
  <2>2. n = 1 <=> \E x : S = {x}
    BY <1>9, FS_Singleton
  <2> HIDE DEF n
  <2> QED BY <1>9, <2>1, <2>2
<1>12. /\ e.size = 0 => Needed(content) = 0
       /\ e.size <= SlotsPerBlock => Needed(content) <= 1
       /\ e.size <= 2 * SlotsPerBlock => Needed(content) <= 2
  BY <1>5, <1>8, NeededBounds
<1>13. Needed(content) \in Nat /\ SlotsPerBlock \in Nat
  BY <1>5, <1>8, NeededType, Fat32Assumption
<1>14. /\ e.size <= 2 * SlotsPerBlock
       /\ e.size > 0 => h # 0
       /\ e.size > SlotsPerBlock => h # 0 /\ disk.fat[h] \in Clusters \ {h}
  BY <1>2, <1>6 DEF Fits, h
<1> HIDE DEF n, e
<1>15. Needed(content) <= n
  <2>1. CASE e.size = 0
    BY <1>9, <1>12, <1>13, <2>1
  <2>2. CASE e.size > 0 /\ e.size <= SlotsPerBlock
    BY <1>7, <1>9, <1>10, <1>11, <1>12, <1>13, <1>14, <2>2
  <2>3. CASE e.size > SlotsPerBlock
    BY <1>7, <1>9, <1>10, <1>11, <1>12, <1>13, <1>14, <2>3
  <2> QED BY <1>5, <1>13, <2>1, <2>2, <2>3
<1> QED BY <1>3, <1>15 DEF n

(* The whole of OpenFilesKeepVolume: beside what OpenFilesKeepForest says, *)
(* no file claims more than its chain holds, because write and create_file *)
(* record a size only after write_file_data has linked the clusters it     *)
(* needs.  It holds for files of up to two clusters: write_file_data       *)
(* allocates all clusters that are missing before it marks the first, so   *)
(* that a third would be the second once more.  And it holds while no      *)
(* sector write fails: create_file frees the clusters of an old file and   *)
(* takes them again while the old entry is still there.                    *)
THEOREM OpenFilesKeepRoom ==
  ASSUME \A p \in Paths : Stored[Last(p)] = Last(p),
         MaxFaults = 0, MaxSize <= 2 * SlotsPerBlock,
         \A content \in Contents : Len(content) <= 2 * SlotsPerBlock
  PROVE  ShellSpec => []OpenFilesKeepVolume
<1>1. ShortNames /\ Bounded
  BY DEF ShortNames, Bounded
<1>2. ShellForestInv => OpenFilesKeepVolume
  <2>1. strayed => OpenFilesKeepVolume
    BY DEF OpenFilesKeepVolume
  <2>2. damaged => OpenFilesKeepVolume
    BY DEF OpenFilesKeepVolume, NoCrossLinks, DirectoriesWellFormed
  <2>3. ASSUME ShellForestInv, ~strayed, ~damaged PROVE OpenFilesKeepVolume
    <3>1. PICK L : Forest(disk, L) /\ Tidy(disk, L) /\ Room(disk, L)
      BY <1>1, <2>3 DEF ShellForestInv
    <3>2. disk \in Disk /\ view = Survey(disk)
      BY <2>3, ShellInvParts DEF ShellForestInv, TypeOK
    <3>3. NoCrossLinks
      BY <3>1, <3>2, ForestNoCrossLinks
    <3>4. DirectoriesWellFormed
      BY <3>1, <3>2, TidyDirectories
    <3>5. \A p \in Paths : view[p].kind = "file" =>
            Needed(view[p].content) <= Cardinality(view[p].clusters)
      BY <3>1, <3>2, FileHasRoom
    <3> QED BY <3>3, <3>4, <3>5 DEF OpenFilesKeepVolume
  <2> QED BY <2>1, <2>2, <2>3
<1> QED BY <1>2, ShellForestHolds, PTL

=============================================================================
