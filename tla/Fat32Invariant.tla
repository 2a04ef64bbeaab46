--------------------------- MODULE Fat32Invariant ---------------------------
(***************************************************************************)
(* The inductive invariants of the FAT32 volume and of the shell's open    *)
(* files, and the words in which the proofs say what an operation does to  *)
(* them.                                                                   *)
(***************************************************************************)
EXTENDS Shell

-----------------------------------------------------------------------------
(***************************************************************************)
(* The volume: its blocks, and disks that differ in a cluster or a slot.   *)
(***************************************************************************)
(* What a block and the table hold, and writing to them. *)
Places == 1 .. SlotsPerBlock
Blocks == [Places -> Slots]
FatValues == Clusters \cup {FREE, EOC}
SetFat(d, c, v) == [fat |-> [d.fat EXCEPT ![c] = v], data |-> d.data]
SetData(d, c, b) == [fat |-> d.fat, data |-> [d.data EXCEPT ![c] = b]]
SetSlot(d, c, j, s) == SetData(d, c, [d.data[c] EXCEPT ![j] = s])

(* Where slot i of the chain from s lies. *)
HomeOf(d, s, i) == read_chain(d, s)[BlockAt(i)]

(* The slot update_dir_entry and remove_entry choose. *)
EntrySlot(d, s, name) ==
  SelectInSeq(SlotsOf(d, s), LAMBDA x : IsEntry(x) /\ x.name = name)

(* The steps in which a full directory grows. *)
NewBlock(entry) == [ZeroBlock EXCEPT ![1] = entry]
Allocated(d, n) == SetData(d, n, ZeroBlock)
Attached(d, s, n) == SetFat(Allocated(d, n), Last(read_chain(d, s)), n)
Marked(d, s, n) == SetFat(Attached(d, s, n), n, EOC)

(* A running operation: one started without a limit never runs out of      *)
(* writes.                                                                 *)
Running(limit) ==
  {r \in [disk: Disk, left: Int, ok: BOOLEAN, cluster: Clusters \cup {0}] :
     limit < 0 => r.left < 0}

(* Two disks agree on a set of clusters. *)
Same(d, e, A) == \A c \in A : e.fat[c] = d.fat[c] /\ e.data[c] = d.data[c]

(* On A the disks differ at most in slot j of cluster c. *)
Changed(d, e, A, c, j, slot) ==
  \A z \in A : /\ e.fat[z] = d.fat[z]
               /\ \A k \in Places :
                    e.data[z][k] = IF z = c /\ k = j THEN slot ELSE d.data[z][k]

(* A block without an entry. *)
Plain(b) == \A j \in Places : ~IsEntry(b[j])

(* The disk with some clusters freed. *)
Freed(d, C) ==
  [fat |-> [c \in Clusters |-> IF c \in C THEN FREE ELSE d.fat[c]], data |-> d.data]

(* Every cluster whose mark has changed is in the chain. *)
Claims(d, e, x) == \A c \in Clusters : e.fat[c] # d.fat[c] => c \in Range(read_chain(e, x))

(* The chain may grow, and no cluster outside of it is newly marked. *)
Gains(d, e, s) ==
  /\ Range(read_chain(d, s)) \subseteq Range(read_chain(e, s))
  /\ \A z \in Clusters : e.fat[z] # FREE => d.fat[z] # FREE \/ z \in Range(read_chain(e, s))

(* What allocate_and_write leaves in the clusters it uses, x and y. *)
Fresh(d, x, y) ==
  /\ d.fat[x] \in {FREE, EOC, y} /\ d.fat[y] \in {FREE, EOC, y}
  /\ Plain(d.data[x]) /\ Plain(d.data[y])

(* From disk d: they were free and are marked in the end. *)
Allocates(d, s, P) ==
  /\ P \subseteq FreeClusters(d) /\ Same(d, s.disk, Clusters \ P)
  /\ s.ok => P # {}
  /\ P # {} => \E x, y \in P :
       /\ P = {x, y} /\ Fresh(s.disk, x, y)
       /\ s.ok => /\ s.cluster = x
                  /\ s.disk.fat[x] # FREE /\ s.disk.fat[y] # FREE

(* How far add_entry comes when it runs: not at all, all the way into a    *)
(* free slot, or through the steps that grow the directory.                *)
Added(d, q, s, entry) ==
  \/ ~q.ok /\ q.disk = d
  \/ /\ FreeSlot(d, s) # 0
     /\ q.disk = SetSlot(d, HomeOf(d, s, FreeSlot(d, s)), PlaceAt(FreeSlot(d, s)), entry)
  \/ /\ FreeSlot(d, s) = 0
     /\ \E n \in FreeClusters(d) :
          \/ ~q.ok /\ q.disk = Allocated(d, n)
          \/ /\ s \in Clusters
             /\ \/ ~q.ok /\ q.disk = Attached(d, s, n)
                \/ ~q.ok /\ q.disk = Marked(d, s, n)
                \/ q.disk = SetData(Marked(d, s, n), n, NewBlock(entry))

(* A write is made, even if an error is reported, or not made. *)
Writes(r, s, d) == \/ r.ok /\ s.disk = d
                   \/ ~s.ok /\ s.disk = r.disk

(* c follows the table from s and does not meet itself. *)
Follows(d, s, c) ==
  /\ c \in Seq(Clusters) /\ Len(c) \in Nat \ {0} /\ c[1] = s
  /\ \A i \in 1 .. Len(c) - 1 : c[i + 1] = d.fat[c[i]]
  /\ \A i, j \in 1 .. Len(c) : c[i] = c[j] => i = j

(* And it cannot be continued. *)
Ended(d, c) ==
  d.fat[c[Len(c)]] \notin Clusters \/ \E i \in 1 .. Len(c) : d.fat[c[Len(c)]] = c[i]
IsChain(d, s, c) == Follows(d, s, c) /\ Ended(d, c)

(* The loops of the operations, run by run: f[n] is the running operation  *)
(* after n turns.                                                          *)
NextOf(cs, n) == IF n < Len(cs) THEN cs[n + 1] ELSE EOC

FreeRun(limit, r, s, f) ==
  /\ f \in [0 .. Len(read_chain(r.disk, s)) -> Running(limit)] /\ f[0] = r
  /\ free_chain(r, s) = f[Len(read_chain(r.disk, s))]
  /\ \A n \in 1 .. Len(read_chain(r.disk, s)) : f[n] = write_fat_entry(f[n - 1], read_chain(r.disk, s)[n], FREE)

AllocRun(limit, r, count, f) ==
  /\ f \in [0 .. count -> Running(limit)] /\ f[0] = r
  /\ AllocateTimes(r, count) = f[count]
  /\ \A n \in 1 .. count : f[n] = alloc_cluster(f[n - 1])

BlocksRun(limit, r, cs, data, f) ==
  /\ f \in [0 .. Len(cs) -> Running(limit)] /\ f[0] = r
  /\ WriteBlocks(r, cs, data) = f[Len(cs)]
  /\ \A n \in 1 .. Len(cs) : f[n] = write_cluster(f[n - 1], cs[n], BlockOf(data, n))

LinksRun(limit, r, cs, f) ==
  /\ f \in [0 .. Len(cs) -> Running(limit)] /\ f[0] = r
  /\ WriteLinks(r, cs) = f[Len(cs)]
  /\ \A n \in 1 .. Len(cs) : f[n] = write_fat_entry(f[n - 1], cs[n], NextOf(cs, n))

(* The first n clusters of a chain. *)
Upto(c, n) == {c[i] : i \in 1 .. n}

(* Linking stopped or went through the clusters cs: the later link counts. *)
Linked(r, s, cs) ==
  /\ s.disk.data = r.disk.data /\ (s.ok => r.ok) /\ s.cluster = r.cluster
  /\ \A c \in Clusters :
       \/ s.disk.fat[c] = r.disk.fat[c]
       \/ \E n \in 1 .. Len(cs) : c = cs[n] /\ s.disk.fat[c] = NextOf(cs, n)
  /\ s.ok => \A i \in 1 .. Len(cs) :
               \E n \in 1 .. Len(cs) : /\ cs[i] = cs[n] /\ i <= n
                                       /\ s.disk.fat[cs[i]] = NextOf(cs, n)

(* write_file_data: the clusters there are, and m times the next free one. *)
FileDataRun(r, s, data, m, cs) ==
  LET old == read_chain(r.disk, s)
      g == AllocateTimes(r, m)
  IN  /\ ~g.ok => write_file_data(r, s, data) = g
      /\ Needed(data) <= Len(old) + m /\ (m # 0 => Len(old) + m <= Needed(data))
      /\ g.ok => /\ cs \in Seq(Clusters) /\ Len(cs) = Len(old) + m
                 /\ \A i \in 1 .. Len(old) : cs[i] = old[i]
                 /\ \A i \in Len(old) + 1 .. Len(cs) : cs[i] = g.cluster
                 /\ write_file_data(r, s, data) = WriteLinks(WriteBlocks(g, cs, data), cs)

-----------------------------------------------------------------------------
(***************************************************************************)
(* The forest: a set L of clusters, with the root, in which every cluster  *)
(* has at most one predecessor and the first cluster of every entry has    *)
(* none.                                                                   *)
(***************************************************************************)
Links(d, c, e) == d.fat[c] = e /\ c # e
Top(d, L, x) == x \in L /\ \A e \in L : ~Links(d, e, x)

ForestTable(d, L) ==
  /\ L \subseteq Clusters /\ Top(d, L, Root)
  /\ \A c \in L : d.fat[c] \in L \cup {EOC}
  /\ \A c, e, x \in L : Links(d, c, x) /\ Links(d, e, x) => c = e

EntryIn(d, c, j) == IsEntry(d.data[c][j])
HeadIn(d, c, j) == d.data[c][j].cluster

ForestEntries(d, L) ==
  \A c \in L, j \in Places : EntryIn(d, c, j) /\ HeadIn(d, c, j) # 0 =>
    /\ Top(d, L, HeadIn(d, c, j)) /\ HeadIn(d, c, j) # Root
    /\ \A e \in L, k \in Places :
         EntryIn(d, e, k) /\ HeadIn(d, e, k) = HeadIn(d, c, j) => e = c /\ k = j

Forest(d, L) == ForestTable(d, L) /\ ForestEntries(d, L)

(* The entry a path leads to lies in the chain of its parent. *)
PathSlot(d, path, c, j) ==
  /\ c \in Range(read_chain(d, ParentCluster(d, path))) /\ j \in Places
  /\ d.data[c][j] = EntryAt(d, path)
  /\ EntryIn(d, c, j) /\ d.data[c][j].name = Last(path)

(* The slot of the entry a path leads to, and the two chains it is between. *)
Placed(d, L, path, c, j) ==
  LET s == ParentCluster(d, path)
      i == EntrySlot(d, s, Last(path))
      h == EntryAt(d, path).cluster
  IN  /\ i # 0 /\ i \in DOMAIN SlotsOf(d, s) /\ c = HomeOf(d, s, i) /\ j = PlaceAt(i)
      /\ c \in L /\ c \in Clusters /\ j \in Places
      /\ d.data[c][j] = EntryAt(d, path) /\ EntryIn(d, c, j)
      /\ c \notin Range(read_chain(d, h))
      /\ Range(read_chain(d, s)) \subseteq L \ Range(read_chain(d, h))

(* A chain outside the forest, without entries, that starts at x. *)
Loose(e, L, C, x) ==
  /\ C \subseteq Clusters /\ C \cap L = {} /\ Top(e, C, x)
  /\ \A z \in C : e.fat[z] \in C \cup {EOC} /\ Plain(e.data[z])
  /\ \A a, b, z \in C : Links(e, a, z) /\ Links(e, b, z) => a = b

(* A cluster is linked to the end of a chain. *)
Extended(d, e, L, s, n) ==
  /\ n \in Clusters /\ n \notin L /\ e.fat[n] \notin Clusters
  /\ \A z \in L : e.fat[z] = IF z = Last(read_chain(d, s)) THEN n ELSE d.fat[z]

(* A full directory grows by a cluster with at most the new entry in it. *)
GrownBy(d, e, L, n, entry) ==
  /\ \A z \in L : e.data[z] = d.data[z]
  /\ \A j \in Places : j # 1 => ~IsEntry(e.data[n][j])
  /\ IsEntry(e.data[n][1]) => e.data[n][1] = entry

-----------------------------------------------------------------------------
(***************************************************************************)
(* Directories in order.                                                   *)
(***************************************************************************)
Orderly(slots) ==
  \A i, j \in DOMAIN slots :
    i < j /\ IsEntry(slots[j]) =>
      slots[i] # End /\ ~(IsEntry(slots[i]) /\ slots[i].name = slots[j].name)

(* The first cluster of the root, or of a directory that an entry of the   *)
(* forest names.                                                           *)
IsDirectory(d, L, x) ==
  \/ x = Root
  \/ \E c \in L, j \in Places :
       EntryIn(d, c, j) /\ d.data[c][j].kind = "dir" /\ x = HeadIn(d, c, j)

Tidy(d, L) == \A x : IsDirectory(d, L, x) => Orderly(SlotsOf(d, x))

(* Every name clients use is stored as it is. *)
ShortNames == \A p \in Paths : Stored[Last(p)] = Last(p)

-----------------------------------------------------------------------------
(***************************************************************************)
(* Room: no file claims more than its chain holds.  This is so only while  *)
(* no sector write fails and no file needs more than two clusters.         *)
(***************************************************************************)
Bounded ==
  /\ MaxFaults = 0 /\ MaxSize <= 2 * SlotsPerBlock
  /\ \A content \in Contents : Len(content) <= 2 * SlotsPerBlock

(* A file of up to two clusters has as many as its size needs. *)
Fits(d, slot) ==
  slot.kind = "file" =>
    /\ slot.size <= 2 * SlotsPerBlock
    /\ slot.size > 0 => slot.cluster # 0
    /\ slot.size > SlotsPerBlock =>
         slot.cluster # 0 /\ d.fat[slot.cluster] \in Clusters \ {slot.cluster}

Room(d, L) == \A c \in L, j \in Places : EntryIn(d, c, j) => Fits(d, d.data[c][j])

(* The chain begins with the data. *)
Holds(d, x, data) ==
  \A k \in 1 .. Len(data) : k \in DOMAIN SlotsOf(d, x) /\ SlotsOf(d, x)[k] = data[k]

-----------------------------------------------------------------------------
(***************************************************************************)
(* The inductive invariant of the volume, and where the operations lead.   *)
(***************************************************************************)
(* Where adding an entry to a forest leads. *)
AddOutcome(d, L, q, s, entry) ==
  \/ \E M : /\ Forest(q.disk, M)
            /\ Tidy(d, L) /\ find_entry(d, s, entry.name) = End => Tidy(q.disk, M)
            /\ Room(d, L) /\ Fits(d, entry) => Room(q.disk, M)
  \/ /\ ~q.ok /\ FreeSlot(d, s) = 0 /\ Top(d, L, s)
     /\ \E n \in FreeClusters(d) : q.disk = Attached(d, s, n)

(* The inductive invariant: a volume that was never damaged is a forest,   *)
(* with its directories in order if the names are.                         *)
ForestInv == /\ TypeOK /\ view = Survey(disk)
             /\ ~damaged => \E L : /\ Forest(disk, L) /\ (ShortNames => Tidy(disk, L))
                                   /\ Bounded => Room(disk, L)

(* The window of DamageNeedsWindow, and that the damage is seen. *)
Window ==
  /\ reply' = "Error"
  /\ \/ \E p \in Paths :
          /\ view[p].kind = "file" /\ view'[p].kind = "file"
          /\ \E c \in view'[p].clusters : disk'.fat[c] = FREE
     \/ \E dir \in Directories :
          /\ FreeSlot(disk, dir) = 0
          /\ disk'.fat[Last(read_chain(disk', dir))] = FREE

(* What every step from a forest leads to. *)
ForestFrom(L) == \E M : /\ Forest(disk', M) /\ (ShortNames /\ Tidy(disk, L) => Tidy(disk', M))
                        /\ Bounded /\ Room(disk, L) => Room(disk', M)

ForestOrWindow(L) == ForestFrom(L) \/ (Window /\ damaged')

(* The slot of a path's entry is changed, and nothing else of the forest   *)
(* but the chain that it names.                                            *)
SlotChanges(L, path, slot) ==
  \E c, j : /\ Placed(disk, L, path, c, j)
            /\ Changed(disk, disk', L \ Range(read_chain(disk, EntryAt(disk, path).cluster)),
                       c, j, slot)

(* An operation that fails and leaves the forest as it was. *)
NothingDone(L) == reply' = "Error" /\ Same(disk, disk', L)

(* The clusters marked after a step: those in new, and of the others those *)
(* that were and are not the old ones of the path.                         *)
Keeps(path, new) ==
  \A z \in Clusters : disk'.fat[z] # FREE /\ z \notin new =>
    disk.fat[z] # FREE /\ z \notin Range(read_chain(disk, EntryAt(disk, path).cluster))

(* Where an overwrite leads: damage, nothing, or a file whose chain holds  *)
(* no entry and, if the overwrite completes, the data.                     *)
Overwritten(L, path, data) ==
  \/ damaged'
  \/ NothingDone(L)
  \/ \E slot : /\ SlotChanges(L, path, slot) /\ slot.kind = "file" /\ slot.name = Last(path)
               /\ \A z \in Range(read_chain(disk', slot.cluster)) : Plain(disk'.data[z])
               /\ \/ reply' = "Error"
                  \/ /\ reply' = "Ok" /\ slot.size = Len(data)
                     /\ Len(data) <= 2 * SlotsPerBlock => Holds(disk', slot.cluster, data)
                     /\ Keeps(path, Range(read_chain(disk', slot.cluster)))

(* Nothing happens, or an operation ends. *)
Stays == disk' = disk /\ view' = view /\ damaged' = damaged

(* Where an operation on a forest leads. *)
Lands(L) == Stays \/ ((\E r : Finish(r)) /\ ForestOrWindow(L))

StepForest == \E L : /\ (ShortNames => Tidy(disk, L)) /\ (Bounded => Room(disk, L))
                     /\ ForestOrWindow(L)

-----------------------------------------------------------------------------
(***************************************************************************)
(* The tree that clients see.                                              *)
(***************************************************************************)
(* A path and the paths through it. *)
Beneath(p, q) == Len(p) <= Len(q) /\ \A i \in 1 .. Len(p) : q[i] = p[i]

(* Nothing is found in the chain of the entry. *)
Sterile(d, entry) == entry # End => \A n \in Names : find_entry(d, entry.cluster, n) = End

(* What a client sees of a path. *)
Shown(d, q) == [kind |-> Look(d, q).kind, content |-> Look(d, q).content]

(* Nothing is found in a file. *)
Barren(d) == \A q \in Seq(Names) : EntryAt(d, q).kind = "file" => Sterile(d, EntryAt(d, q))

(* One name of a directory is edited: no other chain of the forest changes *)
(* but the one of that name, and every other name is found as before.      *)
Edited(d, e, L, path) ==
  LET s == ParentCluster(d, path)
  IN  /\ Same(d, e, L \ (Range(read_chain(d, EntryAt(d, path).cluster)) \cup
                         Range(read_chain(d, s))))
      /\ \A n \in Names : n # Last(path) => find_entry(e, s, n) = find_entry(d, s, n)

(* Of the slots a of a directory only slot i changes, which is the one of  *)
(* the name, or it and slots without entries join them.                    *)
Edits(a, b, i, name) ==
  /\ DOMAIN a \subseteq DOMAIN b /\ i \in DOMAIN b
  /\ \A k \in DOMAIN a : k # i => b[k] = a[k]
  /\ \A k \in DOMAIN b \ DOMAIN a : k # i => ~IsEntry(b[k])
  /\ i \in DOMAIN a /\ IsEntry(a[i]) => a[i].name = name
  /\ IsEntry(b[i]) => b[i].name = name
  /\ \A k \in DOMAIN a : IsEntry(a[k]) /\ a[k].name = name => k = i

(* An entry of a new name is added to a directory. *)
Extends(d, e, L, s, name, new) ==
  /\ Same(d, e, L \ Range(read_chain(d, s)))
  /\ find_entry(e, s, name) = new
  /\ \A n : n # name => find_entry(e, s, n) = find_entry(d, s, n)

(* Where adding an entry for the loose chain in C leaves the directory:    *)
(* as it was, in one step of two with the entry, or linked to a free       *)
(* cluster.                                                                *)
AddedTo(d, q, L, s, entry, C) ==
  \/ ~q.ok /\ Same(d, q.disk, L)
  \/ ~q.ok /\ Extends(d, q.disk, L, s, entry.name, End)
  \/ /\ Extends(d, q.disk, L, s, entry.name, entry) /\ Same(d, q.disk, C)
     /\ Gains(d, q.disk, s)
  \/ ~q.ok /\ Top(d, L, s) /\ \E n \in FreeClusters(d) : q.disk = Attached(d, s, n)

(* The clusters of an edited name and of its directory account for what is *)
(* newly marked, and of the rest nothing was the old chain of the name.    *)
Thrifty(path) ==
  LET s == ParentCluster(disk, path)
  IN  /\ Range(read_chain(disk, s)) \subseteq Range(read_chain(disk', s))
      /\ \A z \in Clusters : disk'.fat[z] # FREE =>
           \/ z \in Range(read_chain(disk', EntryAt(disk', path).cluster))
           \/ z \in Range(read_chain(disk', s))
           \/ disk.fat[z] # FREE /\ z \notin Range(read_chain(disk, EntryAt(disk, path).cluster))

(* Where the making of a new object leads: damage, nothing, no new entry,  *)
(* or an entry whose chain is as it was filled, without entries.           *)
Created(L, path, entry, d) ==
  \/ damaged'
  \/ NothingDone(L)
  \/ /\ Edited(disk, disk', L, path)
     /\ \/ reply' = "Error" /\ EntryAt(disk', path) = End
        \/ /\ reply' \in {"Ok", "Error"} /\ EntryAt(disk', path) = entry /\ Thrifty(path)
           /\ SlotsOf(disk', entry.cluster) = SlotsOf(d, entry.cluster)
           /\ \A z \in Range(read_chain(disk', entry.cluster)) : Plain(disk'.data[z])

(* What a client sees where nothing is, where a directory is and where a   *)
(* file with the data is.                                                  *)
ShownNone == [kind |-> "absent", content |-> <<>>]
ShownDirectory == [kind |-> "dir", content |-> <<>>]
ShownFile(data) == [kind |-> "file", content |-> data]
Seen(d) == [p \in Paths |-> Shown(d, p)]

(* What clients see of the steps of the volume. *)
Unseen == reply' = "Error" /\ Seen(disk') = Seen(disk)
Sets(path, x) == Seen(disk') = [Seen(disk) EXCEPT ![path] = x]
Removes(path) == Seen(disk') = [q \in Paths |-> IF Beneath(path, q) THEN ShownNone ELSE Seen(disk)[q]]

(* What a step may leak. *)
Saves(path) ==
  \/ Leaked(disk', view') \subseteq Leaked(disk, view)
  \/ reply' = "Error"
  \/ view[path].kind = "dir" /\ view'[path].kind = "absent"

(* A step of the volume as clients see it. *)
WithinDirectory(path) == Len(path) > 1 => Seen(disk)[Front(path)] = ShownDirectory

ClientStep(path) ==
  \/ reply' = "Refused" /\ Seen(disk') = Seen(disk)
  \/ Unseen
  \/ /\ reply' \in {"Ok", "Error"} /\ WithinDirectory(path) /\ Seen(disk)[path].kind # "dir"
     /\ \E content \in Contents :
          Sets(path, ShownFile([i \in DOMAIN content |-> Text(content[i])]))
  \/ /\ reply' \in {"Ok", "Error"} /\ WithinDirectory(path) /\ Seen(disk)[path] = ShownNone
     /\ Sets(path, ShownDirectory)
  \/ /\ reply' = "Error" /\ Seen(disk)[path].kind = "file" /\ Shown(disk', path).kind = "file"
     /\ Sets(path, Shown(disk', path))
  \/ reply' \in {"Ok", "Error"} /\ Seen(disk)[path] # ShownNone /\ Removes(path)

(* What clients write fits in two clusters. *)
ShortFiles == \A content \in Contents : Len(content) <= 2 * SlotsPerBlock
StepSeen(path) == Barren(disk') /\ Saves(path) /\ (ShortFiles => ClientStep(path))

(* The inductive invariant: no entry of a volume that was never damaged is *)
(* found through a file.                                                   *)
TreeInv == ForestInv /\ (~damaged => Barren(disk))

-----------------------------------------------------------------------------
(***************************************************************************)
(* The shell and the open files.                                           *)
(***************************************************************************)
Descriptors == [fd: Nat, path: Paths, writable: BOOLEAN, pos: Nat, size: Nat,
                cluster: Clusters \cup {0}]

(* The type invariant, with descriptors as the records they are. *)
ShellInv == ShellTypeOK /\ file_table \subseteq Descriptors

(* No descriptor claims more than two clusters. *)
SmallFiles == \A f \in file_table : f.size <= 2 * SlotsPerBlock

(* What a step of the shell does to a forest, as long as no descriptor     *)
(* writes to a file that is not its own.                                   *)
KeepsForest(L) == Stays \/ ForestFrom(L) \/ damaged'

(* The inductive invariant of the shell: the volume is a forest until it   *)
(* is damaged or a descriptor strays, and has room for its files.          *)
ShellForestInv ==
  /\ ShellInv /\ view = Survey(disk)
  /\ ~damaged /\ ~strayed =>
       /\ \E L : /\ Forest(disk, L) /\ (ShortNames => Tidy(disk, L))
                 /\ Bounded => Room(disk, L)
       /\ Bounded => SmallFiles

(* update_file_size leaves the disk alone or changes the size of an entry. *)
Resized(d, e, path, size) ==
  \/ e = d
  \/ /\ HasParent(d, path)
     /\ \E k \in DOMAIN SlotsOf(d, ParentCluster(d, path)) :
          LET slot == SlotsOf(d, ParentCluster(d, path))[k]
          IN  /\ IsEntry(slot) /\ slot = find_entry(d, ParentCluster(d, path), Last(path))
              /\ e = SetSlot(d, HomeOf(d, ParentCluster(d, path), k), PlaceAt(k),
                             [slot EXCEPT !.size = size])

(* Blocks that keep their entries or lose them. *)
Thinner(d, e, A) ==
  \A z \in A : \A j \in Places : e.data[z][j] = d.data[z][j] \/ ~IsEntry(e.data[z][j])

(* Data whose blocks bring no entry to where none was. *)
Harmless(d, b, over) ==
  \A n \in Nat \ {0} : \A j \in Places :
    IsEntry(BlockOf(over, n)[j]) =>
      n \in 1 .. Len(b) /\ BlockOf(over, n)[j] = d.data[b[n]][j]

(* What write_file_data does to the chain b of a forest: its blocks change *)
(* and its end may be linked to one new cluster, which is marked last.     *)
Rewrites(d, e, done, L, b) ==
  /\ Thinner(d, e, L) /\ Same(d, e, L \ Range(b))
  /\ \A z \in L : z # Last(b) => e.fat[z] = d.fat[z]
  /\ \/ e.fat[Last(b)] \in {d.fat[Last(b)], EOC}
     \/ \E y \in Clusters \ L :
          /\ e.fat[Last(b)] = y /\ Plain(e.data[y])
          /\ e.fat[y] \in {FREE, EOC, y} /\ (done => e.fat[y] # FREE)

(* The file keeps the forest, or stops with a link to an unmarked cluster. *)
RewriteOutcome(e, done, L, h) ==
  \/ \E D : Forest(e, L \cup D) /\ \A z \in D : Plain(e.data[z])
  \/ ~done /\ \E y \in Range(read_chain(e, h)) : e.fat[y] = FREE

=============================================================================
