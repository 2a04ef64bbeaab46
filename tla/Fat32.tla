-------------------------------- MODULE Fat32 --------------------------------
(***************************************************************************)
(* The FAT32 volume (fs/fat32) and the operations of the VFS that change   *)
(* it (create_file, mkdir and delete of fs/vfs/mod.rs).                    *)
(*                                                                         *)
(* The shell runs one operation at a time under the VFS lock, so nothing   *)
(* interleaves with it; what can happen in the middle is that a sector     *)
(* write fails, which makes the operation return early, or that the        *)
(* machine stops.  Both leave the writes made so far, and the failing one  *)
(* may have been made, too: an operation is one step, with the number of   *)
(* its writes that succeed, in halves, as a parameter.                     *)
(*                                                                         *)
(* A cluster is one sector: a block of slots, each a directory entry or as *)
(* much text of a file, so that a block means what its reader takes it     *)
(* for.  Only the first copy of the table is kept, the one that is read.   *)
(***************************************************************************)
EXTENDS Integers, Sequences, SequencesExt

CONSTANTS
  Clusters,     \* numbers of the data clusters, from 2
  Root,         \* bpb.root_cluster
  SlotsPerBlock,\* entries_per_cluster
  Names,        \* file names, in upper case
  Stored,       \* the name set_name_83 leaves on the disk for a name
  Paths,        \* the paths clients use, sequences of names
  Texts,        \* what a slot of a file holds
  Contents,     \* what clients write to files
  AnyParent,    \* clients pass paths through files, too
  MaxWrites,    \* bound on the writes of an operation before the failing one
  MaxFaults     \* bound on the operations that a failing write cuts short

ASSUME Fat32Assumption ==
  /\ Max(Clusters) \in Nat /\ Clusters = 2 .. Max(Clusters) /\ Root \in Clusters
  /\ SlotsPerBlock \in Nat /\ SlotsPerBlock > 1
  /\ Stored \in [Names -> Names]
  /\ \A p \in Paths : /\ p \in Seq(Names) /\ p # <<>>
                      /\ Len(p) > 1 => Front(p) \in Paths
  /\ \A c \in Contents : c \in Seq(Texts)
  /\ AnyParent \in BOOLEAN
  /\ MaxWrites \in Nat /\ MaxFaults \in Nat

VARIABLES
  disk,     \* fat: the allocation table; data: the blocks
  reply,    \* how the last operation ended
  faults,   \* operations cut short so far, at most MaxFaults
  view,     \* history: what reading every path gives
  damaged   \* history: a chain has run into a free cluster

vars == <<disk, reply, faults, view, damaged>>

-----------------------------------------------------------------------------
(* Slots, blocks and the table. *)
Slot(kind, name, cluster, size) ==
  [kind |-> kind, name |-> name, cluster |-> cluster, size |-> size]

End == Slot("end", "", 0, 0)
Deleted == Slot("deleted", "", 0, 0)
Dot == Slot("dot", "", 0, 0)
Text(t) == Slot("text", t, 0, 0)

FREE == 0
EOC == 1

ZeroBlock == [i \in 1 .. SlotsPerBlock |-> End]

(* The chain from start: it ends at any entry that is no cluster, and      *)
(* before a cluster that it already has.                                   *)
read_chain(d, start) ==
  LET walk[n \in 0 .. Cardinality(Clusters)] ==
        IF n = 0 THEN <<start>>
        ELSE LET chain == walk[n - 1]
                 next == d.fat[Last(chain)]
             IN  IF next \notin Clusters \/ next \in Range(chain) THEN chain
                 ELSE Append(chain, next)
  IN  IF start \in Clusters THEN walk[Cardinality(Clusters)] ELSE <<>>

(* Slot k of a chain lies in its block BlockAt(k), at PlaceAt(k). *)
BlockAt(k) == (k - 1) \div SlotsPerBlock + 1
PlaceAt(k) == ((k - 1) % SlotsPerBlock) + 1

(* The slots of a chain, one after the other. *)
SlotsOf(d, start) ==
  LET chain == read_chain(d, start)
  IN  [k \in 1 .. Len(chain) * SlotsPerBlock |->
         d.data[chain[BlockAt(k)]][PlaceAt(k)]]

IsEntry(s) == s.kind \in {"file", "dir"}

(* The entry of a name, End if there is none: the scan stops at an end mark. *)
find_entry(d, dir_cluster, name) ==
  LET slots == SlotsOf(d, dir_cluster)
      i == SelectInSeq(slots, LAMBDA s : s = End \/ (IsEntry(s) /\ s.name = name))
  IN  IF i = 0 THEN End ELSE slots[i]

(* resolve_path: the entry a path leads to, whatever kind of entries it    *)
(* leads through.  The empty path leads to the root.                       *)
RootEntry == Slot("dir", "", Root, 0)

EntryAt(d, path) ==
  LET at[k \in 0 .. Len(path)] ==
        IF k = 0 THEN RootEntry
        ELSE IF at[k - 1] = End THEN End
        ELSE find_entry(d, at[k - 1].cluster, path[k])
  IN  at[Len(path)]

(* resolve_parent *)
HasParent(d, path) == EntryAt(d, Front(path)) # End

ParentCluster(d, path) == EntryAt(d, Front(path)).cluster

(* read_file: what is missing at the end of the chain reads as zeros. *)
read_file(d, entry) ==
  LET slots == SlotsOf(d, entry.cluster)
  IN  [i \in 1 .. entry.size |-> IF i <= Len(slots) THEN slots[i] ELSE End]

-----------------------------------------------------------------------------
(* A running operation: the disk so far, the half writes left, whether it  *)
(* still runs (every step after an early return does nothing), the last    *)
(* cluster allocated.                                                      *)
Started(d, limit) == [disk |-> d, left |-> limit, ok |-> TRUE, cluster |-> 0]

Fail(r) == [r EXCEPT !.ok = FALSE]

(* Half a write is that the sector lands, the other half that the driver   *)
(* reports it: a flush that fails (drivers/ata/mod.rs:407) makes an error  *)
(* of a write that was made.  An entry of the table whose first copy is    *)
(* written and whose second one is not is half written, too.               *)
Write(r, d) ==
  IF ~r.ok THEN r
  ELSE IF r.left = 0 THEN Fail(r)
  ELSE IF r.left = 1 THEN Fail([r EXCEPT !.disk = d, !.left = 0])
  ELSE [r EXCEPT !.disk = d, !.left = @ - 2]

(* Mutant: the value keeps a bit of the reserved ones. *)
write_fat_entry_unmasked(r, c, value) ==
  Write(r, [r.disk EXCEPT !.fat[c] = value + 2^28])

write_fat_entry(r, c, value) == Write(r, [r.disk EXCEPT !.fat[c] = value])

write_cluster(r, c, block) == Write(r, [r.disk EXCEPT !.data[c] = block])

FreeClusters(d) == {c \in Clusters : d.fat[c] = FREE}

(* The first free cluster, zeroed; the table is left to the caller. *)
alloc_cluster(r) ==
  IF ~r.ok THEN r
  ELSE IF FreeClusters(r.disk) = {} THEN Fail(r)
  ELSE LET c == Min(FreeClusters(r.disk))
       IN  write_cluster([r EXCEPT !.cluster = c], c, ZeroBlock)

free_chain(r, start) ==
  LET chain == read_chain(r.disk, start)
      freed[n \in 0 .. Len(chain)] ==
        IF n = 0 THEN r ELSE write_fat_entry(freed[n - 1], chain[n], FREE)
  IN  freed[Len(chain)]

(* The block of data that goes to the i-th cluster of a file. *)
BlockOf(data, i) ==
  [j \in 1 .. SlotsPerBlock |->
     LET k == (i - 1) * SlotsPerBlock + j
     IN  IF k <= Len(data) THEN data[k] ELSE End]

Needed(data) == (Len(data) + SlotsPerBlock - 1) \div SlotsPerBlock

(* Mutant: the last link is left out. *)
write_file_data_unlinked(r, start, data) ==
  LET first == write_cluster(r, start, BlockOf(data, 1))
      more  == alloc_cluster(first)
      grown == write_cluster(more, more.cluster, BlockOf(data, 2))
  IN  IF Needed(data) < 2 THEN first
      ELSE write_fat_entry(grown, more.cluster, EOC)

(* The clusters the data needs are allocated one by one before any of them *)
(* is marked in the table; then all blocks and all links are written.      *)
AllocateTimes(r, count) ==
  LET grown[n \in 0 .. count] ==
        IF n = 0 THEN r ELSE alloc_cluster(grown[n - 1])
  IN  grown[count]

WriteBlocks(r, clusters, data) ==
  LET filled[n \in 0 .. Len(clusters)] ==
        IF n = 0 THEN r
        ELSE write_cluster(filled[n - 1], clusters[n], BlockOf(data, n))
  IN  filled[Len(clusters)]

WriteLinks(r, clusters) ==
  LET next(n) == IF n < Len(clusters) THEN clusters[n + 1] ELSE EOC
      linked[n \in 0 .. Len(clusters)] ==
        IF n = 0 THEN r ELSE write_fat_entry(linked[n - 1], clusters[n], next(n))
  IN  linked[Len(clusters)]

write_file_data(r, start, data) ==
  LET existing == read_chain(r.disk, start)
      missing  == Max({0, Needed(data) - Len(existing)})
      grown    == AllocateTimes(r, missing)
      clusters == existing \o [i \in 1 .. missing |-> grown.cluster]
  IN  IF ~grown.ok THEN grown
      ELSE WriteLinks(WriteBlocks(grown, clusters, data), clusters)

(* Mutant: the first cluster is left to write_file_data to mark. *)
allocate_and_write_unmarked(r, data) ==
  LET first == alloc_cluster(r)
      done  == IF data = <<>> THEN first
               ELSE write_file_data(first, first.cluster, data)
  IN  IF ~first.ok THEN first ELSE [done EXCEPT !.cluster = first.cluster]

(* The first cluster of the new chain is the cluster of the result. *)
allocate_and_write(r, data) ==
  LET first  == alloc_cluster(r)
      marked == write_fat_entry(first, first.cluster, EOC)
      done   == IF data = <<>> THEN marked
                ELSE write_file_data(marked, first.cluster, data)
  IN  IF ~marked.ok THEN marked
      ELSE [done EXCEPT !.cluster = first.cluster]

-----------------------------------------------------------------------------
(* Directories.  Slot i of a chain is replaced by rewriting its block. *)
PutSlot(r, start, i, slot) ==
  LET c == read_chain(r.disk, start)[BlockAt(i)]
  IN  write_cluster(r, c, [r.disk.data[c] EXCEPT ![PlaceAt(i)] = slot])

FreeSlot(d, dir_cluster) ==
  SelectInSeq(SlotsOf(d, dir_cluster), LAMBDA s : s \in {End, Deleted})

(* A full directory grows by a cluster: it is linked to the chain, then    *)
(* marked as its end, then written.                                        *)
Grow(r, dir_cluster, entry) ==
  LET new    == alloc_cluster(r)
      linked == write_fat_entry(new, Last(read_chain(r.disk, dir_cluster)), new.cluster)
      marked == write_fat_entry(linked, new.cluster, EOC)
  IN  IF read_chain(r.disk, dir_cluster) = <<>> THEN Fail(new)
      ELSE write_cluster(marked, new.cluster, [ZeroBlock EXCEPT ![1] = entry])

add_entry(r, dir_cluster, entry) ==
  LET i == FreeSlot(r.disk, dir_cluster)
  IN  IF ~r.ok THEN r
      ELSE IF i > 0 THEN PutSlot(r, dir_cluster, i, entry)
      ELSE Grow(r, dir_cluster, entry)

(* Unlike the other scans this one does not stop at an end mark. *)
update_dir_entry(r, dir_cluster, name, cluster, size) ==
  LET slots == SlotsOf(r.disk, dir_cluster)
      i == SelectInSeq(slots, LAMBDA s : IsEntry(s) /\ s.name = name)
  IN  IF ~r.ok THEN r
      ELSE IF i = 0 THEN Fail(r)
      ELSE PutSlot(r, dir_cluster, i, Slot(slots[i].kind, name, cluster, size))

(* Mutant: the slot becomes an end mark. *)
remove_entry_ending(r, dir_cluster, name) ==
  LET slots == SlotsOf(r.disk, dir_cluster)
      i == SelectInSeq(slots, LAMBDA s : IsEntry(s) /\ s.name = name)
  IN  PutSlot(r, dir_cluster, i, End)

(* The name is known to be there. *)
remove_entry(r, dir_cluster, name) ==
  LET slots == SlotsOf(r.disk, dir_cluster)
      i == SelectInSeq(slots, LAMBDA s : IsEntry(s) /\ s.name = name)
  IN  PutSlot(r, dir_cluster, i, Deleted)

-----------------------------------------------------------------------------
(* What a path leads to: its kind, content and clusters. *)
Look(d, path) ==
  LET entry == EntryAt(d, path)
  IN  [kind     |-> IF entry = End THEN "absent" ELSE entry.kind,
       content  |-> IF entry.kind = "file" THEN read_file(d, entry) ELSE <<>>,
       clusters |-> Range(read_chain(d, entry.cluster))]

Survey(d) == [p \in Paths |-> Look(d, p)]

RootClusters(d) == Range(read_chain(d, Root))

InUse(d, v) == UNION ({RootClusters(d)} \cup {v[p].clusters : p \in Paths})

(* A new volume, or one on which another system left an empty file, which  *)
(* has no cluster.                                                         *)
Init == /\ \E root \in {ZeroBlock} \cup
                       {[ZeroBlock EXCEPT ![1] = Slot("file", n, 0, 0)] : n \in Names} :
             disk = [fat  |-> [c \in Clusters |-> IF c = Root THEN EOC ELSE FREE],
                     data |-> [c \in Clusters |-> IF c = Root THEN root ELSE ZeroBlock]]
        /\ reply = "Ok"
        /\ faults = 0
        /\ view = Survey(disk)
        /\ damaged = FALSE

(* An operation that is refused makes no write. *)
Refuse ==
  /\ reply' = "Refused"
  /\ UNCHANGED <<disk, faults, view, damaged>>

(* How many writes of an operation succeed, in halves: all, or while there *)
(* are faults left any number.                                             *)
NoLimit == -1

Limits ==
  {NoLimit} \cup (IF faults < MaxFaults THEN 0 .. 2 * MaxWrites + 1 ELSE {})

Finish(r) ==
  /\ disk' = r.disk
  /\ reply' = (IF r.ok THEN "Ok" ELSE "Error")
  /\ faults' = faults + (IF ~r.ok /\ r.left = 0 THEN 1 ELSE 0)
  /\ view' = Survey(r.disk)
  /\ damaged' = (damaged \/ \E c \in InUse(r.disk, view') : r.disk.fat[c] = FREE)

(* Which paths clients pass. *)
Passed(path) ==
  ~AnyParent => EntryAt(disk, Front(path)).kind # "file"

(* Mutant: the old chain is kept. *)
Overwrite_keeping(path, data, limit) ==
  LET parent == ParentCluster(disk, path)
      name   == Last(path)
      new    == allocate_and_write(Started(disk, limit), data)
  IN  Finish(update_dir_entry(new, parent, name, new.cluster, Len(data)))

Overwrite(path, data, limit) ==
  LET parent == ParentCluster(disk, path)
      name   == Last(path)
      entry  == find_entry(disk, parent, name)
      freed  == free_chain(Started(disk, limit), entry.cluster)
      new    == allocate_and_write(freed, data)
  IN  Finish(update_dir_entry(new, parent, name, new.cluster, Len(data)))

Create(path, data, limit) ==
  LET parent == ParentCluster(disk, path)
      new    == allocate_and_write(Started(disk, limit), data)
      entry  == Slot("file", Stored[Last(path)], new.cluster, Len(data))
  IN  Finish(add_entry(new, parent, entry))

create_file(path, content) ==
  LET data == [i \in DOMAIN content |-> Text(content[i])]
  IN  /\ Passed(path)
      /\ \/ /\ ~HasParent(disk, path) \/ EntryAt(disk, path).kind = "dir"
            /\ Refuse
         \/ /\ HasParent(disk, path) /\ EntryAt(disk, path).kind = "file"
            /\ \E limit \in Limits : Overwrite(path, data, limit)
         \/ /\ HasParent(disk, path) /\ EntryAt(disk, path) = End
            /\ \E limit \in Limits : Create(path, data, limit)

MakeDirectory(path, limit) ==
  LET parent == ParentCluster(disk, path)
      new    == alloc_cluster(Started(disk, limit))
      filled == write_cluster(new, new.cluster,
                              [ZeroBlock EXCEPT ![1] = Dot, ![2] = Dot])
      marked == write_fat_entry(filled, new.cluster, EOC)
      entry  == Slot("dir", Stored[Last(path)], new.cluster, 0)
  IN  Finish(add_entry(marked, parent, entry))

mkdir(path) ==
  /\ Passed(path)
  /\ \/ /\ ~HasParent(disk, path) \/ EntryAt(disk, path) # End
        /\ Refuse
     \/ /\ HasParent(disk, path) /\ EntryAt(disk, path) = End
        /\ \E limit \in Limits : MakeDirectory(path, limit)

(* Mutant: the chain is freed while the entry is still there. *)
Delete_freeing_first(path, limit) ==
  LET freed == free_chain(Started(disk, limit), EntryAt(disk, path).cluster)
  IN  Finish(IF freed.ok
               THEN remove_entry(freed, ParentCluster(disk, path), Last(path))
               ELSE freed)

Delete(path, limit) ==
  LET removed == remove_entry(Started(disk, limit), ParentCluster(disk, path), Last(path))
  IN  Finish(IF removed.ok THEN free_chain(removed, EntryAt(disk, path).cluster)
                           ELSE removed)

delete(path) ==
  /\ Passed(path)
  /\ \/ EntryAt(disk, path) = End /\ Refuse
     \/ EntryAt(disk, path) # End /\ \E limit \in Limits : Delete(path, limit)

Next == \E path \in Paths : \/ \E content \in Contents : create_file(path, content)
                           \/ mkdir(path)
                           \/ delete(path)

Spec == Init /\ [][Next]_vars

-----------------------------------------------------------------------------
Slots == [kind: {"end", "deleted", "dot", "text", "file", "dir"},
          name: Names \cup Texts \cup {""}, cluster: Clusters \cup {0}, size: Nat]

Disk == [fat: [Clusters -> Clusters \cup {FREE, EOC}],
         data: [Clusters -> [1 .. SlotsPerBlock -> Slots]]]

(* Type correctness of the volume. *)
TypeOK ==
  /\ disk \in Disk
  /\ reply \in {"Ok", "Refused", "Error"}
  /\ faults \in 0 .. MaxFaults
  /\ damaged \in BOOLEAN

(* On a volume that was never damaged no two objects share a cluster,      *)
(* although alloc_cluster hands out clusters it does not mark and every    *)
(* operation may stop between any two of its writes.                       *)
NoCrossLinks ==
  ~damaged =>
    \A p, q \in Paths :
      /\ view[p].clusters \cap RootClusters(disk) = {}
      /\ p # q => view[p].clusters \cap view[q].clusters = {}

(* The first clusters of the directories. *)
Directories ==
  {Root} \cup {EntryAt(disk, p).cluster : p \in {q \in Paths : view[q].kind = "dir"}}

(* A directory never hides an entry behind an end mark and never has two   *)
(* entries of one name: what was created can be listed, found and removed. *)
DirectoriesWellFormed ==
  ~damaged =>
    \A dir \in Directories :
      LET slots == SlotsOf(disk, dir)
      IN  \A i, j \in DOMAIN slots :
            i < j /\ IsEntry(slots[j]) =>
              slots[i] # End /\ ~(IsEntry(slots[i]) /\ slots[i].name = slots[j].name)

(* Damage needs one of two windows, each in an operation that fails: an    *)
(* overwrite stops while the entry of its file names the old chain, or a   *)
(* full directory is linked to a new cluster that is not yet marked.       *)
DamageNeedsWindow ==
  [][damaged' /\ ~damaged =>
       /\ reply' = "Error"
       /\ \/ \E p \in Paths :
               /\ view[p].kind = "file" /\ view'[p].kind = "file"
               /\ \E c \in view'[p].clusters : disk'.fat[c] = FREE
          \/ \E dir \in Directories :
               /\ FreeSlot(disk, dir) = 0
               /\ disk'.fat[Last(read_chain(disk', dir))] = FREE]_vars

Leaked(d, v) == {c \in Clusters : d.fat[c] # FREE} \ InUse(d, v)

(* Space is lost only by an operation that fails, or with the contents of  *)
(* a directory that is deleted.                                            *)
LeaksNeedFailure ==
  [][~damaged' /\ ~(Leaked(disk', view') \subseteq Leaked(disk, view)) =>
       \/ reply' = "Error"
       \/ \E p \in Paths : view[p].kind = "dir" /\ view'[p].kind = "absent"]_vars

(* What a client sees of the volume. *)
Tree == INSTANCE FileTree WITH
  Path    <- Paths,
  Content <- {[i \in DOMAIN c |-> Text(c[i])] : c \in Contents},
  tree    <- [p \in Paths |-> [kind |-> view[p].kind, content |-> view[p].content]],
  intact  <- ~damaged,
  answer  <- reply

(* The volume implements the file tree: every operation happens completely *)
(* or not at all whatever write it stops at, and changes no other path,    *)
(* save that an overwrite which fails may lose the file's content.  What   *)
(* is answered with success has happened; what is answered with an error   *)
(* may have happened.                                                      *)
ImplementsFileTree == Tree!TreeSpec

(* The VFS has an error for a path that leads through something that is    *)
(* not a directory: what contains an entry is a directory.                 *)
ParentsAreDirectories ==
  \A p \in Paths :
    Len(p) > 1 /\ view[p].kind # "absent" => view[Front(p)].kind = "dir"

=============================================================================
