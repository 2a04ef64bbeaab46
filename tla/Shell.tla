-------------------------------- MODULE Shell --------------------------------
(***************************************************************************)
(* The file commands of the terminal (terminal/mod.rs) and the open files  *)
(* of the VFS (fs/vfs/mod.rs) on a FAT32 volume.                           *)
(*                                                                         *)
(* A relative path means two things: stat, open and cd take it from the    *)
(* current directory, create_file, mkdir and delete from the root.  An     *)
(* open file is known by its first cluster and its size at the time it was *)
(* opened, while other operations move, grow and free what it is made of.  *)
(*                                                                         *)
(* `disk w', which writes up to four raw sectors below the file system     *)
(* (terminal/mod.rs:569), is left out: nothing is claimed of a volume that *)
(* has been written to in this way.                                        *)
(***************************************************************************)
EXTENDS Fat32

CONSTANTS
  Data,         \* what clients write to open files
  MaxCalls,     \* bound on the calls that change anything, besides opens
  MaxOpens,     \* bound on the calls of open that succeed
  MaxSize       \* bound on the position of an open file

ASSUME ShellAssumption ==
  /\ \A w \in Data : w \in Seq(Texts)
  /\ MaxCalls \in Nat /\ MaxOpens \in Nat /\ MaxSize \in Nat

VARIABLES
  cwd,          \* the current directory, a sequence of names
  file_table,   \* open files
  next_fd,      \* the next descriptor
  calls,        \* calls that changed anything so far
  strayed       \* history: a file was written through clusters not its own

shellVars == <<disk, reply, faults, view, damaged,
               cwd, file_table, next_fd, calls, strayed>>

Modes == {"Read", "Write", "Create", "CreateNew"}

(* What is typed: a path, with or without a slash in front. *)
Arguments == [absolute: BOOLEAN, path: Paths]

ShellInit ==
  /\ Init
  /\ cwd = <<>>
  /\ file_table = {}
  /\ next_fd = 3
  /\ calls = 0
  /\ strayed = FALSE

-----------------------------------------------------------------------------
(* Names. *)

(* Mutant: the current directory goes in front of every path. *)
canonicalize_always(arg) == cwd \o arg.path

canonicalize(arg) == IF arg.absolute THEN arg.path ELSE cwd \o arg.path

Resolves(path) == EntryAt(disk, path) # End

(* stat: the entry of the path from the current directory, End for         *)
(* NotFound.  The path must resolve from the root as well.                 *)
stat(arg) ==
  IF Resolves(arg.path) THEN EntryAt(disk, canonicalize(arg)) ELSE End

-----------------------------------------------------------------------------
(* The commands. *)
OpenFilesUnchanged == UNCHANGED <<file_table, next_fd, strayed>>

(* A call that changes nothing is free. *)
Counted ==
  calls' = calls + (IF <<disk, cwd, file_table>>' = <<disk, cwd, file_table>> THEN 0 ELSE 1)

(* What every command on a path has in common. *)
Command == UNCHANGED cwd /\ OpenFilesUnchanged /\ Counted

cmd_touch(arg) ==
  /\ IF stat(arg) # End THEN Passed(arg.path) /\ Refuse
                        ELSE create_file(arg.path, <<>>)
  /\ Command

(* The other two commands do not look at the current directory. *)
cmd_mkdir(path) ==
  /\ mkdir(path)
  /\ Command

cmd_write(path) ==
  /\ \E content \in Contents \ {<<>>} : create_file(path, content)
  /\ Command

cmd_rm(arg) ==
  /\ IF stat(arg).kind # "file" THEN Passed(arg.path) /\ Refuse
                                ELSE delete(arg.path)
  /\ Command

Parent(path) == IF path = <<>> THEN <<>> ELSE Front(path)

(* Any entry will do for a current directory. *)
ChangeTo(path) ==
  /\ cwd' = (IF Resolves(path) THEN path ELSE cwd)
  /\ reply' = (IF Resolves(path) THEN "Ok" ELSE "Refused")
  /\ UNCHANGED <<disk, faults, view, damaged>>

(* cd with a path, with "/" and with ".." *)
cmd_cd ==
  /\ \/ \E arg \in Arguments : ChangeTo(canonicalize(arg))
     \/ ChangeTo(<<>>)
     \/ ChangeTo(Parent(cwd))
  /\ OpenFilesUnchanged /\ Counted

-----------------------------------------------------------------------------
(* Open files.  Of its mode a descriptor keeps whether it may be written. *)
Descriptor(path, mode, entry) ==
  [fd |-> next_fd, path |-> path, writable |-> mode # "Read", pos |-> 0,
   size |-> entry.size, cluster |-> entry.cluster]

(* Mutant: the number is not used up. *)
Opened_same(path, mode, entry) ==
  /\ file_table' = file_table \cup {Descriptor(path, mode, entry)}
  /\ UNCHANGED next_fd

Opened(path, mode, entry) ==
  /\ file_table' = file_table \cup {Descriptor(path, mode, entry)}
  /\ next_fd' = next_fd + 1

(* A file that is there is opened as it is, in every mode but CreateNew. *)
OpenExisting(path, mode) ==
  LET entry == EntryAt(disk, path)
  IN  IF entry.kind = "dir" \/ mode = "CreateNew"
        THEN Refuse /\ UNCHANGED <<file_table, next_fd>>
        ELSE /\ Opened(path, mode, entry)
             /\ reply' = "Ok"
             /\ UNCHANGED <<disk, faults, view, damaged>>

OpenNew(path, mode, limit) ==
  LET new   == allocate_and_write(Started(disk, limit), <<>>)
      entry == Slot("file", Stored[Last(path)], new.cluster, 0)
      added == add_entry(new, ParentCluster(disk, path), entry)
  IN  /\ Finish(added)
      /\ IF added.ok THEN Opened(path, mode, entry)
                     ELSE UNCHANGED <<file_table, next_fd>>

open(arg, mode) ==
  LET path == canonicalize(arg)
  IN  /\ next_fd < 3 + MaxOpens
      /\ path \in Paths /\ Passed(path)
      /\ \/ EntryAt(disk, path) # End /\ OpenExisting(path, mode)
         \/ /\ EntryAt(disk, path) = End /\ HasParent(disk, path)
            /\ mode \in {"Create", "CreateNew"}
            /\ \E limit \in Limits : OpenNew(path, mode, limit)
         \/ /\ EntryAt(disk, path) = End
            /\ HasParent(disk, path) => mode \in {"Read", "Write"}
            /\ Refuse /\ UNCHANGED <<file_table, next_fd>>
      /\ UNCHANGED <<cwd, strayed>> /\ Counted

(* Mutant: what was there before the position is lost. *)
Overlay_fresh(file, data) ==
  [i \in 1 .. Max({file.pos + Len(data), file.size}) |->
     IF i \in file.pos + 1 .. file.pos + Len(data) THEN data[i - file.pos] ELSE End]

(* The data to write: at the start of a file the data alone, further on    *)
(* the file with the data laid over it.                                    *)
Overlay(file, data) ==
  LET old == read_file(disk, file)
      end == file.pos + Len(data)
  IN  IF file.pos = 0 THEN data
      ELSE [i \in 1 .. Max({end, file.size}) |->
              IF i \in file.pos + 1 .. end THEN data[i - file.pos]
              ELSE IF i <= file.size THEN old[i] ELSE End]

(* Mutant: the entry keeps the size it had. *)
update_file_size_never(r, path, size) == r

(* The size goes to the entry the path has by now, if it has one. *)
update_file_size(r, path, size) ==
  LET dir   == ParentCluster(r.disk, path)
      slots == SlotsOf(r.disk, dir)
      i     == SelectInSeq(slots, LAMBDA s : s = End \/ (IsEntry(s) /\ s.name = Last(path)))
  IN  IF ~r.ok THEN r
      ELSE IF ~HasParent(r.disk, path) THEN Fail(r)
      ELSE IF i = 0 \/ slots[i] = End THEN r
      ELSE PutSlot(r, dir, i, [slots[i] EXCEPT !.size = size])

(* The descriptor names the first cluster of its file, and claims no more  *)
(* of the file than there is.                                              *)
Owns(d, file) ==
  LET entry == EntryAt(d, file.path)
  IN  /\ entry.kind = "file" /\ entry.cluster = file.cluster
      /\ file.cluster \in Clusters /\ file.size <= Len(SlotsOf(d, file.cluster))

(* Mutant: the size is recorded before the data is written. *)
WriteOpen_size_first(file, data, limit) ==
  LET pos   == file.pos + Len(data)
      size  == Max({pos, file.size})
      sized == update_file_size(Started(disk, limit), file.path, size)
  IN  /\ Finish(write_file_data(sized, file.cluster, Overlay(file, data)))
      /\ file_table' = (file_table \ {file}) \cup {[file EXCEPT !.pos = pos, !.size = size]}

(* An empty write at the start of a file leaves zeros in its clusters, and *)
(* no size is recorded for a file that the descriptor takes for empty.     *)
WriteOpen(file, data, limit) ==
  LET written == write_file_data(Started(disk, limit), file.cluster, Overlay(file, data))
      pos     == file.pos + Len(data)
      size    == Max({pos, file.size})
      moved   == [file EXCEPT !.pos = pos, !.size = size]
  IN  /\ Finish(IF size = 0 THEN written ELSE update_file_size(written, file.path, size))
      /\ file_table' = (IF written.ok THEN (file_table \ {file}) \cup {moved}
                                      ELSE file_table)

write(file, text) ==
  LET data == [i \in DOMAIN text |-> Text(text[i])]
  IN  /\ file.pos + Len(data) <= MaxSize
      /\ IF ~file.writable
           THEN Refuse /\ UNCHANGED <<file_table, strayed>>
           ELSE /\ \E limit \in Limits : WriteOpen(file, data, limit)
                /\ strayed' = (strayed \/ ~Owns(disk, file))
      /\ UNCHANGED <<cwd, next_fd>> /\ Counted

close(file) ==
  /\ file_table' = {f \in file_table : f.fd # file.fd}
  /\ reply' = "Ok"
  /\ UNCHANGED <<disk, faults, view, damaged, cwd, next_fd, strayed>>
  /\ Counted

process_command ==
  \/ \E arg \in Arguments : cmd_touch(arg) \/ cmd_rm(arg)
  \/ \E path \in Paths : cmd_mkdir(path) \/ cmd_write(path)
  \/ cmd_cd

ShellNext ==
  /\ calls < MaxCalls + (next_fd - 3)
  /\ \/ process_command
     \/ \E arg \in Arguments, mode \in Modes : open(arg, mode)
     \/ \E file \in file_table : close(file) \/ \E text \in Data : write(file, text)

ShellSpec == ShellInit /\ [][ShellNext]_shellVars

-----------------------------------------------------------------------------
(* Type correctness of the volume, the current directory and the open      *)
(* files: a descriptor number is never in use twice, and no descriptor is  *)
(* behind its own size.                                                    *)
ShellTypeOK ==
  /\ TypeOK
  /\ cwd \in Seq(Names)
  /\ next_fd \in 3 .. 3 + MaxOpens /\ calls \in Nat
  /\ \A f \in file_table :
       /\ f.fd \in 3 .. next_fd - 1 /\ f.path \in Paths /\ f.writable \in BOOLEAN
       /\ f.size \in Nat /\ f.pos \in 0 .. f.size
       /\ f.cluster \in Clusters \cup {0}
       /\ \A g \in file_table : f.fd = g.fd => f = g

(* touch creates a file and never empties one, and rm removes no           *)
(* directory, because both look first.  They are protected only where a    *)
(* path means the same to stat as to create_file and delete: a relative    *)
(* path typed outside the root directory is not.                           *)
CommandsLookFirst ==
  [][\A p \in Paths :
       /\ view[p].kind # "absent" /\ ~damaged'
       /\ <<view'[p].kind, view'[p].content>> # <<view[p].kind, view[p].content>>
       => \A arg \in Arguments :
            arg.absolute \/ cwd = <<>> =>
              ~cmd_touch(arg) /\ (view[p].kind = "dir" => ~cmd_rm(arg))]_shellVars

(* A write through an open file that still owns its file changes no other  *)
(* path.  If it succeeds the data is at its position and what is before it *)
(* is kept; what is behind it is kept, too, save by a write at the start   *)
(* of the file, of which nothing but zeros is left (vfs/mod.rs:360).       *)
WritesStayInFile ==
  [][<<disk, file_table>>' # <<disk, file_table>> /\ ~damaged =>
     \A f \in {g \in file_table : g.writable /\ Owns(disk, g)}, text \in Data :
       write(f, text) =>
         LET old == view[f.path].content
             new == view'[f.path].content
             end == f.pos + Len(text)
         IN  /\ \A q \in Paths \ {f.path} : view'[q] = view[q]
             /\ reply' = "Ok" =>
                  /\ SubSeq(new, f.pos + 1, end) = [i \in DOMAIN text |-> Text(text[i])]
                  /\ \A i \in 1 .. f.pos : i <= Len(old) => new[i] = old[i]
                  /\ \A i \in end + 1 .. Len(new) :
                       i <= Len(old) => new[i] = IF f.pos = 0 THEN End ELSE old[i]]_shellVars

(* As long as nobody writes through a descriptor whose file has been       *)
(* deleted, overwritten or never had a cluster, open files keep the volume *)
(* whole: no shared clusters, no hidden entries, no file that claims more  *)
(* than its chain holds.                                                   *)
OpenFilesKeepVolume ==
  ~strayed =>
    /\ NoCrossLinks
    /\ DirectoriesWellFormed
    /\ ~damaged => \A p \in Paths :
         view[p].kind = "file" =>
           Needed(view[p].content) <= Cardinality(view[p].clusters)

(* The descriptor and the directory entry agree. *)
Current(d, file) == Owns(d, file) /\ EntryAt(d, file.path).size = file.size

(* The step took the file away from its path or gave it another size: it   *)
(* was removed or overwritten by its name or with a directory above it, or *)
(* another descriptor was written.                                         *)
Replaced(file) ==
  \/ \E arg \in Arguments : /\ IsPrefix(arg.path, file.path)
                            /\ cmd_touch(arg) \/ cmd_write(arg.path) \/ cmd_rm(arg)
  \/ \E f \in file_table, text \in Data :
       /\ f.path = file.path \/ ~Owns(disk, f)
       /\ write(f, text) /\ f.writable /\ f.fd # file.fd

(* An open file that agrees with its directory entry goes on agreeing with *)
(* it, through its own writes and everything done to other files; it goes  *)
(* stale only when its file is replaced.                                   *)
StaleNeedsReplacement ==
  [][\A f \in file_table, g \in file_table' :
       /\ f.fd = g.fd /\ <<disk', g>> # <<disk, f>> /\ ~damaged
       /\ Current(disk, f) /\ ~Current(disk', g)
       => Replaced(f)]_shellVars

=============================================================================
