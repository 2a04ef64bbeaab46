------------------------------ MODULE FileTree ------------------------------
(***************************************************************************)
(* What the file operations promise: each one either happens completely or *)
(* leaves the tree as it was, and touches no other path.  One that is      *)
(* answered with success has happened, one that is refused has not, one    *)
(* that is answered with an error may have.  Two exceptions are part of    *)
(* the promise because the code makes them: an overwrite that does not     *)
(* complete may leave its own file with any content, and a volume on which *)
(* a chain runs into a free cluster (intact is then FALSE) promises        *)
(* nothing more.                                                           *)
(***************************************************************************)
EXTENDS Naturals, Sequences

CONSTANTS Path, Content

VARIABLES
  tree,     \* what every path leads to
  intact,   \* no chain runs into a free cluster
  answer    \* how the last operation ended

treeVars == <<tree, intact, answer>>

Absent == [kind |-> "absent", content |-> <<>>]
Directory == [kind |-> "dir", content |-> <<>>]
File(c) == [kind |-> "file", content |-> c]

Under(p, q) == Len(p) <= Len(q) /\ SubSeq(q, 1, Len(p)) = p

InDirectory(p) ==
  Len(p) > 1 => tree[SubSeq(p, 1, Len(p) - 1)] = Directory

TreeInit == /\ intact = TRUE /\ answer = "Ok"
            /\ tree \in [Path -> {Absent, File(<<>>)}]

Put(p, c) == /\ InDirectory(p) /\ tree[p].kind # "dir"
             /\ tree' = [tree EXCEPT ![p] = File(c)]

MakeDirectory(p) == /\ InDirectory(p) /\ tree[p] = Absent
                    /\ tree' = [tree EXCEPT ![p] = Directory]

Remove(p) == /\ tree[p] # Absent
             /\ tree' = [q \in Path |-> IF Under(p, q) THEN Absent ELSE tree[q]]

(* An overwrite that did not complete. *)
Tear(p) == /\ tree[p].kind = "file" /\ tree'[p].kind = "file"
           /\ tree' = [tree EXCEPT ![p] = tree'[p]]

Change == \E p \in Path : \/ \E c \in Content : Put(p, c)
                          \/ MakeDirectory(p) \/ Remove(p)

(* What is answered with success has happened. *)
Complete == answer' = "Ok" /\ Change

Refuse == answer' = "Refused" /\ tree' = tree

(* An error leaves it open whether it has. *)
Fail == /\ answer' = "Error"
        /\ tree' = tree \/ Change \/ \E p \in Path : Tear(p)

TreeNext == \/ intact /\ intact' /\ (Complete \/ Refuse \/ Fail)
            \/ ~intact'

TreeSpec == TreeInit /\ [][TreeNext]_treeVars

=============================================================================
