------------------------------- MODULE MCPmm --------------------------------
(* Instances of the physical memory manager: seven frames of two units,    *)
(* frames 0 and 2 reserved by the kernel, so that frame 1 is a hole below  *)
(* the block 3..6 in which the self-test's four frames fit.                *)
EXTENDS Pmm

ram(base, size) == [base |-> base, size |-> size, usable |-> TRUE]
rsv(base, size) == [base |-> base, size |-> size, usable |-> FALSE]

MCStandard == {<<0, 1>>, <<0, 2>>, <<5, 6>>}

(* RAM with a reserved tail in a shared frame, RAM around a hole that is   *)
(* reserved, and a map that reaches beyond the tracked frames.             *)
MCMaps == {<<ram(0, 9), rsv(9, 3)>>,
           <<ram(0, 6), rsv(6, 2), ram(8, 6)>>,
           <<rsv(12, 8), ram(0, 12)>>}

MCAddrs == {3, 4, 6, 10, 14}
MCCounts == {0, 2, 3, 8}
MCLate == {rsv(9, 4)}
=============================================================================
