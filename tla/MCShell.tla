------------------------------ MODULE MCShell -------------------------------
(* A volume of a few clusters, one directory, and two open files. *)
EXTENDS Shell

MCClusters == 2 .. 5
MCPaths == {<<"F">>, <<"D">>, <<"D", "F">>}
MCStored == [n \in Names |-> n]
MCContents == {<<>>, <<"x", "y", "x">>}
(* No step depends on how the last operation ended, and view is what the   *)
(* disk shows.                                                             *)
MCView == <<disk, faults, damaged, cwd, file_table, next_fd, calls, strayed>>

MCData == {<<>>, <<"y", "x">>}
=============================================================================
