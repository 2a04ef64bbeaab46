------------------------------ MODULE MCFat32 -------------------------------
(* Volumes of a few clusters with two slots to a block: a directory grows  *)
(* with its first entry and a file of three slots takes two clusters.      *)
EXTENDS Fat32

MCClusters == 2 .. 5
MCPaths == {<<"F">>, <<"D">>, <<"D", "F">>}
MCStored == [n \in Names |-> n]
MCContents == {<<>>, <<"x", "y", "x">>}
=============================================================================
