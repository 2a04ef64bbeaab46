------------------------------- MODULE MCVmm --------------------------------
(* Tables of three entries: 81 pages, of which the first nine are the boot *)
(* huge pages.  Pages 9 and 10 share a page table with 11, the next table  *)
(* begins at 12, and 64 needs three tables of its own.  Three of seven     *)
(* frames are free at the start.                                           *)
EXTENDS Vmm

MCBootFlags == {"writable"}
MCGiven == {{"writable"}, {"user", "no_execute"}}

MCStandard == {<<0, 7>>}

(* Odd addresses are not aligned; 16 lies in a huge page. *)
MCVirts == {16, 18, 19, 128}
MCPhys == {10, 11}

(* Over two page tables; physically out of a huge page; misaligned. *)
MCRanges == {<<22, 18, 2>>, <<128, 16, 2>>, <<5, 5, 1>>}
=============================================================================
