------------------------------- MODULE MCAta --------------------------------
(* A disk of three sectors in a register range of four and a word of       *)
(* eight: lba 3 is behind the disk, 5 leaves the register range and names  *)
(* sector 1 there, and 7 with two sectors leaves the word.                 *)
EXTENDS Ata

Request(op, lba, count, data) ==
  [op |-> op, lba |-> lba, count |-> count, data |-> data, room |-> Len(data)]

MCRequests ==
  {Request("read", 0, 2, <<"a", "a">>), Request("read", 5, 1, <<"a">>),
   Request("read", 1, 2, <<"a">>), Request("read", 0, 0, <<>>),
   Request("write", 0, 3, <<"b", "a", "b">>), Request("write", 2, 2, <<"a", "b">>),
   Request("write", 1, 1, <<"b">>), Request("write", 7, 2, <<"b", "b">>)}
=============================================================================
