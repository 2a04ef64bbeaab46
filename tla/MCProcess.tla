----------------------------- MODULE MCProcess ------------------------------
(* Tables of six entries.  Thirty frames lie in the boot mapping and four  *)
(* are the kernel's; a one-page program takes ten to twelve.  RAM that     *)
(* ends at each of the first frames makes each step of the loader fail.    *)
EXTENDS Process

MCStandard == {<<0, 16>>}

MCMemorySizes == 5 .. 17 \cup {25, 30, 32}

Load(vaddr, memsz, filesz, writable) ==
  [loadable |-> TRUE, inside |-> TRUE, vaddr |-> vaddr, memsz |-> memsz,
   filesz |-> filesz, offset |-> 0, writable |-> writable]

Note == [Load(0, 0, 0, FALSE) EXCEPT !.loadable = FALSE]

Program(headers) == [valid |-> TRUE, headers |-> headers, size |-> 8]

(* One page of code, at the address that the first kernel stack will have  *)
(* and elsewhere; code and data in the same page; a page of data that is   *)
(* mostly zero; a file of a page and a half; a program that is refused.    *)
MCImages ==
  {Program(<<Load(52, 4, 4, FALSE), Note>>),
   Program(<<Load(64, 4, 4, FALSE)>>),
   Program(<<Load(64, 2, 2, FALSE), Load(66, 2, 2, TRUE)>>),
   Program(<<Load(2000, 6, 2, TRUE)>>),
   Program(<<Load(64, 8, 6, FALSE)>>),
   Program(<<Note>>)}
=============================================================================
