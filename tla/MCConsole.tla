----------------------------- MODULE MCConsole ------------------------------
(* Two preemptions of every kind, at any point of a message, by a kernel   *)
(* thread that prints to both devices.                                     *)
EXTENDS Console

MCAllStrikes == {"irq", "nmi", "breakpoint", "page_fault", "double_fault", "panic"}
=============================================================================
