--------------------------- MODULE MCScancodeRing ---------------------------
(* A ring of four slots and two bytes: the ring fills, drops and wraps.    *)
EXTENDS ScancodeRing
=============================================================================
