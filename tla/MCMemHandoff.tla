----------------------------- MODULE MCMemHandoff -----------------------------
(* A small instance of MemHandoff: the test's own count, and an address    *)
(* more than it needs.                                                     *)
EXTENDS MemHandoff

CONSTANTS p1, p2, p3

MCAddresses == {p1, p2, p3}
==============================================================================
