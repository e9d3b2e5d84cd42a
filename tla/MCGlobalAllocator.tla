-------------------------- MODULE MCGlobalAllocator --------------------------
(* Small instances of GlobalAllocator for TLC. *)
EXTENDS GlobalAllocator, TLC

CONSTANTS b1, b2, zero, junk, v1

MCBlocks == {b1, b2}
MCValues == {v1}
Symmetry == Permutations(MCBlocks)

==============================================================================
