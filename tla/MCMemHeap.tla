------------------------------ MODULE MCMemHeap ------------------------------
(* Small instances of MemHeap.                                             *)
EXTENDS MemHeap, TLC

CONSTANTS t1, t2, h1, h2, p1, p2

MCThreads == {t1, t2}
TwoHeaps == {h1, h2}
MCBlocks == {p1, p2}
(* Twice 2 is one more than the largest size_t. *)
MCSizes == {1, 2}
MCCounts == {2}
MCAligns == {1, 2}
Interchangeable ==
  Permutations(MCThreads) \union Permutations(TwoHeaps) \union Permutations(MCBlocks)
==============================================================================
