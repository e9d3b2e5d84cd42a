------------------------------ MODULE MemBlocks ------------------------------
(***************************************************************************)
(* What Mem promises its callers about blocks (the comments of Mem.cs      *)
(* 57-158), without heaps, wrappers or arguments: a block has one owner    *)
(* from the call that returns it to the call that takes it back, nothing   *)
(* but a call of its owner changes it, and a call that fails changes       *)
(* nothing or gives the block back.  The owner is a thread; a pointer may  *)
(* be passed on.                                                           *)
(*                                                                         *)
(* MemHeap implements this specification, and so does GlobalAllocator for  *)
(* the native library's own Rust code; MemHandoff is a client of it.       *)
(***************************************************************************)
CONSTANTS
  Threads,
  Blocks,   \* addresses of blocks
  Shapes,   \* records of a block's size, alignment and zeroing
  None

VARIABLES
  owner,    \* owner[p]: the thread that holds block p, or None
  shape     \* shape[p]: what the block at p is, or None where there is none

vars == <<owner, shape>>

Init ==
  /\ owner = [p \in Blocks |-> None]
  /\ shape = [p \in Blocks |-> None]

Owned(t) == {p \in Blocks : owner[p] = t}

(* A call returned a pointer: an address nobody holds.                     *)
Take(t, p) ==
  /\ owner[p] = None
  /\ owner' = [owner EXCEPT ![p] = t]
  /\ \E s \in Shapes : shape' = [shape EXCEPT ![p] = s]

(* Free, a Reallocf that failed, and HeapDestroy, which takes back many.   *)
GiveBack(t, S) ==
  /\ S \subseteq Owned(t)
  /\ owner' = [p \in Blocks |-> IF p \in S THEN None ELSE owner[p]]
  /\ shape' = [p \in Blocks |-> IF p \in S THEN None ELSE shape[p]]

(* A block that was not zero is not zero after it was resized.             *)
Resized(p) == {s \in Shapes : s.zero => shape[p].zero}

(* Resized at the same address.                                            *)
Reshape(t, p) ==
  /\ owner[p] = t
  /\ UNCHANGED owner
  /\ \E s \in Resized(p) : shape' = [shape EXCEPT ![p] = s]

(* Resized at another address; the old one is free for others to take.     *)
Move(t, p, q) ==
  /\ owner[p] = t
  /\ owner[q] = None
  /\ owner' = [owner EXCEPT ![p] = None, ![q] = t]
  /\ \E s \in Resized(p) : shape' = [shape EXCEPT ![p] = None, ![q] = s]

Pass(t, u, p) ==
  /\ owner[p] = t
  /\ owner' = [owner EXCEPT ![p] = u]
  /\ UNCHANGED shape

Next ==
  \E t \in Threads :
    \/ \E p \in Blocks : Take(t, p) \/ Reshape(t, p)
    \/ \E p, q \in Blocks : Move(t, p, q)
    \/ \E u \in Threads, p \in Blocks : Pass(t, u, p)
    \/ \E S \in SUBSET Blocks : GiveBack(t, S)

Spec == Init /\ [][Next]_vars
==============================================================================
