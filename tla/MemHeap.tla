------------------------------- MODULE MemHeap -------------------------------
(***************************************************************************)
(* The memory and heap functions of Mem.cs (57-158, 199-256, 318-463):     *)
(* what .NET callers are given, call by call, over the native functions    *)
(* mem_allocation.rs forwards to (77-455, 543-863).                        *)
(*                                                                         *)
(* Two views are kept apart.  The caller's: which thread holds a pointer   *)
(* (held) and what it was promised for it (want), from the arguments it    *)
(* passed and the comments of Mem.cs.  The allocator's: the blocks that    *)
(* exist, their heap, size, alignment and whether they are zero where      *)
(* nothing was written (blocks).  Between the two lie the wrappers: which  *)
(* mimalloc function they call, and with which arguments.                  *)
(*                                                                         *)
(* Callers keep four rules, none of which Mem or the wrappers look after:  *)
(* they free and resize only what they hold; they resize with a zeroing    *)
(* function only what they got from one (mimalloc_wrapper.h:217); they     *)
(* make a heap their default, delete and destroy it only on the thread     *)
(* that created it; and they destroy it only when no other thread holds a  *)
(* block of it.  That they also allocate from it on that thread only       *)
(* (mimalloc_wrapper.h:177) is no rule here: one of the tests does not.    *)
(*                                                                         *)
(* mimalloc is external, and a call of it is one step: what overlapping    *)
(* calls on one heap do is not modelled.  A call that only returns NULL    *)
(* changes nothing and is no step.                                         *)
(***************************************************************************)
EXTENDS Naturals

CONSTANTS
  Threads, \* a thread's name also stands for its backing heap
  Heaps,   \* heaps HeapNew can return
  Blocks,  \* addresses of blocks
  Sizes,   \* sizes callers ask for
  Counts,  \* element counts callers ask for
  Aligns,  \* alignments callers ask for
  SizeMax, \* the largest size_t
  None

HeapIds == Threads \union Heaps
Requests == [heap : HeapIds, size : Nat, align : Aligns, zero : BOOLEAN]

ASSUME ArgumentsAssumption ==
  /\ SizeMax \in Nat
  /\ Sizes \subseteq Nat
  /\ Counts \subseteq Nat
  /\ Aligns \subseteq Nat /\ 1 \in Aligns
ASSUME NamesAssumption ==
  /\ Threads \intersect Heaps = {}
  /\ None \notin HeapIds \union Blocks \union Requests

VARIABLES
  home,    \* home[h]: the thread a heap belongs to, or None if it is gone
  default, \* default[t]: the heap the functions without a heap allocate from
  blocks,  \* blocks[p]: the allocator's block at p, or None
  held,    \* held[t]: the pointers thread t holds
  want     \* want[p]: what the holder of p was promised

vars == <<home, default, blocks, held, want>>

------------------------------------------------------------------------------
(* The functions.  A flag says what a function's name does: onHeap the     *)
(* prefix Heap, zero a z or c, counted an n or c, aligned the suffix       *)
(* Aligned (AlignedAt aligns another byte of the block), frees the f of    *)
(* Reallocf.  MallocSmall and Strdup are Malloc with limits on the size.   *)
AllocFunctions ==
  {f \in [onHeap : BOOLEAN, zero : BOOLEAN, counted : BOOLEAN, aligned : BOOLEAN] :
     f.counted /\ f.aligned => f.zero}

ReallocFunctions ==
  {f \in [onHeap : BOOLEAN, zero : BOOLEAN, counted : BOOLEAN, aligned : BOOLEAN,
          frees : BOOLEAN] :
     /\ f.counted /\ f.aligned => f.zero
     /\ f.frees => ~f.zero /\ ~f.counted /\ ~f.aligned}

(* The heaps callers on thread t pass to a function that allocates: those  *)
(* of the thread, and any HeapNew has returned and nobody has given up,    *)
(* whichever thread created it (MemTests.cs:246 and 273).                  *)
UsableHeaps(t) ==
  {h \in HeapIds : home[h] = t \/ (h \in Heaps /\ home[h] # None)}

Arguments(t, f) ==
  [heap : IF f.onHeap THEN UsableHeaps(t) ELSE {default[t]},
   count : IF f.counted THEN Counts ELSE {1},
   size : Sizes,
   align : IF f.aligned THEN Aligns ELSE {1}]

(* What the caller may expect of a block it asked for.                     *)
Promise(f, a) ==
  [heap |-> a.heap, size |-> a.count * a.size, align |-> a.align, zero |-> f.zero]

------------------------------------------------------------------------------
(* What reaches mimalloc through the wrappers.                             *)

(* The heap.  Mutants: a Heap function forwarded without its heap, and one *)
(* forwarded with NULL for it, as spreads_mem_stats_print does for `out'.  *)
HeapDropped(t, f, a) == default[t]
HeapNull(t, f, a) == IF f.onHeap THEN None ELSE default[t]
NativeHeap(t, f, a) == IF f.onHeap THEN a.heap ELSE default[t]

(* The bytes of a counted function; mimalloc checks the product.           *)
(* Mutant: the wrapper multiplies, and the product wraps.                  *)
BytesWrapped(f, a) == (a.count * a.size) % (SizeMax + 1)
NativeBytes(f, a) == a.count * a.size

(* Zeroing.  Mutant: calloc forwarded to mallocn, recalloc to reallocn.    *)
CallocNotZero(f) == f.zero /\ ~f.counted
NativeZero(f) == f.zero

(* The alignment.  Mutant: an Aligned function forwarded to its plain one. *)
AlignDropped(f, a) == 1
NativeAlign(f, a) == a.align

(* What a failing reallocation does to its block.  Mutants: reallocf       *)
(* forwarded to realloc, and realloc to reallocf.                          *)
NeverFrees(f) == FALSE
PlainFrees(f) == ~f.zero /\ ~f.counted /\ ~f.aligned
NativeFrees(f) == f.frees

Fits(f, a) == NativeBytes(f, a) <= SizeMax

NativeBlock(t, f, a) ==
  [heap |-> NativeHeap(t, f, a), size |-> NativeBytes(f, a),
   align |-> NativeAlign(f, a), zero |-> NativeZero(f)]

------------------------------------------------------------------------------
Init ==
  /\ home = [h \in HeapIds |-> IF h \in Threads THEN h ELSE None]
  /\ default = [t \in Threads |-> t]
  /\ blocks = [p \in Blocks |-> None]
  /\ held = [t \in Threads |-> {}]
  /\ want = [p \in Blocks |-> None]

(* Malloc, Zalloc, Calloc, Mallocn, ..., and their Heap and Aligned forms; *)
(* also the reallocating functions when they are passed NULL.              *)
Alloc(t, f, a) ==
  /\ Fits(f, a)
  /\ \E p \in Blocks :
       /\ blocks[p] = None
       /\ blocks' = [blocks EXCEPT ![p] = NativeBlock(t, f, a)]
       /\ held' = [held EXCEPT ![t] = @ \union {p}]
       /\ want' = [want EXCEPT ![p] = Promise(f, a)]
  /\ UNCHANGED <<home, default>>

(* A pointer a caller may free or resize: one it holds, of a block that    *)
(* exists, which HeldIsLive shows to be the same.                          *)
Valid(t, p) == p \in held[t] /\ blocks[p] # None

(* Free.  The thread may be another than the one that allocated p.         *)
Free(t, p) ==
  /\ Valid(t, p)
  /\ blocks' = [blocks EXCEPT ![p] = None]
  /\ held' = [held EXCEPT ![t] = @ \ {p}]
  /\ want' = [want EXCEPT ![p] = None]
  /\ UNCHANGED <<home, default>>

------------------------------------------------------------------------------
(* Realloc, Reallocn, Reallocf, Rezalloc, Recalloc, and their Heap and     *)
(* Aligned forms, of a block the caller holds.                             *)
MayResize(t, f, p) == Valid(t, p) /\ (f.zero => want[p].zero)

(* NULL: the block is freed by Reallocf and kept by the others.            *)
ReallocFails(t, f, p) ==
  /\ MayResize(t, f, p)
  /\ blocks' = IF NativeFrees(f) THEN [blocks EXCEPT ![p] = None] ELSE blocks
  /\ held' = IF f.frees THEN [held EXCEPT ![t] = @ \ {p}] ELSE held
  /\ want' = IF f.frees THEN [want EXCEPT ![p] = None] ELSE want
  /\ UNCHANGED <<home, default>>

(* The same pointer: the block stays in the heap it is in, whatever heap   *)
(* was passed, which the caller sees.                                      *)
ReallocInPlace(t, f, a, p) ==
  /\ MayResize(t, f, p)
  /\ Fits(f, a)
  /\ NativeAlign(f, a) <= blocks[p].align
  /\ blocks' = [blocks EXCEPT ![p].size = NativeBytes(f, a),
                              ![p].zero = @ /\ NativeZero(f)]
  /\ want' = [want EXCEPT ![p] = [Promise(f, a) EXCEPT !.heap = want[p].heap]]
  /\ UNCHANGED <<home, default, held>>

(* Another pointer, in the heap that was passed or the thread's default:   *)
(* a block may leave its heap this way.                                    *)
ReallocMoves(t, f, a, p) ==
  /\ MayResize(t, f, p)
  /\ Fits(f, a)
  /\ \E q \in Blocks :
       /\ blocks[q] = None
       /\ blocks' = [blocks EXCEPT
            ![p] = None,
            ![q] = [NativeBlock(t, f, a) EXCEPT !.zero = @ /\ blocks[p].zero]]
       /\ held' = [held EXCEPT ![t] = (@ \ {p}) \union {q}]
       /\ want' = [want EXCEPT ![p] = None, ![q] = Promise(f, a)]
  /\ UNCHANGED <<home, default>>

Realloc(t, f, p) ==
  \/ ReallocFails(t, f, p)
  \/ \E a \in Arguments(t, f) : ReallocInPlace(t, f, a, p) \/ ReallocMoves(t, f, a, p)

(* Expand: in place or not at all; what is new is not zero.                *)
Expand(t, p, size) ==
  /\ Valid(t, p)
  /\ size <= SizeMax
  /\ blocks' = [blocks EXCEPT ![p].size = size, ![p].zero = FALSE]
  /\ want' = [want EXCEPT ![p].size = size, ![p].zero = FALSE]
  /\ UNCHANGED <<home, default, held>>

(* A caller passes a pointer to another thread, as the tests do.           *)
HandOver(t, u, p) ==
  /\ p \in held[t]
  /\ held' = [[held EXCEPT ![t] = @ \ {p}] EXCEPT ![u] = @ \union {p}]
  /\ UNCHANGED <<home, default, blocks, want>>

------------------------------------------------------------------------------
HeapNew(t) ==
  /\ \E h \in Heaps : home[h] = None /\ home' = [home EXCEPT ![h] = t]
  /\ UNCHANGED <<default, blocks, held, want>>

HeapSetDefault(t, h) ==
  /\ home[h] = t
  /\ default' = [default EXCEPT ![t] = h]
  /\ UNCHANGED <<home, blocks, held, want>>

(* mimalloc makes the backing heap the default again when the default goes. *)
DefaultWithout(t, H) == [default EXCEPT ![t] = IF @ \in H THEN t ELSE @]

HomeWithout(H) == [h \in HeapIds |-> IF h \in H THEN None ELSE home[h]]

(* HeapContainsBlock; HeapCheckOwned of a pointer to a block's start.      *)
ContainsBlock(h, p) == blocks[p] # None /\ blocks[p].heap = h

(* The blocks of heaps, in the allocator's and in the callers' view.       *)
BlocksOf(H) == {p \in Blocks : \E h \in H : ContainsBlock(h, p)}
WantedOf(H) == {p \in Blocks : want[p] # None /\ want[p].heap \in H}

(* The blocks of a deleted heap move to the thread's backing heap.         *)
Delete(t, H) ==
  /\ home' = HomeWithout(H)
  /\ default' = DefaultWithout(t, H)
  /\ blocks' = [p \in Blocks |-> IF p \in BlocksOf(H)
                                   THEN [blocks[p] EXCEPT !.heap = t] ELSE blocks[p]]
  /\ want' = [p \in Blocks |-> IF p \in WantedOf(H)
                                 THEN [want[p] EXCEPT !.heap = t] ELSE want[p]]
  /\ UNCHANGED held

HeapDelete(t, h) ==
  /\ home[h] = t
  /\ Delete(t, {h})

(* A thread ends: a hook of mimalloc's, which no .NET code calls.           *)
(* Its heaps are deleted, but its blocks stay until whoever holds them     *)
(* frees them; a later thread may have its name, and finds its backing     *)
(* heap as its default one.                                                *)
ThreadDone(t) == Delete(t, {h \in Heaps : home[h] = t})

(* The blocks of a destroyed heap are freed; the caller lets go of all it  *)
(* believes to be in the heap, and of nothing else.                        *)
HeapDestroy(t, h) ==
  /\ home[h] = t
  /\ \A u \in Threads \ {t} : held[u] \intersect WantedOf({h}) = {}
  /\ home' = HomeWithout({h})
  /\ default' = DefaultWithout(t, {h})
  /\ blocks' = [p \in Blocks |-> IF p \in BlocksOf({h}) THEN None ELSE blocks[p]]
  /\ held' = [held EXCEPT ![t] = @ \ WantedOf({h})]
  /\ want' = [p \in Blocks |-> IF p \in WantedOf({h}) THEN None ELSE want[p]]

Next ==
  \E t \in Threads :
    \/ \E f \in AllocFunctions : \E a \in Arguments(t, f) : Alloc(t, f, a)
    \/ \E p \in Blocks :
         \/ Free(t, p)
         \/ \E f \in ReallocFunctions : Realloc(t, f, p)
         \/ \E size \in Sizes : Expand(t, p, size)
         \/ \E u \in Threads \ {t} : HandOver(t, u, p)
    \/ HeapNew(t)
    \/ \E h \in HeapIds : HeapSetDefault(t, h)
    \/ \E h \in Heaps : HeapDelete(t, h) \/ HeapDestroy(t, h)
    \/ ThreadDone(t)

Spec == Init /\ [][Next]_vars
------------------------------------------------------------------------------
(* Type invariant. *)
TypeOK ==
  /\ home \in [HeapIds -> Threads \union {None}]
  /\ default \in [Threads -> HeapIds]
  /\ blocks \in [Blocks -> Requests \union {None}]
  /\ held \in [Threads -> SUBSET Blocks]
  /\ want \in [Blocks -> Requests \union {None}]

(* No two threads hold the same block: no sequence of calls, frees on      *)
(* other threads and failed reallocations among them, makes the allocator  *)
(* hand out a pointer somebody still uses.                                 *)
OneOwner ==
  \A t, u \in Threads : t # u => held[t] \intersect held[u] = {}

(* What is held is what exists: nothing is leaked, nothing held dangles,   *)
(* whichever way Realloc and Reallocf (Mem.cs:77, 135) end and whether     *)
(* blocks are freed one by one or with their heap.                         *)
HeldIsLive ==
  \A p \in Blocks : blocks[p] # None <=> \E t \in Threads : p \in held[t]

(* A block is as large, as aligned and as zero as its holder was promised: *)
(* a product that is no size_t fails instead of giving a short block       *)
(* (Mem.cs:59, 111), and what Rezalloc grows was zero before.              *)
AsPromised ==
  \A p \in Blocks : want[p] # None /\ blocks[p] # None =>
    /\ want[p].size <= blocks[p].size
    /\ want[p].align <= blocks[p].align
    /\ want[p].zero => blocks[p].zero

(* A caller knows which heap frees its block: reallocations that move a    *)
(* block between heaps and heaps that are deleted never leave it in a heap *)
(* the caller does not expect, or in one that is gone.                     *)
KnownHeap ==
  \A p \in Blocks : blocks[p] # None =>
    /\ want[p] # None /\ ContainsBlock(want[p].heap, p)
    /\ home[want[p].heap] # None

------------------------------------------------------------------------------
(* The blocks as MemBlocks sees them: who holds them, from the callers'    *)
(* view, and what they are, from the allocator's.                          *)
Owner ==
  [p \in Blocks |-> IF \E t \in Threads : p \in held[t]
                      THEN CHOOSE t \in Threads : p \in held[t]
                      ELSE None]

Shape ==
  [p \in Blocks |-> IF blocks[p] = None THEN None
                    ELSE [size |-> blocks[p].size, align |-> blocks[p].align,
                          zero |-> blocks[p].zero]]

AskedSizes == Sizes \union {c * s : c \in Counts, s \in Sizes}

Abstract ==
  INSTANCE MemBlocks
  WITH owner <- Owner, shape <- Shape,
       Shapes <- [size : AskedSizes, align : Aligns, zero : BOOLEAN]

(* Refinement: whatever the wrappers forward to and whichever heap blocks  *)
(* are in, a step takes a block nobody has, or changes, moves, passes on   *)
(* or gives back blocks of the thread that called, and no other's;         *)
(* deleting a heap or ending a thread changes no block at all.             *)
ImplementsBlocks == Abstract!Spec

==============================================================================
