--------------------------- MODULE GlobalAllocator ---------------------------
(***************************************************************************)
(* mem_allocation.rs:29-75: SpreadsMalloc, the #[global_allocator] of the  *)
(* native library.  Every Rust allocation of the library is dispatched to  *)
(* one of two mimalloc entry points: the plain one when the layout's       *)
(* alignment is small and not above its size, the aligned one otherwise.   *)
(*                                                                         *)
(* The Rust side remembers a layout (and here, what it wrote) per block it *)
(* owns; mimalloc has its own idea of the block.  mimalloc is external: it *)
(* is what the dispatch relies on.  Addresses are abstracted to their      *)
(* alignment, contents to one tag per block.                               *)
(***************************************************************************)
EXTENDS Naturals

CONSTANTS
  Blocks,     \* the addresses mimalloc can hand out
  Sizes,      \* layout sizes; GlobalAlloc excludes 0
  Aligns,     \* layout alignments, powers of two
  MIN_ALIGN,  \* mem_allocation.rs:9-27
  MacOS,      \* cfg!(target_os = "macos")
  MacMax,     \* 1 << 31
  Values,     \* what the Rust side writes into a block
  Zero,       \* the contents of a zeroed block nobody has written to
  Junk,       \* the contents of a fresh block
  Null

ASSUME SizesAssumption == Sizes \subseteq Nat \ {0}
ASSUME AlignsAssumption ==
  /\ Aligns \subseteq Nat \ {0}
  /\ MIN_ALIGN \in Aligns
  /\ MacMax \in Nat /\ MIN_ALIGN <= MacMax
  /\ MacOS \in BOOLEAN

ASSUME ContentsAssumption == Zero \notin Values /\ Junk # Zero

Contents == Values \union {Zero, Junk}
Layouts == [size : Sizes, align : Aligns, data : Contents]
NativeBlocks == [size : Sizes, at : Aligns, data : Contents]

ASSUME NullAssumption ==
  Null \notin Layouts \union NativeBlocks \union Blocks \union {"rust"}

VARIABLES
  live,   \* live[b]: mimalloc's block at b, or Null
  owned,  \* owned[b]: the layout under which Rust code owns b, or Null
  ret     \* the pointer the last call returned, or Null

vars == <<live, owned, ret>>

------------------------------------------------------------------------------
(* mimalloc.  `at' is the largest alignment an address has: since all are  *)
(* powers of two, an address serves every alignment up to it.              *)

(* A plain block serves the alignments up to MIN_ALIGN that its size holds: *)
(* the assumption under which mem_allocation.rs:34 calls mi_malloc.        *)
PlainAddresses(size) ==
  {at \in Aligns : \A a \in Aligns : a <= MIN_ALIGN /\ a <= size => a <= at}
AlignedAddresses(align) == {at \in Aligns : align <= at}

(* mi_malloc and mi_zalloc, mi_malloc_aligned and mi_zalloc_aligned: a free *)
(* block at one of the addresses, or NULL.                                 *)
NativeAlloc(addresses, size, data, layout) ==
  \/ \E b \in Blocks, at \in addresses :
       /\ live[b] = Null
       /\ live' = [live EXCEPT ![b] = [size |-> size, at |-> at, data |-> data]]
       /\ owned' = [owned EXCEPT ![b] = layout]
       /\ ret' = b
  \/ ret' = Null /\ UNCHANGED <<live, owned>>

------------------------------------------------------------------------------
Init ==
  /\ live = [b \in Blocks |-> Null]
  /\ owned = [b \in Blocks |-> Null]
  /\ ret = Null

(* The test of alloc and alloc_zeroed.  Mutant: only the first half.       *)
PlainIgnoresSize(size, align) == align <= MIN_ALIGN
Plain(size, align) == align <= MIN_ALIGN /\ align <= size

(* The early return of alloc and alloc_zeroed on macOS.  Mutant: none.     *)
NeverRefused(align) == FALSE
Refused(align) == MacOS /\ align > MacMax

AllocWith(size, align, data) ==
  LET layout == [size |-> size, align |-> align, data |-> data]
  IN  \/ /\ Plain(size, align)
         /\ NativeAlloc(PlainAddresses(size), size, data, layout)
      \/ /\ ~Plain(size, align)
         /\ Refused(align)
         /\ ret' = Null
         /\ UNCHANGED <<live, owned>>
      \/ /\ ~Plain(size, align)
         /\ ~Refused(align)
         /\ NativeAlloc(AlignedAddresses(align), size, data, layout)

(* SpreadsMalloc::alloc and alloc_zeroed *)
Alloc(size, align) == AllocWith(size, align, Junk)
AllocZeroed(size, align) == AllocWith(size, align, Zero)

(* The owner writes to its block. *)
Write(b, v) ==
  /\ owned[b] # Null
  /\ live' = [live EXCEPT ![b].data = v]
  /\ owned' = [owned EXCEPT ![b].data = v]
  /\ UNCHANGED ret

(* SpreadsMalloc::dealloc *)
Dealloc(b) ==
  /\ owned[b] # Null
  /\ live' = [live EXCEPT ![b] = Null]
  /\ owned' = [owned EXCEPT ![b] = Null]
  /\ UNCHANGED ret

(* The test of realloc: it looks at the size the block has, not at the one *)
(* it is to get.                                                           *)
ReallocPlain(b) == Plain(owned[b].size, owned[b].align)

(* The addresses a reallocated block may end up at. *)
ReallocAddresses(b, new_size) ==
  IF ReallocPlain(b) THEN PlainAddresses(new_size)
                     ELSE AlignedAddresses(owned[b].align)

(* mi_realloc and mi_realloc_aligned return NULL and keep the block.       *)
(* Mutant: mi_reallocf, which frees it.                                    *)
ReallocFailsFreeing(b) ==
  /\ owned[b] # Null
  /\ live' = [live EXCEPT ![b] = Null]
  /\ ret' = Null
  /\ UNCHANGED owned
ReallocFails(b) ==
  /\ owned[b] # Null
  /\ ret' = Null
  /\ UNCHANGED <<live, owned>>

(* The block fits where it is: always for mi_realloc, for                  *)
(* mi_realloc_aligned only if its address serves the alignment.            *)
(* Mutant: mi_reallocn, which takes the alignment for an element size.     *)
ReallocInPlaceCounted(b, new_size) ==
  /\ owned[b] # Null
  /\ live' = [live EXCEPT ![b].size = new_size * owned[b].align]
  /\ owned' = [owned EXCEPT ![b].size = new_size]
  /\ ret' = b
ReallocInPlace(b, new_size) ==
  /\ owned[b] # Null
  /\ ReallocPlain(b) \/ live[b].at \in AlignedAddresses(owned[b].align)
  /\ live' = [live EXCEPT ![b].size = new_size]
  /\ owned' = [owned EXCEPT ![b].size = new_size]
  /\ ret' = b

(* The block moves and takes its contents along. *)
ReallocMoves(b, new_size) ==
  /\ owned[b] # Null
  /\ \E c \in Blocks, at \in ReallocAddresses(b, new_size) :
       /\ live[c] = Null
       /\ live' = [live EXCEPT
                     ![b] = Null,
                     ![c] = [size |-> new_size, at |-> at, data |-> live[b].data]]
       /\ owned' = [owned EXCEPT
                      ![b] = Null,
                      ![c] = [owned[b] EXCEPT !.size = new_size]]
       /\ ret' = c

(* SpreadsMalloc::realloc *)
Realloc(b, new_size) ==
  ReallocFails(b) \/ ReallocInPlace(b, new_size) \/ ReallocMoves(b, new_size)

Next ==
  \/ \E size \in Sizes, align \in Aligns :
       Alloc(size, align) \/ AllocZeroed(size, align)
  \/ \E b \in Blocks :
       \/ \E v \in Values : Write(b, v)
       \/ \E new_size \in Sizes : Realloc(b, new_size)
       \/ Dealloc(b)

Spec == Init /\ [][Next]_vars
------------------------------------------------------------------------------
(* Type invariant. *)
TypeOK ==
  /\ live \in [Blocks -> NativeBlocks \union {Null}]
  /\ owned \in [Blocks -> Layouts \union {Null}]
  /\ ret \in Blocks \union {Null}

(* What Rust owns is exactly what mimalloc has handed out, with the size   *)
(* and the contents Rust believes in: no call of any sequence of alloc,    *)
(* alloc_zeroed, realloc (failed, in place or moved) and dealloc leaks a   *)
(* block, keeps one it freed, or loses what was written.                   *)
OwnedIsLive ==
  \A b \in Blocks :
    /\ owned[b] = Null <=> live[b] = Null
    /\ owned[b] # Null => /\ owned[b].size = live[b].size
                          /\ owned[b].data = live[b].data

(* The two tests of the size (mem_allocation.rs:34 and 69) leave exactly   *)
(* one way to a block its layout's alignment does not hold for: a small    *)
(* alignment, and a reallocation to fewer bytes than the alignment.        *)
UnderalignedOnlyByShrink ==
  \A b \in Blocks :
    owned[b] # Null /\ live[b].at < owned[b].align
      => owned[b].align <= MIN_ALIGN /\ owned[b].size < owned[b].align

(* realloc does not repeat the macOS test of alloc, and need not: on macOS *)
(* no block with an alignment above 2^31 ever comes to exist.              *)
MacosNeverHuge ==
  MacOS => \A b \in Blocks : owned[b] # Null => owned[b].align <= MacMax

(* The calls of the native library's own Rust code obey the specification  *)
(* of blocks that the callers of Mem rely on (MemBlocks), with Rust as the *)
(* one owner: each call takes, resizes, moves or gives back one block,     *)
(* leaves every other block alone, and a realloc that fails changes        *)
(* nothing, on Rust's side and on mimalloc's.                              *)
Owner == [b \in Blocks |-> IF owned[b] = Null THEN Null ELSE "rust"]
Shape == [b \in Blocks |->
            IF live[b] = Null THEN Null
            ELSE [size |-> live[b].size, align |-> live[b].at,
                  zero |-> live[b].data = Zero]]

Promise ==
  INSTANCE MemBlocks
  WITH Threads <- {"rust"}, None <- Null,
       Shapes <- [size : Sizes, align : Aligns, zero : BOOLEAN],
       owner <- Owner, shape <- Shape

ImplementsBlocks == Promise!Spec

(* What the dispatch is for (mem_allocation.rs:8 and 34): every block Rust *)
(* owns is aligned as its layout asks.  realloc breaks it.                 *)
AlwaysAligned ==
  \A b \in Blocks : owned[b] # Null => live[b].at >= owned[b].align

==============================================================================
