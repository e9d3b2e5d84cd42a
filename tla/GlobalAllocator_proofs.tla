------------------------ MODULE GlobalAllocator_proofs ------------------------
(***************************************************************************)
(* Proofs about GlobalAllocator, for every set of addresses, sizes and     *)
(* alignments, on macOS and elsewhere.                                     *)
(***************************************************************************)
EXTENDS GlobalAllocator, TLAPS

(* The inductive invariant is the conjunction of the checked ones: what    *)
(* realloc does to alignment rests on the sizes agreeing (OwnedIsLive).    *)
IInv ==
  /\ TypeOK
  /\ OwnedIsLive
  /\ UnderalignedOnlyByShrink
  /\ MacosNeverHuge

(* Null is none of the records, and fields of the records are typed.       *)
LEMMA NullDistinct ==
  /\ \A l \in Layouts : l # Null
  /\ \A n \in NativeBlocks : n # Null
  /\ \A b \in Blocks : b # Null
  BY NullAssumption

LEMMA ContentsMembers == Zero \in Contents /\ Junk \in Contents /\ Values \subseteq Contents
  BY DEF Contents

LEMMA InitIInv == Init => IInv
  BY NullDistinct
     DEF Init, IInv, TypeOK, OwnedIsLive, UnderalignedOnlyByShrink, MacosNeverHuge

(* A plain block of a size its alignment fits in is aligned for it.        *)
LEMMA PlainServes ==
  ASSUME NEW size \in Sizes, NEW align \in Aligns, Plain(size, align),
         NEW at \in PlainAddresses(size)
  PROVE  at \in Aligns /\ align <= at
  BY DEF Plain, PlainAddresses

(* An allocation at an address that serves its layout keeps the invariant; *)
(* so does one that fails.                                                 *)
LEMMA NativeAllocIInv ==
  ASSUME IInv,
         NEW size \in Sizes, NEW align \in Aligns, NEW data \in Contents,
         NEW addresses,
         \A at \in addresses : at \in Aligns /\ align <= at,
         MacOS => align <= MacMax,
         NativeAlloc(addresses, size, data,
                     [size |-> size, align |-> align, data |-> data])
  PROVE  IInv'
<1> DEFINE layout == [size |-> size, align |-> align, data |-> data]
<1>1. CASE ret' = Null /\ UNCHANGED <<live, owned>>
  BY <1>1 DEF IInv, TypeOK, OwnedIsLive, UnderalignedOnlyByShrink, MacosNeverHuge
<1>2. ASSUME NEW b \in Blocks, NEW at \in addresses,
             live[b] = Null,
             live' = [live EXCEPT ![b] = [size |-> size, at |-> at, data |-> data]],
             owned' = [owned EXCEPT ![b] = layout],
             ret' = b
      PROVE  IInv'
  <2> DEFINE block == [size |-> size, at |-> at, data |-> data]
  <2>1. /\ at \in Aligns /\ align <= at
        /\ block \in NativeBlocks /\ block # Null
        /\ layout \in Layouts /\ layout # Null
        /\ align \in Nat /\ at \in Nat
    BY NullDistinct, AlignsAssumption DEF NativeBlocks, Layouts
  <2>2. /\ layout.size = size /\ layout.align = align /\ layout.data = data
        /\ block.size = size /\ block.at = at /\ block.data = data
    OBVIOUS
  <2> HIDE DEF block, layout
  <2>3. /\ live' = [live EXCEPT ![b] = block]
        /\ owned' = [owned EXCEPT ![b] = layout]
    BY <1>2 DEF block, layout
  <2>4. TypeOK'
    BY <1>2, <2>1, <2>3 DEF IInv, TypeOK
  <2>5. OwnedIsLive'
    BY <2>1, <2>2, <2>3 DEF IInv, TypeOK, OwnedIsLive
  <2>6. UnderalignedOnlyByShrink'
    BY <2>1, <2>2, <2>3 DEF IInv, TypeOK, UnderalignedOnlyByShrink
  <2>7. MacosNeverHuge'
    BY <2>1, <2>2, <2>3 DEF IInv, TypeOK, MacosNeverHuge
  <2> QED
    BY <2>4, <2>5, <2>6, <2>7 DEF IInv
<1> QED
  BY <1>1, <1>2 DEF NativeAlloc

LEMMA AllocIInv ==
  ASSUME IInv, NEW size \in Sizes, NEW align \in Aligns,
         NEW data \in Contents, AllocWith(size, align, data)
  PROVE  IInv'
<1> DEFINE layout == [size |-> size, align |-> align, data |-> data]
<1>1. align \in Nat /\ MIN_ALIGN \in Nat /\ MacMax \in Nat /\ MIN_ALIGN <= MacMax
  BY AlignsAssumption
<1>2. CASE /\ Plain(size, align)
           /\ NativeAlloc(PlainAddresses(size), size, data, layout)
  <2>1. align <= MacMax
    BY <1>1, <1>2 DEF Plain
  <2>2. \A at \in PlainAddresses(size) : at \in Aligns /\ align <= at
    BY <1>2, PlainServes
  <2> QED
    BY <1>2, <2>1, <2>2, NativeAllocIInv
<1>3. CASE ret' = Null /\ UNCHANGED <<live, owned>>
  BY <1>3 DEF IInv, TypeOK, OwnedIsLive, UnderalignedOnlyByShrink, MacosNeverHuge
<1>4. CASE /\ ~Refused(align)
           /\ NativeAlloc(AlignedAddresses(align), size, data, layout)
  <2>1. MacOS => align <= MacMax
    BY <1>1, <1>4 DEF Refused
  <2>2. \A at \in AlignedAddresses(align) : at \in Aligns /\ align <= at
    BY DEF AlignedAddresses
  <2> QED
    BY <1>4, <2>1, <2>2, NativeAllocIInv
<1> QED
  BY <1>2, <1>3, <1>4 DEF AllocWith

(* What the invariant says of one owned block.                             *)
LEMMA OwnedFacts ==
  ASSUME IInv, NEW b \in Blocks, owned[b] # Null
  PROVE  /\ owned[b] \in Layouts /\ live[b] \in NativeBlocks
         /\ owned[b].size = live[b].size /\ owned[b].data = live[b].data
         /\ owned[b].size \in Sizes /\ owned[b].align \in Aligns
         /\ owned[b].data \in Contents /\ live[b].at \in Aligns
         /\ owned[b].size \in Nat /\ owned[b].align \in Nat /\ live[b].at \in Nat
  BY NullDistinct, SizesAssumption, AlignsAssumption
     DEF IInv, TypeOK, OwnedIsLive, Layouts, NativeBlocks

LEMMA WriteIInv ==
  ASSUME IInv, NEW b \in Blocks, NEW v \in Values, Write(b, v)
  PROVE  IInv'
<1> DEFINE o == [owned[b] EXCEPT !.data = v]
           n == [live[b] EXCEPT !.data = v]
<1>1. /\ owned[b] # Null /\ owned[b] \in Layouts /\ live[b] \in NativeBlocks
      /\ owned[b].size = live[b].size
  BY OwnedFacts DEF Write
<1>2. /\ o \in Layouts /\ n \in NativeBlocks
      /\ o.size = owned[b].size /\ o.align = owned[b].align /\ o.data = v
      /\ n.size = live[b].size /\ n.at = live[b].at /\ n.data = v
  BY <1>1, ContentsMembers DEF Layouts, NativeBlocks
<1>3. o # Null /\ n # Null
  BY <1>2, NullDistinct
<1> HIDE DEF o, n
<1>4. /\ live' = [live EXCEPT ![b] = n] /\ owned' = [owned EXCEPT ![b] = o]
      /\ ret' = ret
  BY DEF Write, o, n
<1>5. TypeOK'
  BY <1>2, <1>4 DEF IInv, TypeOK
<1>6. OwnedIsLive'
  BY <1>1, <1>2, <1>3, <1>4 DEF IInv, TypeOK, OwnedIsLive
<1>7. UnderalignedOnlyByShrink'
  BY <1>1, <1>2, <1>4 DEF IInv, TypeOK, UnderalignedOnlyByShrink
<1>8. MacosNeverHuge'
  BY <1>1, <1>2, <1>4 DEF IInv, TypeOK, MacosNeverHuge
<1> QED
  BY <1>5, <1>6, <1>7, <1>8 DEF IInv

LEMMA DeallocIInv ==
  ASSUME IInv, NEW b \in Blocks, Dealloc(b)
  PROVE  IInv'
<1>1. TypeOK'
  BY DEF IInv, TypeOK, Dealloc
<1>2. OwnedIsLive'
  BY DEF IInv, TypeOK, OwnedIsLive, Dealloc
<1>3. UnderalignedOnlyByShrink'
  BY DEF IInv, TypeOK, UnderalignedOnlyByShrink, Dealloc
<1>4. MacosNeverHuge'
  BY DEF IInv, TypeOK, MacosNeverHuge, Dealloc
<1> QED
  BY <1>1, <1>2, <1>3, <1>4 DEF IInv

(* In place the address stays: a plain reallocation finds the old size not *)
(* below the alignment, so the invariant says the address already serves.  *)
LEMMA ReallocInPlaceIInv ==
  ASSUME IInv, NEW b \in Blocks, NEW new_size \in Sizes,
         ReallocInPlace(b, new_size)
  PROVE  IInv'
<1> DEFINE o == [owned[b] EXCEPT !.size = new_size]
           n == [live[b] EXCEPT !.size = new_size]
<1>1. /\ owned[b] # Null /\ owned[b] \in Layouts /\ live[b] \in NativeBlocks
      /\ owned[b].data = live[b].data
      /\ owned[b].size \in Nat /\ owned[b].align \in Nat /\ live[b].at \in Nat
  BY OwnedFacts DEF ReallocInPlace
<1>2. /\ o \in Layouts /\ n \in NativeBlocks
      /\ o.size = new_size /\ o.align = owned[b].align /\ o.data = owned[b].data
      /\ n.size = new_size /\ n.at = live[b].at /\ n.data = live[b].data
  BY <1>1 DEF Layouts, NativeBlocks
<1>3. o # Null /\ n # Null
  BY <1>2, NullDistinct
<1>4. owned[b].align <= live[b].at
  <2>1. CASE ReallocPlain(b)
    <3>1. owned[b].align <= owned[b].size
      BY <2>1 DEF ReallocPlain, Plain
    <3>2. ~(owned[b].size < owned[b].align)
      BY <1>1, <3>1
    <3>3. ~(live[b].at < owned[b].align)
      BY <1>1, <3>2 DEF IInv, UnderalignedOnlyByShrink
    <3> QED
      BY <1>1, <3>3
  <2>2. CASE live[b].at \in AlignedAddresses(owned[b].align)
    BY <2>2 DEF AlignedAddresses
  <2> QED
    BY <2>1, <2>2 DEF ReallocInPlace
<1> HIDE DEF o, n
<1>5. /\ live' = [live EXCEPT ![b] = n] /\ owned' = [owned EXCEPT ![b] = o]
      /\ ret' = b
  BY DEF ReallocInPlace, o, n
<1>6. TypeOK'
  BY <1>2, <1>5 DEF IInv, TypeOK
<1>7. OwnedIsLive'
  BY <1>1, <1>2, <1>3, <1>5 DEF IInv, TypeOK, OwnedIsLive
<1>8. UnderalignedOnlyByShrink'
  BY <1>1, <1>2, <1>4, <1>5 DEF IInv, TypeOK, UnderalignedOnlyByShrink
<1>9. MacosNeverHuge'
  BY <1>1, <1>2, <1>5 DEF IInv, TypeOK, MacosNeverHuge
<1> QED
  BY <1>6, <1>7, <1>8, <1>9 DEF IInv

LEMMA ReallocMovesIInv ==
  ASSUME IInv, NEW b \in Blocks, NEW new_size \in Sizes,
         ReallocMoves(b, new_size)
  PROVE  IInv'
<1>1. PICK c \in Blocks, at \in ReallocAddresses(b, new_size) :
        /\ live[c] = Null
        /\ live' = [live EXCEPT
                      ![b] = Null,
                      ![c] = [size |-> new_size, at |-> at, data |-> live[b].data]]
        /\ owned' = [owned EXCEPT
                       ![b] = Null,
                       ![c] = [owned[b] EXCEPT !.size = new_size]]
        /\ ret' = c
  BY DEF ReallocMoves
<1> DEFINE o == [owned[b] EXCEPT !.size = new_size]
           n == [size |-> new_size, at |-> at, data |-> live[b].data]
<1>2. /\ owned[b] # Null /\ owned[b] \in Layouts /\ live[b] \in NativeBlocks
      /\ owned[b].data = live[b].data /\ owned[b].align \in Nat
  BY OwnedFacts DEF ReallocMoves
<1>3. at \in Aligns /\ at \in Nat /\ new_size \in Nat
  BY AlignsAssumption, SizesAssumption
     DEF ReallocAddresses, PlainAddresses, AlignedAddresses
<1>4. /\ o \in Layouts /\ n \in NativeBlocks
      /\ o.size = new_size /\ o.align = owned[b].align /\ o.data = owned[b].data
      /\ n.size = new_size /\ n.at = at /\ n.data = live[b].data
  BY <1>2, <1>3 DEF Layouts, NativeBlocks
<1>5. o # Null /\ n # Null
  BY <1>4, NullDistinct
<1>6. at < owned[b].align => /\ owned[b].align <= MIN_ALIGN
                             /\ new_size < owned[b].align
  <2>1. CASE ReallocPlain(b)
    <3>1. owned[b].align <= MIN_ALIGN /\ owned[b].align \in Aligns
      BY <2>1, <1>2 DEF ReallocPlain, Plain, Layouts
    <3>2. owned[b].align <= new_size => owned[b].align <= at
      BY <2>1, <3>1 DEF ReallocAddresses, PlainAddresses
    <3> QED
      BY <3>1, <3>2, <1>2, <1>3
  <2>2. CASE ~ReallocPlain(b)
    <3>1. owned[b].align <= at
      BY <2>2 DEF ReallocAddresses, AlignedAddresses
    <3> QED
      BY <3>1, <1>2, <1>3
  <2> QED
    BY <2>1, <2>2
<1>7. owned[c] = Null
  BY <1>1 DEF IInv, OwnedIsLive
<1>8. c # b
  BY <1>2, <1>7
<1> HIDE DEF o, n
<1>9. /\ live' = [live EXCEPT ![b] = Null, ![c] = n]
      /\ owned' = [owned EXCEPT ![b] = Null, ![c] = o]
  BY <1>1 DEF o, n
<1>10. TypeOK'
  BY <1>1, <1>4, <1>9 DEF IInv, TypeOK
<1>11. OwnedIsLive'
  BY <1>2, <1>4, <1>5, <1>8, <1>9 DEF IInv, TypeOK, OwnedIsLive
<1>12. UnderalignedOnlyByShrink'
  BY <1>4, <1>6, <1>8, <1>9 DEF IInv, TypeOK, UnderalignedOnlyByShrink
<1>13. MacosNeverHuge'
  BY <1>2, <1>4, <1>8, <1>9 DEF IInv, TypeOK, MacosNeverHuge
<1> QED
  BY <1>10, <1>11, <1>12, <1>13 DEF IInv

LEMMA NextIInv == IInv /\ [Next]_vars => IInv'
<1> SUFFICES ASSUME IInv, [Next]_vars PROVE IInv'
  OBVIOUS
<1>1. ASSUME NEW size \in Sizes, NEW align \in Aligns,
             Alloc(size, align) \/ AllocZeroed(size, align)
      PROVE  IInv'
  BY <1>1, AllocIInv, ContentsMembers DEF Alloc, AllocZeroed
<1>2. ASSUME NEW b \in Blocks, NEW v \in Values, Write(b, v)
      PROVE  IInv'
  BY <1>2, WriteIInv
<1>3. ASSUME NEW b \in Blocks, NEW new_size \in Sizes, Realloc(b, new_size)
      PROVE  IInv'
  <2>1. CASE ReallocFails(b)
    BY <2>1 DEF ReallocFails, IInv, TypeOK, OwnedIsLive,
                UnderalignedOnlyByShrink, MacosNeverHuge
  <2>2. CASE ReallocInPlace(b, new_size)
    BY <2>2, ReallocInPlaceIInv
  <2>3. CASE ReallocMoves(b, new_size)
    BY <2>3, ReallocMovesIInv
  <2> QED
    BY <1>3, <2>1, <2>2, <2>3 DEF Realloc
<1>4. ASSUME NEW b \in Blocks, Dealloc(b)
      PROVE  IInv'
  BY <1>4, DeallocIInv
<1>5. CASE UNCHANGED vars
  BY <1>5 DEF vars, IInv, TypeOK, OwnedIsLive, UnderalignedOnlyByShrink,
              MacosNeverHuge
<1> QED
  BY <1>1, <1>2, <1>3, <1>4, <1>5 DEF Next

LEMMA SpecIInv == Spec => []IInv
  BY InitIInv, NextIInv, PTL DEF Spec

(* Every variable keeps its type.                                          *)
THEOREM TypeCorrect == Spec => []TypeOK
<1>1. IInv => TypeOK
  BY DEF IInv
<1> QED
  BY <1>1, SpecIInv, PTL

(* No leak, no dangling block, no lost contents, whatever is allocated,    *)
(* reallocated and freed in whatever order.                                *)
THEOREM OwnershipExact == Spec => []OwnedIsLive
<1>1. IInv => OwnedIsLive
  BY DEF IInv
<1> QED
  BY <1>1, SpecIInv, PTL

(* The only under-aligned blocks are small ones shrunk below their         *)
(* alignment.                                                              *)
THEOREM OnlyShrinkMisaligns == Spec => []UnderalignedOnlyByShrink
<1>1. IInv => UnderalignedOnlyByShrink
  BY DEF IInv
<1> QED
  BY <1>1, SpecIInv, PTL

(* The macOS test belongs in alloc alone.                                  *)
THEOREM MacosLimit == Spec => []MacosNeverHuge
<1>1. IInv => MacosNeverHuge
  BY DEF IInv
<1> QED
  BY <1>1, SpecIInv, PTL

------------------------------------------------------------------------------
(* Refinement: every call of the allocator is a step of the abstract       *)
(* owner's on one block, or none.                                          *)
OneShape(n) == [size |-> n.size, align |-> n.at, zero |-> n.data = Zero]
Shapes == [size : Sizes, align : Aligns, zero : BOOLEAN]

(* What the mapping says of one block before and after a step.             *)
LEMMA Mapped ==
  ASSUME IInv, NEW b \in Blocks
  PROVE  /\ Owner[b] = IF owned[b] = Null THEN Null ELSE "rust"
         /\ Shape[b] = IF live[b] = Null THEN Null ELSE OneShape(live[b])
         /\ Owner'[b] = IF owned'[b] = Null THEN Null ELSE "rust"
         /\ Shape'[b] = IF live'[b] = Null THEN Null ELSE OneShape(live'[b])
  BY DEF Owner, Shape, OneShape

LEMMA MappedFunctions ==
  /\ Owner = [b \in Blocks |-> Owner[b]] /\ Owner' = [b \in Blocks |-> Owner'[b]]
  /\ Shape = [b \in Blocks |-> Shape[b]] /\ Shape' = [b \in Blocks |-> Shape'[b]]
  BY DEF Owner, Shape

LEMMA OneShapeType ==
  ASSUME NEW n \in NativeBlocks
  PROVE  OneShape(n) \in Shapes
  BY DEF NativeBlocks, OneShape, Shapes

LEMMA InitRefines == Init => Promise!Init
  BY DEF Init, Promise!Init, Owner, Shape

(* A call that changes neither side is none of the owner's steps.          *)
LEMMA Stutters ==
  ASSUME UNCHANGED <<live, owned>>
  PROVE  UNCHANGED Promise!vars
  BY DEF Promise!vars, Owner, Shape

(* A call that gives a free block to Rust.                                 *)
LEMMA TakeRefines ==
  ASSUME IInv, NEW b \in Blocks, NEW o \in Layouts, NEW n \in NativeBlocks,
         live[b] = Null,
         live' = [live EXCEPT ![b] = n], owned' = [owned EXCEPT ![b] = o]
  PROVE  Promise!Take("rust", b)
<1>1. owned[b] = Null /\ o # Null /\ n # Null
  BY NullDistinct DEF IInv, OwnedIsLive
<1>2. Owner' = [Owner EXCEPT ![b] = "rust"]
  <2>1. Owner'[b] = "rust" /\ \A c \in Blocks \ {b} : Owner'[c] = Owner[c]
    BY <1>1, Mapped DEF IInv, TypeOK
  <2> QED
    BY <2>1, MappedFunctions
<1>3. Shape' = [Shape EXCEPT ![b] = OneShape(n)]
  <2>1. Shape'[b] = OneShape(n) /\ \A c \in Blocks \ {b} : Shape'[c] = Shape[c]
    BY <1>1, Mapped DEF IInv, TypeOK
  <2> QED
    BY <2>1, MappedFunctions
<1>4. Owner[b] = Null /\ OneShape(n) \in Shapes
  BY <1>1, Mapped, OneShapeType
<1> QED
  BY <1>2, <1>3, <1>4 DEF Promise!Take, Shapes

LEMMA AllocRefines ==
  ASSUME IInv, NEW size \in Sizes, NEW align \in Aligns,
         NEW data \in Contents, AllocWith(size, align, data)
  PROVE  (\E b \in Blocks : Promise!Take("rust", b)) \/ UNCHANGED Promise!vars
<1> DEFINE o == [size |-> size, align |-> align, data |-> data]
           n(at) == [size |-> size, at |-> at, data |-> data]
<1>1. PICK addresses \in {PlainAddresses(size), AlignedAddresses(align), {}} :
        NativeAlloc(addresses, size, data, o)
  BY DEF AllocWith, NativeAlloc
<1>2. addresses \subseteq Aligns
  BY DEF PlainAddresses, AlignedAddresses
<1>3. ASSUME NEW b \in Blocks, NEW at \in addresses, live[b] = Null,
             live' = [live EXCEPT ![b] = n(at)], owned' = [owned EXCEPT ![b] = o]
      PROVE  Promise!Take("rust", b)
  <2>1. o \in Layouts /\ n(at) \in NativeBlocks
    BY <1>2 DEF Layouts, NativeBlocks
  <2> HIDE DEF o, n
  <2> QED
    BY <1>3, <2>1, TakeRefines
<1>4. \/ \E b \in Blocks, at \in addresses :
           /\ live[b] = Null
           /\ live' = [live EXCEPT ![b] = n(at)]
           /\ owned' = [owned EXCEPT ![b] = o]
      \/ UNCHANGED <<live, owned>>
  BY <1>1 DEF NativeAlloc
<1> QED
  BY <1>3, <1>4, Stutters

(* What Rust writes is not the zeros the block came with.                  *)
LEMMA WriteRefines ==
  ASSUME IInv, NEW b \in Blocks, NEW v \in Values, Write(b, v)
  PROVE  Promise!Reshape("rust", b)
<1> DEFINE o == [owned[b] EXCEPT !.data = v]
           n == [live[b] EXCEPT !.data = v]
<1>1. /\ owned[b] # Null /\ owned[b] \in Layouts /\ live[b] \in NativeBlocks
  BY OwnedFacts DEF Write
<1>2. o \in Layouts /\ n \in NativeBlocks /\ n.data = v /\ v # Zero
  BY <1>1, ContentsMembers, ContentsAssumption DEF Layouts, NativeBlocks
<1>3. o # Null /\ n # Null /\ live[b] # Null
  BY <1>1, <1>2, NullDistinct
<1> HIDE DEF o, n
<1>4. live' = [live EXCEPT ![b] = n] /\ owned' = [owned EXCEPT ![b] = o]
  BY DEF Write, o, n
<1>5. Owner' = Owner /\ Owner[b] = "rust"
  <2>1. Owner[b] = "rust" /\ \A c \in Blocks : Owner'[c] = Owner[c]
    BY <1>1, <1>3, <1>4, Mapped DEF IInv, TypeOK
  <2> QED
    BY <2>1, MappedFunctions
<1>6. Shape' = [Shape EXCEPT ![b] = OneShape(n)]
  <2>1. Shape'[b] = OneShape(n) /\ \A c \in Blocks \ {b} : Shape'[c] = Shape[c]
    BY <1>3, <1>4, Mapped DEF IInv, TypeOK
  <2> QED
    BY <2>1, MappedFunctions
<1>7. OneShape(n) \in Shapes /\ ~OneShape(n).zero
  BY <1>2, OneShapeType DEF OneShape
<1> QED
  BY <1>5, <1>6, <1>7 DEF Promise!Reshape, Promise!Resized, Shapes

LEMMA DeallocRefines ==
  ASSUME IInv, NEW b \in Blocks, Dealloc(b)
  PROVE  Promise!GiveBack("rust", {b})
<1>1. /\ owned[b] # Null
      /\ live' = [live EXCEPT ![b] = Null] /\ owned' = [owned EXCEPT ![b] = Null]
  BY DEF Dealloc
<1>2. Owner' = [c \in Blocks |-> IF c \in {b} THEN Null ELSE Owner[c]]
  <2>1. Owner'[b] = Null /\ \A c \in Blocks \ {b} : Owner'[c] = Owner[c]
    BY <1>1, Mapped DEF IInv, TypeOK
  <2> QED
    BY <2>1, MappedFunctions
<1>3. Shape' = [c \in Blocks |-> IF c \in {b} THEN Null ELSE Shape[c]]
  <2>1. Shape'[b] = Null /\ \A c \in Blocks \ {b} : Shape'[c] = Shape[c]
    BY <1>1, Mapped DEF IInv, TypeOK
  <2> QED
    BY <2>1, MappedFunctions
<1>4. {b} \subseteq Promise!Owned("rust")
  BY <1>1, Mapped DEF Promise!Owned
<1> QED
  BY <1>2, <1>3, <1>4 DEF Promise!GiveBack

LEMMA ReallocInPlaceRefines ==
  ASSUME IInv, NEW b \in Blocks, NEW new_size \in Sizes,
         ReallocInPlace(b, new_size)
  PROVE  Promise!Reshape("rust", b)
<1> DEFINE o == [owned[b] EXCEPT !.size = new_size]
           n == [live[b] EXCEPT !.size = new_size]
<1>1. /\ owned[b] # Null /\ owned[b] \in Layouts /\ live[b] \in NativeBlocks
  BY OwnedFacts DEF ReallocInPlace
<1>2. o \in Layouts /\ n \in NativeBlocks /\ n.data = live[b].data
  BY <1>1 DEF Layouts, NativeBlocks
<1>3. o # Null /\ n # Null /\ live[b] # Null
  BY <1>1, <1>2, NullDistinct
<1> HIDE DEF o, n
<1>4. live' = [live EXCEPT ![b] = n] /\ owned' = [owned EXCEPT ![b] = o]
  BY DEF ReallocInPlace, o, n
<1>5. Owner' = Owner /\ Owner[b] = "rust"
  <2>1. Owner[b] = "rust" /\ \A c \in Blocks : Owner'[c] = Owner[c]
    BY <1>1, <1>3, <1>4, Mapped DEF IInv, TypeOK
  <2> QED
    BY <2>1, MappedFunctions
<1>6. Shape' = [Shape EXCEPT ![b] = OneShape(n)]
  <2>1. Shape'[b] = OneShape(n) /\ \A c \in Blocks \ {b} : Shape'[c] = Shape[c]
    BY <1>3, <1>4, Mapped DEF IInv, TypeOK
  <2> QED
    BY <2>1, MappedFunctions
<1>7. /\ OneShape(n) \in Shapes
      /\ OneShape(n).zero <=> OneShape(live[b]).zero
      /\ Shape[b] = OneShape(live[b])
  BY <1>2, <1>3, OneShapeType, Mapped DEF OneShape
<1> QED
  BY <1>5, <1>6, <1>7 DEF Promise!Reshape, Promise!Resized, Shapes

LEMMA ReallocMovesRefines ==
  ASSUME IInv, NEW b \in Blocks, NEW new_size \in Sizes,
         ReallocMoves(b, new_size)
  PROVE  \E c \in Blocks : Promise!Move("rust", b, c)
<1>1. PICK c \in Blocks, at \in ReallocAddresses(b, new_size) :
        /\ live[c] = Null
        /\ live' = [live EXCEPT
                      ![b] = Null,
                      ![c] = [size |-> new_size, at |-> at, data |-> live[b].data]]
        /\ owned' = [owned EXCEPT
                       ![b] = Null,
                       ![c] = [owned[b] EXCEPT !.size = new_size]]
  BY DEF ReallocMoves
<1> DEFINE o == [owned[b] EXCEPT !.size = new_size]
           n == [size |-> new_size, at |-> at, data |-> live[b].data]
<1>2. owned[b] # Null /\ owned[b] \in Layouts /\ live[b] \in NativeBlocks
  BY OwnedFacts DEF ReallocMoves
<1>3. at \in Aligns
  BY DEF ReallocAddresses, PlainAddresses, AlignedAddresses
<1>4. o \in Layouts /\ n \in NativeBlocks /\ n.data = live[b].data
  BY <1>2, <1>3 DEF Layouts, NativeBlocks
<1>5. o # Null /\ n # Null /\ live[b] # Null
  BY <1>2, <1>4, NullDistinct
<1>6. owned[c] = Null /\ c # b
  BY <1>1, <1>2, <1>5 DEF IInv, OwnedIsLive
<1> HIDE DEF o, n
<1>7. /\ live' = [live EXCEPT ![b] = Null, ![c] = n]
      /\ owned' = [owned EXCEPT ![b] = Null, ![c] = o]
  BY <1>1 DEF o, n
<1>8. /\ Owner' = [Owner EXCEPT ![b] = Null, ![c] = "rust"]
      /\ Owner[b] = "rust" /\ Owner[c] = Null
  <2>1. /\ Owner[b] = "rust" /\ Owner[c] = Null
        /\ Owner'[b] = Null /\ Owner'[c] = "rust"
    BY <1>2, <1>5, <1>6, <1>7, Mapped DEF IInv, TypeOK
  <2>2. \A d \in Blocks \ {b, c} : Owner'[d] = Owner[d]
    BY <1>7, Mapped DEF IInv, TypeOK
  <2> QED
    BY <1>6, <2>1, <2>2, MappedFunctions
<1>9. Shape' = [Shape EXCEPT ![b] = Null, ![c] = OneShape(n)]
  <2>1. Shape'[b] = Null /\ Shape'[c] = OneShape(n)
    BY <1>5, <1>6, <1>7, Mapped DEF IInv, TypeOK
  <2>2. \A d \in Blocks \ {b, c} : Shape'[d] = Shape[d]
    BY <1>7, Mapped DEF IInv, TypeOK
  <2> QED
    BY <1>6, <2>1, <2>2, MappedFunctions
<1>10. /\ OneShape(n) \in Shapes
       /\ OneShape(n).zero <=> OneShape(live[b]).zero
       /\ Shape[b] = OneShape(live[b])
  BY <1>4, <1>5, OneShapeType, Mapped DEF OneShape
<1> QED
  BY <1>8, <1>9, <1>10 DEF Promise!Move, Promise!Resized, Shapes

LEMMA NextRefines ==
  IInv /\ [Next]_vars => [Promise!Next]_(Promise!vars)
<1> SUFFICES ASSUME IInv, [Next]_vars
             PROVE  Promise!Next \/ UNCHANGED Promise!vars
  OBVIOUS
<1>1. ASSUME NEW size \in Sizes, NEW align \in Aligns,
             Alloc(size, align) \/ AllocZeroed(size, align)
      PROVE  Promise!Next \/ UNCHANGED Promise!vars
  BY <1>1, AllocRefines, ContentsMembers DEF Alloc, AllocZeroed, Promise!Next
<1>2. ASSUME NEW b \in Blocks, NEW v \in Values, Write(b, v)
      PROVE  Promise!Next
  BY <1>2, WriteRefines DEF Promise!Next
<1>3. ASSUME NEW b \in Blocks, NEW new_size \in Sizes, Realloc(b, new_size)
      PROVE  Promise!Next \/ UNCHANGED Promise!vars
  <2>1. CASE ReallocFails(b)
    BY <2>1, Stutters DEF ReallocFails
  <2>2. CASE ReallocInPlace(b, new_size)
    BY <2>2, ReallocInPlaceRefines DEF Promise!Next
  <2>3. CASE ReallocMoves(b, new_size)
    BY <2>3, ReallocMovesRefines DEF Promise!Next
  <2> QED
    BY <1>3, <2>1, <2>2, <2>3 DEF Realloc
<1>4. ASSUME NEW b \in Blocks, Dealloc(b)
      PROVE  Promise!Next
  <2>1. {b} \in SUBSET Blocks
    OBVIOUS
  <2> QED
    BY <1>4, <2>1, DeallocRefines DEF Promise!Next
<1>5. CASE UNCHANGED vars
  BY <1>5, Stutters DEF vars
<1> QED
  BY <1>1, <1>2, <1>3, <1>4, <1>5 DEF Next

(* The global allocator keeps towards the library's Rust code what Mem     *)
(* promises its .NET callers: one call, one block, and a reallocation that *)
(* fails changes nothing.                                                  *)
THEOREM BlocksImplemented == Spec => ImplementsBlocks
<1>1. Init => Promise!Init
  BY InitRefines
<1>2. IInv /\ [Next]_vars => [Promise!Next]_(Promise!vars)
  BY NextRefines
<1> QED
  BY <1>1, <1>2, SpecIInv, PTL DEF Spec, ImplementsBlocks, Promise!Spec

==============================================================================
