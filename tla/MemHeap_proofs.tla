---------------------------- MODULE MemHeap_proofs ----------------------------
(***************************************************************************)
(* Proofs about MemHeap, for every number of threads, heaps and blocks,    *)
(* every size and alignment, and callers that allocate from the heaps of   *)
(* any thread.                                                             *)
(***************************************************************************)
EXTENDS MemHeap, TLAPS

(* Only heaps of Heaps are ever deleted. *)
BackingIsOwn == \A t \in Threads : home[t] = t

(* A default heap exists, and is the thread's own. *)
DefaultIsOwn == \A t \in Threads : home[default[t]] = t

(* The checked invariants need each other: that a destroyed heap frees     *)
(* what its caller lets go of rests on KnownHeap, that a deleted heap's    *)
(* blocks have a heap to go to on BackingIsOwn, and that a new block is in *)
(* a heap that exists on DefaultIsOwn.                                     *)
IInv ==
  /\ TypeOK
  /\ OneOwner
  /\ HeldIsLive
  /\ AsPromised
  /\ KnownHeap
  /\ DefaultIsOwn
  /\ BackingIsOwn

Functions == AllocFunctions \union ReallocFunctions

LEMMA NoneDistinct ==
  /\ \A t \in Threads : t # None /\ t \in HeapIds /\ t \notin Heaps
  /\ \A h \in Heaps : h # None /\ h \in HeapIds
  /\ \A p \in Blocks : p # None
  /\ \A r \in Requests : r # None
  BY NamesAssumption DEF HeapIds

LEMMA InitIInv == Init => IInv
<1> SUFFICES ASSUME Init PROVE IInv
  OBVIOUS
<1>1. TypeOK
  BY NoneDistinct DEF Init, TypeOK, HeapIds
<1>2. OneOwner /\ HeldIsLive /\ AsPromised /\ KnownHeap
  BY DEF Init, OneOwner, HeldIsLive, AsPromised, KnownHeap, ContainsBlock
<1>3. DefaultIsOwn /\ BackingIsOwn
  BY NoneDistinct DEF Init, DefaultIsOwn, BackingIsOwn
<1> QED
  BY <1>1, <1>2, <1>3 DEF IInv

(* The wrappers forward what they are asked: the block mimalloc makes is   *)
(* the block the caller is promised, in a heap that exists.                *)
LEMMA Forwarded ==
  ASSUME IInv, NEW t \in Threads, NEW f \in Functions,
         NEW a \in Arguments(t, f)
  PROVE  /\ NativeBlock(t, f, a) = Promise(f, a)
         /\ Promise(f, a) \in Requests
         /\ home[a.heap] # None
         /\ Promise(f, a).heap = a.heap
         /\ Promise(f, a).align = a.align
         /\ Promise(f, a).zero = f.zero
         /\ Promise(f, a).size = NativeBytes(f, a)
         /\ NativeBytes(f, a) \in Nat
         /\ f.zero \in BOOLEAN
<1>1. f.zero \in BOOLEAN /\ f.onHeap \in BOOLEAN
  BY DEF Functions, AllocFunctions, ReallocFunctions
<1>2. /\ a.heap \in (IF f.onHeap THEN UsableHeaps(t) ELSE {default[t]})
      /\ a.count \in (IF f.counted THEN Counts ELSE {1})
      /\ a.size \in Sizes
      /\ a.align \in (IF f.aligned THEN Aligns ELSE {1})
  BY DEF Arguments
<1>3. a.heap \in HeapIds /\ home[a.heap] # None
  BY <1>2, NoneDistinct DEF IInv, TypeOK, DefaultIsOwn, UsableHeaps
<1>4. a.align \in Aligns /\ a.count \in Nat /\ a.size \in Nat
  BY <1>2, ArgumentsAssumption
<1>5. a.count * a.size \in Nat
  BY <1>4
<1>6. NativeHeap(t, f, a) = a.heap
  BY <1>2 DEF NativeHeap
<1>7. NativeBlock(t, f, a) = Promise(f, a)
  BY <1>6 DEF NativeBlock, Promise, NativeBytes, NativeZero, NativeAlign
<1>8. Promise(f, a) \in Requests
  BY <1>1, <1>3, <1>4, <1>5 DEF Promise, Requests
<1> QED
  BY <1>1, <1>3, <1>5, <1>7, <1>8 DEF Promise, NativeBytes

(* What the invariant says of a block somebody holds.                      *)
LEMMA HeldFacts ==
  ASSUME IInv, NEW t \in Threads, NEW p \in held[t]
  PROVE  /\ p \in Blocks
         /\ blocks[p] \in Requests /\ blocks[p] # None
         /\ want[p] \in Requests /\ want[p] # None
         /\ want[p].heap = blocks[p].heap
         /\ blocks[p].heap \in HeapIds /\ home[blocks[p].heap] # None
         /\ blocks[p].align \in Nat /\ want[p].align \in Nat
         /\ \A u \in Threads \ {t} : p \notin held[u]
<1>1. p \in Blocks
  BY DEF IInv, TypeOK
<1>2. blocks[p] # None
  BY <1>1 DEF IInv, HeldIsLive
<1>3. want[p] # None /\ want[p].heap = blocks[p].heap /\ home[blocks[p].heap] # None
  BY <1>1, <1>2 DEF IInv, KnownHeap, ContainsBlock
<1>4. blocks[p] \in Requests /\ want[p] \in Requests
  BY <1>1, <1>2, <1>3 DEF IInv, TypeOK
<1>5. \A u \in Threads \ {t} : p \notin held[u]
  BY DEF IInv, OneOwner
<1> QED
  BY <1>1, <1>2, <1>3, <1>4, <1>5, ArgumentsAssumption DEF Requests

(* A block nobody has is held by nobody.                                   *)
LEMMA FreeFacts ==
  ASSUME IInv, NEW p \in Blocks, blocks[p] = None
  PROVE  \A u \in Threads : p \notin held[u]
  BY DEF IInv, HeldIsLive

------------------------------------------------------------------------------
LEMMA AllocIInv ==
  ASSUME IInv, NEW t \in Threads, NEW f \in Functions,
         NEW a \in Arguments(t, f), Alloc(t, f, a)
  PROVE  IInv'
<1> DEFINE r == Promise(f, a)
<1>1. PICK p \in Blocks :
        /\ blocks[p] = None
        /\ blocks' = [blocks EXCEPT ![p] = NativeBlock(t, f, a)]
        /\ held' = [held EXCEPT ![t] = @ \union {p}]
        /\ want' = [want EXCEPT ![p] = r]
  BY DEF Alloc
<1>2. UNCHANGED <<home, default>>
  BY DEF Alloc
<1>3. NativeBlock(t, f, a) = r /\ r \in Requests /\ home[r.heap] # None
  BY Forwarded
<1> HIDE DEF r
<1>4. r # None
  BY <1>3, NoneDistinct
<1>5. r.size \in Nat /\ r.align \in Nat
  BY <1>3, ArgumentsAssumption DEF Requests
<1>6. TypeOK'
  BY <1>1, <1>2, <1>3 DEF IInv, TypeOK
<1>7. OneOwner'
  BY <1>1, FreeFacts DEF IInv, TypeOK, OneOwner
<1>8. HeldIsLive'
  BY <1>1, <1>3, <1>4 DEF IInv, TypeOK, HeldIsLive
<1>9. AsPromised'
  BY <1>1, <1>3, <1>5 DEF IInv, TypeOK, AsPromised
<1>10. KnownHeap'
  BY <1>1, <1>2, <1>3, <1>4 DEF IInv, TypeOK, KnownHeap, ContainsBlock
<1>11. DefaultIsOwn' /\ BackingIsOwn'
  BY <1>2 DEF IInv, DefaultIsOwn, BackingIsOwn
<1> QED
  BY <1>6, <1>7, <1>8, <1>9, <1>10, <1>11 DEF IInv

(* Giving a block up: Free, and a Reallocf that fails.                     *)
LEMMA GivenUpIInv ==
  ASSUME IInv, NEW t \in Threads, NEW p \in held[t],
         blocks' = [blocks EXCEPT ![p] = None],
         held' = [held EXCEPT ![t] = @ \ {p}],
         want' = [want EXCEPT ![p] = None],
         UNCHANGED <<home, default>>
  PROVE  IInv'
<1>1. p \in Blocks /\ \A u \in Threads \ {t} : p \notin held[u]
  BY HeldFacts
<1>2. TypeOK'
  BY <1>1 DEF IInv, TypeOK
<1>3. OneOwner'
  BY DEF IInv, TypeOK, OneOwner
<1>4. HeldIsLive'
  BY <1>1 DEF IInv, TypeOK, HeldIsLive
<1>5. AsPromised' /\ KnownHeap'
  BY <1>1 DEF IInv, TypeOK, AsPromised, KnownHeap, ContainsBlock
<1>6. DefaultIsOwn' /\ BackingIsOwn'
  BY DEF IInv, DefaultIsOwn, BackingIsOwn
<1> QED
  BY <1>2, <1>3, <1>4, <1>5, <1>6 DEF IInv

LEMMA FreeIInv ==
  ASSUME IInv, NEW t \in Threads, NEW p \in Blocks, Free(t, p)
  PROVE  IInv'
  BY GivenUpIInv DEF Free, Valid

LEMMA ReallocFailsIInv ==
  ASSUME IInv, NEW t \in Threads, NEW f \in ReallocFunctions, NEW p \in Blocks,
         ReallocFails(t, f, p)
  PROVE  IInv'
<1>1. CASE f.frees
  BY <1>1, GivenUpIInv DEF ReallocFails, MayResize, Valid, NativeFrees
<1>2. CASE ~f.frees
  <2>1. UNCHANGED vars
    BY <1>2 DEF ReallocFails, NativeFrees, vars
  <2> QED
    BY <2>1 DEF vars, IInv, TypeOK, OneOwner, HeldIsLive, AsPromised, KnownHeap, ContainsBlock,
                DefaultIsOwn, BackingIsOwn
<1> QED
  BY <1>1, <1>2

(* A block that stays where it is and keeps its heap, with a promise it    *)
(* keeps.                                                                  *)
LEMMA ResizedIInv ==
  ASSUME IInv, NEW t \in Threads, NEW p \in held[t],
         NEW b \in Requests, NEW w \in Requests,
         b.heap = blocks[p].heap, w.heap = want[p].heap,
         w.size <= b.size, w.align <= b.align, w.zero => b.zero,
         blocks' = [blocks EXCEPT ![p] = b],
         want' = [want EXCEPT ![p] = w],
         UNCHANGED <<home, default, held>>
  PROVE  IInv'
<1>1. /\ p \in Blocks /\ blocks[p] # None /\ w.heap = b.heap /\ home[b.heap] # None
      /\ b # None /\ w # None
  BY HeldFacts, NoneDistinct
<1>2. TypeOK'
  BY <1>1 DEF IInv, TypeOK
<1>3. OneOwner'
  BY DEF IInv, TypeOK, OneOwner
<1>4. HeldIsLive'
  BY <1>1 DEF IInv, TypeOK, HeldIsLive
<1>5. AsPromised'
  BY <1>1 DEF IInv, TypeOK, AsPromised
<1>6. KnownHeap'
  BY <1>1 DEF IInv, TypeOK, KnownHeap, ContainsBlock
<1>7. DefaultIsOwn' /\ BackingIsOwn'
  BY DEF IInv, DefaultIsOwn, BackingIsOwn
<1> QED
  BY <1>2, <1>3, <1>4, <1>5, <1>6, <1>7 DEF IInv

LEMMA ReallocInPlaceIInv ==
  ASSUME IInv, NEW t \in Threads, NEW f \in ReallocFunctions,
         NEW a \in Arguments(t, f), NEW p \in Blocks, ReallocInPlace(t, f, a, p)
  PROVE  IInv'
<1> DEFINE b == [blocks[p] EXCEPT !.size = NativeBytes(f, a), !.zero = @ /\ NativeZero(f)]
           w == [Promise(f, a) EXCEPT !.heap = want[p].heap]
<1>1. p \in held[t] /\ (f.zero => want[p].zero) /\ a.align <= blocks[p].align
  BY DEF ReallocInPlace, MayResize, Valid, NativeAlign
<1>2. /\ Promise(f, a) \in Requests
      /\ Promise(f, a).align = a.align /\ Promise(f, a).zero = f.zero
      /\ Promise(f, a).size = NativeBytes(f, a) /\ NativeBytes(f, a) \in Nat
      /\ f.zero \in BOOLEAN
  BY Forwarded DEF Functions
<1>3. /\ blocks[p] \in Requests /\ want[p] \in Requests
      /\ want[p].heap = blocks[p].heap
      /\ want[p].zero => blocks[p].zero
  BY <1>1, HeldFacts DEF IInv, AsPromised
<1>4. b \in Requests /\ b.heap = blocks[p].heap /\ b.size = NativeBytes(f, a)
      /\ b.align = blocks[p].align /\ b.zero = (blocks[p].zero /\ f.zero)
  BY <1>2, <1>3 DEF Requests, NativeZero
<1>5. w \in Requests /\ w.heap = want[p].heap /\ w.size = NativeBytes(f, a)
      /\ w.align = a.align /\ w.zero = f.zero
  BY <1>2, <1>3 DEF Requests
<1>6. /\ blocks' = [blocks EXCEPT ![p] = b] /\ want' = [want EXCEPT ![p] = w]
      /\ UNCHANGED <<home, default, held>>
  BY <1>1, <1>3 DEF ReallocInPlace, IInv, TypeOK
<1>7. w.size <= b.size /\ w.align <= b.align /\ (w.zero => b.zero)
  BY <1>1, <1>2, <1>3, <1>4, <1>5
<1> HIDE DEF b, w
<1> QED
  BY <1>1, <1>4, <1>5, <1>6, <1>7, ResizedIInv

LEMMA ExpandIInv ==
  ASSUME IInv, NEW t \in Threads, NEW p \in Blocks, NEW size \in Sizes,
         Expand(t, p, size)
  PROVE  IInv'
<1> DEFINE b == [blocks[p] EXCEPT !.size = size, !.zero = FALSE]
           w == [want[p] EXCEPT !.size = size, !.zero = FALSE]
<1>1. p \in held[t] /\ size \in Nat
  BY ArgumentsAssumption DEF Expand, Valid
<1>2. /\ blocks[p] \in Requests /\ want[p] \in Requests
      /\ want[p].align <= blocks[p].align
  BY <1>1, HeldFacts DEF IInv, AsPromised
<1>3. b \in Requests /\ b.heap = blocks[p].heap /\ b.size = size
      /\ b.align = blocks[p].align /\ b.zero = FALSE
  BY <1>1, <1>2 DEF Requests
<1>4. w \in Requests /\ w.heap = want[p].heap /\ w.size = size
      /\ w.align = want[p].align /\ w.zero = FALSE
  BY <1>1, <1>2 DEF Requests
<1>5. /\ blocks' = [blocks EXCEPT ![p] = b] /\ want' = [want EXCEPT ![p] = w]
      /\ UNCHANGED <<home, default, held>>
  BY DEF Expand
<1>6. w.size <= b.size /\ w.align <= b.align /\ (w.zero => b.zero)
  BY <1>1, <1>2, <1>3, <1>4
<1> HIDE DEF b, w
<1> QED
  BY <1>1, <1>3, <1>4, <1>5, <1>6, ResizedIInv

(* A block that moves: p is gone, q is a block with a promise it keeps.    *)
LEMMA ReallocMovesIInv ==
  ASSUME IInv, NEW t \in Threads, NEW f \in ReallocFunctions,
         NEW a \in Arguments(t, f), NEW p \in Blocks, ReallocMoves(t, f, a, p)
  PROVE  IInv'
<1> DEFINE b == [NativeBlock(t, f, a) EXCEPT !.zero = @ /\ blocks[p].zero]
           w == Promise(f, a)
<1>1. p \in held[t] /\ (f.zero => want[p].zero) /\ UNCHANGED <<home, default>>
  BY DEF ReallocMoves, MayResize, Valid
<1>2. PICK q \in Blocks :
        /\ blocks[q] = None
        /\ blocks' = [blocks EXCEPT ![p] = None, ![q] = b]
        /\ held' = [held EXCEPT ![t] = (@ \ {p}) \union {q}]
        /\ want' = [want EXCEPT ![p] = None, ![q] = w]
  BY DEF ReallocMoves
<1>3. /\ blocks[p] \in Requests /\ blocks[p] # None
      /\ \A u \in Threads \ {t} : p \notin held[u]
      /\ f.zero => blocks[p].zero
  BY <1>1, HeldFacts DEF IInv, AsPromised
<1>4. /\ NativeBlock(t, f, a) = w /\ w \in Requests /\ home[w.heap] # None
      /\ w.zero = f.zero /\ f.zero \in BOOLEAN
  BY Forwarded DEF Functions
<1>5. w.size \in Nat /\ w.align \in Nat
  BY <1>4, ArgumentsAssumption DEF Requests
<1>6. /\ b \in Requests /\ b.heap = w.heap /\ b.size = w.size /\ b.align = w.align
      /\ b.zero = (w.zero /\ blocks[p].zero)
  BY <1>3, <1>4 DEF Requests
<1>7. w # None /\ b # None
  BY <1>4, <1>6, NoneDistinct
<1> HIDE DEF b, w
<1>8. p # q /\ \A u \in Threads : q \notin held[u]
  BY <1>2, <1>3, FreeFacts
<1>9. TypeOK'
  BY <1>1, <1>2, <1>4, <1>6 DEF IInv, TypeOK
<1>10. OneOwner'
  BY <1>2, <1>8 DEF IInv, TypeOK, OneOwner
<1>11. HeldIsLive'
  BY <1>2, <1>3, <1>7, <1>8 DEF IInv, TypeOK, HeldIsLive
<1>12. AsPromised'
  BY <1>2, <1>3, <1>4, <1>5, <1>6, <1>8 DEF IInv, TypeOK, AsPromised
<1>13. KnownHeap'
  BY <1>1, <1>2, <1>4, <1>6, <1>7, <1>8 DEF IInv, TypeOK, KnownHeap, ContainsBlock
<1>14. DefaultIsOwn' /\ BackingIsOwn'
  BY <1>1 DEF IInv, DefaultIsOwn, BackingIsOwn
<1> QED
  BY <1>9, <1>10, <1>11, <1>12, <1>13, <1>14 DEF IInv

LEMMA HandOverIInv ==
  ASSUME IInv, NEW t \in Threads, NEW u \in Threads \ {t}, NEW p \in Blocks,
         HandOver(t, u, p)
  PROVE  IInv'
<1>1. /\ p \in held[t] /\ UNCHANGED <<home, default, blocks, want>>
      /\ held' = [[held EXCEPT ![t] = @ \ {p}] EXCEPT ![u] = @ \union {p}]
  BY DEF HandOver
<1>2. \A v \in Threads \ {t} : p \notin held[v]
  BY <1>1, HeldFacts
<1>3. TypeOK'
  BY <1>1 DEF IInv, TypeOK
<1>4. OneOwner'
  BY <1>1, <1>2 DEF IInv, TypeOK, OneOwner
<1>5. HeldIsLive'
  BY <1>1 DEF IInv, TypeOK, HeldIsLive
<1>6. AsPromised' /\ KnownHeap' /\ DefaultIsOwn' /\ BackingIsOwn'
  BY <1>1 DEF IInv, AsPromised, KnownHeap, ContainsBlock, DefaultIsOwn, BackingIsOwn
<1> QED
  BY <1>3, <1>4, <1>5, <1>6 DEF IInv

------------------------------------------------------------------------------
LEMMA HeapNewIInv ==
  ASSUME IInv, NEW t \in Threads, HeapNew(t)
  PROVE  IInv'
<1>1. PICK h \in Heaps : home[h] = None /\ home' = [home EXCEPT ![h] = t]
  BY DEF HeapNew
<1>2. UNCHANGED <<default, blocks, held, want>>
  BY DEF HeapNew
<1>3. h \in HeapIds /\ h \notin Threads
  BY NoneDistinct
<1>4. TypeOK'
  BY <1>1, <1>2 DEF IInv, TypeOK
<1>5. OneOwner' /\ HeldIsLive' /\ AsPromised'
  BY <1>2 DEF IInv, OneOwner, HeldIsLive, AsPromised
<1>6. KnownHeap'
  BY <1>1, <1>2, NoneDistinct DEF IInv, TypeOK, KnownHeap, ContainsBlock
<1>7. DefaultIsOwn' /\ BackingIsOwn'
  BY <1>1, <1>2, <1>3, NoneDistinct DEF IInv, TypeOK, DefaultIsOwn, BackingIsOwn
<1> QED
  BY <1>4, <1>5, <1>6, <1>7 DEF IInv

LEMMA HeapSetDefaultIInv ==
  ASSUME IInv, NEW t \in Threads, NEW h \in HeapIds, HeapSetDefault(t, h)
  PROVE  IInv'
<1>1. /\ home[h] = t /\ default' = [default EXCEPT ![t] = h]
      /\ UNCHANGED <<home, blocks, held, want>>
  BY DEF HeapSetDefault
<1>2. TypeOK' /\ DefaultIsOwn'
  BY <1>1 DEF IInv, TypeOK, DefaultIsOwn
<1>3. OneOwner' /\ HeldIsLive' /\ AsPromised' /\ KnownHeap' /\ BackingIsOwn'
  BY <1>1 DEF IInv, OneOwner, HeldIsLive, AsPromised, KnownHeap, ContainsBlock, BackingIsOwn
<1> QED
  BY <1>2, <1>3 DEF IInv

(* The heap side of HeapDelete, HeapDestroy and ThreadDone: every thread   *)
(* keeps a default heap of its own, since only a thread's own heap can be  *)
(* its default one.                                                        *)
LEMMA HeapGone ==
  ASSUME IInv, NEW t \in Threads, NEW H \in SUBSET Heaps,
         \A h \in H : home[h] = t,
         home' = HomeWithout(H),
         default' = DefaultWithout(t, H)
  PROVE  /\ home' \in [HeapIds -> Threads \union {None}]
         /\ default' \in [Threads -> HeapIds]
         /\ DefaultIsOwn' /\ BackingIsOwn'
         /\ \A g \in HeapIds \ H : home'[g] = home[g]
         /\ t \notin H /\ t \in HeapIds /\ home[t] = t /\ t # None
<1>1. H \subseteq HeapIds /\ t \notin H /\ t \in HeapIds /\ home[t] = t /\ t # None
  BY NoneDistinct DEF IInv, BackingIsOwn
<1>2. home' \in [HeapIds -> Threads \union {None}] /\ default' \in [Threads -> HeapIds]
  BY <1>1 DEF IInv, TypeOK, DefaultWithout, HomeWithout
<1>3. \A g \in HeapIds \ H : home'[g] = home[g]
  BY DEF HomeWithout
<1>4. BackingIsOwn'
  BY <1>1, <1>3, NoneDistinct DEF IInv, BackingIsOwn
<1>5. DefaultIsOwn'
  <2>1. \A u \in Threads : default'[u] \notin H /\ home[default'[u]] = u /\ default'[u] \in HeapIds
    BY <1>1, <1>2 DEF IInv, TypeOK, DefaultIsOwn, DefaultWithout
  <2> QED
    BY <1>3, <2>1 DEF DefaultIsOwn
<1> QED
  BY <1>1, <1>2, <1>3, <1>4, <1>5

(* What Delete makes of each block and each promise: the heap changes, and *)
(* nothing else.                                                           *)
LEMMA DeletedFacts ==
  ASSUME IInv, NEW t \in Threads, NEW H \in SUBSET Heaps, Delete(t, H),
         NEW p \in Blocks
  PROVE  /\ blocks'[p] \in Requests \union {None}
         /\ want'[p] \in Requests \union {None}
         /\ blocks'[p] = None <=> blocks[p] = None
         /\ want'[p] = None <=> want[p] = None
         /\ blocks[p] # None =>
              /\ blocks'[p].heap = (IF blocks[p].heap \in H THEN t ELSE blocks[p].heap)
              /\ blocks'[p].size = blocks[p].size
              /\ blocks'[p].align = blocks[p].align
              /\ blocks'[p].zero = blocks[p].zero
         /\ want[p] # None =>
              /\ want'[p].heap = (IF want[p].heap \in H THEN t ELSE want[p].heap)
              /\ want'[p].size = want[p].size
              /\ want'[p].align = want[p].align
              /\ want'[p].zero = want[p].zero
<1>1. t \in HeapIds
  BY NoneDistinct
<1>2. ASSUME NEW r \in Requests
      PROVE  LET s == [r EXCEPT !.heap = t]
             IN  /\ s \in Requests /\ s # None /\ s.heap = t
                 /\ s.size = r.size /\ s.align = r.align /\ s.zero = r.zero
  <2> DEFINE s == [r EXCEPT !.heap = t]
  <2>1. /\ s \in Requests /\ s.heap = t
        /\ s.size = r.size /\ s.align = r.align /\ s.zero = r.zero
    BY <1>1 DEF Requests
  <2> HIDE DEF s
  <2>2. s # None
    BY <2>1, NoneDistinct
  <2> QED
    BY <2>1, <2>2 DEF s
<1>3. blocks[p] \in Requests \union {None} /\ want[p] \in Requests \union {None}
  BY DEF IInv, TypeOK
<1>4. /\ blocks'[p] = IF blocks[p] # None /\ blocks[p].heap \in H
                        THEN [blocks[p] EXCEPT !.heap = t] ELSE blocks[p]
      /\ want'[p] = IF want[p] # None /\ want[p].heap \in H
                      THEN [want[p] EXCEPT !.heap = t] ELSE want[p]
  BY DEF Delete, BlocksOf, WantedOf, ContainsBlock
<1>5. CASE blocks[p] # None /\ blocks[p].heap \in H
  BY <1>2, <1>3, <1>4, <1>5
<1>6. CASE ~(blocks[p] # None /\ blocks[p].heap \in H)
  BY <1>2, <1>3, <1>4, <1>6
<1> QED
  BY <1>5, <1>6

LEMMA DeleteIInv ==
  ASSUME IInv, NEW t \in Threads, NEW H \in SUBSET Heaps, \A h \in H : home[h] = t,
         Delete(t, H)
  PROVE  IInv'
<1>1. /\ home' \in [HeapIds -> Threads \union {None}]
      /\ default' \in [Threads -> HeapIds]
      /\ DefaultIsOwn' /\ BackingIsOwn'
      /\ \A g \in HeapIds \ H : home'[g] = home[g]
      /\ t \notin H /\ t \in HeapIds /\ home[t] = t /\ t # None
  BY HeapGone DEF Delete
<1>2. UNCHANGED held /\ DOMAIN blocks' = Blocks /\ DOMAIN want' = Blocks
      /\ blocks' = [p \in Blocks |-> blocks'[p]] /\ want' = [p \in Blocks |-> want'[p]]
  BY DEF Delete
<1>3. TypeOK'
  <2>1. blocks' \in [Blocks -> Requests \union {None}]
    BY <1>2, DeletedFacts
  <2>2. want' \in [Blocks -> Requests \union {None}]
    BY <1>2, DeletedFacts
  <2> QED
    BY <1>1, <1>2, <2>1, <2>2 DEF IInv, TypeOK
<1>4. OneOwner' /\ HeldIsLive'
  BY <1>2, DeletedFacts DEF IInv, OneOwner, HeldIsLive
<1>5. AsPromised'
  BY DeletedFacts DEF IInv, AsPromised
<1>6. KnownHeap'
  <2> SUFFICES ASSUME NEW p \in Blocks, blocks'[p] # None
               PROVE  /\ want'[p] # None /\ want'[p].heap = blocks'[p].heap
                      /\ home'[blocks'[p].heap] # None
    BY DEF KnownHeap, ContainsBlock
  <2>1. /\ blocks[p] # None /\ want[p] # None /\ want[p].heap = blocks[p].heap
        /\ home[blocks[p].heap] # None
    BY DeletedFacts DEF IInv, KnownHeap, ContainsBlock
  <2>2. blocks[p].heap \in HeapIds
    BY <2>1 DEF IInv, TypeOK, Requests
  <2> QED
    BY <1>1, <2>1, <2>2, DeletedFacts
<1> QED
  BY <1>1, <1>3, <1>4, <1>5, <1>6 DEF IInv

LEMMA HeapDeleteIInv ==
  ASSUME IInv, NEW t \in Threads, NEW h \in Heaps, HeapDelete(t, h)
  PROVE  IInv'
<1>1. {h} \in SUBSET Heaps /\ \A g \in {h} : home[g] = t
  BY DEF HeapDelete
<1> QED
  BY <1>1, DeleteIInv DEF HeapDelete

LEMMA ThreadDoneIInv ==
  ASSUME IInv, NEW t \in Threads, ThreadDone(t)
  PROVE  IInv'
<1> DEFINE H == {h \in Heaps : home[h] = t}
<1>1. H \in SUBSET Heaps /\ (\A h \in H : home[h] = t) /\ Delete(t, H)
  BY DEF ThreadDone
<1> HIDE DEF H
<1> QED
  BY <1>1, DeleteIInv

LEMMA HeapDestroyIInv ==
  ASSUME IInv, NEW t \in Threads, NEW h \in Heaps, HeapDestroy(t, h)
  PROVE  IInv'
<1>1. /\ home[h] = t /\ home' = HomeWithout({h})
      /\ \A u \in Threads \ {t} : held[u] \intersect WantedOf({h}) = {}
      /\ default' = DefaultWithout(t, {h})
      /\ blocks' = [p \in Blocks |-> IF p \in BlocksOf({h}) THEN None ELSE blocks[p]]
      /\ held' = [held EXCEPT ![t] = @ \ WantedOf({h})]
      /\ want' = [p \in Blocks |-> IF p \in WantedOf({h}) THEN None ELSE want[p]]
  BY DEF HeapDestroy
<1>2. /\ home' \in [HeapIds -> Threads \union {None}]
      /\ default' \in [Threads -> HeapIds]
      /\ DefaultIsOwn' /\ BackingIsOwn'
      /\ \A g \in HeapIds \ {h} : home'[g] = home[g]
  <2> DEFINE H == {h}
  <2>1. H \in SUBSET Heaps /\ \A g \in H : home[g] = t
    BY <1>1
  <2>2. home' = HomeWithout(H) /\ default' = DefaultWithout(t, H)
    BY <1>1
  <2> HIDE DEF H
  <2>3. /\ home' \in [HeapIds -> Threads \union {None}]
        /\ default' \in [Threads -> HeapIds]
        /\ DefaultIsOwn' /\ BackingIsOwn'
        /\ \A g \in HeapIds \ H : home'[g] = home[g]
    BY <2>1, <2>2, HeapGone
  <2> QED
    BY <2>3 DEF H
(* The heart: of the blocks that exist, the heap's are the wanted ones.    *)
<1>3. \A p \in Blocks : blocks[p] # None => (p \in BlocksOf({h}) <=> p \in WantedOf({h}))
  BY DEF IInv, KnownHeap, BlocksOf, WantedOf, ContainsBlock
<1>4. TypeOK'
  BY <1>1, <1>2 DEF IInv, TypeOK
<1>5. OneOwner'
  BY <1>1 DEF IInv, TypeOK, OneOwner
<1>6. HeldIsLive'
  BY <1>1, <1>3 DEF IInv, TypeOK, HeldIsLive, BlocksOf, ContainsBlock
<1>7. AsPromised'
  BY <1>1 DEF IInv, AsPromised
<1>8. KnownHeap'
  <2> SUFFICES ASSUME NEW p \in Blocks, blocks'[p] # None
               PROVE  /\ want'[p] # None /\ want'[p].heap = blocks'[p].heap
                      /\ home'[blocks'[p].heap] # None
    BY DEF KnownHeap, ContainsBlock
  <2>1. blocks[p] # None /\ blocks'[p] = blocks[p] /\ p \notin BlocksOf({h})
    BY <1>1
  <2>2. /\ want'[p] = want[p] /\ want[p] # None /\ want[p].heap = blocks[p].heap
        /\ home[blocks[p].heap] # None /\ blocks[p].heap # h
    BY <1>1, <1>3, <2>1 DEF IInv, KnownHeap, ContainsBlock, BlocksOf
  <2>3. blocks[p].heap \in HeapIds
    BY <2>1 DEF IInv, TypeOK, Requests
  <2> QED
    BY <1>2, <2>1, <2>2, <2>3
<1> QED
  BY <1>2, <1>4, <1>5, <1>6, <1>7, <1>8 DEF IInv

------------------------------------------------------------------------------
LEMMA NextIInv == IInv /\ [Next]_vars => IInv'
<1> SUFFICES ASSUME IInv, [Next]_vars PROVE IInv'
  OBVIOUS
<1>1. CASE UNCHANGED vars
  BY <1>1 DEF vars, IInv, TypeOK, OneOwner, HeldIsLive, AsPromised, KnownHeap, ContainsBlock,
              DefaultIsOwn, BackingIsOwn
<1>2. ASSUME NEW t \in Threads, NEW f \in AllocFunctions, NEW a \in Arguments(t, f),
             Alloc(t, f, a)
      PROVE  IInv'
  BY <1>2, AllocIInv DEF Functions
<1>3. ASSUME NEW t \in Threads, NEW p \in Blocks, Free(t, p)
      PROVE  IInv'
  BY <1>3, FreeIInv
<1>4. ASSUME NEW t \in Threads, NEW p \in Blocks, NEW f \in ReallocFunctions,
             Realloc(t, f, p)
      PROVE  IInv'
  BY <1>4, ReallocFailsIInv, ReallocInPlaceIInv, ReallocMovesIInv DEF Realloc
<1>5. ASSUME NEW t \in Threads, NEW p \in Blocks, NEW size \in Sizes, Expand(t, p, size)
      PROVE  IInv'
  BY <1>5, ExpandIInv
<1>6. ASSUME NEW t \in Threads, NEW p \in Blocks, NEW u \in Threads \ {t},
             HandOver(t, u, p)
      PROVE  IInv'
  BY <1>6, HandOverIInv
<1>7. ASSUME NEW t \in Threads, HeapNew(t)
      PROVE  IInv'
  BY <1>7, HeapNewIInv
<1>8. ASSUME NEW t \in Threads, NEW h \in HeapIds, HeapSetDefault(t, h)
      PROVE  IInv'
  BY <1>8, HeapSetDefaultIInv
<1>9. ASSUME NEW t \in Threads, NEW h \in Heaps, HeapDelete(t, h) \/ HeapDestroy(t, h)
      PROVE  IInv'
  BY <1>9, HeapDeleteIInv, HeapDestroyIInv
<1>10. ASSUME NEW t \in Threads, ThreadDone(t)
      PROVE  IInv'
  BY <1>10, ThreadDoneIInv
<1> QED
  BY <1>1, <1>2, <1>3, <1>4, <1>5, <1>6, <1>7, <1>8, <1>9, <1>10 DEF Next

(* The inductive invariant holds of every behaviour. *)
THEOREM Invariant == Spec => []IInv
  BY InitIInv, NextIInv, PTL DEF Spec

(* The state stays typed, the sizes that reach mimalloc among it.          *)
THEOREM TypeCorrect == Spec => []TypeOK
<1>1. IInv => TypeOK
  BY DEF IInv
<1> QED
  BY <1>1, Invariant, PTL

(* mimalloc, called through the wrappers, never hands out a block that     *)
(* another thread still holds.                                             *)
THEOREM NeverShared == Spec => []OneOwner
<1>1. IInv => OneOwner
  BY DEF IInv
<1> QED
  BY <1>1, Invariant, PTL

(* Callers of Mem neither leak nor keep what is gone, if they read a NULL  *)
(* of Realloc and of Reallocf as their comments say.                       *)
THEOREM NoLeakNoDangling == Spec => []HeldIsLive
<1>1. IInv => HeldIsLive
  BY DEF IInv
<1> QED
  BY <1>1, Invariant, PTL

(* Blocks are what the functions that gave them out promise.               *)
THEOREM PromisesKept == Spec => []AsPromised
<1>1. IInv => AsPromised
  BY DEF IInv
<1> QED
  BY <1>1, Invariant, PTL

(* Callers can always tell the heap of a block, and it exists.             *)
THEOREM HeapsKnown == Spec => []KnownHeap
<1>1. IInv => KnownHeap
  BY DEF IInv
<1> QED
  BY <1>1, Invariant, PTL

------------------------------------------------------------------------------
(* MemHeap implements MemBlocks.                                           *)

(* What the mapped variables are.                                          *)
Mapped ==
  /\ Owner = [p \in Blocks |-> Owner[p]]
  /\ Shape = [p \in Blocks |-> Shape[p]]
  /\ \A p \in Blocks :
       /\ Owner[p] \in Threads \union {None}
       /\ \A t \in Threads : Owner[p] = t <=> p \in held[t]
       /\ Owner[p] = None <=> blocks[p] = None

LEMMA MappedLemma == IInv => Mapped
<1> SUFFICES ASSUME IInv PROVE Mapped
  OBVIOUS
<1>1. Owner = [p \in Blocks |-> Owner[p]] /\ Shape = [p \in Blocks |-> Shape[p]]
  BY DEF Owner, Shape
<1>2. ASSUME NEW p \in Blocks
      PROVE  /\ Owner[p] \in Threads \union {None}
             /\ \A t \in Threads : Owner[p] = t <=> p \in held[t]
             /\ Owner[p] = None <=> blocks[p] = None
  <2>1. CASE \E t \in Threads : p \in held[t]
    <3>1. PICK u \in Threads : p \in held[u]
      BY <2>1
    <3>2. \A t \in Threads : p \in held[t] <=> t = u
      BY <3>1 DEF IInv, OneOwner
    <3>3. Owner[p] = u
      <4>1. Owner[p] = CHOOSE t \in Threads : p \in held[t]
        BY <2>1 DEF Owner
      <4>2. (CHOOSE t \in Threads : p \in held[t]) \in Threads
            /\ p \in held[CHOOSE t \in Threads : p \in held[t]]
        BY <2>1
      <4> QED
        BY <3>2, <4>1, <4>2
    <3>4. blocks[p] # None /\ u # None
      BY <3>1, NoneDistinct DEF IInv, HeldIsLive
    <3> QED
      BY <3>2, <3>3, <3>4
  <2>2. CASE ~ \E t \in Threads : p \in held[t]
    <3>1. Owner[p] = None /\ blocks[p] = None
      BY <2>2 DEF Owner, IInv, HeldIsLive
    <3> QED
      BY <2>2, <3>1, NoneDistinct
  <2> QED
    BY <2>1, <2>2
<1> QED
  BY <1>1, <1>2 DEF Mapped

(* A block nobody took or let go of keeps its owner.                       *)
LEMMA SameOwner ==
  ASSUME Mapped, Mapped', NEW q \in Blocks,
         \A u \in Threads : q \in held'[u] <=> q \in held[u]
  PROVE  Owner'[q] = Owner[q]
  BY NoneDistinct DEF Mapped

(* A block's shape depends on nothing but the block.                       *)
LEMMA ShapeOf ==
  /\ \A q \in Blocks : blocks'[q] = blocks[q] => Shape'[q] = Shape[q]
  /\ \A q \in Blocks : blocks[q] = None => Shape[q] = None
  /\ \A q \in Blocks : blocks'[q] = None => Shape'[q] = None
  /\ \A q \in Blocks : blocks[q] # None =>
       Shape[q] = [size |-> blocks[q].size, align |-> blocks[q].align,
                   zero |-> blocks[q].zero]
  /\ \A q \in Blocks : blocks'[q] # None =>
       Shape'[q] = [size |-> blocks'[q].size, align |-> blocks'[q].align,
                    zero |-> blocks'[q].zero]
  BY DEF Shape

Shapes == [size : AskedSizes, align : Aligns, zero : BOOLEAN]

(* The shape a call asks for is one MemBlocks knows.                       *)
LEMMA AskedShape ==
  ASSUME NEW t \in Threads, NEW f \in Functions, NEW a \in Arguments(t, f)
  PROVE  /\ NativeBytes(f, a) \in AskedSizes
         /\ NativeAlign(f, a) \in Aligns
         /\ NativeZero(f) \in BOOLEAN
<1>1. /\ a.count \in (IF f.counted THEN Counts ELSE {1})
      /\ a.size \in Sizes
      /\ a.align \in (IF f.aligned THEN Aligns ELSE {1})
  BY DEF Arguments
<1>2. NativeBytes(f, a) \in AskedSizes
  <2>1. CASE f.counted
    BY <1>1, <2>1 DEF NativeBytes, AskedSizes
  <2>2. CASE ~f.counted
    <3>1. a.count = 1 /\ a.size \in Nat
      BY <1>1, <2>2, ArgumentsAssumption
    <3>2. NativeBytes(f, a) = a.size
      BY <3>1 DEF NativeBytes
    <3> QED
      BY <1>1, <3>2 DEF AskedSizes
  <2> QED
    BY <2>1, <2>2
<1>3. NativeZero(f) \in BOOLEAN
  BY DEF Functions, AllocFunctions, ReallocFunctions, NativeZero
<1> QED
  BY <1>1, <1>2, <1>3, ArgumentsAssumption DEF NativeAlign

LEMMA InitRefines == Init => Abstract!Init
<1> SUFFICES ASSUME Init PROVE Abstract!Init
  OBVIOUS
<1>1. Owner = [p \in Blocks |-> None]
  BY DEF Init, Owner
<1>2. Shape = [p \in Blocks |-> None]
  BY DEF Init, Shape
<1> QED
  BY <1>1, <1>2 DEF Abstract!Init

LEMMA AllocRefines ==
  ASSUME IInv, Mapped, Mapped', NEW t \in Threads, NEW f \in AllocFunctions,
         NEW a \in Arguments(t, f), Alloc(t, f, a)
  PROVE  \E p \in Blocks : Abstract!Take(t, p)
<1> DEFINE b == NativeBlock(t, f, a)
           s == [size |-> b.size, align |-> b.align, zero |-> b.zero]
<1>1. PICK p \in Blocks :
        /\ blocks[p] = None
        /\ blocks' = [blocks EXCEPT ![p] = b]
        /\ held' = [held EXCEPT ![t] = @ \union {p}]
  BY DEF Alloc
<1>2. f \in Functions
  BY DEF Functions
<1>3. s \in Shapes
  BY <1>2, AskedShape DEF Shapes, NativeBlock
<1>4. b # None
  BY <1>2, Forwarded, NoneDistinct
<1> HIDE DEF b, s
<1>5. Owner[p] = None
  BY <1>1 DEF Mapped
<1>6. Owner' = [Owner EXCEPT ![p] = t]
  <2>1. Owner'[p] = t
    BY <1>1 DEF Mapped, IInv, TypeOK
  <2>2. \A q \in Blocks \ {p} : Owner'[q] = Owner[q]
    BY <1>1, SameOwner DEF IInv, TypeOK
  <2> QED
    BY <2>1, <2>2 DEF Mapped
<1>7. Shape' = [Shape EXCEPT ![p] = s]
  <2>1. blocks'[p] = b
    BY <1>1 DEF IInv, TypeOK
  <2>2. Shape'[p] = s
    BY <1>4, <2>1, ShapeOf DEF s
  <2>3. \A q \in Blocks \ {p} : Shape'[q] = Shape[q]
    BY <1>1, ShapeOf DEF IInv, TypeOK
  <2> QED
    BY <2>2, <2>3 DEF Mapped
<1>8. \E z \in Shapes : Shape' = [Shape EXCEPT ![p] = z]
  BY <1>3, <1>7
<1>9. Abstract!Take(t, p)
  BY <1>5, <1>6, <1>8 DEF Abstract!Take, Shapes
<1> QED
  BY <1>9

(* Blocks that are gone, and that their owner has let go of.               *)
LEMMA GivenUpRefines ==
  ASSUME IInv, Mapped, Mapped', NEW t \in Threads, NEW S \in SUBSET Blocks,
         \A p \in Blocks : blocks'[p] = IF p \in S THEN None ELSE blocks[p],
         \A p \in S : p \in held[t],
         \A u \in Threads : held'[u] = IF u = t THEN held[u] \ S ELSE held[u]
  PROVE  Abstract!GiveBack(t, S)
<1>1. S \subseteq Abstract!Owned(t)
  BY DEF Abstract!Owned, Mapped
<1>2. \A q \in S : Owner'[q] = None /\ Shape'[q] = None
  BY ShapeOf DEF Mapped
<1>3. \A q \in Blocks \ S : Owner'[q] = Owner[q] /\ Shape'[q] = Shape[q]
  BY SameOwner, ShapeOf
<1>4. /\ Owner' = [p \in Blocks |-> IF p \in S THEN None ELSE Owner[p]]
      /\ Shape' = [p \in Blocks |-> IF p \in S THEN None ELSE Shape[p]]
  BY <1>2, <1>3 DEF Mapped
<1> QED
  BY <1>1, <1>4 DEF Abstract!GiveBack

(* Blocks that change at most their heap, and owners that do not.          *)
LEMMA UnchangedRefines ==
  ASSUME Mapped, Mapped', UNCHANGED held,
         \A p \in Blocks :
           /\ blocks'[p] = None <=> blocks[p] = None
           /\ blocks[p] # None => /\ blocks'[p].size = blocks[p].size
                                  /\ blocks'[p].align = blocks[p].align
                                  /\ blocks'[p].zero = blocks[p].zero
  PROVE  UNCHANGED Abstract!vars
<1>1. \A q \in Blocks : Owner'[q] = Owner[q]
  BY SameOwner
<1>2. \A q \in Blocks : Shape'[q] = Shape[q]
  BY ShapeOf
<1> QED
  BY <1>1, <1>2 DEF Mapped, Abstract!vars

(* A block that stays where it is.                                         *)
LEMMA ResizedRefines ==
  ASSUME IInv, Mapped, Mapped', NEW t \in Threads, NEW p \in held[t],
         NEW b \in Requests,
         b.size \in AskedSizes, b.zero => blocks[p].zero,
         blocks' = [blocks EXCEPT ![p] = b], UNCHANGED held
  PROVE  Abstract!Reshape(t, p)
<1> DEFINE s == [size |-> b.size, align |-> b.align, zero |-> b.zero]
<1>1. p \in Blocks /\ blocks[p] # None /\ b # None
  BY HeldFacts, NoneDistinct
<1>2. s \in Shapes
  BY DEF Shapes, Requests
<1>3. s.zero => Shape[p].zero
  <2>1. Shape[p] = [size |-> blocks[p].size, align |-> blocks[p].align,
                    zero |-> blocks[p].zero]
    BY <1>1, ShapeOf
  <2>2. Shape[p].zero = blocks[p].zero
    BY <2>1
  <2> QED
    BY <2>2
<1>4. Owner[p] = t
  BY <1>1 DEF Mapped
<1>5. Owner' = Owner
  BY SameOwner DEF Mapped
<1>6. Shape' = [Shape EXCEPT ![p] = s]
  <2>1. blocks'[p] = b
    BY <1>1 DEF IInv, TypeOK
  <2>2. Shape'[p] = s
    BY <1>1, <2>1, ShapeOf
  <2>3. \A q \in Blocks \ {p} : Shape'[q] = Shape[q]
    BY ShapeOf DEF IInv, TypeOK
  <2> HIDE DEF s
  <2> QED
    BY <2>2, <2>3 DEF Mapped
<1> HIDE DEF s
<1>7. \E z \in {y \in Shapes : y.zero => Shape[p].zero} : Shape' = [Shape EXCEPT ![p] = z]
  BY <1>2, <1>3, <1>6
<1> QED
  BY <1>4, <1>5, <1>7 DEF Abstract!Reshape, Abstract!Resized, Shapes

LEMMA ReallocInPlaceRefines ==
  ASSUME IInv, Mapped, Mapped', NEW t \in Threads, NEW f \in ReallocFunctions,
         NEW a \in Arguments(t, f), NEW p \in Blocks, ReallocInPlace(t, f, a, p)
  PROVE  Abstract!Reshape(t, p)
<1> DEFINE b == [blocks[p] EXCEPT !.size = NativeBytes(f, a), !.zero = @ /\ NativeZero(f)]
<1>1. p \in held[t] /\ UNCHANGED held
  BY DEF ReallocInPlace, MayResize, Valid
<1>2. blocks[p] \in Requests
  BY <1>1, HeldFacts
<1>3. /\ NativeBytes(f, a) \in AskedSizes /\ NativeBytes(f, a) \in Nat
      /\ NativeZero(f) \in BOOLEAN
  BY AskedShape, Forwarded DEF Functions
<1>4. /\ b \in Requests /\ b.size \in AskedSizes
      /\ b.zero => blocks[p].zero
  BY <1>2, <1>3 DEF Requests
<1>5. blocks' = [blocks EXCEPT ![p] = b]
  BY <1>1 DEF ReallocInPlace, IInv, TypeOK
<1> HIDE DEF b
<1> QED
  BY <1>1, <1>4, <1>5, ResizedRefines

LEMMA ExpandRefines ==
  ASSUME IInv, Mapped, Mapped', NEW t \in Threads, NEW p \in Blocks,
         NEW size \in Sizes, Expand(t, p, size)
  PROVE  Abstract!Reshape(t, p)
<1> DEFINE b == [blocks[p] EXCEPT !.size = size, !.zero = FALSE]
<1>1. p \in held[t] /\ UNCHANGED held /\ blocks' = [blocks EXCEPT ![p] = b]
  BY DEF Expand, Valid
<1>2. blocks[p] \in Requests /\ size \in Nat /\ size \in AskedSizes
  BY <1>1, HeldFacts, ArgumentsAssumption DEF AskedSizes
<1>3. b \in Requests /\ b.size \in AskedSizes /\ b.zero = FALSE
  BY <1>2 DEF Requests
<1> HIDE DEF b
<1> QED
  BY <1>1, <1>3, ResizedRefines

LEMMA ReallocMovesRefines ==
  ASSUME IInv, Mapped, Mapped', NEW t \in Threads, NEW f \in ReallocFunctions,
         NEW a \in Arguments(t, f), NEW p \in Blocks, ReallocMoves(t, f, a, p)
  PROVE  \E q \in Blocks : Abstract!Move(t, p, q)
<1> DEFINE b == [NativeBlock(t, f, a) EXCEPT !.zero = @ /\ blocks[p].zero]
           s == [size |-> b.size, align |-> b.align, zero |-> b.zero]
<1>1. PICK q \in Blocks :
        /\ blocks[q] = None
        /\ blocks' = [blocks EXCEPT ![p] = None, ![q] = b]
        /\ held' = [held EXCEPT ![t] = (@ \ {p}) \union {q}]
  BY DEF ReallocMoves
<1>2. p \in held[t]
  BY DEF ReallocMoves, MayResize, Valid
<1>3. blocks[p] \in Requests /\ blocks[p] # None
  BY <1>2, HeldFacts
<1>4. f \in Functions
  BY DEF Functions
<1>5. /\ NativeBlock(t, f, a) \in Requests
      /\ NativeBlock(t, f, a).size \in AskedSizes
  BY <1>4, Forwarded, AskedShape DEF NativeBlock
<1>6. b \in Requests /\ b.size \in AskedSizes /\ (b.zero => blocks[p].zero)
  BY <1>3, <1>5 DEF Requests
<1> HIDE DEF b
<1>7. s \in Shapes
  BY <1>6 DEF Shapes, Requests
<1>8. b # None
  BY <1>6, NoneDistinct
<1>9. s.zero => Shape[p].zero
  <2>1. p \in Blocks
    BY <1>2, HeldFacts
  <2>2. Shape[p] = [size |-> blocks[p].size, align |-> blocks[p].align,
                    zero |-> blocks[p].zero]
    BY <1>3, <2>1, ShapeOf
  <2>3. Shape[p].zero = blocks[p].zero
    BY <2>2
  <2> QED
    BY <1>6, <2>3
<1>10. Owner[p] = t /\ Owner[q] = None /\ p # q
  BY <1>1, <1>2, <1>3 DEF Mapped
<1>11. blocks'[q] = b /\ blocks'[p] = None
  BY <1>1, <1>10 DEF IInv, TypeOK
<1>12. Shape' = [Shape EXCEPT ![p] = None, ![q] = s]
  <2>1. Shape'[q] = s /\ Shape'[p] = None
    BY <1>8, <1>11, ShapeOf
  <2>2. \A r \in Blocks \ {p, q} : Shape'[r] = Shape[r]
    BY <1>1, ShapeOf DEF IInv, TypeOK
  <2> HIDE DEF s
  <2> QED
    BY <1>10, <2>1, <2>2 DEF Mapped
<1>13. Owner' = [Owner EXCEPT ![p] = None, ![q] = t]
  <2>1. Owner'[p] = None
    BY <1>11 DEF Mapped
  <2>2. Owner'[q] = t
    BY <1>1 DEF Mapped, IInv, TypeOK
  <2>3. \A r \in Blocks \ {p, q} : Owner'[r] = Owner[r]
    BY <1>1, SameOwner DEF IInv, TypeOK
  <2> QED
    BY <1>10, <2>1, <2>2, <2>3 DEF Mapped
<1> HIDE DEF s
<1>14. \E z \in {y \in Shapes : y.zero => Shape[p].zero} :
         Shape' = [Shape EXCEPT ![p] = None, ![q] = z]
  BY <1>7, <1>9, <1>12
<1>15. Abstract!Move(t, p, q)
  BY <1>10, <1>13, <1>14 DEF Abstract!Move, Abstract!Resized, Shapes
<1> QED
  BY <1>15

LEMMA HandOverRefines ==
  ASSUME IInv, Mapped, Mapped', NEW t \in Threads, NEW u \in Threads \ {t},
         NEW p \in Blocks, HandOver(t, u, p)
  PROVE  Abstract!Pass(t, u, p)
<1>1. /\ p \in held[t] /\ UNCHANGED blocks
      /\ held' = [[held EXCEPT ![t] = @ \ {p}] EXCEPT ![u] = @ \union {p}]
  BY DEF HandOver
<1>2. Owner[p] = t
  BY <1>1 DEF Mapped
<1>3. Owner' = [Owner EXCEPT ![p] = u]
  <2>1. Owner'[p] = u
    BY <1>1 DEF Mapped, IInv, TypeOK
  <2>2. \A q \in Blocks \ {p} : Owner'[q] = Owner[q]
    BY <1>1, SameOwner DEF IInv, TypeOK
  <2> QED
    BY <2>1, <2>2 DEF Mapped
<1>4. Shape' = Shape
  BY <1>1, ShapeOf DEF Mapped
<1> QED
  BY <1>2, <1>3, <1>4 DEF Abstract!Pass

LEMMA HeapDestroyRefines ==
  ASSUME IInv, Mapped, Mapped', NEW t \in Threads, NEW h \in Heaps,
         HeapDestroy(t, h)
  PROVE  \E S \in SUBSET Blocks : Abstract!GiveBack(t, S)
<1> DEFINE S == BlocksOf({h})
<1>1. /\ \A u \in Threads \ {t} : held[u] \intersect WantedOf({h}) = {}
      /\ \A p \in Blocks : blocks'[p] = IF p \in S THEN None ELSE blocks[p]
      /\ held' = [held EXCEPT ![t] = @ \ WantedOf({h})]
  BY DEF HeapDestroy
<1>2. S \in SUBSET Blocks /\ \A p \in S : p \in WantedOf({h}) /\ blocks[p] # None
  BY DEF BlocksOf, WantedOf, ContainsBlock, IInv, KnownHeap
<1>3. \A p \in S : p \in held[t]
  BY <1>1, <1>2 DEF IInv, HeldIsLive
<1>4. \A p \in WantedOf({h}) : p \in Blocks /\ (blocks[p] # None => p \in S)
  BY DEF BlocksOf, WantedOf, ContainsBlock, IInv, KnownHeap
<1>5. \A p \in held[t] : p \in WantedOf({h}) <=> p \in S
  BY <1>2, <1>4, HeldFacts
<1>6. \A u \in Threads : held'[u] = IF u = t THEN held[u] \ S ELSE held[u]
  <2>1. held[t] \ WantedOf({h}) = held[t] \ S
    BY <1>5
  <2> QED
    BY <1>1, <2>1 DEF IInv, TypeOK
<1> HIDE DEF S
<1>7. Abstract!GiveBack(t, S)
  BY <1>1, <1>2, <1>3, <1>6, GivenUpRefines
<1> QED
  BY <1>2, <1>7

LEMMA NextRefines ==
  IInv /\ Mapped /\ Mapped' /\ [Next]_vars => [Abstract!Next]_(Abstract!vars)
<1> SUFFICES ASSUME IInv, Mapped, Mapped', [Next]_vars
             PROVE  Abstract!Next \/ UNCHANGED Abstract!vars
  OBVIOUS
<1>1. ASSUME UNCHANGED <<blocks, held>>
      PROVE  UNCHANGED Abstract!vars
  BY <1>1, UnchangedRefines
<1>2. CASE UNCHANGED vars
  BY <1>1, <1>2 DEF vars
<1>3. ASSUME NEW t \in Threads, NEW f \in AllocFunctions, NEW a \in Arguments(t, f),
             Alloc(t, f, a)
      PROVE  Abstract!Next
  BY <1>3, AllocRefines DEF Abstract!Next
<1>4. ASSUME NEW t \in Threads, NEW p \in held[t],
             \A q \in Blocks : blocks'[q] = IF q = p THEN None ELSE blocks[q],
             held' = [held EXCEPT ![t] = @ \ {p}]
      PROVE  Abstract!Next
  <2> DEFINE S == {p}
  <2>1. S \in SUBSET Blocks /\ \A q \in S : q \in held[t]
    BY HeldFacts
  <2>2. /\ \A q \in Blocks : blocks'[q] = IF q \in S THEN None ELSE blocks[q]
        /\ \A u \in Threads : held'[u] = IF u = t THEN held[u] \ S ELSE held[u]
    BY <1>4 DEF IInv, TypeOK
  <2> HIDE DEF S
  <2> QED
    BY <2>1, <2>2, GivenUpRefines DEF Abstract!Next
<1>5. ASSUME NEW t \in Threads, NEW p \in Blocks, Free(t, p)
      PROVE  Abstract!Next
  BY <1>4, <1>5 DEF Free, Valid, IInv, TypeOK
<1>6. ASSUME NEW t \in Threads, NEW f \in ReallocFunctions, NEW p \in Blocks,
             ReallocFails(t, f, p)
      PROVE  Abstract!Next \/ UNCHANGED Abstract!vars
  <2>1. CASE f.frees
    BY <1>4, <1>6, <2>1 DEF ReallocFails, MayResize, Valid, NativeFrees, IInv, TypeOK
  <2>2. CASE ~f.frees
    BY <1>1, <1>6, <2>2 DEF ReallocFails, NativeFrees
  <2> QED
    BY <2>1, <2>2
<1>7. ASSUME NEW t \in Threads, NEW f \in ReallocFunctions, NEW a \in Arguments(t, f),
             NEW p \in Blocks, ReallocInPlace(t, f, a, p) \/ ReallocMoves(t, f, a, p)
      PROVE  Abstract!Next
  BY <1>7, ReallocInPlaceRefines, ReallocMovesRefines DEF Abstract!Next
<1>8. ASSUME NEW t \in Threads, NEW p \in Blocks, NEW size \in Sizes, Expand(t, p, size)
      PROVE  Abstract!Next
  BY <1>8, ExpandRefines DEF Abstract!Next
<1>9. ASSUME NEW t \in Threads, NEW p \in Blocks, NEW u \in Threads \ {t},
             HandOver(t, u, p)
      PROVE  Abstract!Next
  BY <1>9, HandOverRefines DEF Abstract!Next
<1>10. ASSUME NEW t \in Threads, HeapNew(t) \/ \E h \in HeapIds : HeapSetDefault(t, h)
       PROVE  UNCHANGED Abstract!vars
  BY <1>1, <1>10 DEF HeapNew, HeapSetDefault
<1>11. ASSUME NEW t \in Threads, NEW H \in SUBSET Heaps, Delete(t, H)
       PROVE  UNCHANGED Abstract!vars
  <2>1. UNCHANGED held
    BY <1>11 DEF Delete
  <2> QED
    BY <1>11, <2>1, DeletedFacts, UnchangedRefines
<1>12. ASSUME NEW t \in Threads, NEW h \in Heaps, HeapDelete(t, h)
       PROVE  UNCHANGED Abstract!vars
  BY <1>11, <1>12 DEF HeapDelete
<1>13. ASSUME NEW t \in Threads, ThreadDone(t)
       PROVE  UNCHANGED Abstract!vars
  <2> DEFINE H == {h \in Heaps : home[h] = t}
  <2>1. H \in SUBSET Heaps /\ Delete(t, H)
    BY <1>13 DEF ThreadDone
  <2> HIDE DEF H
  <2> QED
    BY <1>11, <2>1
<1>14. ASSUME NEW t \in Threads, NEW h \in Heaps, HeapDestroy(t, h)
       PROVE  Abstract!Next
  BY <1>14, HeapDestroyRefines DEF Abstract!Next
<1> QED
  BY <1>2, <1>3, <1>5, <1>6, <1>7, <1>8, <1>9, <1>10, <1>12, <1>13, <1>14
     DEF Next, Realloc

------------------------------------------------------------------------------
(* Mem keeps MemBlocks' promise, over mimalloc as the wrappers call it.    *)
THEOREM BlocksImplemented == Spec => ImplementsBlocks
<1>1. IInv => Mapped
  BY MappedLemma
<1>2. Init => Abstract!Init
  BY InitRefines
<1>3. IInv /\ Mapped /\ Mapped' /\ [Next]_vars => [Abstract!Next]_(Abstract!vars)
  BY NextRefines
<1> QED
  BY <1>1, <1>2, <1>3, Invariant, PTL DEF Spec, ImplementsBlocks, Abstract!Spec

==============================================================================
