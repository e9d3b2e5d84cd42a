-------------------------- MODULE CoreIdCache_proofs --------------------------
(***************************************************************************)
(* Proofs about CoreIdCache, for every number of threads, processors and   *)
(* cores, and every refresh rate that fits the countdown's 16 bits.        *)
(***************************************************************************)
EXTENDS CoreIdCache, TLAPS

------------------------------------------------------------------------------
(* The arithmetic of a cache value.                                        *)

(* An integer is its upper bits and its countdown, put together again.     *)
LEMMA SplitCache ==
  ASSUME NEW c \in Int
  PROVE  /\ CountDown(c) \in Nat
         /\ CountDown(c) < CacheUnit
         /\ CachedId(c) \in Int
         /\ c = CachedId(c) * CacheUnit + CountDown(c)
  BY DEF CountDown, CachedId, CacheUnit

(* There is only one way to split an integer so.                           *)
LEMMA SplitUnique ==
  ASSUME NEW id \in Int, NEW n \in Nat, n < CacheUnit
  PROVE  /\ CountDown(id * CacheUnit + n) = n
         /\ CachedId(id * CacheUnit + n) = id
  BY DEF CountDown, CachedId, CacheUnit

(* A hit takes 1 from the countdown and leaves the id alone.               *)
LEMMA DecrementHit ==
  ASSUME NEW c \in Int, CountDown(c) # 0
  PROVE  /\ CountDown(c - 1) = CountDown(c) - 1
         /\ CachedId(c - 1) = CachedId(c)
  BY DEF CountDown, CachedId, CacheUnit

(* A flush leaves the id alone and a countdown of 0 or 1, never a larger   *)
(* one than there was.                                                     *)
LEMMA FlushedCache ==
  ASSUME NEW c \in Int
  PROVE  /\ Flushed(c) \in Int
         /\ CachedId(Flushed(c)) = CachedId(c)
         /\ CountDown(Flushed(c)) \in 0..1
         /\ CountDown(Flushed(c)) <= CountDown(c)
  BY DEF Flushed, CountDown, CachedId, CacheUnit

(* CoreCount is a positive number that the sign mask keeps whole.          *)
LEMMA CoreCountRange ==
  /\ CoreCount \in Nat \ {0}
  /\ CoreCount <= MaxPacked
  BY CountsAssumption DEF CoreCount, MaxPacked

(* Whatever the native call returns, the normalised id is an index.        *)
LEMMA NormalIdIsIndex ==
  ASSUME NEW t \in Threads, NEW n \in Int
  PROVE  NormalId(t, n) \in CoreIds
<1> DEFINE id == IF n < 0 THEN ManagedThreadId[t] ELSE n
<1>1. id \in Nat
  BY ThreadsAssumption
<1>2. CoreCount \in Nat \ {0}
  BY CoreCountRange
<1>3. id % CoreCount \in 0..(CoreCount - 1)
  BY <1>1, <1>2
<1> QED
  BY <1>1, <1>2, <1>3 DEF NormalId, CoreIds

(* Packing an index loses nothing: not the id, not the countdown.          *)
LEMMA PackIndex ==
  ASSUME NEW id \in CoreIds
  PROVE  /\ Pack(id) \in Int
         /\ CachedId(Pack(id)) = id
         /\ CountDown(Pack(id)) = RefreshRate
<1>1. id \in Nat /\ id < MaxPacked
  BY CoreCountRange DEF CoreIds, MaxPacked
<1>2. Pack(id) = id * CacheUnit + RefreshRate
  BY <1>1 DEF Pack, MaxPacked
<1>3. Pack(id) \in Int
  BY <1>1, <1>2, RefreshRateAssumption DEF CacheUnit
<1>4. /\ CachedId(id * CacheUnit + RefreshRate) = id
      /\ CountDown(id * CacheUnit + RefreshRate) = RefreshRate
  BY <1>1, SplitUnique, RefreshRateAssumption
<1> QED
  BY <1>2, <1>3, <1>4

(* A native number is an integer.                                          *)
LEMMA GetCpuNumberIsInt ==
  ASSUME NEW p \in Processors
  PROVE  GetCpuNumber(p) \in SUBSET Int
  BY ProcessorsAssumption DEF GetCpuNumber, CpuNumber

------------------------------------------------------------------------------
(* The inductive invariant.  AnswersAreIndices speaks of idle threads only, *)
(* and a call in progress has already borrowed 1 from the cache: the         *)
(* strengthening says that only a spent countdown is ever borrowed from.     *)
(* The clause on pc = "store" says what the local currentProcessorId is.     *)
Borrowed ==
  \A t \in Threads :
    /\ pc[t] # "idle" => CountDown(cache[t] + 1) = 0
    /\ pc[t] = "idle" => CountDown(cache[t]) <= RefreshRate

Remembers ==
  \A t \in Threads :
    IF answer[t] = NoId
      THEN cache[t] = IF pc[t] = "idle" THEN 0 ELSE -1
      ELSE CachedId(IF pc[t] = "idle" THEN cache[t] ELSE cache[t] + 1) \in CoreIds

IInv == TypeOK /\ Borrowed /\ Remembers

(* 0 splits into id 0 and countdown 0. *)
LEMMA SplitZero == CountDown(0) = 0 /\ CachedId(0) = 0
  BY DEF CountDown, CachedId, CacheUnit

LEMMA InitIInv == Init => IInv
<1> SUFFICES ASSUME Init PROVE IInv
  OBVIOUS
<1>1. TypeOK
  BY DEF Init, TypeOK, NoId
<1>2. Borrowed
  <2>1. 0 <= RefreshRate
    BY RefreshRateAssumption
  <2>2. ASSUME NEW t \in Threads
        PROVE  pc[t] = "idle" /\ cache[t] = 0
    BY DEF Init
  <2> QED
    BY <2>1, <2>2, SplitZero DEF Borrowed
<1>3. Remembers
  BY DEF Init, Remembers, NoId
<1> QED
  BY <1>1, <1>2, <1>3 DEF IInv

(* One step per action; under it one per part of the invariant.            *)
LEMMA NextIInv == IInv /\ [Next]_vars => IInv'
<1> SUFFICES ASSUME IInv, [Next]_vars PROVE IInv'
  OBVIOUS
<1> USE DEF IInv, Cell
<1>1. ASSUME NEW t \in Threads, NEW p \in Processors, Migrate(t, p)
      PROVE  IInv'
  BY <1>1 DEF Migrate, TypeOK, Borrowed, Remembers
<1>2. ASSUME NEW t \in Threads, GetHit(t)
      PROVE  IInv'
  <2>1. /\ cache[t] \in Int
        /\ CountDown(cache[t]) # 0
        /\ CountDown(cache[t]) \in Nat
        /\ CountDown(cache[t] - 1) = CountDown(cache[t]) - 1
        /\ CachedId(cache[t] - 1) = CachedId(cache[t])
    BY <1>2, SplitCache, DecrementHit DEF GetHit, Missed, TypeOK
  <2>2. answer[t] # NoId /\ CachedId(cache[t]) \in CoreIds
    BY <1>2, <2>1, SplitZero DEF GetHit, Remembers
  <2>3. TypeOK'
    BY <1>2, <2>1, <2>2 DEF GetHit, TypeOK
  <2>4. Borrowed'
    BY <1>2, <2>1, RefreshRateAssumption DEF GetHit, Borrowed, TypeOK
  <2>5. Remembers'
    BY <1>2, <2>1, <2>2 DEF GetHit, Remembers, TypeOK, CoreIds, NoId
  <2> QED
    BY <2>3, <2>4, <2>5
<1>3. ASSUME NEW t \in Threads, GetMiss(t)
      PROVE  IInv'
  <2>1. cache[t] \in Int /\ CountDown(cache[t]) = 0
    BY <1>3 DEF GetMiss, Missed, TypeOK
  <2>2. (cache[t] - 1) + 1 = cache[t]
    BY <2>1
  <2>3. TypeOK'
    BY <1>3, <2>1 DEF GetMiss, TypeOK
  <2>4. Borrowed'
    BY <1>3, <2>1, <2>2 DEF GetMiss, Borrowed, TypeOK
  <2>5. Remembers'
    BY <1>3, <2>1, <2>2 DEF GetMiss, Remembers, TypeOK
  <2> QED
    BY <2>3, <2>4, <2>5
<1>4. ASSUME NEW t \in Threads, Ask(t)
      PROVE  IInv'
  <2>1. GetCpuNumber(running[t]) \in SUBSET Int
    BY GetCpuNumberIsInt DEF TypeOK
  <2>2. TypeOK'
    BY <1>4, <2>1 DEF Ask, TypeOK
  <2>3. Borrowed' /\ Remembers'
    BY <1>4 DEF Ask, Borrowed, Remembers, TypeOK
  <2> QED
    BY <2>2, <2>3
<1>5. ASSUME NEW t \in Threads, Store(t)
      PROVE  IInv'
  <2> DEFINE id == NormalId(t, native[t])
  <2>1. id \in CoreIds
    BY NormalIdIsIndex DEF TypeOK
  <2>2. /\ Pack(id) \in Int
        /\ CachedId(Pack(id)) = id
        /\ CountDown(Pack(id)) = RefreshRate
    BY <2>1, PackIndex
  <2>3. id # NoId
    BY <2>1 DEF CoreIds, NoId
  <2> HIDE DEF id
  <2>4. /\ cache' = [cache EXCEPT ![t] = Pack(id)]
        /\ answer' = [answer EXCEPT ![t] = id]
        /\ native' = [native EXCEPT ![t] = NoId]
        /\ pc' = [pc EXCEPT ![t] = "idle"]
        /\ running' = running
    BY <1>5 DEF Store, id
  <2>5. TypeOK'
    BY <2>1, <2>2, <2>4 DEF TypeOK, NoId
  <2>6. Borrowed'
    BY <2>2, <2>4, RefreshRateAssumption DEF Borrowed, TypeOK
  <2>7. Remembers'
    BY <2>1, <2>2, <2>3, <2>4 DEF Remembers, TypeOK
  <2> QED
    BY <2>5, <2>6, <2>7
<1>6. ASSUME NEW t \in Threads, Flush(t)
      PROVE  IInv'
  <2>1. /\ cache[t] \in Int
        /\ Flushed(cache[t]) \in Int
        /\ CachedId(Flushed(cache[t])) = CachedId(cache[t])
        /\ CountDown(Flushed(cache[t])) \in 0..1
        /\ CountDown(Flushed(cache[t])) <= CountDown(cache[t])
        /\ Flushed(0) = 0
    BY FlushedCache DEF TypeOK, Flushed, CountDown, CacheUnit
  <2>2. TypeOK'
    BY <1>6, <2>1 DEF Flush, TypeOK
  <2>3. Borrowed'
    BY <1>6, <2>1, RefreshRateAssumption DEF Flush, Borrowed, TypeOK
  <2>4. Remembers'
    BY <1>6, <2>1 DEF Flush, Remembers, TypeOK
  <2> QED
    BY <2>2, <2>3, <2>4
<1>7. CASE UNCHANGED vars
  BY <1>7 DEF vars, TypeOK, Borrowed, Remembers
<1> QED
  BY <1>1, <1>2, <1>3, <1>4, <1>5, <1>6, <1>7 DEF Next, GetCurrentCoreId

------------------------------------------------------------------------------
(* The invariant holds in every reachable state.                           *)
LEMMA SpecIInv == Spec => []IInv
  BY InitIInv, NextIInv, PTL DEF Spec

(* Every cell of the state keeps its type: in particular a thread's answer *)
(* is never anything but an index or, before its first call, nothing.      *)
THEOREM TypeCorrect == Spec => []TypeOK
<1>1. IInv => TypeOK
  BY DEF IInv
<1> QED
  BY <1>1, SpecIInv, PTL

(* The guarantee of the README: what GetCurrentCoreId returns, and what it *)
(* may still return from the cache, indexes an array of length CoreCount.  *)
THEOREM AnswersAlwaysIndices == Spec => []AnswersAreIndices
<1>1. IInv => AnswersAreIndices
  <2> SUFFICES ASSUME IInv, NEW t \in Threads
               PROVE  /\ pc[t] = "idle" /\ CountDown(cache[t]) # 0
                            => CachedId(cache[t]) \in CoreIds
                      /\ answer[t] \in CoreIds \union {NoId}
                      /\ answer[t] = NoId /\ pc[t] = "idle" => cache[t] = 0
    BY DEF AnswersAreIndices, Cell
  <2>1. answer[t] \in CoreIds \union {NoId}
    BY DEF IInv, TypeOK
  <2>2. answer[t] = NoId /\ pc[t] = "idle" => cache[t] = 0
    BY DEF IInv, Remembers
  <2>3. ASSUME pc[t] = "idle", CountDown(cache[t]) # 0
        PROVE  CachedId(cache[t]) \in CoreIds
    BY <2>2, <2>3, SplitZero DEF IInv, Remembers
  <2> QED
    BY <2>1, <2>2, <2>3
<1> QED
  BY <1>1, SpecIInv, PTL

------------------------------------------------------------------------------
(* Refinement: the first state of the cache is a first state of the        *)
(* promise, and every step of the cache is a step of the promise or none.  *)

LEMMA InitRefines == Init => Promise!Init
<1> SUFFICES ASSUME Init PROVE Promise!Init
  OBVIOUS
<1>1. \A t \in Threads : pc[t] = "idle" /\ cache[t] = 0 /\ answer[t] = NoId
  BY DEF Init
<1>2. Looked = [t \in Threads |-> NoId]
  BY <1>1 DEF Looked
<1>3. Remembered = [t \in Threads |-> NoId]
  BY <1>1 DEF Remembered
<1>4. Left = [t \in Threads |-> 0]
  <2>1. \A t \in Threads : CountDown(Settled(t)) = 0
    BY <1>1, SplitZero DEF Settled, Cell
  <2> QED
    BY <2>1 DEF Left
<1> QED
  BY <1>2, <1>3, <1>4 DEF Init, Promise!Init

(* A step that keeps pc, cache, native and answer of every thread but t    *)
(* keeps what those threads' variables map to.                             *)
LEMMA OthersMapped ==
  ASSUME NEW t \in Threads, NEW u \in Threads,
         pc'[u] = pc[u], cache'[u] = cache[u],
         native'[u] = native[u], answer'[u] = answer[u]
  PROVE  /\ Looked'[u] = Looked[u]
         /\ Remembered'[u] = Remembered[u]
         /\ Left'[u] = Left[u]
  BY DEF Looked, Remembered, Left, Settled, Cell, NormalId

(* The mapped variables are functions over the threads.                    *)
LEMMA MappedFunctions ==
  /\ Looked = [u \in Threads |-> Looked[u]]
  /\ Remembered = [u \in Threads |-> Remembered[u]]
  /\ Left = [u \in Threads |-> Left[u]]
  /\ Looked' = [u \in Threads |-> Looked'[u]]
  /\ Remembered' = [u \in Threads |-> Remembered'[u]]
  /\ Left' = [u \in Threads |-> Left'[u]]
  BY DEF Looked, Remembered, Left

LEMMA NextRefines ==
  IInv /\ [Next]_vars => [Promise!Next]_(Promise!vars)
<1> SUFFICES ASSUME IInv, [Next]_vars
             PROVE  Promise!Next \/ UNCHANGED Promise!vars
  OBVIOUS
<1> USE DEF IInv, Cell
<1>1. ASSUME NEW t \in Threads, NEW p \in Processors, Migrate(t, p)
      PROVE  Promise!Migrate(t, p)
  <2>1. UNCHANGED <<Looked, Remembered, Left, answer>>
    BY <1>1, OthersMapped, MappedFunctions DEF Migrate
  <2> QED
    BY <1>1, <2>1 DEF Migrate, Promise!Migrate
<1>2. ASSUME NEW t \in Threads, GetHit(t)
      PROVE  Promise!AnswerStale(t)
  <2>1. /\ cache[t] \in Int
        /\ CountDown(cache[t]) # 0
        /\ CountDown(cache[t]) \in Nat
        /\ CountDown(cache[t] - 1) = CountDown(cache[t]) - 1
        /\ CachedId(cache[t] - 1) = CachedId(cache[t])
    BY <1>2, SplitCache, DecrementHit DEF GetHit, Missed, TypeOK
  <2>2. answer[t] # NoId /\ CachedId(cache[t]) # NoId
    BY <1>2, <2>1, SplitZero DEF GetHit, Remembers, CoreIds, NoId
  <2>3. /\ pc[t] = "idle" /\ pc' = pc
        /\ cache' = [cache EXCEPT ![t] = cache[t] - 1]
        /\ answer' = [answer EXCEPT ![t] = CachedId(cache[t])]
        /\ running' = running /\ native' = native
    BY <1>2 DEF GetHit
  <2>4. /\ Remembered[t] = CachedId(cache[t])
        /\ Left[t] = CountDown(cache[t])
    BY <2>2, <2>3 DEF Remembered, Left, Settled
  <2>5. /\ Remembered'[t] = CachedId(cache[t])
        /\ Left'[t] = CountDown(cache[t]) - 1
        /\ Looked'[t] = Looked[t]
    BY <2>1, <2>2, <2>3 DEF Remembered, Left, Settled, TypeOK, Looked
  <2>6. \A u \in Threads : u # t =>
          /\ Looked'[u] = Looked[u]
          /\ Remembered'[u] = Remembered[u]
          /\ Left'[u] = Left[u]
    BY <2>3, OthersMapped DEF TypeOK
  <2>7. Looked' = Looked /\ Remembered' = Remembered
    BY <2>4, <2>5, <2>6, MappedFunctions
  <2>8. Left' = [Left EXCEPT ![t] = Left[t] - 1]
    BY <2>4, <2>5, <2>6, MappedFunctions
  <2>9. Left[t] > 0
    BY <2>1, <2>4
  <2> QED
    BY <2>3, <2>4, <2>7, <2>8, <2>9 DEF Promise!AnswerStale
<1>3. ASSUME NEW t \in Threads, GetMiss(t)
      PROVE  UNCHANGED Promise!vars
  <2>1. /\ pc[t] = "idle" /\ pc' = [pc EXCEPT ![t] = "ask"]
        /\ cache' = [cache EXCEPT ![t] = cache[t] - 1]
        /\ cache[t] \in Int /\ (cache[t] - 1) + 1 = cache[t]
        /\ UNCHANGED <<running, native, answer>>
    BY <1>3 DEF GetMiss, TypeOK
  <2>2. Settled(t)' = Settled(t) /\ Looked'[t] = Looked[t]
    BY <2>1 DEF Settled, TypeOK, Looked
  <2>3. Remembered'[t] = Remembered[t] /\ Left'[t] = Left[t]
    BY <2>1, <2>2 DEF Remembered, Left
  <2>4. \A u \in Threads : u # t =>
          /\ Looked'[u] = Looked[u]
          /\ Remembered'[u] = Remembered[u]
          /\ Left'[u] = Left[u]
    BY <2>1, OthersMapped DEF TypeOK
  <2>5. Looked' = Looked /\ Remembered' = Remembered /\ Left' = Left
    BY <2>2, <2>3, <2>4, MappedFunctions
  <2> QED
    BY <2>1, <2>5 DEF Promise!vars
<1>4. ASSUME NEW t \in Threads, Ask(t)
      PROVE  Promise!Look(t)
  <2>1. PICK n \in GetCpuNumber(running[t]) : native' = [native EXCEPT ![t] = n]
    BY <1>4 DEF Ask
  <2>2. /\ pc[t] = "ask" /\ pc' = [pc EXCEPT ![t] = "store"]
        /\ UNCHANGED <<running, cache, answer>>
    BY <1>4 DEF Ask
  <2> DEFINE id == NormalId(t, n)
  <2>3. id \in Views[<<t, running[t]>>]
    BY <2>1 DEF Views, GivenBy, TypeOK
  <2>4. Looked[t] = NoId /\ Left[t] = 0
    BY <2>2 DEF Looked, Left, Settled, Borrowed
  <2>5. Looked'[t] = id
    BY <2>1, <2>2 DEF Looked, TypeOK, NormalId
  <2>6. Remembered'[t] = Remembered[t] /\ Left'[t] = Left[t]
    BY <2>2 DEF Remembered, Left, Settled, TypeOK
  <2>7. \A u \in Threads : u # t =>
          /\ Looked'[u] = Looked[u]
          /\ Remembered'[u] = Remembered[u]
          /\ Left'[u] = Left[u]
    BY <2>1, <2>2, OthersMapped DEF TypeOK
  <2> HIDE DEF id
  <2>8. Looked' = [Looked EXCEPT ![t] = id]
    BY <2>5, <2>7, MappedFunctions
  <2>9. Remembered' = Remembered /\ Left' = Left
    BY <2>6, <2>7, MappedFunctions
  <2> QED
    BY <2>2, <2>3, <2>4, <2>8, <2>9 DEF Promise!Look
<1>5. ASSUME NEW t \in Threads, Store(t)
      PROVE  Promise!AnswerFresh(t)
  <2> DEFINE id == NormalId(t, native[t])
  <2>1. id \in CoreIds /\ id # NoId
    BY NormalIdIsIndex DEF TypeOK, CoreIds, NoId
  <2>2. /\ Pack(id) \in Int
        /\ CachedId(Pack(id)) = id
        /\ CountDown(Pack(id)) = RefreshRate
    BY <2>1, PackIndex
  <2>3. pc[t] = "store" /\ Looked[t] = id
    BY <1>5 DEF Store, Looked
  <2> HIDE DEF id
  <2>4. /\ cache' = [cache EXCEPT ![t] = Pack(id)]
        /\ answer' = [answer EXCEPT ![t] = id]
        /\ native' = [native EXCEPT ![t] = NoId]
        /\ pc' = [pc EXCEPT ![t] = "idle"]
        /\ running' = running
    BY <1>5 DEF Store, id
  <2>5. /\ Looked'[t] = NoId
        /\ Remembered'[t] = id
        /\ Left'[t] = RefreshRate
    BY <2>1, <2>2, <2>4 DEF Looked, Remembered, Left, Settled, TypeOK
  <2>6. \A u \in Threads : u # t =>
          /\ Looked'[u] = Looked[u]
          /\ Remembered'[u] = Remembered[u]
          /\ Left'[u] = Left[u]
    BY <2>4, OthersMapped DEF TypeOK
  <2>7. /\ Looked' = [Looked EXCEPT ![t] = NoId]
        /\ Remembered' = [Remembered EXCEPT ![t] = id]
        /\ Left' = [Left EXCEPT ![t] = RefreshRate]
    BY <2>5, <2>6, MappedFunctions
  <2> QED
    BY <2>1, <2>3, <2>4, <2>7 DEF Promise!AnswerFresh
<1>6. ASSUME NEW t \in Threads, Flush(t)
      PROVE  Promise!Flush(t)
  <2> DEFINE c == Flushed(cache[t])
  <2>1. /\ cache[t] \in Int
        /\ CachedId(c) = CachedId(cache[t])
        /\ CountDown(c) \in 0..1
        /\ CountDown(c) <= CountDown(cache[t])
    BY FlushedCache DEF TypeOK
  <2> HIDE DEF c
  <2>2. /\ pc[t] = "idle"
        /\ cache' = [cache EXCEPT ![t] = c]
        /\ UNCHANGED <<running, pc, native, answer>>
    BY <1>6 DEF Flush, c
  <2>3. Looked[t] = NoId /\ Left[t] = CountDown(cache[t])
    BY <2>2 DEF Looked, Left, Settled
  <2>4. /\ Looked'[t] = Looked[t]
        /\ Remembered'[t] = Remembered[t]
        /\ Left'[t] = CountDown(c)
    BY <2>1, <2>2 DEF Looked, Remembered, Left, Settled, TypeOK
  <2>5. \A u \in Threads : u # t =>
          /\ Looked'[u] = Looked[u]
          /\ Remembered'[u] = Remembered[u]
          /\ Left'[u] = Left[u]
    BY <2>2, OthersMapped DEF TypeOK
  <2>6. Left' = [Left EXCEPT ![t] = CountDown(c)]
    BY <2>4, <2>5, MappedFunctions
  <2>7. Looked' = Looked /\ Remembered' = Remembered
    BY <2>4, <2>5, MappedFunctions
  <2> QED
    BY <2>1, <2>2, <2>3, <2>6, <2>7 DEF Promise!Flush
<1>7. CASE UNCHANGED vars
  <2>1. Looked' = Looked /\ Remembered' = Remembered /\ Left' = Left
    BY <1>7, OthersMapped, MappedFunctions DEF vars
  <2> QED
    BY <1>7, <2>1 DEF vars, Promise!vars
<1>8. ASSUME NEW t \in Threads, GetCurrentCoreId(t)
      PROVE  Promise!Next \/ UNCHANGED Promise!vars
  BY <1>2, <1>3, <1>4, <1>5, <1>8 DEF GetCurrentCoreId, Promise!Next
<1> QED
  BY <1>1, <1>6, <1>7, <1>8 DEF Next, Promise!Next

(* The cache keeps the promise: every answer repeats the thread's own last *)
(* look at the processor, at most RefreshRate times, at most once after a  *)
(* flush, whatever the scheduler, the other threads and the native call do. *)
THEOREM PromiseKept == Spec => KeepsPromise
<1>1. Spec => []IInv
  BY SpecIInv
<1>2. Init => Promise!Init
  BY InitRefines
<1>3. IInv /\ [Next]_vars => [Promise!Next]_(Promise!vars)
  BY NextRefines
<1> QED
  BY <1>1, <1>2, <1>3, PTL DEF Spec, KeepsPromise, Promise!Spec

------------------------------------------------------------------------------
(* How fast a thread catches up with the processor it runs on.             *)

(* A step of another thread, or one that moves t, changes nothing of this. *)
LEMMA OthersCatchUp ==
  ASSUME NEW t \in Threads, NEW p \in Processors,
         pc'[t] = pc[t], cache'[t] = cache[t],
         native'[t] = native[t], answer'[t] = answer[t]
  PROVE  /\ CaughtUp(t, p)' = CaughtUp(t, p)
         /\ CallsLeft(t, p)' = CallsLeft(t, p)
<1>1. \A n : NormalId(t, n)' = NormalId(t, n)
  BY DEF NormalId
<1>2. GivenBy(t, p)' = GivenBy(t, p)
  BY DEF GivenBy, GetCpuNumber, CpuNumber, NormalId
<1>3. CaughtUp(t, p)' = CaughtUp(t, p)
  BY <1>1, <1>2 DEF CaughtUp, Cell, NormalId
<1>4. CallsLeft(t, p)' = CallsLeft(t, p)
  BY <1>1, <1>2 DEF CallsLeft, Cell, NormalId
<1> QED
  BY <1>3, <1>4

(* What the two say in each place of a call.                               *)
LEMMA WhenIdle ==
  ASSUME NEW t \in Threads, NEW p, pc[t] = "idle"
  PROVE  /\ CaughtUp(t, p) <=>
              /\ answer[t] \in GivenBy(t, p)
              /\ CountDown(cache[t]) # 0 => CachedId(cache[t]) \in GivenBy(t, p)
         /\ CallsLeft(t, p) = CountDown(cache[t]) + 3
  BY DEF CaughtUp, CallsLeft, Cell

LEMMA WhenAsking ==
  ASSUME NEW t \in Threads, NEW p, pc[t] = "ask"
  PROVE  /\ CaughtUp(t, p) <=> answer[t] \in GivenBy(t, p)
         /\ CallsLeft(t, p) = 2
  BY DEF CaughtUp, CallsLeft

LEMMA WhenStoring ==
  ASSUME NEW t \in Threads, NEW p, pc[t] = "store"
  PROVE  /\ CaughtUp(t, p) <=>
              answer[t] \in GivenBy(t, p) /\ NormalId(t, native[t]) \in GivenBy(t, p)
         /\ CallsLeft(t, p) =
              IF NormalId(t, native[t]) \in GivenBy(t, p) THEN 1 ELSE RefreshRate + 4
  BY DEF CaughtUp, CallsLeft

(* What a step of t that keeps it on p does to both.                       *)
Nearer(t, p) ==
  CaughtUp(t, p)' \/ (~CaughtUp(t, p) /\ CallsLeft(t, p)' < CallsLeft(t, p))

LEMMA HitNearer ==
  ASSUME IInv, NEW t \in Threads, NEW p \in Processors, GetHit(t)
  PROVE  Nearer(t, p)
<1> DEFINE G == GivenBy(t, p)
<1>1. /\ pc[t] = "idle" /\ pc' = pc
      /\ cache'[t] = cache[t] - 1 /\ answer'[t] = CachedId(cache[t])
  BY DEF GetHit, Cell, IInv, TypeOK
<1>2. /\ cache[t] \in Int /\ CountDown(cache[t]) # 0
      /\ CountDown(cache[t]) \in Nat
      /\ CountDown(cache[t] - 1) = CountDown(cache[t]) - 1
      /\ CachedId(cache[t] - 1) = CachedId(cache[t])
  BY SplitCache, DecrementHit DEF GetHit, Missed, Cell, IInv, TypeOK
<1>3. /\ CaughtUp(t, p)' <=> CachedId(cache[t]) \in G
      /\ CallsLeft(t, p)' = CountDown(cache[t]) + 2
  <2>1. GivenBy(t, p)' = G
    BY DEF GivenBy, GetCpuNumber, CpuNumber, NormalId
  <2>2. /\ CaughtUp(t, p)' <=>
             answer'[t] \in G /\ (CountDown(cache'[t]) # 0 => CachedId(cache'[t]) \in G)
        /\ CallsLeft(t, p)' = CountDown(cache'[t]) + 3
    BY <1>1, <2>1 DEF CaughtUp, CallsLeft, Cell, CountDown, CachedId
  <2> QED
    BY <1>1, <1>2, <2>2
<1>4. /\ CaughtUp(t, p) => CachedId(cache[t]) \in G
      /\ CallsLeft(t, p) = CountDown(cache[t]) + 3
  BY <1>1, <1>2, WhenIdle
<1> QED
  BY <1>2, <1>3, <1>4 DEF Nearer

LEMMA MissNearer ==
  ASSUME IInv, NEW t \in Threads, NEW p \in Processors, GetMiss(t)
  PROVE  Nearer(t, p)
<1>1. /\ pc[t] = "idle" /\ pc'[t] = "ask" /\ answer' = answer
      /\ CountDown(cache[t]) = 0
  BY DEF GetMiss, Missed, Cell, IInv, TypeOK
<1>2. GivenBy(t, p)' = GivenBy(t, p)
  BY DEF GivenBy, GetCpuNumber, CpuNumber, NormalId
<1>3. /\ CaughtUp(t, p)' <=> answer[t] \in GivenBy(t, p)
      /\ CallsLeft(t, p)' = 2
  BY <1>1, <1>2 DEF CaughtUp, CallsLeft
<1>4. /\ CaughtUp(t, p) <=> answer[t] \in GivenBy(t, p)
      /\ CallsLeft(t, p) = 3
  BY <1>1, WhenIdle
<1> QED
  BY <1>3, <1>4 DEF Nearer

(* Asked on p, the operating system gives a number of p.                   *)
LEMMA AskNearer ==
  ASSUME IInv, NEW t \in Threads, NEW p \in Processors, Ask(t), running[t] = p
  PROVE  Nearer(t, p)
<1>1. PICK n \in GetCpuNumber(p) : native' = [native EXCEPT ![t] = n]
  BY DEF Ask
<1>2. pc[t] = "ask" /\ pc'[t] = "store" /\ native'[t] = n /\ answer' = answer
  BY <1>1 DEF Ask, IInv, TypeOK
<1>3. NormalId(t, native'[t]) \in GivenBy(t, p)
  BY <1>2 DEF GivenBy
<1>4. GivenBy(t, p)' = GivenBy(t, p)
  BY DEF GivenBy, GetCpuNumber, CpuNumber, NormalId
<1>5. NormalId(t, native[t])' = NormalId(t, native'[t])
  BY DEF NormalId
<1>6. /\ CaughtUp(t, p)' <=> answer[t] \in GivenBy(t, p)
      /\ CallsLeft(t, p)' = 1
  BY <1>2, <1>3, <1>4, <1>5 DEF CaughtUp, CallsLeft
<1>7. /\ CaughtUp(t, p) <=> answer[t] \in GivenBy(t, p)
      /\ CallsLeft(t, p) = 2
  BY <1>2, WhenAsking
<1> QED
  BY <1>6, <1>7 DEF Nearer

(* A number of p is the answer at once; one of another processor is stored *)
(* with a full countdown, and still that is one step less.                 *)
LEMMA StoreNearer ==
  ASSUME IInv, NEW t \in Threads, NEW p \in Processors, Store(t)
  PROVE  Nearer(t, p)
<1> DEFINE id == NormalId(t, native[t])
<1>1. id \in CoreIds
  BY NormalIdIsIndex DEF IInv, TypeOK
<1>2. CachedId(Pack(id)) = id /\ CountDown(Pack(id)) = RefreshRate
  BY <1>1, PackIndex
<1>3. /\ pc[t] = "store" /\ pc'[t] = "idle"
      /\ cache'[t] = Pack(id) /\ answer'[t] = id
  BY DEF Store, Cell, IInv, TypeOK
<1>4. /\ CaughtUp(t, p) => id \in GivenBy(t, p)
      /\ CallsLeft(t, p) = IF id \in GivenBy(t, p) THEN 1 ELSE RefreshRate + 4
  BY <1>3, WhenStoring
<1> HIDE DEF id
<1>5. GivenBy(t, p)' = GivenBy(t, p)
  BY DEF GivenBy, GetCpuNumber, CpuNumber, NormalId
<1>6. /\ CaughtUp(t, p)' <=> id \in GivenBy(t, p)
      /\ CallsLeft(t, p)' = RefreshRate + 3
  <2>1. /\ CaughtUp(t, p)' <=>
             /\ answer'[t] \in GivenBy(t, p)
             /\ CountDown(cache'[t]) # 0 => CachedId(cache'[t]) \in GivenBy(t, p)
        /\ CallsLeft(t, p)' = CountDown(cache'[t]) + 3
    BY <1>3, <1>5 DEF CaughtUp, CallsLeft, Cell, CountDown, CachedId
  <2> QED
    BY <1>2, <1>3, <2>1
<1> QED
  BY <1>4, <1>6, RefreshRateAssumption DEF Nearer

(* A flush can only spend the countdown.                                   *)
LEMMA FlushNoFarther ==
  ASSUME IInv, NEW t \in Threads, NEW p \in Processors, Flush(t)
  PROVE  CaughtUp(t, p)' \/ (~CaughtUp(t, p) /\ CallsLeft(t, p)' <= CallsLeft(t, p))
<1> DEFINE c == Flushed(cache[t])
<1>1. /\ cache[t] \in Int /\ CountDown(cache[t]) \in Nat
      /\ CachedId(c) = CachedId(cache[t])
      /\ CountDown(c) \in 0..1
      /\ CountDown(c) <= CountDown(cache[t])
  BY FlushedCache, SplitCache DEF IInv, TypeOK
<1>2. pc[t] = "idle" /\ pc' = pc /\ cache'[t] = c /\ answer' = answer
  BY DEF Flush, Cell, IInv, TypeOK
<1> HIDE DEF c
<1>3. GivenBy(t, p)' = GivenBy(t, p)
  BY DEF GivenBy, GetCpuNumber, CpuNumber, NormalId
<1>4. /\ CaughtUp(t, p)' <=>
           /\ answer[t] \in GivenBy(t, p)
           /\ CountDown(c) # 0 => CachedId(c) \in GivenBy(t, p)
      /\ CallsLeft(t, p)' = CountDown(c) + 3
  BY <1>2, <1>3 DEF CaughtUp, CallsLeft, Cell, CountDown, CachedId
<1>5. /\ CaughtUp(t, p) <=>
           /\ answer[t] \in GivenBy(t, p)
           /\ CountDown(cache[t]) # 0 => CachedId(cache[t]) \in GivenBy(t, p)
      /\ CallsLeft(t, p) = CountDown(cache[t]) + 3
  BY <1>2, WhenIdle
<1> QED
  BY <1>1, <1>4, <1>5

(* The bound behind CatchesUp, for every refresh rate: whenever and        *)
(* wherever in a call the scheduler moves a thread, RefreshRate + 4 of its *)
(* steps on the new processor are enough to forget the old one.            *)
THEOREM CatchesUpInTime == Spec => CatchesUpSoon
<1> DEFINE Soon(t, p) ==
      running[t] = p /\ running'[t] = p =>
        \/ CaughtUp(t, p)'
        \/ /\ ~CaughtUp(t, p)
           /\ CallsLeft(t, p)' <= CallsLeft(t, p)
           /\ GetCurrentCoreId(t) => CallsLeft(t, p)' < CallsLeft(t, p)
<1>1. IInv /\ IInv' /\ [Next]_vars
        => [\A t \in Threads, p \in Processors : Soon(t, p)]_vars
  <2> SUFFICES ASSUME IInv, IInv', Next, NEW t \in Threads, NEW p \in Processors,
                      running[t] = p, running'[t] = p
               PROVE  Soon(t, p)
    OBVIOUS
  <2>1. CallsLeft(t, p) \in Int /\ CallsLeft(t, p)' \in Int
    BY RefreshRateAssumption, SplitCache DEF CallsLeft, Cell, CountDown, IInv, TypeOK
  <2>2. CASE GetCurrentCoreId(t)
    <3>1. Nearer(t, p)
      BY <2>2, HitNearer, MissNearer, AskNearer, StoreNearer DEF GetCurrentCoreId
    <3> QED
      BY <3>1, <2>1 DEF Nearer
  <2>3. CASE ~GetCurrentCoreId(t) /\ Flush(t)
    BY <2>3, FlushNoFarther
  <2>4. CASE ~GetCurrentCoreId(t) /\ ~Flush(t)
    <3>1. /\ pc'[t] = pc[t] /\ cache'[t] = cache[t]
          /\ native'[t] = native[t] /\ answer'[t] = answer[t]
      BY <2>4 DEF Next, GetCurrentCoreId, Migrate, GetHit, GetMiss, Ask, Store, Flush,
                  Cell, IInv, TypeOK
    <3> QED
      BY <3>1, <2>1, <2>4, OthersCatchUp
  <2> QED
    BY <2>2, <2>3, <2>4
<1> QED
  BY <1>1, SpecIInv, PTL DEF Spec, CatchesUpSoon

==============================================================================
