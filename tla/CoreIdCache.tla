----------------------------- MODULE CoreIdCache -----------------------------
(***************************************************************************)
(* Cpu.cs: the per-thread cache behind Cpu.GetCurrentCoreId.               *)
(*                                                                         *)
(* Each thread owns one 32-bit integer, _currentProcessorIdCache.  Its     *)
(* upper bits hold the id of the core seen last, its lower 16 bits count   *)
(* down the calls that may be answered from it.  A call decrements the     *)
(* whole integer; when the countdown it read was 0 it asks the operating   *)
(* system, normalises the number and packs a new cache value.              *)
(*                                                                         *)
(* The scheduler moves threads between any two steps, also while a call is *)
(* half done.  The integer arithmetic of the code is kept: for a           *)
(* two's-complement x, x & (2^16 - 1) is x % 2^16 and x >> 16 is           *)
(* x \div 2^16 (the floor), negative x included.                           *)
(***************************************************************************)
EXTENDS Integers

CONSTANTS
  Threads,          \* managed threads that call into Cpu
  ManagedThreadId,  \* ManagedThreadId[t]: Environment.CurrentManagedThreadId
  Processors,       \* records [group, number] of the operating system
  Platform,         \* "windows", "linux" or "other" (cpu.rs has one body each)
  CallThrows,       \* TRUE: the P/Invoke may throw (no library, no entry)
  ProcessorCount,   \* Environment.ProcessorCount
  MaxCores,         \* Cpu.MaxCores, 128 in the code
  RefreshRate       \* Cpu.RefreshRate, 100 in the code

CacheUnit == 65536               \* 1 << CacheShift
MaxPacked == 32768               \* ids the sign mask keeps whole: 2^31 / 2^16

ASSUME ThreadsAssumption ==
  ManagedThreadId \in [Threads -> Nat]
ASSUME ProcessorsAssumption ==
  Processors \subseteq [group : Nat, number : Nat]
ASSUME PlatformAssumption ==
  /\ Platform \in {"windows", "linux", "other"}
  /\ CallThrows \in BOOLEAN
ASSUME CountsAssumption ==
  /\ ProcessorCount \in Nat \ {0}
  /\ MaxCores \in Nat \ {0}
  /\ MaxCores <= MaxPacked
ASSUME RefreshRateAssumption ==
  /\ RefreshRate \in Nat \ {0}
  /\ RefreshRate < CacheUnit

(* Math.Min(Environment.ProcessorCount, MaxCores) *)
CoreCount == IF ProcessorCount <= MaxCores THEN ProcessorCount ELSE MaxCores

CoreIds == 0..(CoreCount - 1)
NoId == -1

VARIABLES
  running,  \* running[t]: the processor t runs on; the scheduler's
  cache,    \* _currentProcessorIdCache, one per thread
  pc,       \* where t is in GetCurrentCoreId: "idle", "ask" or "store"
  native,   \* t's local currentProcessorId, as get_cpu_number returned it
  answer    \* what the last finished call of t returned, NoId before any

vars == <<running, cache, pc, native, answer>>

------------------------------------------------------------------------------
(* The two fields of a cache value. *)
CountDown(c) == c % CacheUnit
CachedId(c) == c \div CacheUnit

(* The test of GetCurrentCoreId, on the value read before the decrement.    *)
(* Mutant: the value after it (--c for c--).                               *)
MissedPreDecrement(c) == CountDown(c - 1) = 0
Missed(c) == CountDown(c) = 0

(* [ThreadStatic]: the cell a thread reads and writes.                     *)
(* Mutant: the attribute is forgotten and all threads share one cell.      *)
CellShared(t) == CHOOSE u \in Threads : TRUE
Cell(t) == t

(* spreads_pal_get_cpu_number on each platform. *)
CpuNumber(p) ==
  CASE Platform = "windows" -> {p.group * 64 + p.number}
    [] Platform = "linux"   -> {p.number, -1}
    [] OTHER                -> {-1}

(* get_cpu_number: an exception of the P/Invoke becomes -1. *)
GetCpuNumber(p) == CpuNumber(p) \union (IF CallThrows THEN {-1} ELSE {})

(* RefreshCurrentCoreId's normalisation of the native number n of thread t. *)
(* Mutant: > for >=.                                                       *)
NormalIdOffByOne(t, n) ==
  LET id == IF n < 0 THEN ManagedThreadId[t] ELSE n
  IN  IF id > CoreCount THEN id % CoreCount ELSE id
NormalId(t, n) ==
  LET id == IF n < 0 THEN ManagedThreadId[t] ELSE n
  IN  IF id >= CoreCount THEN id % CoreCount ELSE id

(* ((id << CacheShift) & int.MaxValue) | RefreshRate *)
Pack(id) == (id % MaxPacked) * CacheUnit + RefreshRate

(* c & ((~CacheCountDownMask) | 1).  Mutant: (c & ~CacheCountDownMask) | 1. *)
FlushedToOne(c) == (c - CountDown(c)) + 1
Flushed(c) == (c - CountDown(c)) + (c % 2)

------------------------------------------------------------------------------
Init ==
  /\ running \in [Threads -> Processors]
  /\ cache = [t \in Threads |-> 0]
  /\ pc = [t \in Threads |-> "idle"]
  /\ native = [t \in Threads |-> NoId]
  /\ answer = [t \in Threads |-> NoId]

(* The scheduler moves t, at any point of its code. *)
Migrate(t, p) ==
  /\ p # running[t]
  /\ running' = [running EXCEPT ![t] = p]
  /\ UNCHANGED <<cache, pc, native, answer>>

(* GetCurrentCoreId answered from the cache. *)
GetHit(t) ==
  /\ pc[t] = "idle"
  /\ ~Missed(cache[Cell(t)])
  /\ cache' = [cache EXCEPT ![Cell(t)] = @ - 1]
  /\ answer' = [answer EXCEPT ![t] = CachedId(cache[Cell(t)])]
  /\ UNCHANGED <<running, pc, native>>

(* GetCurrentCoreId finds the countdown at 0.  The decrement has already   *)
(* been written: it borrows from the id's bits.                            *)
GetMiss(t) ==
  /\ pc[t] = "idle"
  /\ Missed(cache[Cell(t)])
  /\ cache' = [cache EXCEPT ![Cell(t)] = @ - 1]
  /\ pc' = [pc EXCEPT ![t] = "ask"]
  /\ UNCHANGED <<running, native, answer>>

(* RefreshCurrentCoreId asks the operating system. *)
Ask(t) ==
  /\ pc[t] = "ask"
  /\ \E n \in GetCpuNumber(running[t]) : native' = [native EXCEPT ![t] = n]
  /\ pc' = [pc EXCEPT ![t] = "store"]
  /\ UNCHANGED <<running, cache, answer>>

(* RefreshCurrentCoreId normalises, packs and returns. *)
Store(t) ==
  /\ pc[t] = "store"
  /\ LET id == NormalId(t, native[t])
     IN  /\ cache' = [cache EXCEPT ![Cell(t)] = Pack(id)]
         /\ answer' = [answer EXCEPT ![t] = id]
  /\ native' = [native EXCEPT ![t] = NoId]
  /\ pc' = [pc EXCEPT ![t] = "idle"]
  /\ UNCHANGED running

(* FlushCurrentCpuId *)
Flush(t) ==
  /\ pc[t] = "idle"
  /\ cache' = [cache EXCEPT ![Cell(t)] = Flushed(@)]
  /\ UNCHANGED <<running, pc, native, answer>>

GetCurrentCoreId(t) == GetHit(t) \/ GetMiss(t) \/ Ask(t) \/ Store(t)

Next ==
  \E t \in Threads :
    \/ \E p \in Processors : Migrate(t, p)
    \/ GetCurrentCoreId(t)
    \/ Flush(t)

Spec == Init /\ [][Next]_vars

(* A caller that never stops calling; it flushes or not as it likes, and   *)
(* the scheduler owes nobody a migration.                                  *)
FairSpec == Spec /\ \A t \in Threads : WF_vars(GetCurrentCoreId(t))

------------------------------------------------------------------------------
(* Type invariant.  An idle thread's cache is never negative; while it     *)
(* refreshes, the cache may be as low as -1.                               *)
TypeOK ==
  /\ running \in [Threads -> Processors]
  /\ cache \in [Threads -> Int]
  /\ pc \in [Threads -> {"idle", "ask", "store"}]
  /\ native \in [Threads -> Int]
  /\ answer \in [Threads -> CoreIds \union {NoId}]

(* Every answer is an index of an array of length CoreCount, whatever the  *)
(* native number, the fallback and the point at which threads migrate      *)
(* (Cpu.cs:75-78, README.md "guarantees that the returned value could be   *)
(* used directly as an index"); and so is every answer still in the cache: *)
(* no decrement has ever borrowed from the id that a hit will return.      *)
AnswersAreIndices ==
  \A t \in Threads :
    /\ pc[t] = "idle" /\ CountDown(cache[Cell(t)]) # 0
         => CachedId(cache[Cell(t)]) \in CoreIds
    /\ answer[t] \in CoreIds \union {NoId}
    /\ answer[t] = NoId /\ pc[t] = "idle" => cache[Cell(t)] = 0

(* The ids t may be given while it runs on p.                              *)
GivenBy(t, p) == {NormalId(t, n) : n \in GetCpuNumber(p)}

(* The cache implements the promise: each answer repeats the thread's own  *)
(* last look, at most RefreshRate times, and at most once after a flush.   *)
(* A call in progress has borrowed 1 from the cache; adding it back gives  *)
(* the id remembered before the call.                                      *)
Settled(t) == IF pc[t] = "idle" THEN cache[Cell(t)] ELSE cache[Cell(t)] + 1

Looked == [t \in Threads |->
             IF pc[t] = "store" THEN NormalId(t, native[t]) ELSE NoId]
Remembered == [t \in Threads |->
                 IF answer[t] = NoId THEN NoId ELSE CachedId(Settled(t))]
Left == [t \in Threads |-> CountDown(Settled(t))]
Views == [tp \in Threads \X Processors |-> GivenBy(tp[1], tp[2])]

Promise == INSTANCE CoreIdPromise WITH
  Ids <- CoreIds, View <- Views, MaxStale <- RefreshRate, None <- NoId,
  looked <- Looked, remembered <- Remembered, left <- Left

KeepsPromise == Promise!Spec

(* Liveness.  If a thread that keeps calling is left on one processor from *)
(* some time on, its answers settle on an index that this processor gives, *)
(* whatever flushes are mixed in: flushing can spend the countdown but it  *)
(* can never refill it, so it cannot keep a stale answer alive.            *)
CatchesUp ==
  \A t \in Threads, p \in Processors :
    <>[](running[t] = p) => <>[](answer[t] \in GivenBy(t, p))

(* The safety half of CatchesUp, without fairness: nothing t still holds   *)
(* (its last answer, the cached id, the number it is about to store) comes *)
(* from another processor than p.                                          *)
CaughtUp(t, p) ==
  /\ answer[t] \in GivenBy(t, p)
  /\ pc[t] = "idle" /\ CountDown(cache[Cell(t)]) # 0
       => CachedId(cache[Cell(t)]) \in GivenBy(t, p)
  /\ pc[t] = "store" => NormalId(t, native[t]) \in GivenBy(t, p)

(* How many steps of its calls t is from there at most: the answers left   *)
(* in the cache and one refresh; a refresh that asked before t came to p   *)
(* stores a full countdown of the old id first.                            *)
CallsLeft(t, p) ==
  CASE pc[t] = "idle"  -> CountDown(cache[Cell(t)]) + 3
    [] pc[t] = "ask"   -> 2
    [] pc[t] = "store" -> IF NormalId(t, native[t]) \in GivenBy(t, p)
                            THEN 1 ELSE RefreshRate + 4

(* A thread on p has caught up with p or is on its way: every step of its  *)
(* calls brings it nearer, no flush and no step of another thread takes it *)
(* back, and once there it stays while the scheduler leaves it on p.  So   *)
(* an answer is stale for at most RefreshRate + 4 steps after a migration, *)
(* wherever in a call the migration came.                                  *)
CatchesUpSoon ==
  [][\A t \in Threads, p \in Processors :
       running[t] = p /\ running'[t] = p =>
         \/ CaughtUp(t, p)'
         \/ /\ ~CaughtUp(t, p)
            /\ CallsLeft(t, p)' <= CallsLeft(t, p)
            /\ GetCurrentCoreId(t) => CallsLeft(t, p)' < CallsLeft(t, p)]_vars

(* What "flushing the cache" says (Cpu.cs:91-94): after it, the next call  *)
(* does not answer from the flushed cache.  The code keeps bit 0 of the    *)
(* countdown, so an odd countdown still yields one cached answer.          *)
FlushEmptiesCache ==
  [][\A t \in Threads : Flush(t) => CountDown(cache'[Cell(t)]) = 0]_vars

==============================================================================
