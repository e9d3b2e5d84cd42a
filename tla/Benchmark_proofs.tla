--------------------------- MODULE Benchmark_proofs ---------------------------
(***************************************************************************)
(* Proofs about Benchmark: the pool gives a stopwatch to one run at a      *)
(* time, for any number of threads, cases and runs.                        *)
(***************************************************************************)
EXTENDS Benchmark, FiniteSetTheorems, TLAPS

(* Where a thread has a stopwatch: from Run's exchange to Dispose's.       *)
HoldsFromTakeToReturn ==
  \A t \in Threads :
    /\ mine[t] # None <=> pc[t] \in {"start", "measuring", "stopped"}
    /\ pc[t] \notin {"idle", "dump"} => runs[t] \in 1..MaxRuns

(* A stopwatch that measures was restarted by the run that holds it.       *)
TicksForItsRun ==
  \A t \in Threads :
    pc[t] = "measuring"
      => watch[mine[t]] = [by |-> CurrentRun(t), ticking |-> TRUE]

IInv ==
  /\ WatchTypeOK
  /\ HoldsFromTakeToReturn
  /\ TicksForItsRun
  /\ WatchExclusive
  /\ MeasuresOwnRun

(* The threads cannot hold all stopwatches, so `new' finds one.            *)
LEMMA NewWatchIsNew ==
  ASSUME WatchTypeOK, pool = None
  PROVE  NewWatch \in Watches /\ \A t \in Threads : NewWatch # mine[t]
<1> DEFINE N == Cardinality(Threads)
           Held == {mine[t] : t \in Threads}
<1>1. IsFiniteSet(Threads) /\ N \in Nat
  BY BoundAssumption, FS_CardinalityType
<1>2. mine \in Surjection(Threads, Held)
  BY DEF WatchTypeOK, Surjection
<1>3. IsFiniteSet(Held) /\ Cardinality(Held) <= N
  BY <1>1, <1>2, FS_Surjection
<1>4. Cardinality(Watches) = N + 1
  <2>1. 1 \in Int /\ N + 1 \in Int /\ ~(1 > N + 1)
    BY <1>1
  <2>2. Cardinality(1..(N + 1)) = (N + 1) - 1 + 1
    BY <2>1, FS_Interval
  <2>3. QED
    BY <1>1, <2>2 DEF Watches
<1>5. ~(Watches \subseteq Held)
  <2>1. ASSUME Watches \in SUBSET Held PROVE FALSE
    <3>1. Cardinality(Watches) <= Cardinality(Held)
      BY <1>3, <2>1, FS_Subset
    <3>2. Cardinality(Held) \in Nat
      BY <1>3, FS_CardinalityType
    <3>3. QED
      BY <1>1, <1>3, <1>4, <3>1, <3>2
  <2>2. QED
    BY <2>1
<1>6. \E w \in Watches : w # pool /\ \A t \in Threads : w # mine[t]
  BY <1>5, NoneAssumption
<1>7. QED
  BY <1>6 DEF NewWatch

LEMMA CurrentRunIsRun ==
  ASSUME NEW t \in Threads, runs[t] \in 1..MaxRuns
  PROVE  CurrentRun(t) \in Runs
BY DEF CurrentRun, Runs

------------------------------------------------------------------------------
LEMMA InitIInv == Init => IInv
<1> SUFFICES ASSUME Init PROVE IInv
  OBVIOUS
<1>1. WatchTypeOK
  BY BoundAssumption DEF Init, WatchTypeOK
<1>2. HoldsFromTakeToReturn /\ TicksForItsRun
  BY DEF Init, HoldsFromTakeToReturn, TicksForItsRun
<1>3. WatchExclusive /\ MeasuresOwnRun
  BY DEF Init, WatchExclusive, MeasuresOwnRun
<1>4. QED
  BY <1>1, <1>2, <1>3 DEF IInv

(* Run takes a stopwatch nobody has, and leaves none in the pool.          *)
LEMMA RunTakeIInv ==
  ASSUME IInv, NEW t \in Threads, NEW c \in Cases, RunTake(t, c)
  PROVE  IInv'
<1> DEFINE taken == IF pool # None THEN pool ELSE NewWatch
<1>1. taken \in Watches /\ taken # None
  BY NewWatchIsNew, NoneAssumption DEF IInv, WatchTypeOK
<1>2. \A u \in Threads : mine[u] # taken
  BY <1>1, NewWatchIsNew DEF IInv, WatchTypeOK, WatchExclusive
<1> HIDE DEF taken
<1>3. /\ mine' = [mine EXCEPT ![t] = taken]
      /\ pool' = None
      /\ runs' = [runs EXCEPT ![t] = @ + 1]
      /\ pc[t] = "idle" /\ pc' = [pc EXCEPT ![t] = "start"]
      /\ runs[t] < MaxRuns
      /\ watch' = watch /\ measured' = measured
  BY DEF RunTake, Goto, PoolTaken, taken
<1>4. runs[t] + 1 \in 1..MaxRuns
  BY <1>3, BoundAssumption DEF IInv, WatchTypeOK
<1>5. WatchTypeOK'
  BY <1>1, <1>3, <1>4 DEF IInv, WatchTypeOK
<1>6. HoldsFromTakeToReturn'
  BY <1>1, <1>3, <1>4 DEF IInv, WatchTypeOK, HoldsFromTakeToReturn
<1>7. TicksForItsRun'
  BY <1>3 DEF IInv, WatchTypeOK, TicksForItsRun, CurrentRun
<1>8. WatchExclusive'
  BY <1>1, <1>2, <1>3 DEF IInv, WatchTypeOK, WatchExclusive
<1>9. MeasuresOwnRun'
  BY <1>3 DEF IInv, WatchTypeOK, MeasuresOwnRun, CurrentRun
<1>10. QED
  BY <1>5, <1>6, <1>7, <1>8, <1>9 DEF IInv

(* The restart touches no stopwatch but t's own. *)
LEMMA RunStartIInv ==
  ASSUME IInv, NEW t \in Threads, RunStart(t)
  PROVE  IInv'
<1>1. mine[t] \in Watches /\ mine[t] # None /\ runs[t] \in 1..MaxRuns
  BY DEF IInv, WatchTypeOK, HoldsFromTakeToReturn, RunStart, Goto
<1>2. CurrentRun(t) \in Runs
  BY <1>1, CurrentRunIsRun
<1>3. /\ pc[t] = "start" /\ pc' = [pc EXCEPT ![t] = "measuring"]
      /\ watch' = [watch EXCEPT
                     ![mine[t]] = [by |-> CurrentRun(t), ticking |-> TRUE]]
      /\ UNCHANGED <<pool, runs, mine, measured>>
  BY DEF RunStart, Goto
<1>4. WatchTypeOK'
  BY <1>1, <1>2, <1>3 DEF IInv, WatchTypeOK
<1>5. HoldsFromTakeToReturn'
  BY <1>3 DEF IInv, WatchTypeOK, HoldsFromTakeToReturn
<1>6. TicksForItsRun'
  <2> SUFFICES ASSUME NEW u \in Threads, pc'[u] = "measuring"
               PROVE  watch'[mine'[u]] = [by |-> CurrentRun(u), ticking |-> TRUE]'
    BY DEF TicksForItsRun
  <2>1. CASE u = t
    BY <1>1, <1>3, <2>1 DEF IInv, WatchTypeOK, CurrentRun
  <2>2. CASE u # t
    BY <1>1, <1>3, <2>2 DEF IInv, WatchTypeOK, WatchExclusive, TicksForItsRun,
                            HoldsFromTakeToReturn, CurrentRun
  <2>3. QED
    BY <2>1, <2>2
<1>7. WatchExclusive'
  BY <1>3 DEF IInv, WatchExclusive
<1>8. MeasuresOwnRun'
  BY <1>3 DEF IInv, WatchTypeOK, MeasuresOwnRun, CurrentRun
<1>9. QED
  BY <1>4, <1>5, <1>6, <1>7, <1>8 DEF IInv

(* Dispose stops the stopwatch that its own run restarted. *)
LEMMA DisposeStopIInv ==
  ASSUME IInv, NEW t \in Threads, DisposeStop(t)
  PROVE  IInv'
<1>1. /\ pc[t] = "measuring" /\ pc' = [pc EXCEPT ![t] = "stopped"]
      /\ watch' = [watch EXCEPT ![mine[t]].ticking = FALSE]
      /\ UNCHANGED <<pool, runs, mine>>
  BY DEF DisposeStop, Goto
<1>2. mine[t] \in Watches /\ mine[t] # None /\ runs[t] \in 1..MaxRuns
  BY <1>1 DEF IInv, WatchTypeOK, HoldsFromTakeToReturn
<1>3. watch[mine[t]] = [by |-> CurrentRun(t), ticking |-> TRUE]
  BY <1>1 DEF IInv, TicksForItsRun
<1>4. measured' = [measured EXCEPT ![t] = CurrentRun(t)]
  BY <1>3 DEF DisposeStop
<1>5. CurrentRun(t) \in Runs
  BY <1>2, CurrentRunIsRun
<1>6. WatchTypeOK'
  BY <1>1, <1>2, <1>4, <1>5 DEF IInv, WatchTypeOK
<1>7. HoldsFromTakeToReturn'
  BY <1>1 DEF IInv, WatchTypeOK, HoldsFromTakeToReturn
<1>8. TicksForItsRun'
  BY <1>1, <1>2 DEF IInv, WatchTypeOK, WatchExclusive, TicksForItsRun,
                    HoldsFromTakeToReturn, CurrentRun
<1>9. WatchExclusive'
  BY <1>1 DEF IInv, WatchExclusive
<1>10. MeasuresOwnRun'
  BY <1>1, <1>4 DEF IInv, WatchTypeOK, MeasuresOwnRun, CurrentRun
<1>11. QED
  BY <1>6, <1>7, <1>8, <1>9, <1>10 DEF IInv

(* The stopwatch goes from its only holder to the pool. *)
LEMMA DisposeReturnIInv ==
  ASSUME IInv, NEW t \in Threads, DisposeReturn(t)
  PROVE  IInv'
<1>1. /\ pc[t] = "stopped" /\ pc' = [pc EXCEPT ![t] = "returned"]
      /\ pool' = mine[t]
      /\ mine' = [mine EXCEPT ![t] = None]
      /\ UNCHANGED <<watch, runs, measured>>
  BY DEF DisposeReturn, Goto
<1>2. mine[t] \in Watches
  BY <1>1 DEF IInv, WatchTypeOK, HoldsFromTakeToReturn
<1>3. WatchTypeOK'
  BY <1>1, <1>2 DEF IInv, WatchTypeOK
<1>4. HoldsFromTakeToReturn'
  BY <1>1 DEF IInv, WatchTypeOK, HoldsFromTakeToReturn
<1>5. TicksForItsRun'
  BY <1>1 DEF IInv, WatchTypeOK, TicksForItsRun, CurrentRun
<1>6. WatchExclusive'
  BY <1>1, <1>2 DEF IInv, WatchTypeOK, WatchExclusive
<1>7. MeasuresOwnRun'
  BY <1>1 DEF IInv, WatchTypeOK, MeasuresOwnRun, CurrentRun
<1>8. QED
  BY <1>3, <1>4, <1>5, <1>6, <1>7 DEF IInv

------------------------------------------------------------------------------
(* A step that leaves stopwatches alone and moves t along the part of its  *)
(* code where it has none.                                                 *)
WatchlessStep(t) ==
  /\ UNCHANGED <<pool, watch, runs, mine>>
  /\ \/ /\ UNCHANGED pc /\ measured' = measured
     \/ /\ pc[t] \in {"idle", "dump"}
        /\ \E p \in {"idle", "dump"} : pc' = [pc EXCEPT ![t] = p]
        /\ measured' = measured
     \/ /\ pc[t] \in {"returned", "add"}
        /\ \E p \in {"add", "write"} : pc' = [pc EXCEPT ![t] = p]
        /\ measured' = measured
     \/ /\ pc[t] = "write"
        /\ pc' = [pc EXCEPT ![t] = "idle"]
        /\ measured' = [measured EXCEPT ![t] = None]

LEMMA WatchlessIInv ==
  ASSUME IInv, NEW t \in Threads, WatchlessStep(t)
  PROVE  IInv'
<1>1. WatchTypeOK'
  BY DEF IInv, WatchTypeOK, WatchlessStep
<1>2. HoldsFromTakeToReturn'
  BY DEF IInv, WatchTypeOK, HoldsFromTakeToReturn, WatchlessStep
<1>3. TicksForItsRun'
  BY DEF IInv, WatchTypeOK, TicksForItsRun, CurrentRun, WatchlessStep
<1>4. WatchExclusive'
  BY DEF IInv, WatchExclusive, WatchlessStep
<1>5. MeasuresOwnRun'
  BY DEF IInv, WatchTypeOK, MeasuresOwnRun, CurrentRun, WatchlessStep
<1>6. QED
  BY <1>1, <1>2, <1>3, <1>4, <1>5 DEF IInv

LEMMA NextIInv == IInv /\ [Next]_vars => IInv'
<1> SUFFICES ASSUME IInv, [Next]_vars PROVE IInv'
  OBVIOUS
<1>1. ASSUME NEW t \in Threads, NEW c \in Cases, RunTake(t, c) PROVE IInv'
  BY <1>1, RunTakeIInv
<1>2. ASSUME NEW t \in Threads, RunStart(t) PROVE IInv'
  BY <1>2, RunStartIInv
<1>3. ASSUME NEW t \in Threads, DisposeStop(t) PROVE IInv'
  BY <1>3, DisposeStopIInv
<1>4. ASSUME NEW t \in Threads, DisposeReturn(t) PROVE IInv'
  BY <1>4, DisposeReturnIInv
<1>5. ASSUME NEW t \in Threads, DisposeGetOrAdd(t) \/ AddRead(t) PROVE IInv'
  <2>1. WatchlessStep(t)
    BY <1>5 DEF DisposeGetOrAdd, AddRead, Goto, watchVars, WatchlessStep
  <2>2. QED
    BY <2>1, WatchlessIInv
<1>6. ASSUME NEW t \in Threads, AddWrite(t) PROVE IInv'
  <2>1. WatchlessStep(t)
    BY <1>6 DEF AddWrite, Goto, WatchlessStep
  <2>2. QED
    BY <2>1, WatchlessIInv
<1>7. ASSUME NEW t \in Threads, DumpBegin(t) \/ DumpClear(t) PROVE IInv'
  <2>1. WatchlessStep(t)
    BY <1>7 DEF DumpBegin, DumpClear, Goto, watchVars, WatchlessStep
  <2>2. QED
    BY <2>1, WatchlessIInv
<1>8. ASSUME NEW t \in Threads, NEW c \in Cases, DumpCase(t, c) \/ DumpThrow(t, c)
      PROVE IInv'
  <2>1. WatchlessStep(t)
    BY <1>8 DEF DumpCase, DumpThrow, Goto, watchVars, WatchlessStep
  <2>2. QED
    BY <2>1, WatchlessIInv
<1>9. CASE UNCHANGED vars
  BY <1>9 DEF vars, IInv, WatchTypeOK, HoldsFromTakeToReturn, TicksForItsRun,
              WatchExclusive, MeasuresOwnRun, CurrentRun
<1>10. QED
  BY <1>1, <1>2, <1>3, <1>4, <1>5, <1>6, <1>7, <1>8, <1>9 DEF Next

LEMMA SpecIInv == Spec => []IInv
BY InitIInv, NextIInv, PTL DEF Spec

(* No stopwatch of Benchmark's pool is ever used by two runs, or by a run  *)
(* while it lies in the pool.                                              *)
THEOREM PoolIsExclusive == Spec => []WatchExclusive
<1>1. IInv => WatchExclusive
  BY DEF IInv
<1>2. QED
  BY <1>1, SpecIInv, PTL

(* Every result is the time since the restart of the run it is listed for. *)
THEOREM ResultsAreOwn == Spec => []MeasuresOwnRun
<1>1. IInv => MeasuresOwnRun
  BY DEF IInv
<1>2. QED
  BY <1>1, SpecIInv, PTL

------------------------------------------------------------------------------
(* The lists of results, without the bound on their length: see Counted.   *)
ListTypeOK ==
  /\ case \in [Threads -> Cases \union {None}]
  /\ stats \in [Cases -> Lists \union {None}]
  /\ size \in [Lists -> Nat]
  /\ list \in [Threads -> Lists \union {None}]
  /\ slot \in [Threads -> Nat]

(* A thread has a list from GetOrAdd to the end of Add, which ends with a  *)
(* size above 0.                                                           *)
HasListToFill ==
  \A t \in Threads :
    /\ pc[t] \notin {"idle", "dump"} => case[t] \in Cases
    /\ list[t] # None <=> pc[t] \in {"add", "write"}
    /\ pc[t] = "write" => slot[t] > 0

Stages == {"idle", "start", "measuring", "stopped", "returned", "add", "write", "dump"}

LInv == IInv /\ ListTypeOK /\ HasListToFill /\ EmptyListIsBeingFilled

(* When a thread without a list needs one for a case without one, the      *)
(* other threads and cases cannot have them all.                           *)
LEMMA NewListIsNew ==
  ASSUME ListTypeOK, NEW t \in Threads, list[t] = None, NEW c \in Cases, stats[c] = None
  PROVE  /\ NewList \in Lists /\ NewList # None
         /\ \A d \in Cases : NewList # stats[d]
         /\ \A u \in Threads : NewList # list[u]
<1> DEFINE N == Cardinality(Threads)
           C == Cardinality(Cases)
           Ts == Threads \ {t}
           Cs == Cases \ {c}
           Filled == {list[u] : u \in Ts}
           Listed == {stats[d] : d \in Cs}
<1>1. IsFiniteSet(Threads) /\ N \in Nat /\ IsFiniteSet(Cases) /\ C \in Nat
  BY BoundAssumption, FS_CardinalityType
<1>2. IsFiniteSet(Ts) /\ Cardinality(Ts) = N - 1 /\ IsFiniteSet(Cs) /\ Cardinality(Cs) = C - 1
  BY <1>1, FS_RemoveElement
<1>3. IsFiniteSet(Filled) /\ Cardinality(Filled) <= N - 1
  <2>1. [u \in Ts |-> list[u]] \in Surjection(Ts, Filled)
    BY DEF Surjection
  <2> QED  BY <1>2, <2>1, FS_Surjection
<1>4. IsFiniteSet(Listed) /\ Cardinality(Listed) <= C - 1
  <2>1. [d \in Cs |-> stats[d]] \in Surjection(Cs, Listed)
    BY DEF Surjection
  <2> QED  BY <1>2, <2>1, FS_Surjection
<1>5. IsFiniteSet(Filled \union Listed)
      /\ Cardinality(Filled \union Listed) <= Cardinality(Filled) + Cardinality(Listed)
  <2>1. /\ IsFiniteSet(Filled \union Listed) /\ IsFiniteSet(Filled \intersect Listed)
        /\ Cardinality(Filled \union Listed) =
             Cardinality(Filled) + Cardinality(Listed) - Cardinality(Filled \intersect Listed)
    BY <1>3, <1>4, FS_Union, FS_Intersection
  <2>2. Cardinality(Filled) \in Nat /\ Cardinality(Listed) \in Nat
        /\ Cardinality(Filled \intersect Listed) \in Nat
    BY <1>3, <1>4, <2>1, FS_CardinalityType
  <2> QED  BY <2>1, <2>2
<1>6. Cardinality(Lists) = N + C
  <2>1. N + C \in Nat /\ 1 \in Int /\ N + C \in Int /\ N + C >= 1
    <3>1. Cardinality(Ts) \in Nat
      BY <1>2, FS_CardinalityType
    <3> QED  BY <1>1, <1>2, <3>1
  <2>2. Cardinality(1..(N + C)) = (N + C) - 1 + 1
    BY <2>1, FS_Interval
  <2> QED  BY <2>1, <2>2 DEF Lists
<1>7. ~ (Lists \subseteq Filled \union Listed)
  <2>1. ASSUME Lists \in SUBSET (Filled \union Listed)  PROVE FALSE
    <3>1. Cardinality(Lists) <= Cardinality(Filled \union Listed)
      BY <1>5, <2>1, FS_Subset
    <3>2. /\ Cardinality(Filled \union Listed) \in Nat
          /\ Cardinality(Filled) \in Nat /\ Cardinality(Listed) \in Nat
      BY <1>3, <1>4, <1>5, FS_CardinalityType
    <3> QED  BY <1>1, <1>3, <1>4, <1>5, <1>6, <3>1, <3>2
  <2> QED  BY <2>1
<1>8. \A l \in Lists : l # None
  BY NoneAssumption
<1>9. \E l \in Lists : /\ \A d \in Cases : l # stats[d]
                      /\ \A u \in Threads : l # list[u]
  <2>1. PICK l \in Lists : l \notin Filled /\ l \notin Listed
    BY <1>7
  <2>2. \A d \in Cases : l # stats[d]
    BY <1>8, <2>1
  <2>3. \A u \in Threads : l # list[u]
    BY <1>8, <2>1
  <2> QED  BY <2>2, <2>3
<1> QED  BY <1>8, <1>9 DEF NewList

LEMMA InitLInv == Init => LInv
<1> SUFFICES ASSUME Init PROVE LInv
  OBVIOUS
<1>1. ListTypeOK
  BY DEF Init, ListTypeOK
<1> QED  BY <1>1, InitIInv DEF Init, LInv, HasListToFill, EmptyListIsBeingFilled

(* A step that moves t to p and touches no list.                           *)
ListlessStep(t, p) ==
  /\ UNCHANGED <<stats, size, list, slot>>
  /\ pc' = [pc EXCEPT ![t] = p]
  /\ \/ p \in {"idle", "dump"} /\ pc[t] \in {"idle", "dump"} /\ case' = case
     \/ /\ p \in {"start", "measuring", "stopped", "returned"}
        /\ \/ pc[t] \in {"start", "measuring", "stopped"} /\ case' = case
           \/ pc[t] = "idle" /\ \E c \in Cases : case' = [case EXCEPT ![t] = c]

LEMMA ListlessLInv ==
  ASSUME LInv, IInv', NEW t \in Threads, NEW p, ListlessStep(t, p)
  PROVE  LInv'
<1> USE DEF ListlessStep
<1>1. pc \in [Threads -> Stages]
  BY DEF LInv, IInv, WatchTypeOK, Stages
<1>2. ListTypeOK'
  BY DEF LInv, ListTypeOK
<1>3. HasListToFill'
  BY <1>1 DEF LInv, ListTypeOK, HasListToFill
<1>4. EmptyListIsBeingFilled'
  BY <1>1 DEF LInv, EmptyListIsBeingFilled
<1> QED  BY <1>2, <1>3, <1>4 DEF LInv

(* GetOrAdd: a list already there, or a new one that no other has.         *)
LEMMA DisposeGetOrAddLInv ==
  ASSUME LInv, IInv', NEW t \in Threads, DisposeGetOrAdd(t)
  PROVE  LInv'
<1>1. /\ pc[t] = "returned" /\ pc' = [pc EXCEPT ![t] = "add"]
      /\ case' = case /\ slot' = slot
  BY DEF DisposeGetOrAdd, Goto
<1>2. pc \in [Threads -> Stages]
  BY DEF LInv, IInv, WatchTypeOK, Stages
<1>3. case[t] \in Cases /\ list[t] = None
  BY <1>1 DEF LInv, HasListToFill
<1>4. CASE stats[case[t]] # None
  <2>1. /\ list' = [list EXCEPT ![t] = stats[case[t]]]
        /\ stats' = stats /\ size' = size
    BY <1>4 DEF DisposeGetOrAdd
  <2>2. stats[case[t]] \in Lists
    BY <1>3, <1>4 DEF LInv, ListTypeOK
  <2>3. ListTypeOK'
    BY <1>1, <2>1, <2>2 DEF LInv, ListTypeOK
  <2>4. HasListToFill'
    BY <1>1, <1>2, <1>4, <2>1 DEF LInv, ListTypeOK, HasListToFill
  <2>5. EmptyListIsBeingFilled'
    BY <1>1, <1>2, <1>3, <2>1 DEF LInv, ListTypeOK, HasListToFill, EmptyListIsBeingFilled
  <2> QED  BY <2>3, <2>4, <2>5 DEF LInv
<1>5. CASE stats[case[t]] = None
  <2> DEFINE new == NewList
  <2>1. /\ list' = [list EXCEPT ![t] = new]
        /\ stats' = [stats EXCEPT ![case[t]] = new]
        /\ size' = [size EXCEPT ![new] = 0]
    BY <1>5 DEF DisposeGetOrAdd
  <2>2. /\ new \in Lists /\ new # None
        /\ \A d \in Cases : new # stats[d]
        /\ \A u \in Threads : new # list[u]
    BY <1>3, <1>5, NewListIsNew DEF LInv
  <2> HIDE DEF new
  <2>3. ListTypeOK'
    BY <1>1, <2>1, <2>2 DEF LInv, ListTypeOK
  <2>4. HasListToFill'
    BY <1>1, <1>2, <2>1, <2>2 DEF LInv, ListTypeOK, HasListToFill
  <2>5. EmptyListIsBeingFilled'
    <3> SUFFICES ASSUME NEW d \in Cases, stats'[d] # None, size'[stats'[d]] = 0
                 PROVE  \E u \in Threads : pc'[u] \in {"add", "write"} /\ list'[u] = stats'[d]
      BY DEF EmptyListIsBeingFilled
    <3>1. CASE d = case[t]
      <4>1. stats'[d] = new /\ list'[t] = new /\ pc'[t] = "add"
        BY <1>1, <1>2, <1>3, <2>1, <3>1 DEF LInv, ListTypeOK
      <4> QED  BY <4>1
    <3>2. CASE d # case[t]
      <4>1. stats'[d] = stats[d] /\ stats[d] \in Lists /\ stats[d] # new
        BY <2>1, <2>2, <3>2 DEF LInv, ListTypeOK
      <4>2. size[stats[d]] = 0
        BY <2>1, <4>1 DEF LInv, ListTypeOK
      <4>3. PICK u \in Threads : pc[u] \in {"add", "write"} /\ list[u] = stats[d]
        BY <4>1, <4>2 DEF LInv, EmptyListIsBeingFilled
      <4>4. u # t
        BY <1>1, <4>3
      <4> QED  BY <1>1, <1>2, <2>1, <4>1, <4>3, <4>4 DEF LInv, ListTypeOK
    <3> QED  BY <3>1, <3>2
  <2> QED  BY <2>3, <2>4, <2>5 DEF LInv
<1> QED  BY <1>4, <1>5

LEMMA AddReadLInv ==
  ASSUME LInv, IInv', NEW t \in Threads, AddRead(t)
  PROVE  LInv'
<1>1. /\ pc[t] = "add" /\ pc' = [pc EXCEPT ![t] = "write"]
      /\ slot' = [slot EXCEPT ![t] = size[list[t]] + 1]
      /\ UNCHANGED <<case, stats, size, list>>
  BY DEF AddRead, Goto
<1>2. pc \in [Threads -> Stages]
  BY DEF LInv, IInv, WatchTypeOK, Stages
<1>3. list[t] \in Lists
  BY <1>1 DEF LInv, ListTypeOK, HasListToFill
<1>4. size[list[t]] \in Nat
  BY <1>3 DEF LInv, ListTypeOK
<1>5. ListTypeOK'
  BY <1>1, <1>4 DEF LInv, ListTypeOK
<1>6. HasListToFill'
  BY <1>1, <1>2, <1>4 DEF LInv, ListTypeOK, HasListToFill
<1>7. EmptyListIsBeingFilled'
  BY <1>1, <1>2 DEF LInv, EmptyListIsBeingFilled
<1> QED  BY <1>5, <1>6, <1>7 DEF LInv

(* The list that Add leaves is not empty.                                  *)
LEMMA AddWriteLInv ==
  ASSUME LInv, IInv', NEW t \in Threads, AddWrite(t)
  PROVE  LInv'
<1>1. /\ pc[t] = "write" /\ pc' = [pc EXCEPT ![t] = "idle"]
      /\ size' = [size EXCEPT ![list[t]] = slot[t]]
      /\ list' = [list EXCEPT ![t] = None]
      /\ slot' = [slot EXCEPT ![t] = 0]
      /\ case' = [case EXCEPT ![t] = None]
      /\ stats' = stats
  BY DEF AddWrite, Goto, Grown
<1>2. pc \in [Threads -> Stages]
  BY DEF LInv, IInv, WatchTypeOK, Stages
<1>3. list[t] \in Lists /\ slot[t] \in Nat /\ slot[t] > 0
  BY <1>1 DEF LInv, ListTypeOK, HasListToFill
<1>4. ListTypeOK'
  BY <1>1, <1>3 DEF LInv, ListTypeOK
<1>5. HasListToFill'
  BY <1>1, <1>2 DEF LInv, ListTypeOK, HasListToFill
<1>6. EmptyListIsBeingFilled'
  <2> SUFFICES ASSUME NEW d \in Cases, stats[d] # None, size'[stats[d]] = 0
               PROVE  \E u \in Threads : pc'[u] \in {"add", "write"} /\ list'[u] = stats[d]
    BY <1>1 DEF EmptyListIsBeingFilled
  <2>1. stats[d] \in Lists
    BY DEF LInv, ListTypeOK
  <2>2. stats[d] # list[t] /\ size[stats[d]] = 0
    BY <1>1, <1>3, <2>1 DEF LInv, ListTypeOK
  <2>3. PICK u \in Threads : pc[u] \in {"add", "write"} /\ list[u] = stats[d]
    BY <2>2 DEF LInv, EmptyListIsBeingFilled
  <2>4. u # t
    BY <2>2, <2>3
  <2> QED  BY <1>1, <1>2, <2>3, <2>4 DEF LInv, ListTypeOK
<1> QED  BY <1>4, <1>5, <1>6 DEF LInv

LEMMA DumpClearLInv ==
  ASSUME LInv, IInv', NEW t \in Threads, DumpClear(t)
  PROVE  LInv'
<1>1. /\ pc[t] = "dump" /\ pc' = [pc EXCEPT ![t] = "idle"]
      /\ stats' = [c \in Cases |-> None]
      /\ UNCHANGED <<case, size, list, slot>>
  BY DEF DumpClear, Goto
<1>2. pc \in [Threads -> Stages]
  BY DEF LInv, IInv, WatchTypeOK, Stages
<1>3. ListTypeOK'
  BY <1>1 DEF LInv, ListTypeOK
<1>4. HasListToFill'
  BY <1>1, <1>2 DEF LInv, HasListToFill
<1>5. EmptyListIsBeingFilled'
  BY <1>1 DEF EmptyListIsBeingFilled
<1> QED  BY <1>3, <1>4, <1>5 DEF LInv

LEMMA NextLInv == LInv /\ [Next]_vars => LInv'
<1> SUFFICES ASSUME LInv, [Next]_vars  PROVE LInv'
  OBVIOUS
<1>1. IInv'
  BY NextIInv DEF LInv
<1>2. ASSUME NEW t \in Threads, NEW c \in Cases, RunTake(t, c)  PROVE LInv'
  <2>1. ListlessStep(t, "start")
    BY <1>2 DEF RunTake, Goto, listVars, ListlessStep
  <2> QED  BY <1>1, <2>1, ListlessLInv
<1>3. ASSUME NEW t \in Threads, RunStart(t) \/ DisposeStop(t) \/ DisposeReturn(t)  PROVE LInv'
  <2>1. \/ ListlessStep(t, "measuring")
        \/ ListlessStep(t, "stopped")
        \/ ListlessStep(t, "returned")
    BY <1>3 DEF RunStart, DisposeStop, DisposeReturn, Goto, listVars, ListlessStep
  <2> QED  BY <1>1, <2>1, ListlessLInv
<1>4. ASSUME NEW t \in Threads, DisposeGetOrAdd(t) \/ AddRead(t) \/ AddWrite(t)  PROVE LInv'
  BY <1>1, <1>4, DisposeGetOrAddLInv, AddReadLInv, AddWriteLInv
<1>5. ASSUME NEW t \in Threads, DumpBegin(t)  PROVE LInv'
  <2>1. ListlessStep(t, "dump")
    BY <1>5 DEF DumpBegin, Goto, listVars, ListlessStep
  <2> QED  BY <1>1, <2>1, ListlessLInv
<1>6. ASSUME NEW t \in Threads, NEW c \in Cases, DumpThrow(t, c)  PROVE LInv'
  <2>1. ListlessStep(t, "idle")
    BY <1>6 DEF DumpThrow, Goto, listVars, ListlessStep
  <2> QED  BY <1>1, <2>1, ListlessLInv
<1>7. ASSUME NEW t \in Threads, DumpClear(t)  PROVE LInv'
  BY <1>1, <1>7, DumpClearLInv
<1>8. ASSUME UNCHANGED <<pc, case, stats, size, list, slot>>  PROVE LInv'
  BY <1>1, <1>8 DEF LInv, ListTypeOK, HasListToFill, EmptyListIsBeingFilled
<1>9. ASSUME NEW t \in Threads, NEW c \in Cases, DumpCase(t, c)  PROVE LInv'
  BY <1>8, <1>9 DEF DumpCase, listVars
<1>10. CASE UNCHANGED vars
  BY <1>8, <1>10 DEF vars
<1> QED  BY <1>2, <1>3, <1>4, <1>5, <1>6, <1>7, <1>9, <1>10 DEF Next

(* An empty list in the dictionary is always one that a Dispose is about   *)
(* to fill, for any number of threads, cases and runs.                     *)
THEOREM EmptyListsAreFilled == Spec => []EmptyListIsBeingFilled
<1>1. LInv => EmptyListIsBeingFilled
  BY DEF LInv
<1>2. Spec => []LInv
  BY InitLInv, NextLInv, PTL DEF Spec
<1> QED  BY <1>1, <1>2, PTL

------------------------------------------------------------------------------
(* How long a list can get.  The unlocked Add (two threads may write the   *)
(* same slot) loses results, but it never makes a list longer than the     *)
(* number of runs that have finished: a size read earlier was no larger    *)
(* then, and the run that writes size + 1 is one more.                     *)
Finished ==
  {r \in Runs : \/ r[2] < runs[r[1]]
                \/ r[2] = runs[r[1]] /\ pc[r[1]] \in {"idle", "dump"}}

Counted ==
  /\ \A l \in Lists : size[l] <= Cardinality(Finished)
  /\ \A t \in Threads :
       slot[t] <= IF pc[t] = "write" THEN Cardinality(Finished) + 1 ELSE 0

RestTypeOK ==
  /\ array \in [Lists -> [Slots -> Runs \union {None}]]
  /\ todo \in [Threads -> SUBSET Cases]

TInv == LInv /\ RestTypeOK /\ Counted

(* Runs has as many elements as there are slots.                           *)
LEMMA RunsCount ==
  /\ IsFiniteSet(Runs)
  /\ Cardinality(Runs) = Cardinality(Threads) * MaxRuns
<1>1. IsFiniteSet(1..MaxRuns) /\ Cardinality(1..MaxRuns) = MaxRuns
  <2>1. 1 \in Int /\ MaxRuns \in Int /\ MaxRuns >= 1
    BY BoundAssumption
  <2>2. IsFiniteSet(1..MaxRuns) /\ Cardinality(1..MaxRuns) = MaxRuns - 1 + 1
    BY <2>1, FS_Interval
  <2> QED  BY <2>1, <2>2
<1> QED
  BY <1>1, BoundAssumption, FS_Product DEF Runs

LEMMA FinishedCount ==
  /\ IsFiniteSet(Finished)
  /\ Cardinality(Finished) \in Nat
  /\ Cardinality(Finished) <= Cardinality(Threads) * MaxRuns
  BY RunsCount, FS_Subset, FS_CardinalityType DEF Finished

(* A run in progress is not finished, and so there is room for it.         *)
LEMMA RoomForCurrent ==
  ASSUME LInv, NEW t \in Threads, pc[t] \notin {"idle", "dump"}
  PROVE  /\ CurrentRun(t) \in Runs /\ CurrentRun(t) \notin Finished
         /\ Cardinality(Finished \union {CurrentRun(t)}) = Cardinality(Finished) + 1
         /\ Cardinality(Finished) + 1 <= Cardinality(Threads) * MaxRuns
<1>1. runs[t] \in 1..MaxRuns
  BY DEF LInv, IInv, HoldsFromTakeToReturn
<1>2. CurrentRun(t) \in Runs
  BY <1>1, CurrentRunIsRun
<1>3. CurrentRun(t) \notin Finished
  BY <1>1 DEF Finished, CurrentRun
<1>4. Cardinality(Finished \union {CurrentRun(t)}) = Cardinality(Finished) + 1
  BY <1>3, FinishedCount, FS_AddElement
<1>5. Finished \union {CurrentRun(t)} \in SUBSET Runs
  BY <1>2 DEF Finished
<1>6. Cardinality(Finished \union {CurrentRun(t)}) <= Cardinality(Runs)
  BY <1>5, RunsCount, FS_Subset
<1> QED
  BY <1>2, <1>3, <1>4, <1>6, RunsCount

(* Only the end of Add finishes a run.                                     *)
LEMMA FinishedSame ==
  ASSUME LInv, NEW t \in Threads, NEW p, pc' = [pc EXCEPT ![t] = p],
         \/ /\ runs' = runs
            /\ pc[t] \in {"idle", "dump"} <=> p \in {"idle", "dump"}
         \/ /\ runs' = [runs EXCEPT ![t] = @ + 1]
            /\ pc[t] = "idle" /\ p = "start"
  PROVE  Finished' = Finished
<1>1. pc \in [Threads -> Stages] /\ runs \in [Threads -> Nat]
  BY DEF LInv, IInv, WatchTypeOK, Stages
<1>2. ASSUME NEW r \in Runs
      PROVE  \/ r[2] < runs[r[1]]
             \/ r[2] = runs[r[1]] /\ pc[r[1]] \in {"idle", "dump"}
             <=>
             \/ r[2] < runs'[r[1]]
             \/ r[2] = runs'[r[1]] /\ pc'[r[1]] \in {"idle", "dump"}
  <2>1. r[1] \in Threads /\ r[2] \in Nat
    BY <1>2 DEF Runs
  <2>2. CASE r[1] # t
    BY <1>1, <2>1, <2>2
  <2>3. CASE r[1] = t /\ runs' = runs
    BY <1>1, <2>1, <2>3
  <2>4. CASE r[1] = t /\ runs' # runs
    BY <1>1, <2>1, <2>4
  <2> QED  BY <2>2, <2>3, <2>4
<1> QED
  BY <1>2 DEF Finished

LEMMA AddWriteFinishes ==
  ASSUME LInv, NEW t \in Threads, AddWrite(t)
  PROVE  Finished' = Finished \union {CurrentRun(t)}
<1>1. /\ pc \in [Threads -> Stages] /\ runs \in [Threads -> Nat]
      /\ pc[t] = "write" /\ pc' = [pc EXCEPT ![t] = "idle"] /\ runs' = runs
  BY DEF LInv, IInv, WatchTypeOK, Stages, AddWrite, Goto
<1>2. CurrentRun(t) \in Runs
  BY <1>1, RoomForCurrent
<1>3. ASSUME NEW r \in Runs
      PROVE  \/ r[2] < runs[r[1]]
             \/ r[2] = runs[r[1]] /\ pc'[r[1]] \in {"idle", "dump"}
             <=>
             \/ r[2] < runs[r[1]]
             \/ r[2] = runs[r[1]] /\ pc[r[1]] \in {"idle", "dump"}
             \/ r = CurrentRun(t)
  <2>1. r[1] \in Threads /\ r[2] \in Nat /\ r = <<r[1], r[2]>>
    BY <1>3 DEF Runs
  <2>2. r = CurrentRun(t) <=> r[1] = t /\ r[2] = runs[t]
    BY <2>1 DEF CurrentRun
  <2>3. CASE r[1] # t
    BY <1>1, <2>1, <2>2, <2>3
  <2>4. CASE r[1] = t
    BY <1>1, <2>1, <2>2, <2>4
  <2> QED  BY <2>3, <2>4
<1> QED
  BY <1>1, <1>2, <1>3 DEF Finished

LEMMA InitTInv == Init => TInv
<1> SUFFICES ASSUME Init PROVE TInv
  OBVIOUS
<1>1. RestTypeOK
  BY DEF Init, RestTypeOK
<1>2. Counted
  BY FinishedCount DEF Init, Counted
<1> QED
  BY <1>1, <1>2, InitLInv DEF TInv

(* A step that writes neither a size nor a slot and finishes no run.       *)
LEMMA CountedSame ==
  ASSUME Counted, Finished' = Finished, size' = size, slot' = slot,
         \A t \in Threads : pc'[t] = "write" <=> pc[t] = "write"
  PROVE  Counted'
  BY DEF Counted

LEMMA NextTInv == TInv /\ [Next]_vars => TInv'
<1> SUFFICES ASSUME TInv, [Next]_vars PROVE TInv'
  OBVIOUS
<1>1. LInv'
  BY NextLInv DEF TInv
<1>2. /\ pc \in [Threads -> Stages] /\ slot \in [Threads -> Nat] /\ size \in [Lists -> Nat]
      /\ measured \in [Threads -> Runs \union {None}]
  BY DEF TInv, LInv, IInv, WatchTypeOK, ListTypeOK, Stages
<1>3. RestTypeOK'
  <2>1. ASSUME NEW t \in Threads, AddWrite(t) PROVE RestTypeOK'
    <3>1. measured[t] \in Runs \union {None}
      BY <1>2
    <3> QED
      BY <2>1, <3>1 DEF TInv, RestTypeOK, AddWrite
  <2>2. ASSUME NEW t \in Threads, DumpBegin(t) \/ \E c \in Cases : DumpCase(t, c) \/ DumpThrow(t, c)
        PROVE  RestTypeOK'
    BY <2>2 DEF TInv, RestTypeOK, DumpBegin, DumpCase, DumpThrow, listVars
  <2>3. ASSUME UNCHANGED <<array, todo>> PROVE RestTypeOK'
    BY <2>3 DEF TInv, RestTypeOK
  <2> QED
    BY <2>1, <2>2, <2>3 DEF Next, vars, listVars, RunTake, RunStart, DisposeStop,
       DisposeReturn, DisposeGetOrAdd, AddRead, DumpClear
<1>4. ASSUME NEW t \in Threads, NEW c \in Cases, RunTake(t, c) PROVE Counted'
  <2>1. /\ pc[t] = "idle" /\ pc' = [pc EXCEPT ![t] = "start"]
        /\ runs' = [runs EXCEPT ![t] = @ + 1] /\ size' = size /\ slot' = slot
    BY <1>4 DEF RunTake, Goto, listVars
  <2>2. Finished' = Finished
    BY <2>1, FinishedSame DEF TInv
  <2> QED
    BY <1>2, <2>1, <2>2, CountedSame DEF TInv
<1>5. ASSUME NEW t \in Threads, RunStart(t) \/ DisposeStop(t) \/ DisposeReturn(t)
      PROVE  Counted'
  <2>1. PICK p \in {"measuring", "stopped", "returned"} :
          /\ pc[t] \in {"start", "measuring", "stopped"}
          /\ pc' = [pc EXCEPT ![t] = p]
          /\ runs' = runs /\ size' = size /\ slot' = slot
    BY <1>5 DEF RunStart, DisposeStop, DisposeReturn, Goto, listVars
  <2>2. Finished' = Finished
    BY <2>1, FinishedSame DEF TInv
  <2> QED
    BY <1>2, <2>1, <2>2, CountedSame DEF TInv
<1>6. ASSUME NEW t \in Threads, DisposeGetOrAdd(t) PROVE Counted'
  <2>1. /\ pc[t] = "returned" /\ pc' = [pc EXCEPT ![t] = "add"]
        /\ runs' = runs /\ slot' = slot
        /\ size' = size \/ size' = [size EXCEPT ![NewList] = 0]
    BY <1>6 DEF DisposeGetOrAdd, Goto, watchVars
  <2>2. Finished' = Finished
    BY <2>1, FinishedSame DEF TInv
  <2>3. \A l \in Lists : size'[l] = size[l] \/ size'[l] = 0
    BY <1>2, <2>1
  <2> QED
    BY <1>2, <2>1, <2>2, <2>3, FinishedCount DEF TInv, Counted
<1>7. ASSUME NEW t \in Threads, AddRead(t) PROVE Counted'
  <2>1. /\ pc[t] = "add" /\ pc' = [pc EXCEPT ![t] = "write"]
        /\ slot' = [slot EXCEPT ![t] = size[list[t]] + 1]
        /\ runs' = runs /\ size' = size
    BY <1>7 DEF AddRead, Goto, watchVars
  <2>2. Finished' = Finished
    BY <2>1, FinishedSame DEF TInv
  <2>3. list[t] \in Lists
    BY <2>1 DEF TInv, LInv, ListTypeOK, HasListToFill
  <2>4. size[list[t]] <= Cardinality(Finished)
    BY <2>3 DEF TInv, Counted
  <2> QED
    BY <1>2, <2>1, <2>2, <2>3, <2>4, FinishedCount DEF TInv, Counted
<1>8. ASSUME NEW t \in Threads, AddWrite(t) PROVE Counted'
  <2>1. /\ pc[t] = "write" /\ pc' = [pc EXCEPT ![t] = "idle"]
        /\ size' = [size EXCEPT ![list[t]] = slot[t]]
        /\ slot' = [slot EXCEPT ![t] = 0]
    BY <1>8 DEF AddWrite, Goto, Grown
  <2>2. Cardinality(Finished)' = Cardinality(Finished) + 1
    BY <1>8, <2>1, AddWriteFinishes, RoomForCurrent DEF TInv
  <2>3. slot[t] <= Cardinality(Finished) + 1
    BY <2>1 DEF TInv, Counted
  <2>4. \A l \in Lists : size'[l] = size[l] \/ size'[l] = slot[t]
    BY <1>2, <2>1
  <2> HIDE DEF Finished
  <2> QED
    BY <1>2, <2>1, <2>2, <2>3, <2>4, FinishedCount DEF TInv, Counted
<1>9. ASSUME NEW t \in Threads, DumpBegin(t) \/ DumpClear(t) \/ \E c \in Cases : DumpThrow(t, c)
      PROVE  Counted'
  <2>1. PICK p \in {"idle", "dump"} :
          /\ pc[t] \in {"idle", "dump"}
          /\ pc' = [pc EXCEPT ![t] = p]
          /\ runs' = runs /\ size' = size /\ slot' = slot
    BY <1>9 DEF DumpBegin, DumpClear, DumpThrow, Goto, watchVars, listVars
  <2>2. Finished' = Finished
    BY <2>1, FinishedSame DEF TInv
  <2> QED
    BY <1>2, <2>1, <2>2, CountedSame DEF TInv
<1>10. ASSUME UNCHANGED <<pc, runs, size, slot>> PROVE Counted'
  <2>1. Finished' = Finished
    BY <1>10 DEF Finished
  <2> QED
    BY <1>10, <2>1, CountedSame DEF TInv
<1>11. ASSUME NEW t \in Threads, NEW c \in Cases, DumpCase(t, c) PROVE Counted'
  BY <1>10, <1>11 DEF DumpCase, watchVars, listVars
<1>12. ASSUME UNCHANGED vars PROVE Counted'
  BY <1>10, <1>12 DEF vars
<1>13. Counted'
  BY <1>4, <1>5, <1>6, <1>7, <1>8, <1>9, <1>11, <1>12 DEF Next
<1> QED
  BY <1>1, <1>3, <1>13 DEF TInv

(* A list of results never gets longer than the runs that were begun, and  *)
(* no Add writes beyond that: however many Disposes append to one list at  *)
(* once without a lock, and however many Dumps throw the lists away.       *)
THEOREM TypeCorrect == Spec => []TypeOK
<1>1. TInv => TypeOK
  <2> SUFFICES ASSUME TInv PROVE ResultTypeOK
    BY DEF TInv, LInv, IInv, TypeOK
  <2> DEFINE most == Cardinality(Threads) * MaxRuns
  <2>1. most \in Nat /\ Slots = 1..most
    BY BoundAssumption, FS_CardinalityType DEF Slots
  <2>2. Cardinality(Finished) \in Nat /\ Cardinality(Finished) <= most
    BY FinishedCount
  <2>3. ASSUME NEW t \in Threads, pc[t] = "write"
        PROVE  Cardinality(Finished) + 1 <= most
    BY <2>3, RoomForCurrent DEF TInv
  <2> HIDE DEF most
  <2>4. ASSUME NEW l \in Lists PROVE size[l] \in Slots \union {0}
    <3>1. size[l] \in Nat /\ size[l] <= Cardinality(Finished)
      BY DEF TInv, LInv, ListTypeOK, Counted
    <3>2. size[l] <= most
      BY <2>1, <2>2, <3>1
    <3> QED
      BY <2>1, <3>1, <3>2
  <2>5. ASSUME NEW t \in Threads PROVE slot[t] \in Slots \union {0}
    <3>1. slot[t] \in Nat
      BY DEF TInv, LInv, ListTypeOK
    <3>2. slot[t] <= most
      <4>1. CASE pc[t] = "write"
        BY <2>1, <2>2, <2>3, <3>1, <4>1 DEF TInv, Counted
      <4>2. CASE pc[t] # "write"
        BY <2>1, <3>1, <4>2 DEF TInv, Counted
      <4> QED  BY <4>1, <4>2
    <3> QED
      BY <2>1, <3>1, <3>2
  <2> QED
    BY <2>4, <2>5 DEF TInv, LInv, ListTypeOK, RestTypeOK, ResultTypeOK
<1>2. Spec => []TInv
  BY InitTInv, NextTInv, PTL DEF Spec
<1> QED  BY <1>1, <1>2, PTL

==============================================================================
