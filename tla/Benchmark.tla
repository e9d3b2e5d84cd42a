------------------------------ MODULE Benchmark ------------------------------
(***************************************************************************)
(* Spreads.Native.Tests/Benchmark.cs: the static Benchmark class that      *)
(* tests on several threads measure with.                                  *)
(*                                                                         *)
(* Run takes the one pooled Stopwatch, or makes a new one, and restarts    *)
(* it; Dispose stops it, puts it back into the pool and appends the result *)
(* to the list of its case.  Dump tabulates every case and clears the      *)
(* dictionary.  Only the pool (Interlocked.Exchange) and the dictionary    *)
(* (ConcurrentDictionary) are safe under threads; the lists are not.       *)
(*                                                                         *)
(* Time is abstracted to the run that restarted a stopwatch last.  Console *)
(* output, and the _headerIsPrinted flag that only steers it, are left     *)
(* out.                                                                    *)
(***************************************************************************)
EXTENDS Naturals, FiniteSets

CONSTANTS
  Threads,
  Cases,    \* case names
  MaxRuns,  \* bound on the runs of a thread
  None

ASSUME BoundAssumption ==
  /\ IsFiniteSet(Threads) /\ IsFiniteSet(Cases)
  /\ MaxRuns \in Nat \ {0}

Runs == Threads \X (1..MaxRuns)
Slots == 1..(Cardinality(Threads) * MaxRuns)

(* Objects on the managed heap, as many as can be reachable at once. *)
Watches == 1..(Cardinality(Threads) + 1)
Lists == 1..(Cardinality(Threads) + Cardinality(Cases))

ASSUME NoneAssumption == None \notin Runs \union Watches \union Lists \union Cases

VARIABLES
  pool,      \* _sw
  watch,     \* watch[w].by restarted w last; it is ticking or stopped
  stats,     \* Stats[c]: the list of case c
  size,      \* size[l] and array[l]: the two fields of a List<Stat>
  array,
  pc,        \* where a thread is
  runs,      \* runs[t]: how many runs t has begun
  mine,      \* the Stopwatch of t's current Stat
  case,      \* its case name
  measured,  \* the run that the Elapsed of t's Stat measures
  list,      \* Dispose's local `list'
  slot,      \* List.Add's local `size'
  todo       \* the cases Dump's enumeration has still to come to

vars == <<pool, watch, stats, size, array, pc, runs, mine, case, measured,
          list, slot, todo>>
watchVars == <<pool, watch, runs, mine, measured>>
listVars == <<stats, size, array, list, slot>>

CurrentRun(t) == <<t, runs[t]>>
Goto(t, here, there) == pc[t] = here /\ pc' = [pc EXCEPT ![t] = there]

(* `new': an object nothing refers to. *)
NewWatch ==
  CHOOSE w \in Watches : w # pool /\ \A t \in Threads : w # mine[t]
NewList ==
  CHOOSE l \in Lists : /\ \A c \in Cases : l # stats[c]
                      /\ \A t \in Threads : l # list[t]

Init ==
  /\ pool = None
  /\ watch = [w \in Watches |-> [by |-> None, ticking |-> FALSE]]
  /\ stats = [c \in Cases |-> None]
  /\ size = [l \in Lists |-> 0]
  /\ array = [l \in Lists |-> [i \in Slots |-> None]]
  /\ pc = [t \in Threads |-> "idle"]
  /\ runs = [t \in Threads |-> 0]
  /\ mine = [t \in Threads |-> None]
  /\ case = [t \in Threads |-> None]
  /\ measured = [t \in Threads |-> None]
  /\ list = [t \in Threads |-> None]
  /\ slot = [t \in Threads |-> 0]
  /\ todo = [t \in Threads |-> {}]

------------------------------------------------------------------------------
(* The pool after Run has taken its stopwatch: Interlocked.Exchange with   *)
(* null.  Mutant: a plain read of _sw.                                     *)
PoolOnlyRead == pool
PoolTaken == None

(* Run: take the pooled stopwatch, or make one. *)
RunTake(t, c) ==
  /\ Goto(t, "idle", "start")
  /\ runs[t] < MaxRuns
  /\ runs' = [runs EXCEPT ![t] = @ + 1]
  /\ case' = [case EXCEPT ![t] = c]
  /\ mine' = [mine EXCEPT ![t] = IF pool # None THEN pool ELSE NewWatch]
  /\ pool' = PoolTaken
  /\ UNCHANGED <<watch, measured, listVars, todo>>

(* The constructor of Stat: the first snapshot restarts the stopwatch. *)
RunStart(t) ==
  /\ Goto(t, "start", "measuring")
  /\ watch' = [watch EXCEPT
                 ![mine[t]] = [by |-> CurrentRun(t), ticking |-> TRUE]]
  /\ UNCHANGED <<pool, runs, mine, case, measured, listVars, todo>>

(* Dispose: the second snapshot stops the stopwatch and reads Elapsed. *)
DisposeStop(t) ==
  /\ Goto(t, "measuring", "stopped")
  /\ watch' = [watch EXCEPT ![mine[t]].ticking = FALSE]
  /\ measured' = [measured EXCEPT
       ![t] = IF watch[mine[t]].ticking THEN watch[mine[t]].by ELSE None]
  /\ UNCHANGED <<pool, runs, mine, case, listVars, todo>>

(* Dispose: the stopwatch goes back; one that lay in the pool is dropped. *)
DisposeReturn(t) ==
  /\ Goto(t, "stopped", "returned")
  /\ pool' = mine[t]
  /\ mine' = [mine EXCEPT ![t] = None]
  /\ UNCHANGED <<watch, runs, case, measured, listVars, todo>>

(* Dispose: Stats.GetOrAdd. *)
DisposeGetOrAdd(t) ==
  /\ Goto(t, "returned", "add")
  /\ IF stats[case[t]] # None
       THEN /\ list' = [list EXCEPT ![t] = stats[case[t]]]
            /\ UNCHANGED <<stats, size>>
       ELSE /\ list' = [list EXCEPT ![t] = NewList]
            /\ stats' = [stats EXCEPT ![case[t]] = NewList]
            /\ size' = [size EXCEPT ![NewList] = 0]
  /\ UNCHANGED <<watchVars, case, array, slot, todo>>

(* Dispose: list.Add, which is no single step.  It reads the size ...      *)
AddRead(t) ==
  /\ Goto(t, "add", "write")
  /\ slot' = [slot EXCEPT ![t] = size[list[t]] + 1]
  /\ UNCHANGED <<watchVars, case, stats, size, array, list, todo>>

(* What Add writes as the new size.  Mutant: counted twice.                *)
GrownTwice(n) == n + 1
Grown(n) == n

(* ... and writes the item and the new size. *)
AddWrite(t) ==
  /\ Goto(t, "write", "idle")
  /\ array' = [array EXCEPT ![list[t]][slot[t]] = measured[t]]
  /\ size' = [size EXCEPT ![list[t]] = Grown(slot[t])]
  /\ list' = [list EXCEPT ![t] = None]
  /\ slot' = [slot EXCEPT ![t] = 0]
  /\ case' = [case EXCEPT ![t] = None]
  /\ measured' = [measured EXCEPT ![t] = None]
  /\ UNCHANGED <<pool, watch, runs, mine, stats, todo>>

(* Dump throws at once if there is no case; else it starts to enumerate.   *)
DumpBegin(t) ==
  /\ Goto(t, "idle", "dump")
  /\ \E c \in Cases : stats[c] # None
  /\ todo' = [todo EXCEPT ![t] = Cases]
  /\ UNCHANGED <<watchVars, case, listVars>>

(* The enumeration of a ConcurrentDictionary comes to each case in its own *)
(* moment; GetAverages reads the case's list.                              *)
DumpCase(t, c) ==
  /\ pc[t] = "dump"
  /\ c \in todo[t]
  /\ stats[c] # None => size[stats[c]] > 0
  /\ todo' = [todo EXCEPT ![t] = @ \ {c}]
  /\ UNCHANGED <<pc, watchVars, case, listVars>>

(* A thread is adding to the list while it is read: whether the List's     *)
(* enumerator finds it modified is a matter of moments.                    *)
BeingChanged(c) == \E u \in Threads : pc[u] = "write" /\ list[u] = stats[c]

(* GetAverages throws "Empty stat list for the case", or an enumerator     *)
(* "Collection was modified"; nothing is cleared.                          *)
DumpThrow(t, c) ==
  /\ Goto(t, "dump", "idle")
  /\ c \in todo[t]
  /\ stats[c] # None /\ (size[stats[c]] = 0 \/ BeingChanged(c))
  /\ todo' = [todo EXCEPT ![t] = {}]
  /\ UNCHANGED <<watchVars, case, listVars>>

(* Dump: the table is printed; Stats.Clear.                                *)
(* Mutant: the lists are cleared and kept.                                 *)
DumpClearLists(t) ==
  /\ Goto(t, "dump", "idle")
  /\ todo[t] = {}
  /\ size' = [l \in Lists |-> 0]
  /\ UNCHANGED <<watchVars, case, stats, array, list, slot, todo>>
DumpClear(t) ==
  /\ Goto(t, "dump", "idle")
  /\ todo[t] = {}
  /\ stats' = [c \in Cases |-> None]
  /\ UNCHANGED <<watchVars, case, size, array, list, slot, todo>>

Next ==
  \E t \in Threads :
    \/ \E c \in Cases : RunTake(t, c)
    \/ RunStart(t)
    \/ DisposeStop(t)
    \/ DisposeReturn(t)
    \/ DisposeGetOrAdd(t)
    \/ AddRead(t)
    \/ AddWrite(t)
    \/ DumpBegin(t)
    \/ \E c \in Cases : DumpCase(t, c) \/ DumpThrow(t, c)
    \/ DumpClear(t)

Spec == Init /\ [][Next]_vars
------------------------------------------------------------------------------
(* Type invariant, the stopwatches' part and the results'. *)
WatchTypeOK ==
  /\ pool \in Watches \union {None}
  /\ watch \in [Watches -> [by : Runs \union {None}, ticking : BOOLEAN]]
  /\ pc \in [Threads -> {"idle", "start", "measuring", "stopped", "returned",
                         "add", "write", "dump"}]
  /\ runs \in [Threads -> 0..MaxRuns]
  /\ mine \in [Threads -> Watches \union {None}]
  /\ measured \in [Threads -> Runs \union {None}]

ResultTypeOK ==
  /\ case \in [Threads -> Cases \union {None}]
  /\ stats \in [Cases -> Lists \union {None}]
  /\ size \in [Lists -> Slots \union {0}]
  /\ array \in [Lists -> [Slots -> Runs \union {None}]]
  /\ list \in [Threads -> Lists \union {None}]
  /\ slot \in [Threads -> Slots \union {0}]
  /\ todo \in [Threads -> SUBSET Cases]

TypeOK == WatchTypeOK /\ ResultTypeOK

(* No stopwatch is in two hands: what a run measures with is neither in    *)
(* another run nor in the pool, whatever threads race for the pool.        *)
WatchExclusive ==
  \A t \in Threads :
    mine[t] # None => /\ mine[t] # pool
                      /\ \A u \in Threads \ {t} : mine[u] # mine[t]

(* Every result, from the moment it is measured to the moment it lies in a *)
(* list, is the time since its own run's restart: no other run restarted   *)
(* or stopped the stopwatch in between (Dispose reads Elapsed before it    *)
(* gives the stopwatch back).                                              *)
MeasuresOwnRun ==
  \A t \in Threads :
    pc[t] \in {"stopped", "returned", "add", "write"}
      => measured[t] = CurrentRun(t)

(* The "Empty stat list" exception is never permanent: an empty list in    *)
(* the dictionary belongs to a Dispose that is just about to append to it. *)
EmptyListIsBeingFilled ==
  \A c \in Cases :
    stats[c] # None /\ size[stats[c]] = 0
      => \E t \in Threads : pc[t] \in {"add", "write"} /\ list[t] = stats[c]

==============================================================================
