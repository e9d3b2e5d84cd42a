------------------------------ MODULE MemHandoff ------------------------------
(***************************************************************************)
(* A client of Mem: CouldAllocFreeFromDifferentThreads of MemTests.cs      *)
(* (33-62).  Thread t1 allocates a large block, adds it to a blocking      *)
(* collection and waits for an AutoResetEvent; thread t2 takes the block,  *)
(* frees it and sets the event; Count times.  The main thread starts both  *)
(* and joins both.                                                         *)
(*                                                                         *)
(* Blocks are those of MemBlocks, whose actions are conjoined with the     *)
(* client's; MemHeap shows what Mem makes of them.  The collection and the *)
(* event are .NET's: each of their operations is one step.                 *)
(***************************************************************************)
EXTENDS Naturals, Sequences, FiniteSets

CONSTANTS
  Count,      \* blocks handed over
  Addresses,  \* addresses of blocks
  Null        \* what MallocAligned returns when it fails

ASSUME HandoffAssumption ==
  /\ Count \in Nat
  /\ Null \notin Addresses \union {"t1", "t2"}

VARIABLES
  pc,         \* pc[t]: the statement thread t is at
  i,          \* the loop counter of t1
  ptr,        \* ptr[t]: the pointer in the variable of thread t's loop
  queue,      \* the pointers in the collection
  completed,  \* CompleteAdding was called
  signal,     \* the event is set
  owner,      \* the blocks: see MemBlocks
  shape

vars == <<pc, i, ptr, queue, completed, signal, owner, shape>>

Block == [size |-> 2 * 1024 * 1024 + 1, align |-> 8, zero |-> FALSE]

Heap ==
  INSTANCE MemBlocks
  WITH Threads <- {"t1", "t2"}, Blocks <- Addresses, Shapes <- {Block}, None <- Null

NoCall == UNCHANGED <<owner, shape>>

GoesTo(t, statement) == pc' = [pc EXCEPT ![t] = statement]

------------------------------------------------------------------------------
(* new AutoResetEvent(false).  Mutant: the event starts set.               *)
CreatedSet == TRUE
Created == FALSE

Init ==
  /\ pc = [t \in {"main", "t1", "t2"} |-> IF t = "main" THEN "start1" ELSE "new"]
  /\ i = 0
  /\ ptr = [t \in {"t1", "t2"} |-> Null]
  /\ queue = <<>>
  /\ completed = FALSE
  /\ signal = Created
  /\ Heap!Init

(* Where the loop of t1 goes on.  Mutant: one time too many.               *)
LoopOneMore(n) == IF n <= Count THEN "malloc" ELSE "complete"
Loop(n) == IF n < Count THEN "malloc" ELSE "complete"

Main ==
  /\ \/ /\ pc["main"] = "start1"
        /\ pc' = [pc EXCEPT !["main"] = "start2", !["t1"] = Loop(i)]
     \/ /\ pc["main"] = "start2"
        /\ pc' = [pc EXCEPT !["main"] = "join1", !["t2"] = "take"]
     \/ /\ pc["main"] = "join1" /\ pc["t1"] = "ended"
        /\ GoesTo("main", "join2")
     \/ /\ pc["main"] = "join2" /\ pc["t2"] = "ended"
        /\ GoesTo("main", "ended")
  /\ UNCHANGED <<i, ptr, queue, completed, signal, owner, shape>>

(* A failure is not looked at: the NULL is handed over like a block.       *)
MallocAligned ==
  /\ pc["t1"] = "malloc"
  /\ \/ \E p \in Addresses : Heap!Take("t1", p) /\ ptr' = [ptr EXCEPT !["t1"] = p]
     \/ ptr' = [ptr EXCEPT !["t1"] = Null] /\ NoCall
  /\ GoesTo("t1", "add")
  /\ UNCHANGED <<i, queue, completed, signal>>

(* The block is t2's from here on.                                         *)
Add ==
  /\ pc["t1"] = "add"
  /\ queue' = Append(queue, ptr["t1"])
  /\ IF ptr["t1"] = Null THEN NoCall ELSE Heap!Pass("t1", "t2", ptr["t1"])
  /\ GoesTo("t1", "wait")
  /\ UNCHANGED <<i, ptr, completed, signal>>

(* An AutoResetEvent is reset by the wait it ends.  Mutant: a manual one.  *)
StaysSet == signal
AfterWait == FALSE

WaitOne ==
  /\ pc["t1"] = "wait"
  /\ signal
  /\ signal' = AfterWait
  /\ i' = i + 1
  /\ GoesTo("t1", Loop(i + 1))
  /\ UNCHANGED <<ptr, queue, completed, owner, shape>>

(* Mutant: t1 ends without it.                                             *)
NotCompleted == FALSE
Completed == TRUE

CompleteAdding ==
  /\ pc["t1"] = "complete"
  /\ completed' = Completed
  /\ GoesTo("t1", "ended")
  /\ UNCHANGED <<i, ptr, queue, signal, owner, shape>>

------------------------------------------------------------------------------
(* What is left after a take.  Mutant: the pointer is only looked at.      *)
Peeked == queue
Taken == Tail(queue)

(* The consuming enumeration: the next pointer, or the end of the loop.    *)
MoveNext ==
  /\ pc["t2"] = "take"
  /\ \/ /\ queue # <<>>
        /\ ptr' = [ptr EXCEPT !["t2"] = Head(queue)]
        /\ queue' = Taken
        /\ GoesTo("t2", "free")
     \/ /\ queue = <<>> /\ completed
        /\ GoesTo("t2", "ended")
        /\ UNCHANGED <<ptr, queue>>
  /\ UNCHANGED <<i, completed, signal, owner, shape>>

(* Freeing a NULL does nothing.  Freeing what is not t2's is undefined:    *)
(* FreesOwned says that it never comes to that.                            *)
Free ==
  /\ pc["t2"] = "free"
  /\ IF ptr["t2"] = Null THEN NoCall ELSE Heap!GiveBack("t2", {ptr["t2"]})
  /\ GoesTo("t2", "set")
  /\ UNCHANGED <<i, ptr, queue, completed, signal>>

Set ==
  /\ pc["t2"] = "set"
  /\ signal' = TRUE
  /\ GoesTo("t2", "take")
  /\ UNCHANGED <<i, ptr, queue, completed, owner, shape>>

T1 == MallocAligned \/ Add \/ WaitOne \/ CompleteAdding
T2 == MoveNext \/ Free \/ Set

Next == Main \/ T1 \/ T2

Spec == Init /\ [][Next]_vars

(* A thread that can go on is scheduled at some time.                      *)
FairSpec == Spec /\ WF_vars(Main) /\ WF_vars(T1) /\ WF_vars(T2)
------------------------------------------------------------------------------
(* Type invariant. *)
TypeOK ==
  /\ pc \in [{"main", "t1", "t2"} ->
               {"start1", "start2", "join1", "join2", "new", "malloc", "add", "wait",
                "complete", "take", "free", "set", "ended"}]
  /\ i \in 0 .. Count
  /\ ptr \in [{"t1", "t2"} -> Addresses \union {Null}]
  /\ queue \in Seq(Addresses \union {Null})
  /\ completed \in BOOLEAN
  /\ signal \in BOOLEAN
  /\ owner \in [Addresses -> {"t1", "t2", Null}]
  /\ shape \in [Addresses -> {Block, Null}]

(* The two threads go in step although neither the collection nor Mem      *)
(* makes them: at most one of the large blocks (MemTests.cs:42) exists at  *)
(* any time, and at most one pointer is in the collection.                 *)
OneInFlight ==
  /\ \A p, q \in Addresses : owner[p] # Null /\ owner[q] # Null => p = q
  /\ Len(queue) <= 1

(* What t2 passes to Mem.Free (MemTests.cs:55) is NULL or a block that is  *)
(* still there, is t2's, and that nobody else will free or use again.      *)
FreesOwned ==
  pc["t2"] = "free" /\ ptr["t2"] # Null =>
    /\ owner[ptr["t2"]] = "t2" /\ shape[ptr["t2"]] = Block
    /\ \A n \in 1 .. Len(queue) : queue[n] # ptr["t2"]

(* When the main thread has joined both, nothing is left behind: no block, *)
(* no pointer nobody took, no signal nobody waited for.                    *)
CleanEnd ==
  pc["main"] = "ended" =>
    /\ \A p \in Addresses : owner[p] = Null
    /\ queue = <<>>
    /\ ~signal
    /\ i = Count

(* The two halves of Ends, which hold without any fairness.                *)

(* What each thread needs for its next statement, in the calls of Mem that *)
(* the block is its own.                                                   *)
MainCanGo ==
  \/ pc["main"] \in {"start1", "start2"}
  \/ pc["main"] = "join1" /\ pc["t1"] = "ended"
  \/ pc["main"] = "join2" /\ pc["t2"] = "ended"

T1CanGo ==
  \/ pc["t1"] \in {"malloc", "complete"}
  \/ pc["t1"] = "add" /\ (ptr["t1"] # Null => owner[ptr["t1"]] = "t1")
  \/ pc["t1"] = "wait" /\ signal

T2CanGo ==
  \/ pc["t2"] = "take" /\ (queue # <<>> \/ completed)
  \/ pc["t2"] = "free" /\ (ptr["t2"] # Null => owner[ptr["t2"]] = "t2")
  \/ pc["t2"] = "set"

(* The threads wait for each other in three ways (Join, WaitOne and the    *)
(* consuming enumeration, MemTests.cs:44, 53, 60-61), and never all at     *)
(* once: until the main thread has joined both, one of them can go on.     *)
NeverStuck == pc["main"] = "ended" \/ MainCanGo \/ T1CanGo \/ T2CanGo

(* How many statements there are still to run: those of the main thread,   *)
(* six for each block, and one for each thread to end.                     *)
RoundDone ==
  CASE pc["t1"] = "add"                  -> 1
    [] pc["t1"] = "wait" /\ signal       -> 5
    [] pc["t1"] = "wait" /\ ~signal      -> IF pc["t2"] = "set" THEN 4
                                           ELSE IF pc["t2"] = "free" THEN 3 ELSE 2
    [] pc["t1"] \notin {"add", "wait"}   -> 0

MainLeft == [start1 |-> 4, start2 |-> 3, join1 |-> 2, join2 |-> 1, ended |-> 0]

ToEnd(t) == IF pc[t] = "ended" THEN 0 ELSE 1

StepsLeft ==
  MainLeft[pc["main"]] + (6 * (Count - i) - RoundDone) + ToEnd("t1") + ToEnd("t2")

(* No statement runs in vain or twice, whatever the scheduler does: each   *)
(* brings the end of the test one statement nearer.                        *)
EveryStepCounts == [][StepsLeft' = StepsLeft - 1 /\ StepsLeft' >= 0]_vars

(* The test ends: neither thread waits for ever for the other, not at the  *)
(* first block, when t1 may add before t2 has started, and not at the last.*)
Ends == <>(pc["main"] = "ended")

==============================================================================
