--------------------------- MODULE MemHandoff_proofs ---------------------------
(***************************************************************************)
(* Proofs about MemHandoff, for every number of blocks handed over and     *)
(* every set of addresses.                                                 *)
(***************************************************************************)
EXTENDS MemHandoff, TLAPS

(* Where the threads can be, and what they have done by then.              *)
Progress ==
  /\ pc["t1"] \in {"new", "malloc", "add", "wait", "complete", "ended"}
  /\ pc["t2"] \in {"new", "take", "free", "set", "ended"}
  /\ pc["main"] \in {"start1", "start2", "join1", "join2", "ended"}
  /\ pc["main"] = "start1" <=> pc["t1"] = "new"
  /\ pc["main"] \in {"start1", "start2"} <=> pc["t2"] = "new"
  /\ pc["main"] \in {"join2", "ended"} => pc["t1"] = "ended"
  /\ pc["main"] = "ended" => pc["t2"] = "ended"
  /\ completed <=> pc["t1"] = "ended"
  /\ pc["t2"] = "ended" => completed
  /\ pc["t1"] \in {"malloc", "add", "wait"} => i < Count
  /\ pc["t1"] \in {"complete", "ended"} => i = Count

(* There is one turn.  While t1 waits, it is in the collection, with t2,   *)
(* or in the event; while t1 does not, it is t1's own.                     *)
OneTurn ==
  IF pc["t1"] = "wait"
  THEN \/ queue = <<ptr["t1"]>> /\ ~signal /\ pc["t2"] \in {"new", "take"}
       \/ /\ queue = <<>> /\ ~signal /\ pc["t2"] \in {"free", "set"}
          /\ pc["t2"] = "free" => ptr["t2"] = ptr["t1"]
       \/ queue = <<>> /\ signal /\ pc["t2"] = "take"
  ELSE queue = <<>> /\ ~signal /\ pc["t2"] \in {"new", "take", "ended"}

(* Who owns the one block there may be: the thread whose turn it is.       *)
OwnerHasTurn ==
  \A p \in Addresses :
    /\ owner[p] = "t1" <=> pc["t1"] = "add" /\ ptr["t1"] = p
    /\ owner[p] = "t2" <=> /\ pc["t1"] = "wait" /\ ptr["t1"] = p
                           /\ queue # <<>> \/ pc["t2"] = "free"
    /\ shape[p] = (IF owner[p] = Null THEN Null ELSE Block)

IInv == TypeOK /\ Progress /\ OneTurn /\ OwnerHasTurn

LEMMA NamesDistinct ==
  /\ Null # "t1" /\ Null # "t2"
  /\ \A p \in Addresses : p # Null
  BY HandoffAssumption

LEMMA InitIInv == Init => IInv
<1> SUFFICES ASSUME Init PROVE IInv
  OBVIOUS
<1>1. TypeOK
  <2>1. i \in 0 .. Count
    BY HandoffAssumption DEF Init
  <2>2. signal \in BOOLEAN /\ completed \in BOOLEAN
    BY DEF Init, Created
  <2>3. queue \in Seq(Addresses \union {Null})
    BY DEF Init
  <2>4. /\ owner \in [Addresses -> {"t1", "t2", Null}]
        /\ shape \in [Addresses -> {Block, Null}]
    BY DEF Init, Heap!Init
  <2>5. ptr \in [{"t1", "t2"} -> Addresses \union {Null}]
    BY DEF Init
  <2>6. pc \in [{"main", "t1", "t2"} -> {"start1", "new"}]
    BY DEF Init
  <2> QED
    BY <2>1, <2>2, <2>3, <2>4, <2>5, <2>6 DEF TypeOK
<1>2. Progress /\ OneTurn
  BY DEF Init, Progress, OneTurn, Created
<1>3. OwnerHasTurn
  BY NamesDistinct DEF Init, OwnerHasTurn, Heap!Init
<1> QED
  BY <1>1, <1>2, <1>3 DEF IInv

------------------------------------------------------------------------------
LEMMA MainIInv == ASSUME IInv, Main PROVE IInv'
<1>1. UNCHANGED <<i, ptr, queue, completed, signal, owner, shape>>
  BY DEF Main
<1>2. CASE pc["main"] = "start1" /\ pc' = [pc EXCEPT !["main"] = "start2", !["t1"] = Loop(i)]
  <2>1. Loop(i) \in {"malloc", "complete"}
        /\ (Loop(i) = "malloc" => i < Count) /\ (Loop(i) = "complete" => i = Count)
    BY HandoffAssumption DEF Loop, IInv, TypeOK
  <2> QED
    BY <1>1, <1>2, <2>1 DEF IInv, TypeOK, Progress, OneTurn, OwnerHasTurn
<1>3. CASE pc["main"] = "start2" /\ pc' = [pc EXCEPT !["main"] = "join1", !["t2"] = "take"]
  BY <1>1, <1>3 DEF IInv, TypeOK, Progress, OneTurn, OwnerHasTurn
<1>4. CASE pc["main"] = "join1" /\ pc["t1"] = "ended" /\ GoesTo("main", "join2")
  BY <1>1, <1>4 DEF GoesTo, IInv, TypeOK, Progress, OneTurn, OwnerHasTurn
<1>5. CASE pc["main"] = "join2" /\ pc["t2"] = "ended" /\ GoesTo("main", "ended")
  BY <1>1, <1>5 DEF GoesTo, IInv, TypeOK, Progress, OneTurn, OwnerHasTurn
<1> QED
  BY <1>2, <1>3, <1>4, <1>5 DEF Main

LEMMA MallocIInv == ASSUME IInv, MallocAligned PROVE IInv'
<1>1. /\ pc["t1"] = "malloc" /\ pc' = [pc EXCEPT !["t1"] = "add"]
      /\ UNCHANGED <<i, queue, completed, signal>>
  BY DEF MallocAligned, GoesTo
<1>2. Progress'
  BY <1>1 DEF IInv, TypeOK, Progress
<1>3. CASE \E p \in Addresses : Heap!Take("t1", p) /\ ptr' = [ptr EXCEPT !["t1"] = p]
  <2>1. PICK p \in Addresses :
          /\ owner[p] = Null
          /\ owner' = [owner EXCEPT ![p] = "t1"]
          /\ shape' = [shape EXCEPT ![p] = Block]
          /\ ptr' = [ptr EXCEPT !["t1"] = p]
    BY <1>3 DEF Heap!Take
  <2>2. TypeOK'
    BY <1>1, <2>1 DEF IInv, TypeOK
  <2>3. OneTurn'
    BY <1>1, <2>1 DEF IInv, TypeOK, OneTurn
  <2>4. OwnerHasTurn'
    BY <1>1, <2>1, NamesDistinct DEF IInv, TypeOK, OneTurn, OwnerHasTurn
  <2> QED
    BY <1>2, <2>2, <2>3, <2>4 DEF IInv
<1>4. CASE ptr' = [ptr EXCEPT !["t1"] = Null] /\ NoCall
  <2>1. TypeOK'
    BY <1>1, <1>4 DEF NoCall, IInv, TypeOK
  <2>2. OneTurn'
    BY <1>1, <1>4 DEF IInv, TypeOK, OneTurn
  <2>3. OwnerHasTurn'
    BY <1>1, <1>4, NamesDistinct DEF NoCall, IInv, TypeOK, OneTurn, OwnerHasTurn
  <2> QED
    BY <1>2, <2>1, <2>2, <2>3 DEF IInv
<1> QED
  BY <1>3, <1>4 DEF MallocAligned

LEMMA AddIInv == ASSUME IInv, Add PROVE IInv'
<1>1. /\ pc["t1"] = "add" /\ pc' = [pc EXCEPT !["t1"] = "wait"]
      /\ UNCHANGED <<i, ptr, completed, signal>>
  BY DEF Add, GoesTo
<1>2. queue = <<>> /\ ptr["t1"] \in Addresses \union {Null}
  BY <1>1 DEF IInv, TypeOK, OneTurn
<1>3. queue' = <<ptr["t1"]>> /\ queue' # <<>> /\ queue' \in Seq(Addresses \union {Null})
  BY <1>2 DEF Add
<1>4. Progress' /\ OneTurn'
  BY <1>1, <1>3 DEF IInv, TypeOK, Progress, OneTurn
<1>5. CASE ptr["t1"] = Null
  <2>1. UNCHANGED <<owner, shape>>
    BY <1>5 DEF Add, NoCall
  <2>2. TypeOK'
    BY <1>1, <1>3, <2>1 DEF IInv, TypeOK
  <2>3. OwnerHasTurn'
    BY <1>1, <1>5, <2>1, NamesDistinct DEF IInv, TypeOK, OwnerHasTurn
  <2> QED
    BY <1>4, <2>2, <2>3 DEF IInv
<1>6. CASE ptr["t1"] # Null
  <2>1. owner' = [owner EXCEPT ![ptr["t1"]] = "t2"] /\ UNCHANGED shape
    BY <1>6 DEF Add, Heap!Pass
  <2>2. TypeOK'
    BY <1>1, <1>3, <2>1 DEF IInv, TypeOK
  <2>3. OwnerHasTurn'
    BY <1>1, <1>2, <1>3, <1>6, <2>1, NamesDistinct DEF IInv, TypeOK, OwnerHasTurn
  <2> QED
    BY <1>4, <2>2, <2>3 DEF IInv
<1> QED
  BY <1>5, <1>6

LEMMA WaitOneIInv == ASSUME IInv, WaitOne PROVE IInv'
<1>1. /\ pc["t1"] = "wait" /\ signal /\ signal' = FALSE
      /\ i' = i + 1 /\ pc' = [pc EXCEPT !["t1"] = Loop(i + 1)]
      /\ UNCHANGED <<ptr, queue, completed, owner, shape>>
  BY DEF WaitOne, AfterWait, GoesTo
<1>2. /\ i' \in 0 .. Count
      /\ Loop(i + 1) \in {"malloc", "complete"}
      /\ Loop(i + 1) = "malloc" => i' < Count
      /\ Loop(i + 1) = "complete" => i' = Count
  BY <1>1, HandoffAssumption DEF Loop, IInv, TypeOK, Progress
<1>3. queue = <<>> /\ pc["t2"] = "take"
  BY <1>1 DEF IInv, OneTurn
<1>4. TypeOK'
  BY <1>1, <1>2 DEF IInv, TypeOK
<1>5. Progress'
  BY <1>1, <1>2 DEF IInv, TypeOK, Progress
<1>6. OneTurn'
  BY <1>1, <1>2, <1>3 DEF IInv, TypeOK, OneTurn
<1>7. OwnerHasTurn'
  BY <1>1, <1>2, <1>3 DEF IInv, TypeOK, OwnerHasTurn
<1> QED
  BY <1>4, <1>5, <1>6, <1>7 DEF IInv

LEMMA CompleteAddingIInv == ASSUME IInv, CompleteAdding PROVE IInv'
  BY DEF CompleteAdding, Completed, GoesTo, IInv, TypeOK, Progress, OneTurn, OwnerHasTurn

LEMMA MoveNextIInv == ASSUME IInv, MoveNext PROVE IInv'
<1>1. pc["t2"] = "take" /\ UNCHANGED <<i, completed, signal, owner, shape>>
  BY DEF MoveNext
<1>2. CASE /\ queue # <<>> /\ ptr' = [ptr EXCEPT !["t2"] = Head(queue)]
           /\ queue' = Tail(queue) /\ pc' = [pc EXCEPT !["t2"] = "free"]
  <2>1. pc["t1"] = "wait" /\ queue = <<ptr["t1"]>> /\ ~signal
    BY <1>2 DEF IInv, OneTurn
  <2>2. queue' = <<>> /\ Head(queue) = ptr["t1"] /\ ptr["t1"] \in Addresses \union {Null}
    BY <1>2, <2>1 DEF IInv, TypeOK
  <2>3. TypeOK'
    BY <1>1, <1>2, <2>2 DEF IInv, TypeOK
  <2>4. Progress'
    BY <1>1, <1>2 DEF IInv, TypeOK, Progress
  <2>5. OneTurn'
    BY <1>1, <1>2, <2>1, <2>2 DEF IInv, TypeOK, OneTurn
  <2>6. OwnerHasTurn'
    BY <1>1, <1>2, <2>1, <2>2 DEF IInv, TypeOK, OwnerHasTurn
  <2> QED
    BY <2>3, <2>4, <2>5, <2>6 DEF IInv
<1>3. CASE /\ queue = <<>> /\ completed /\ pc' = [pc EXCEPT !["t2"] = "ended"]
           /\ UNCHANGED <<ptr, queue>>
  BY <1>1, <1>3 DEF IInv, TypeOK, Progress, OneTurn, OwnerHasTurn
<1> QED
  BY <1>2, <1>3 DEF MoveNext, Taken, GoesTo

LEMMA FreeIInv == ASSUME IInv, Free PROVE IInv'
<1>1. /\ pc["t2"] = "free" /\ pc' = [pc EXCEPT !["t2"] = "set"]
      /\ UNCHANGED <<i, ptr, queue, completed, signal>>
  BY DEF Free, GoesTo
<1>2. pc["t1"] = "wait" /\ queue = <<>> /\ ptr["t2"] = ptr["t1"]
  BY <1>1 DEF IInv, OneTurn
<1>3. Progress' /\ OneTurn'
  BY <1>1, <1>2 DEF IInv, TypeOK, Progress, OneTurn
<1>4. CASE ptr["t2"] = Null
  <2>1. UNCHANGED <<owner, shape>>
    BY <1>4 DEF Free, NoCall
  <2>2. TypeOK'
    BY <1>1, <2>1 DEF IInv, TypeOK
  <2>3. OwnerHasTurn'
    BY <1>1, <1>2, <1>4, <2>1, NamesDistinct DEF IInv, TypeOK, OwnerHasTurn
  <2> QED
    BY <1>3, <2>2, <2>3 DEF IInv
<1>5. CASE ptr["t2"] # Null
  <2>1. /\ owner' = [p \in Addresses |-> IF p \in {ptr["t2"]} THEN Null ELSE owner[p]]
        /\ shape' = [p \in Addresses |-> IF p \in {ptr["t2"]} THEN Null ELSE shape[p]]
    BY <1>5 DEF Free, Heap!GiveBack
  <2>2. TypeOK'
    BY <1>1, <2>1 DEF IInv, TypeOK
  <2>3. OwnerHasTurn'
    BY <1>1, <1>2, <2>1, NamesDistinct DEF IInv, TypeOK, OwnerHasTurn
  <2> QED
    BY <1>3, <2>2, <2>3 DEF IInv
<1> QED
  BY <1>4, <1>5

LEMMA SetIInv == ASSUME IInv, Set PROVE IInv'
  BY DEF Set, GoesTo, IInv, TypeOK, Progress, OneTurn, OwnerHasTurn

LEMMA NextIInv == IInv /\ [Next]_vars => IInv'
<1> SUFFICES ASSUME IInv, [Next]_vars PROVE IInv'
  OBVIOUS
<1>1. CASE UNCHANGED vars
  BY <1>1 DEF vars, IInv, TypeOK, Progress, OneTurn, OwnerHasTurn
<1> QED
  BY <1>1, MainIInv, MallocIInv, AddIInv, WaitOneIInv, CompleteAddingIInv, MoveNextIInv,
     FreeIInv, SetIInv DEF Next, T1, T2

------------------------------------------------------------------------------
(* The inductive invariant holds of every behaviour. *)
THEOREM Invariant == Spec => []IInv
  BY InitIInv, NextIInv, PTL DEF Spec

(* The loop of t1 runs at most Count times; the rest is types.             *)
THEOREM TypeCorrect == Spec => []TypeOK
<1>1. IInv => TypeOK
  BY DEF IInv
<1> QED
  BY <1>1, Invariant, PTL

(* One block at a time, however many are handed over.                      *)
THEOREM NeverTwoInFlight == Spec => []OneInFlight
<1>1. IInv => OneInFlight
  <2> SUFFICES ASSUME IInv PROVE OneInFlight
    OBVIOUS
  <2>1. queue = <<>> \/ queue = <<ptr["t1"]>>
    BY DEF IInv, OneTurn
  <2>2. Len(queue) <= 1
    <3>1. CASE queue = <<>>
      BY <3>1
    <3>2. CASE queue = <<ptr["t1"]>>
      BY <3>2
    <3> QED
      BY <2>1, <3>1, <3>2
  <2>3. \A p \in Addresses : owner[p] # Null => p = ptr["t1"]
    BY DEF IInv, TypeOK, OwnerHasTurn
  <2>4. \A p, q \in Addresses : owner[p] # Null /\ owner[q] # Null => p = q
    BY <2>3
  <2> QED
    BY <2>2, <2>4 DEF OneInFlight
<1> QED
  BY <1>1, Invariant, PTL

(* No double free, no free of another thread's block.                      *)
THEOREM FreesAreOwned == Spec => []FreesOwned
<1>1. IInv => FreesOwned
  <2> SUFFICES ASSUME IInv, pc["t2"] = "free", ptr["t2"] # Null
               PROVE  /\ owner[ptr["t2"]] = "t2" /\ shape[ptr["t2"]] = Block
                      /\ \A n \in 1 .. Len(queue) : queue[n] # ptr["t2"]
    BY DEF FreesOwned
  <2>1. pc["t1"] = "wait" /\ queue = <<>> /\ ptr["t2"] = ptr["t1"]
    BY DEF IInv, OneTurn
  <2>2. ptr["t2"] \in Addresses
    BY DEF IInv, TypeOK
  <2>3. owner[ptr["t2"]] = "t2" /\ shape[ptr["t2"]] = Block
    BY <2>1, <2>2, NamesDistinct DEF IInv, OwnerHasTurn
  <2>4. Len(queue) = 0
    BY <2>1
  <2> QED
    BY <2>3, <2>4
<1> QED
  BY <1>1, Invariant, PTL

(* Nothing is left when the main thread has joined both threads.           *)
THEOREM EndsClean == Spec => []CleanEnd
<1>1. IInv => CleanEnd
  <2> SUFFICES ASSUME IInv, pc["main"] = "ended"
               PROVE  /\ \A p \in Addresses : owner[p] = Null
                      /\ queue = <<>> /\ ~signal /\ i = Count
    BY DEF CleanEnd
  <2>1. pc["t1"] = "ended" /\ i = Count
    BY DEF IInv, Progress
  <2>2. queue = <<>> /\ ~signal
    BY <2>1 DEF IInv, OneTurn
  <2>3. \A p \in Addresses : owner[p] = Null
    BY <2>1 DEF IInv, TypeOK, OwnerHasTurn
  <2> QED
    BY <2>1, <2>2, <2>3
<1> QED
  BY <1>1, Invariant, PTL


------------------------------------------------------------------------------
(* That the test ends takes fairness, and is left to TLC.  What follows    *)
(* needs none: it never stops before its end, and the end comes nearer     *)
(* with every step.                                                        *)

(* One of the three threads can go on.                                     *)
THEOREM NoDeadlock == Spec => []NeverStuck
<1>1. IInv => NeverStuck
  <2> SUFFICES ASSUME IInv, pc["main"] # "ended", ~MainCanGo, ~T2CanGo
               PROVE  T1CanGo
    BY DEF NeverStuck
  <2>1. pc["t1"] # "new" /\ pc["t2"] # "new"
    BY DEF MainCanGo, IInv, Progress
  <2>2. pc["t1"] # "ended"
    <3> SUFFICES ASSUME pc["t1"] = "ended" PROVE FALSE
      OBVIOUS
    <3>1. completed /\ pc["t2"] \in {"take", "ended"}
      BY <2>1 DEF IInv, Progress, OneTurn
    <3>2. pc["main"] \in {"join1", "join2"}
      BY DEF MainCanGo, IInv, Progress
    <3> QED
      BY <3>1, <3>2 DEF MainCanGo, T2CanGo, IInv, Progress
  <2>3. CASE pc["t1"] = "add"
    <3>1. ptr["t1"] \in Addresses \union {Null}
      BY DEF IInv, TypeOK
    <3> QED
      BY <2>3, <3>1 DEF T1CanGo, IInv, OwnerHasTurn
  <2>4. CASE pc["t1"] = "wait"
    <3>1. pc["t2"] # "free"
      <4> SUFFICES ASSUME pc["t2"] = "free" PROVE FALSE
        OBVIOUS
      <4>1. ptr["t2"] = ptr["t1"] /\ ptr["t2"] \in Addresses \union {Null}
        BY <2>4 DEF IInv, TypeOK, OneTurn
      <4> QED
        BY <2>4, <4>1 DEF T2CanGo, IInv, OwnerHasTurn
    <3>2. pc["t2"] # "set" /\ (pc["t2"] = "take" => queue = <<>>)
      BY DEF T2CanGo
    <3> QED
      BY <2>1, <2>4, <3>1, <3>2 DEF T1CanGo, IInv, OneTurn
  <2> QED
    BY <2>1, <2>2, <2>3, <2>4 DEF T1CanGo, IInv, Progress
<1> QED
  BY <1>1, Invariant, PTL

(* The parts of the count of statements, and what is left of a round.      *)
LEMMA StepsTypes ==
  ASSUME IInv
  PROVE  /\ MainLeft[pc["main"]] \in 0..4
         /\ RoundDone \in 0..5 /\ (RoundDone # 0 => i < Count)
         /\ ToEnd("t1") \in 0..1 /\ ToEnd("t2") \in 0..1
         /\ Count \in Nat /\ i \in 0..Count
<1>1. Count \in Nat /\ i \in 0..Count
  BY HandoffAssumption DEF IInv, TypeOK
<1>2. MainLeft[pc["main"]] \in 0..4
  BY DEF IInv, Progress, MainLeft
<1>3. RoundDone \in 0..5
  BY DEF IInv, TypeOK, RoundDone
<1>4. RoundDone # 0 => i < Count
  BY DEF IInv, TypeOK, Progress, RoundDone
<1> QED
  BY <1>1, <1>2, <1>3, <1>4 DEF ToEnd

LEMMA StepsLeftNat == ASSUME IInv PROVE StepsLeft \in Nat
  BY StepsTypes DEF StepsLeft

(* A step of the main thread.                                              *)
LEMMA MainCounts == ASSUME IInv, IInv', Main PROVE StepsLeft' = StepsLeft - 1
<1>1. UNCHANGED <<i, signal>>
  BY DEF Main
<1>2. MainLeft[pc'["main"]] = MainLeft[pc["main"]] - 1
  BY DEF Main, GoesTo, IInv, TypeOK, MainLeft
<1>3. RoundDone' = RoundDone
  BY HandoffAssumption DEF Main, GoesTo, Loop, IInv, TypeOK, Progress, RoundDone
<1>4. ToEnd("t1")' = ToEnd("t1") /\ ToEnd("t2")' = ToEnd("t2")
  BY HandoffAssumption DEF Main, GoesTo, Loop, IInv, TypeOK, Progress, ToEnd
<1> QED
  BY <1>1, <1>2, <1>3, <1>4, StepsTypes DEF StepsLeft

(* A step that takes a round one further and ends no thread.               *)
LEMMA RoundCounts ==
  ASSUME IInv, IInv', UNCHANGED i, pc'["main"] = pc["main"],
         RoundDone' = RoundDone + 1,
         ToEnd("t1")' = ToEnd("t1"), ToEnd("t2")' = ToEnd("t2")
  PROVE  StepsLeft' = StepsLeft - 1
  BY StepsTypes DEF StepsLeft

LEMMA T1Counts == ASSUME IInv, IInv', T1 PROVE StepsLeft' = StepsLeft - 1
<1>1. CASE MallocAligned
  BY <1>1, RoundCounts DEF MallocAligned, GoesTo, IInv, TypeOK, RoundDone, ToEnd
<1>2. CASE Add
  BY <1>2, RoundCounts DEF Add, GoesTo, IInv, TypeOK, OneTurn, RoundDone, ToEnd
<1>3. CASE WaitOne
  <2>1. /\ pc["t1"] = "wait" /\ signal /\ i' = i + 1
        /\ pc' = [pc EXCEPT !["t1"] = Loop(i + 1)]
    BY <1>3 DEF WaitOne, GoesTo
  <2>2. Loop(i + 1) \in {"malloc", "complete"}
    BY DEF Loop
  <2>3. RoundDone = 5 /\ RoundDone' = 0
    BY <2>1, <2>2 DEF IInv, TypeOK, RoundDone
  <2>4. /\ ToEnd("t1")' = ToEnd("t1") /\ ToEnd("t2")' = ToEnd("t2")
        /\ pc'["main"] = pc["main"]
    BY <2>1, <2>2 DEF IInv, TypeOK, ToEnd
  <2> QED
    BY <2>1, <2>3, <2>4, StepsTypes DEF StepsLeft
<1>4. CASE CompleteAdding
  <2>1. /\ RoundDone' = RoundDone /\ UNCHANGED i /\ pc'["main"] = pc["main"]
        /\ ToEnd("t1") = 1 /\ ToEnd("t1")' = 0 /\ ToEnd("t2")' = ToEnd("t2")
    BY <1>4 DEF CompleteAdding, GoesTo, IInv, TypeOK, RoundDone, ToEnd
  <2> QED
    BY <2>1, StepsTypes DEF StepsLeft
<1> QED
  BY <1>1, <1>2, <1>3, <1>4 DEF T1

LEMMA T2Counts == ASSUME IInv, IInv', T2 PROVE StepsLeft' = StepsLeft - 1
<1>1. CASE MoveNext
  <2>1. CASE queue # <<>>
    <3>1. /\ pc["t2"] = "take" /\ pc' = [pc EXCEPT !["t2"] = "free"]
          /\ UNCHANGED <<i, signal>>
      BY <1>1, <2>1 DEF MoveNext, GoesTo
    <3>2. pc["t1"] = "wait" /\ ~signal
      BY <2>1 DEF IInv, OneTurn
    <3> QED
      BY <3>1, <3>2, RoundCounts DEF IInv, TypeOK, RoundDone, ToEnd
  <2>2. CASE queue = <<>>
    <3>1. /\ pc["t2"] = "take" /\ pc' = [pc EXCEPT !["t2"] = "ended"]
          /\ UNCHANGED <<i, signal>> /\ completed
      BY <1>1, <2>2 DEF MoveNext, GoesTo
    <3>2. pc["t1"] = "ended"
      BY <3>1 DEF IInv, Progress
    <3>3. /\ RoundDone' = RoundDone /\ pc'["main"] = pc["main"]
          /\ ToEnd("t1")' = ToEnd("t1") /\ ToEnd("t2") = 1 /\ ToEnd("t2")' = 0
      BY <3>1, <3>2 DEF IInv, TypeOK, RoundDone, ToEnd
    <3> QED
      BY <3>1, <3>3, StepsTypes DEF StepsLeft
  <2> QED
    BY <2>1, <2>2
<1>2. CASE Free
  <2>1. /\ pc["t2"] = "free" /\ pc' = [pc EXCEPT !["t2"] = "set"]
        /\ UNCHANGED <<i, signal>>
    BY <1>2 DEF Free, GoesTo
  <2>2. pc["t1"] = "wait" /\ ~signal
    BY <2>1 DEF IInv, OneTurn
  <2> QED
    BY <2>1, <2>2, RoundCounts DEF IInv, TypeOK, RoundDone, ToEnd
<1>3. CASE Set
  <2>1. /\ pc["t2"] = "set" /\ pc' = [pc EXCEPT !["t2"] = "take"]
        /\ UNCHANGED i /\ signal'
    BY <1>3 DEF Set, GoesTo
  <2>2. pc["t1"] = "wait" /\ ~signal
    BY <2>1 DEF IInv, OneTurn
  <2> QED
    BY <2>1, <2>2, RoundCounts DEF IInv, TypeOK, RoundDone, ToEnd
<1> QED
  BY <1>1, <1>2, <1>3 DEF T2

(* No run of the test has more than 6 * Count + 6 steps, for any Count and *)
(* any schedule.                                                           *)
THEOREM EndComesNearer == Spec => EveryStepCounts
<1>1. IInv /\ IInv' /\ [Next]_vars => [StepsLeft' = StepsLeft - 1 /\ StepsLeft' >= 0]_vars
  <2> SUFFICES ASSUME IInv, IInv', Next
               PROVE  StepsLeft' = StepsLeft - 1 /\ StepsLeft' >= 0
    OBVIOUS
  <2>1. StepsLeft' = StepsLeft - 1
    BY MainCounts, T1Counts, T2Counts DEF Next
  <2>2. (IInv => StepsLeft \in Nat)'
    BY StepsLeftNat, PTL
  <2> QED
    BY <2>1, <2>2
<1> QED
  BY <1>1, Invariant, PTL DEF Spec, EveryStepCounts

==============================================================================
