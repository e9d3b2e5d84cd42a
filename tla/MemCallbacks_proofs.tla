-------------------------- MODULE MemCallbacks_proofs --------------------------
(***************************************************************************)
(* Proofs about MemCallbacks, for any threads and delegates.  What native  *)
(* code keeps was given to it for keeps, what it only borrows is on the    *)
(* stack of the call that lent it, and what is on a stack or in a static   *)
(* field cannot be collected.                                              *)
(***************************************************************************)
EXTENDS MemCallbacks, TLAPS

RegisteredGiven ==
  \A s \in Slots : registered[s] # Null =>
    registered[s] \in given /\ (s # "error" => Kind[registered[s]] = Signature[s])

NotCollected ==
  /\ Static \subseteq kept /\ kept \intersect collected = {}
  /\ \A t \in Threads : passed[t] # Null =>
       passed[t] \notin collected /\ Kind[passed[t]] = "OutputFun"

CallingGiven ==
  \A t \in Threads : ~ Idle(t) => calling[t].function \in given \union {passed[t]}

IInv == TypeOK /\ RegisteredGiven /\ NotCollected /\ CallingGiven /\ OnlyErrorMismatches

USE DEF Idle

(* The type a Register function takes is what its slot calls, but for      *)
(* errors; each is forwarded to its own slot.                              *)
LEMMA Forwarding ==
  ASSUME NEW s \in Slots
  PROVE  Forwarded[s] = s /\ (s # "error" => Parameter[s] = Signature[s])
BY DEF Slots, Forwarded, Parameter, Signature

LEMMA InitIInv == Init => IInv
<1> SUFFICES ASSUME Init PROVE IInv
  OBVIOUS
<1>1. TypeOK
  BY DEF Init, TypeOK
<1> QED
  BY <1>1, CallbacksAssumption DEF Init, IInv, RegisteredGiven, NotCollected, CallingGiven, OnlyErrorMismatches

LEMMA RegisterIInv ==
  ASSUME IInv, NEW t \in Threads, NEW s \in Slots, NEW d \in Delegates \union {Null},
         Register(t, s, d)
  PROVE  IInv'
<1> USE DEF Register
<1>1. registered' = [registered EXCEPT ![s] = d]
  BY Forwarding
<1>2. TypeOK'
  BY <1>1 DEF IInv, TypeOK
<1>3. RegisteredGiven'
  BY <1>1, Forwarding DEF IInv, TypeOK, RegisteredGiven
<1>4. NotCollected'
  BY DEF IInv, NotCollected
<1>5. CallingGiven' /\ OnlyErrorMismatches'
  BY DEF IInv, CallingGiven, OnlyErrorMismatches
<1> QED  BY <1>2, <1>3, <1>4, <1>5 DEF IInv

LEMMA StatsPrintOutIInv ==
  ASSUME IInv, NEW t \in Threads, NEW d \in Delegates, StatsPrintOut(t, d)
  PROVE  IInv'
<1> USE DEF StatsPrintOut, AfterPrint
<1>1. TypeOK'
  BY DEF IInv, TypeOK
<1>2. RegisteredGiven'
  BY DEF IInv, RegisteredGiven
<1>3. NotCollected'
  BY DEF IInv, TypeOK, NotCollected
<1>4. CallingGiven' /\ OnlyErrorMismatches'
  BY DEF IInv, TypeOK, CallingGiven, OnlyErrorMismatches
<1> QED  BY <1>1, <1>2, <1>3, <1>4 DEF IInv

LEMMA LoadIInv ==
  ASSUME IInv, NEW t \in Threads, NEW s \in Slots, Load(t, s)
  PROVE  IInv'
<1> DEFINE f == IF s = "output" /\ passed[t] # Null THEN passed[t] ELSE registered[s]
<1>1. /\ f # Null /\ UNCHANGED <<registered, given, kept, collected, passed>>
      /\ calling' = [calling EXCEPT ![t] = [slot |-> s, function |-> f]]
  BY DEF Load, IsFunction
<1>2. f \in Delegates /\ f \in given \union {passed[t]}
  BY <1>1 DEF IInv, TypeOK, RegisteredGiven
<1>3. s # "error" => Kind[f] = Signature[s]
  BY <1>1 DEF IInv, RegisteredGiven, NotCollected, Signature
<1>4. [slot |-> s, function |-> f] \in Calls
  BY <1>2 DEF Calls
<1> HIDE DEF f
<1>5. TypeOK'
  BY <1>1, <1>4 DEF IInv, TypeOK
<1>6. RegisteredGiven' /\ NotCollected'
  BY <1>1 DEF IInv, RegisteredGiven, NotCollected
<1>7. CallingGiven' /\ OnlyErrorMismatches'
  BY <1>1, <1>2, <1>3 DEF IInv, TypeOK, CallingGiven, OnlyErrorMismatches
<1> QED  BY <1>5, <1>6, <1>7 DEF IInv

LEMMA InvokeIInv ==
  ASSUME IInv, NEW t \in Threads, Invoke(t)
  PROVE  IInv'
<1> USE DEF Invoke
<1>1. TypeOK'
  BY DEF IInv, TypeOK
<1>2. RegisteredGiven' /\ NotCollected'
  BY DEF IInv, RegisteredGiven, NotCollected
<1>3. CallingGiven' /\ OnlyErrorMismatches'
  BY DEF IInv, TypeOK, CallingGiven, OnlyErrorMismatches
<1> QED  BY <1>1, <1>2, <1>3 DEF IInv

LEMMA ReturnIInv ==
  ASSUME IInv, NEW t \in Threads, Return(t)
  PROVE  IInv'
<1> USE DEF Return
<1>1. TypeOK'
  BY DEF IInv, TypeOK
<1>2. RegisteredGiven' /\ NotCollected'
  BY DEF IInv, TypeOK, RegisteredGiven, NotCollected
<1>3. CallingGiven' /\ OnlyErrorMismatches'
  BY DEF IInv, TypeOK, CallingGiven, OnlyErrorMismatches
<1> QED  BY <1>1, <1>2, <1>3 DEF IInv

LEMMA DropIInv ==
  ASSUME IInv, NEW d \in Delegates, Drop(d)
  PROVE  IInv'
<1> USE DEF Drop
<1>1. TypeOK'
  BY DEF IInv, TypeOK
<1>2. RegisteredGiven' /\ NotCollected'
  BY DEF IInv, RegisteredGiven, NotCollected
<1>3. CallingGiven' /\ OnlyErrorMismatches'
  BY DEF IInv, CallingGiven, OnlyErrorMismatches
<1> QED  BY <1>1, <1>2, <1>3 DEF IInv

LEMMA CollectIInv ==
  ASSUME IInv, NEW d \in Delegates, Collect(d)
  PROVE  IInv'
<1> USE DEF Collect
<1>1. TypeOK'
  BY DEF IInv, TypeOK
<1>2. RegisteredGiven' /\ NotCollected'
  BY DEF IInv, RegisteredGiven, NotCollected
<1>3. CallingGiven' /\ OnlyErrorMismatches'
  BY DEF IInv, CallingGiven, OnlyErrorMismatches
<1> QED  BY <1>1, <1>2, <1>3 DEF IInv

LEMMA NextIInv == IInv /\ [Next]_vars => IInv'
<1> SUFFICES ASSUME IInv, [Next]_vars  PROVE IInv'
  OBVIOUS
<1>1. CASE UNCHANGED vars
  BY <1>1 DEF vars, IInv, TypeOK, RegisteredGiven, NotCollected, CallingGiven, OnlyErrorMismatches
<1>2. ASSUME NEW t \in Threads, NEW s \in Slots, NEW d \in Delegates \union {Null},
             Register(t, s, d)
      PROVE  IInv'
  BY <1>2, RegisterIInv
<1>3. ASSUME NEW t \in Threads, NEW d \in Delegates, StatsPrintOut(t, d)  PROVE IInv'
  BY <1>3, StatsPrintOutIInv
<1>4. ASSUME NEW t \in Threads, NEW s \in Slots, Load(t, s)  PROVE IInv'
  BY <1>4, LoadIInv
<1>5. ASSUME NEW t \in Threads, Invoke(t) \/ Return(t)  PROVE IInv'
  BY <1>5, InvokeIInv, ReturnIInv
<1>6. ASSUME NEW d \in Delegates, Drop(d) \/ Collect(d)  PROVE IInv'
  BY <1>6, DropIInv, CollectIInv
<1> QED  BY <1>1, <1>2, <1>3, <1>4, <1>5, <1>6 DEF Next

(* The inductive invariant holds throughout.                               *)
THEOREM Invariant == Spec => []IInv
BY InitIInv, NextIInv, PTL DEF Spec

(* Every variable keeps its type, and NULL is never called.                *)
THEOREM TypeCorrect == Spec => []TypeOK
<1>1. IInv => TypeOK
  BY DEF IInv
<1> QED  BY <1>1, Invariant, PTL

(* Whoever keeps the delegates it gives to Register functions, and only    *)
(* those, is never called through a collected one, whatever is dropped,    *)
(* replaced and collected between reading a function and calling it.       *)
THEOREM OnlyRegisteredDangle == Spec => []OnlyGivenDangle
<1>1. IInv => OnlyGivenDangle
  <2>1. ASSUME IInv, NEW t \in Threads, ~ Idle(t), calling[t].function \in collected
        PROVE  calling[t].function \in given \ Static
    <3>1. calling[t].function \in Delegates /\ calling[t].function \in given \union {passed[t]}
      BY <2>1 DEF IInv, TypeOK, CallingGiven, Calls
    <3>2. calling[t].function # passed[t] /\ calling[t].function \notin Static
      BY <2>1, <3>1, CallbacksAssumption DEF IInv, NotCollected
    <3> QED  BY <3>1, <3>2
  <2> QED  BY <2>1 DEF OnlyGivenDangle
<1> QED  BY <1>1, Invariant, PTL

(* Every call but that of an error function passes what was declared.      *)
THEOREM MismatchIsAnError == Spec => []OnlyErrorMismatches
<1>1. IInv => OnlyErrorMismatches
  BY DEF IInv
<1> QED  BY <1>1, Invariant, PTL
=============================================================================
