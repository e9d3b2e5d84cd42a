----------------------------- MODULE MemCallbacks -----------------------------
(***************************************************************************)
(* The callbacks of Mem.cs: delegates passed to RegisterDeferredFree,      *)
(* RegisterOutput and RegisterError, which native code keeps and calls     *)
(* from any thread, and to StatsPrintOut, which calls them and returns.    *)
(*                                                                         *)
(* Native code holds a pointer the garbage collector does not see, and     *)
(* nothing in Mem or in the wrappers keeps the delegate behind it.  Its    *)
(* caller may: a lambda that captures nothing, as those of the tests       *)
(* (MemTests.cs:67, 257, 370), is kept by the compiler in a static field.  *)
(* Any other delegate a caller may drop at any time, registered or not.    *)
(*                                                                         *)
(* Types are compared by name.  That a bool is one byte in a native        *)
(* signature and four in a .NET one (Mem.cs:20) is left out.               *)
(***************************************************************************)
CONSTANTS
  Threads,
  Delegates,
  Kind,       \* Kind[d]: the delegate type of d
  Static,     \* the delegates kept in static fields
  Null

Slots == {"deferred_free", "output", "error"}
Kinds == {"DeferredFreeFun", "OutputFun", "ErrorFun"}

ASSUME CallbacksAssumption ==
  /\ Kind \in [Delegates -> Kinds]
  /\ Static \subseteq Delegates
  /\ Null \notin Delegates

VARIABLES
  registered,  \* registered[s]: the function native code keeps in slot s
  given,       \* the delegates some Register function was ever given
  kept,        \* the delegates managed code still refers to
  collected,   \* the delegates the garbage collector has taken
  passed,      \* passed[t]: the delegate t's StatsPrintOut was given
  calling      \* calling[t]: the function native code is about to call on t

vars == <<registered, given, kept, collected, passed, calling>>

NoCall == [slot |-> "output", function |-> Null]
Calls == [slot : Slots, function : Delegates]

Init ==
  /\ registered = [s \in Slots |-> Null]
  /\ given = {}
  /\ kept = Delegates
  /\ collected = {}
  /\ passed = [t \in Threads |-> Null]
  /\ calling = [t \in Threads |-> NoCall]

------------------------------------------------------------------------------
(* The type of the delegate in the signature of each Register function.    *)
Parameter == [deferred_free |-> "DeferredFreeFun", output |-> "OutputFun", error |-> "OutputFun"]

(* The type of the functions native code calls from each slot.             *)
Signature == [deferred_free |-> "DeferredFreeFun", output |-> "OutputFun", error |-> "ErrorFun"]

(* The slot behind each register function.  Mutant: deferred free is       *)
(* forwarded to the function after it.                                     *)
ForwardedNext == [deferred_free |-> "output", output |-> "output", error |-> "error"]
Forwarded == [deferred_free |-> "deferred_free", output |-> "output", error |-> "error"]

(* What is registered after a StatsPrintOut.  Mutant: it is forwarded to   *)
(* register_output, which also prints to the new function.                 *)
AfterPrintRegistered(d) == [registered EXCEPT !["output"] = d]
AfterPrint(d) == registered

(* A function pointer is an Option, None for NULL.  Mutant: called as is.  *)
CalledAsIs(f) == TRUE
IsFunction(f) == f # Null

------------------------------------------------------------------------------
Idle(t) == calling[t] = NoCall

Register(t, s, d) ==
  /\ Idle(t)
  /\ d # Null => d \in kept /\ Kind[d] = Parameter[s]
  /\ registered' = [registered EXCEPT ![Forwarded[s]] = d]
  /\ given' = given \union ({d} \ {Null})
  /\ UNCHANGED <<kept, collected, passed, calling>>

StatsPrintOut(t, d) ==
  /\ Idle(t) /\ passed[t] = Null
  /\ d \in kept /\ Kind[d] = "OutputFun"
  /\ passed' = [passed EXCEPT ![t] = d]
  /\ registered' = AfterPrint(d)
  /\ UNCHANGED <<given, kept, collected, calling>>

(* Native code reads the function it is going to call.  Statistics printed *)
(* for a call of StatsPrintOut go to the function it was given.            *)
Load(t, s) ==
  LET f == IF s = "output" /\ passed[t] # Null THEN passed[t] ELSE registered[s] IN
  /\ Idle(t) /\ IsFunction(f)
  /\ calling' = [calling EXCEPT ![t] = [slot |-> s, function |-> f]]
  /\ UNCHANGED <<registered, given, kept, collected, passed>>

(* The call.  One of a collected delegate ends the process: the thread     *)
(* takes no further step.                                                  *)
Invoke(t) ==
  /\ ~ Idle(t)
  /\ calling[t].function \notin collected
  /\ calling' = [calling EXCEPT ![t] = NoCall]
  /\ UNCHANGED <<registered, given, kept, collected, passed>>

Return(t) ==
  /\ Idle(t) /\ passed[t] # Null
  /\ passed' = [passed EXCEPT ![t] = Null]
  /\ UNCHANGED <<registered, given, kept, collected, calling>>

(* A caller drops its last reference, also of a delegate native code has.  *)
Drop(d) ==
  /\ d \in kept \ Static
  /\ kept' = kept \ {d}
  /\ UNCHANGED <<registered, given, collected, passed, calling>>

(* The marshaller keeps a delegate alive through the call it is passed to, *)
(* and no longer; that it is registered does not keep it.                  *)
Collect(d) ==
  /\ d \notin kept \union collected /\ \A t \in Threads : passed[t] # d
  /\ collected' = collected \union {d}
  /\ UNCHANGED <<registered, given, kept, passed, calling>>

Next ==
  \/ \E t \in Threads :
       \/ \E s \in Slots, d \in Delegates \union {Null} : Register(t, s, d)
       \/ \E d \in Delegates : StatsPrintOut(t, d)
       \/ \E s \in Slots : Load(t, s)
       \/ Invoke(t)
       \/ Return(t)
  \/ \E d \in Delegates : Drop(d) \/ Collect(d)

Spec == Init /\ [][Next]_vars

------------------------------------------------------------------------------
(* Type correctness; native code never calls NULL.                         *)
TypeOK ==
  /\ registered \in [Slots -> Delegates \union {Null}]
  /\ given \subseteq Delegates
  /\ kept \subseteq Delegates
  /\ collected \subseteq Delegates
  /\ passed \in [Threads -> Delegates \union {Null}]
  /\ calling \in [Threads -> Calls \union {NoCall}]

(* Which delegates may be dropped: a collected one is called only if it    *)
(* was given to a Register function at some time and is in no static       *)
(* field.  What was only lent to StatsPrintOut is never called again, on   *)
(* that thread or another, and may be dropped at once.  What was           *)
(* registered may not, even when it is no longer registered: a thread may  *)
(* have read it before it was replaced.                                    *)
OnlyGivenDangle ==
  \A t \in Threads :
    ~ Idle(t) /\ calling[t].function \in collected =>
      calling[t].function \in given \ Static

(* Every function is called with the arguments its delegate declares:      *)
(* mimalloc_wrapper.h:136-142.                                             *)
CallsMatch ==
  \A t \in Threads : ~ Idle(t) => Kind[calling[t].function] = Signature[calling[t].slot]

(* Only errors reach a delegate that declares other arguments.             *)
OnlyErrorMismatches ==
  \A t \in Threads :
    ~ Idle(t) /\ calling[t].slot # "error" =>
      Kind[calling[t].function] = Signature[calling[t].slot]
=============================================================================
