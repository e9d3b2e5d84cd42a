---------------------------- MODULE CoreIdPromise ----------------------------
(***************************************************************************)
(* What Cpu.GetCurrentCoreId and Cpu.FlushCurrentCpuId promise a caller,   *)
(* with no counter and no bits.                                            *)
(*                                                                         *)
(* A thread is moved between processors at any moment.  It looks at the    *)
(* processor it runs on from time to time, remembers the array index that  *)
(* look gave it, and answers with the remembered index at most MaxStale    *)
(* times before it has to look again.  A flush may spare it one of those   *)
(* answers, and never more than one.                                       *)
(***************************************************************************)
EXTENDS Naturals

CONSTANTS
  Threads,     \* the managed threads
  Processors,  \* the processors the operating system runs them on
  Ids,         \* the indexes an array with one slot per core has
  View,        \* View[<<t, p>>]: what a look of t, running on p, may give
  MaxStale,    \* how often a remembered index may be answered
  None         \* no index yet

(* Intended: View \in [Threads \X Processors -> SUBSET Ids], None \notin Ids *)
(* and MaxStale \in Nat; CoreIdCache's instance meets them by definition.  *)

VARIABLES
  running,     \* running[t]: the processor thread t runs on
  looked,      \* looked[t]: a look taken in the call in progress, or None
  remembered,  \* remembered[t]: the index the last completed look gave
  left,        \* left[t]: answers t may still give without looking
  answer       \* answer[t]: the last answer given to t's code

vars == <<running, looked, remembered, left, answer>>

TypeOK ==
  /\ running \in [Threads -> Processors]
  /\ looked \in [Threads -> Ids \union {None}]
  /\ remembered \in [Threads -> Ids \union {None}]
  /\ left \in [Threads -> 0..MaxStale]
  /\ answer \in [Threads -> Ids \union {None}]

Init ==
  /\ running \in [Threads -> Processors]
  /\ looked = [t \in Threads |-> None]
  /\ remembered = [t \in Threads |-> None]
  /\ left = [t \in Threads |-> 0]
  /\ answer = [t \in Threads |-> None]

(* The operating system moves a thread. *)
Migrate(t, p) ==
  /\ running' = [running EXCEPT ![t] = p]
  /\ UNCHANGED <<looked, remembered, left, answer>>

(* A look at the processor, allowed only when no stale answer is left. *)
Look(t) ==
  /\ left[t] = 0
  /\ looked[t] = None
  /\ \E i \in View[<<t, running[t]>>] : looked' = [looked EXCEPT ![t] = i]
  /\ UNCHANGED <<running, remembered, left, answer>>

(* The call that looked answers, and remembers, exactly what it saw. *)
AnswerFresh(t) ==
  /\ looked[t] # None
  /\ answer' = [answer EXCEPT ![t] = looked[t]]
  /\ remembered' = [remembered EXCEPT ![t] = looked[t]]
  /\ left' = [left EXCEPT ![t] = MaxStale]
  /\ looked' = [looked EXCEPT ![t] = None]
  /\ UNCHANGED running

(* A call answers from memory. *)
AnswerStale(t) ==
  /\ left[t] > 0
  /\ answer' = [answer EXCEPT ![t] = remembered[t]]
  /\ left' = [left EXCEPT ![t] = @ - 1]
  /\ UNCHANGED <<running, looked, remembered>>

(* A flush leaves at most one stale answer, and never grants a new one. *)
Flush(t) ==
  /\ looked[t] = None
  /\ \E n \in 0..1 : n <= left[t] /\ left' = [left EXCEPT ![t] = n]
  /\ UNCHANGED <<running, looked, remembered, answer>>

Next ==
  \E t \in Threads :
    \/ \E p \in Processors : Migrate(t, p)
    \/ Look(t)
    \/ AnswerFresh(t)
    \/ AnswerStale(t)
    \/ Flush(t)

Spec == Init /\ [][Next]_vars

==============================================================================
