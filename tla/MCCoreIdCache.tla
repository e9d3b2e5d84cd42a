--------------------------- MODULE MCCoreIdCache ---------------------------
(* Small instances of CoreIdCache for TLC. *)
EXTENDS CoreIdCache, TLC

CONSTANTS t1, t2

(* Two threads; managed ids below and above the core count. *)
TwoThreads == {t1, t2}
TwoManagedIds == (t1 :> 1) @@ (t2 :> 6)

OneThread == {t1}
OneManagedId == (t1 :> 9)

(* A container that may use 3 processors of a larger machine: numbers      *)
(* within and beyond CoreCount.                                            *)
LinuxProcessors == {[group |-> 0, number |-> n] : n \in {0, 3, 7}}

(* Two processor groups of a Windows machine with 130 processors: numbers  *)
(* 3 and 129, so that both the group bits and the cap on cores matter.     *)
WindowsProcessors == {[group |-> 0, number |-> 3], [group |-> 2, number |-> 1]}

=============================================================================
