---------------------------- MODULE MCMemCallbacks ----------------------------
(* Two threads; two output delegates, so that one may be registered while  *)
(* the other is passed to StatsPrintOut.  One of them is in a static       *)
(* field, as the lambdas of the tests are.                                 *)
EXTENDS MemCallbacks, TLC

CONSTANTS t1, t2, free, log, print
MCDelegates == {free, log, print}
MCKind == (free :> "DeferredFreeFun") @@ (log :> "OutputFun") @@ (print :> "OutputFun")
MCStatic == {log}
MCSymmetry == Permutations({t1, t2})
=============================================================================
