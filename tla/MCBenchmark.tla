----------------------------- MODULE MCBenchmark -----------------------------
(* Small instances of Benchmark for TLC. *)
EXTENDS Benchmark, TLC

CONSTANTS t1, t2, c1, c2

MCThreads == {t1, t2}
MCCases == {c1, c2}
CaseSymmetry == Permutations(MCCases)

==============================================================================
