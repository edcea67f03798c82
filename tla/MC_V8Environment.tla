------------------------- MODULE MC_V8Environment -------------------------
(* Model-checking instance of V8Environment: two threads, two runtimes,  *)
(* two function references.                                               *)
EXTENDS V8Environment, TLC

CONSTANTS t1, t2, r1, r2, f1, f2

MCThreads == {t1, t2}
MCRuntimes == {r1, r2}
MCRefs == {f1, f2}
MCMainOnly == {t1}
MCOneRef == {f1}

MCRegistered == [r \in MCRuntimes |-> RoutineKinds]

Symmetry == Permutations(MCRuntimes) \cup Permutations(MCRefs)
=============================================================================
