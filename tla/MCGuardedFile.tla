--------------------------- MODULE MCGuardedFile ---------------------------
(* GuardedFile for TLC: the threads are interchangeable.                   *)
EXTENDS GuardedFile, TLC

Symmetry == Permutations(Threads)
=============================================================================
