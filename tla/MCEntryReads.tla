---------------------------- MODULE MCEntryReads ----------------------------
(* EntryReads for TLC: the threads and handles are interchangeable.        *)
EXTENDS EntryReads, TLC

Symmetry == Permutations(Threads) \cup Permutations(Handles)
=============================================================================
