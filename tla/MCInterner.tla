----------------------------- MODULE MCInterner -----------------------------
(* Interner for TLC: hashes that collide in tables of 2, 4 and 8 slots.    *)
EXTENDS Interner
=============================================================================
