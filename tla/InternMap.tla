----------------------------- MODULE InternMap ------------------------------
(***************************************************************************)
(* What the interner of src/index/intern.rs stands for: a map from a key,  *)
(* a parent and a name, to the number of its node.  Keys are numbered in   *)
(* the order in which they first come, each once and for good.             *)
(***************************************************************************)
EXTENDS Integers, Sequences

CONSTANT Keys

VARIABLES
  known,   \* the keys, in the order of their numbers
  answer   \* the last key that was asked for, and its number

Init == known = <<>> /\ answer = <<>>

Knows(k) == \E i \in DOMAIN known : known[i] = k

(* A key that is known keeps its number, and a new one gets the next.      *)
Intern(k) ==
  /\ known' = IF Knows(k) THEN known ELSE Append(known, k)
  /\ \E i \in DOMAIN known' : known'[i] = k /\ answer' = <<k, i>>

Next == \E k \in Keys : Intern(k)

Spec == Init /\ [][Next]_<<known, answer>>
=============================================================================
