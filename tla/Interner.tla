------------------------------ MODULE Interner ------------------------------
(***************************************************************************)
(* The open-addressing table of src/index/intern.rs, and Builder::intern,  *)
(* which looks a key up and adds a node if there is none.  A key is a      *)
(* parent and a name.  Every probe of a slot is a step, in a lookup, in an *)
(* insertion and while the table grows.                                    *)
(*                                                                         *)
(* Nodes are counted from 1, so that a slot holds the number of a node and *)
(* 0 if it is empty.  The root, which is never looked up, is left out.     *)
(***************************************************************************)
EXTENDS Integers, Sequences, FiniteSets

CONSTANTS
  Keys,      \* the pairs of a parent and a name
  Capacity,  \* the slots that the table starts with
  Hashes     \* the hashes that keys can have

ASSUME InternerAssumption ==
  Keys # {} /\ Capacity \in Nat \ {0, 1} /\ Hashes \subseteq Nat

InternPC == {"idle", "find", "grow", "regrow", "place"}

VARIABLES
  hash,      \* hash_key, any function
  nodes,     \* Builder::nodes, as their keys
  slots, mask, len,   \* the Interner
  doing, key,   \* what Builder::intern is doing, and for which key
  idx,       \* the slot that is probed next
  old, at,   \* grow: the slots before, and the next of them to move
  answer     \* the last key that was interned, and its node

table == <<slots, mask, len>>
internVars == <<hash, nodes, table, doing, key, idx, old, at, answer>>

Slots(n) == [i \in 0 .. n - 1 |-> 0]

InternInit ==
  /\ hash \in [Keys -> Hashes]
  /\ nodes = <<>>
  /\ slots = Slots(Capacity) /\ mask = Capacity - 1 /\ len = 0
  /\ doing = "idle" /\ key = (CHOOSE k \in Keys : TRUE) /\ idx = 0
  /\ old = <<>> /\ at = 0 /\ answer = <<>>

-----------------------------------------------------------------------------
(* Sizes are powers of two, so that the mask takes the rest.               *)
bucket(k, m) == hash[k] % (m + 1)

Following_Stops(i) == IF i = mask THEN i ELSE i + 1

(* The slot after i, which is the first if i is the last.                  *)
Following(i) == IF i = mask THEN 0 ELSE i + 1

(* Builder::intern begins with find.                                       *)
Intern(k) ==
  /\ doing = "idle" /\ doing' = "find"
  /\ key' = k /\ idx' = bucket(k, mask)
  /\ UNCHANGED <<hash, nodes, table, old, at, answer>>

Matches_HashOnly(i) == hash[nodes[i]] = hash[key]

(* The node has the key.                                                   *)
Matches(i) == nodes[i] = key

FindNext ==
  /\ doing = "find" /\ slots[idx] # 0 /\ ~Matches(slots[idx])
  /\ idx' = Following(idx)
  /\ UNCHANGED <<hash, nodes, table, doing, key, old, at, answer>>

(* The call returns; what it kept is gone.                                 *)
Return(i) == doing' = "idle" /\ answer' = <<key, i>> /\ idx' = 0

FindHit ==
  /\ doing = "find" /\ slots[idx] # 0 /\ Matches(slots[idx])
  /\ Return(slots[idx])
  /\ UNCHANGED <<hash, nodes, table, key, old, at>>

Crowded_Late == len * 2 > mask + 1

(* One node more would fill over half of the table.                        *)
Crowded == (len + 1) * 2 > mask + 1

(* A key that is not found gets a node, and insert begins.                 *)
FindMiss ==
  /\ doing = "find" /\ slots[idx] = 0
  /\ nodes' = Append(nodes, key)
  /\ \/ /\ Crowded
        /\ doing' = "grow" /\ idx' = 0 /\ at' = 0
        /\ old' = slots /\ slots' = Slots(2 * (mask + 1)) /\ mask' = 2 * mask + 1
     \/ /\ ~Crowded
        /\ doing' = "place" /\ idx' = bucket(key, mask)
        /\ UNCHANGED <<slots, mask, old, at>>
  /\ UNCHANGED <<hash, len, key, answer>>

-----------------------------------------------------------------------------
(* place, for the new node and for those that grow moves.                  *)

Placing == doing \in {"regrow", "place"}

PlaceNext ==
  /\ Placing /\ slots[idx] # 0
  /\ idx' = Following(idx)
  /\ UNCHANGED <<hash, nodes, table, doing, key, old, at, answer>>

PlaceMoved ==
  /\ doing = "regrow" /\ slots[idx] = 0
  /\ slots' = [slots EXCEPT ![idx] = old[at]]
  /\ doing' = "grow" /\ idx' = 0 /\ at' = at + 1
  /\ UNCHANGED <<hash, nodes, mask, len, key, old, answer>>

PlaceNew ==
  /\ doing = "place" /\ slots[idx] = 0
  /\ slots' = [slots EXCEPT ![idx] = Len(nodes)]
  /\ len' = len + 1
  /\ Return(Len(nodes))
  /\ UNCHANGED <<hash, nodes, mask, key, old, at>>

-----------------------------------------------------------------------------
(* grow: the loop over the slots before.                                   *)

GrowSkip ==
  /\ doing = "grow" /\ at \in DOMAIN old /\ old[at] = 0
  /\ at' = at + 1
  /\ UNCHANGED <<hash, nodes, table, doing, key, idx, old, answer>>

GrowMove ==
  /\ doing = "grow" /\ at \in DOMAIN old /\ old[at] # 0
  /\ doing' = "regrow" /\ idx' = bucket(nodes[old[at]], mask)
  /\ UNCHANGED <<hash, nodes, table, key, old, at, answer>>

GrowDone ==
  /\ doing = "grow" /\ at \notin DOMAIN old
  /\ doing' = "place" /\ idx' = bucket(key, mask)
  /\ old' = <<>> /\ at' = 0
  /\ UNCHANGED <<hash, nodes, table, key, answer>>

-----------------------------------------------------------------------------
Step ==
  \/ FindNext \/ FindHit \/ FindMiss
  \/ PlaceNext \/ PlaceMoved \/ PlaceNew
  \/ GrowSkip \/ GrowMove \/ GrowDone

InternNext == Step \/ \E k \in Keys : Intern(k)

InternSpec == InternInit /\ [][InternNext]_internVars

(* A call that has begun goes on.                                          *)
InternFairSpec == InternSpec /\ WF_internVars(Step)

-----------------------------------------------------------------------------
(* Properties.                                                             *)

InternTypeOK ==
  /\ hash \in [Keys -> Hashes]
  /\ nodes \in Seq(Keys)
  /\ mask \in Nat /\ len \in Nat
  /\ slots \in [0 .. mask -> 0 .. Len(nodes)]
  /\ doing \in InternPC /\ key \in Keys /\ idx \in 0 .. mask
  /\ DOMAIN old \subseteq 0 .. mask /\ at \in Nat
  /\ \A i \in DOMAIN old : old[i] \in 0 .. Len(nodes)

Filled == {i \in DOMAIN slots : slots[i] # 0}

(* intern.rs 47, 75: before and after every call the table counts its      *)
(* nodes right and is at most half full, and a probe always has an empty   *)
(* slot to come to, also in a table that is being filled again.  "Keep the *)
(* load factor under one half", says the code, and lets it be a half.      *)
LoadHalved ==
  /\ doing \in {"idle", "find"} => Cardinality(Filled) = len /\ 2 * len <= mask + 1
  /\ Filled # DOMAIN slots

(* A node counts as known once its call returns.                           *)
Known == IF doing \in {"idle", "find"} THEN nodes
         ELSE SubSeq(nodes, 1, Len(nodes) - 1)

Map == INSTANCE InternMap WITH known <- Known

(* intern.rs 1, build.rs 190: whatever the hashes are, however the probes  *)
(* run into each other and whenever the table grows, interning is a map    *)
(* from keys to nodes: one node for each key, and the same every time.     *)
ImplementsMap == Map!Spec

(* intern.rs 59, 85: every lookup and insertion ends.                      *)
InternEnds == doing # "idle" ~> doing = "idle"
=============================================================================
