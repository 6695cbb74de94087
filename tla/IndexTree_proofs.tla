-------------------------- MODULE IndexTree_proofs --------------------------
(***************************************************************************)
(* Proofs about the operators of IndexBuild, for any names, records and    *)
(* limits: trees and the paths of their nodes, sorting, the breadth-first  *)
(* order that finish gives the nodes, the binary search of lookup, and what *)
(* readdir lists.                                                          *)
(***************************************************************************)
EXTENDS IndexBuild, FiniteSetTheorems, WellFoundedInduction, TLAPS

(* The prover of the steps that name no other.                             *)
USE Zenon

-----------------------------------------------------------------------------
(* Induction, and loops.                                                   *)

(* A set of numbers that is not empty has a least one.                     *)
LEMMA LeastOf ==
  ASSUME NEW T, T \subseteq Nat, T # {}
  PROVE  \E x \in T : \A y \in T : ~(y < x)
<1> DEFINE R == OpToRel(<, Nat)
<1>1. IsWellFoundedOn(R, Nat)
  BY NatLessThanWellFounded
<1>2. PICK x \in T : \A y \in T : ~ (<<y, x>> \in R)
  <2> HIDE DEF R
  <2> QED BY <1>1, WFMin
<1>3. \A y \in T : y < x => <<y, x>> \in R
  BY DEF OpToRel
<1> QED BY <1>2, <1>3

(* Induction up to m, for a set of numbers in the place of a predicate.    *)
LEMMA UpTo ==
  ASSUME NEW m \in Nat, NEW T, 0 \in T, \A n \in 0 .. m - 1 : n \in T => n + 1 \in T
  PROVE  \A n \in 0 .. m : n \in T
<1> DEFINE bad == {n \in 0 .. m : n \notin T}
<1>1. SUFFICES ASSUME bad # {} PROVE FALSE
  OBVIOUS
<1>2. bad \subseteq Nat
  BY SMT
<1>3. PICK x \in bad : \A y \in bad : ~(y < x)
  BY <1>1, <1>2, LeastOf
<1>4. x \in 1 .. m /\ x \notin T
  BY <1>3, SMT
<1>5. x - 1 \in 0 .. m - 1 /\ x - 1 < x /\ (x - 1) + 1 = x
  BY <1>4, SMT
<1>6. x - 1 \in T
  BY <1>3, <1>5, SMT
<1> QED BY <1>4, <1>5, <1>6

(* What a loop of m turns does, each taking a state of S to another; and f *)
(* gives the state after each turn, from c on.                             *)
Turns(m, S) == [1 .. m -> [S -> S]]

Runs(f, m, S, c, turn) ==
  /\ f \in [0 .. m -> S] /\ f[0] = c
  /\ \A i \in 1 .. m : f[i] = turn[i][f[i - 1]]

(* The same said of a function g that is not known to stay in S.           *)
Follows(g, m, S, c, turn) ==
  /\ g[0] = c
  /\ \A i \in 1 .. m : g[i - 1] \in S => g[i] = turn[i][g[i - 1]]

(* Every loop runs.                                                        *)
LEMMA Loop ==
  ASSUME NEW m \in Nat, NEW S, NEW c \in S, NEW turn \in Turns(m, S)
  PROVE  \E f : Runs(f, m, S, c, turn)
<1> USE DEF Turns
<1> DEFINE some == {n \in 0 .. m : \E f : Runs(f, n, S, c, turn)}
<1>1. 0 \in some
  <2> DEFINE f == [i \in 0 .. 0 |-> c]
  <2>1. Runs(f, 0, S, c, turn)
    BY SMT DEF Runs
  <2> HIDE DEF f
  <2> QED BY <2>1, SMT
<1>2. ASSUME NEW n \in 0 .. m - 1, n \in some PROVE n + 1 \in some
  <2>1. PICK f : Runs(f, n, S, c, turn)
    BY <1>2
  <2> DEFINE g == [i \in 0 .. n + 1 |-> IF i = n + 1 THEN turn[n + 1][f[n]] ELSE f[i]]
  <2>2. f[n] \in S /\ turn[n + 1] \in [S -> S]
    BY <2>1, SMT DEF Runs
  <2>3. g \in [0 .. n + 1 -> S]
    BY <2>1, <2>2, SMT DEF Runs
  <2>4. g[0] = c
    BY <2>1, SMT DEF Runs
  <2>5. ASSUME NEW i \in 1 .. n + 1 PROVE g[i] = turn[i][g[i - 1]]
    <3>1. g[i - 1] = f[i - 1]
      BY SMT
    <3> QED BY <2>1, <3>1, SMT DEF Runs
  <2>6. Runs(g, n + 1, S, c, turn)
    BY <2>3, <2>4, <2>5 DEF Runs
  <2> HIDE DEF g
  <2>7. n + 1 \in 0 .. m
    BY SMT
  <2> QED BY <2>6, <2>7
<1>3. \A n \in 0 .. m : n \in some
  <2> HIDE DEF some
  <2> QED BY <1>1, <1>2, UpTo
<1>4. m \in some
  BY <1>3, SMT
<1> QED BY <1>4

(* And there is one only.                                                  *)
LEMMA LoopOnce ==
  ASSUME NEW m \in Nat, NEW S, NEW c, NEW turn, NEW f, Runs(f, m, S, c, turn),
         NEW g, Follows(g, m, S, c, turn)
  PROVE  \A i \in 0 .. m : g[i] = f[i]
<1> DEFINE same == {i \in 0 .. m : g[i] = f[i]}
<1> USE DEF Runs, Follows
<1>1. 0 \in same
  BY SMT
<1>2. ASSUME NEW n \in 0 .. m - 1, n \in same PROVE n + 1 \in same
  <2>1. n + 1 \in 1 .. m /\ (n + 1) - 1 = n /\ f[n] \in S /\ g[n] = f[n]
    BY <1>2, SMT
  <2>2. f[n + 1] = turn[n + 1][f[n]] /\ g[n + 1] = turn[n + 1][g[n]]
    BY <2>1
  <2> QED BY <2>1, <2>2, SMT
<1>3. \A n \in 0 .. m : n \in same
  <2> HIDE DEF same
  <2> QED BY <1>1, <1>2, UpTo
<1> QED BY <1>3

-----------------------------------------------------------------------------
(* The tree of a Builder, and the paths of its nodes.                      *)

Node == [name: Names \cup {Empty}, kind: Kinds, synthetic: BOOLEAN, parent: Nat,
         meta: Nat]

(* Every node but the root has a name and a directory that came before it, *)
(* no two nodes have the same place, and what is synthetic is a directory. *)
Tree(nodes) ==
  /\ nodes \in Seq(Node) /\ nodes # <<>>
  /\ nodes[Root].kind = "Dir" /\ nodes[Root].parent = Root
  /\ \A i \in DOMAIN nodes \ {Root} :
       /\ nodes[i].name \in Names /\ nodes[i].parent \in 1 .. i - 1
       /\ nodes[nodes[i].parent].kind = "Dir"
       /\ nodes[i].synthetic => nodes[i].kind = "Dir"
  /\ \A i, j \in DOMAIN nodes \ {Root} :
       nodes[i].parent = nodes[j].parent /\ nodes[i].name = nodes[j].name => i = j

Trail(nodes) ==
  CHOOSE path : path = [i \in DOMAIN nodes |->
    IF i = Root THEN <<>> ELSE Append(path[nodes[i].parent], nodes[i].name)]

(* The path of a node is that of its parent and its own name.              *)
Rooted(nodes) ==
  /\ PathOf(nodes, Root) = <<>>
  /\ \A i \in DOMAIN nodes \ {Root} :
       PathOf(nodes, i) = Append(PathOf(nodes, nodes[i].parent), nodes[i].name)
  /\ \A i \in DOMAIN nodes : PathOf(nodes, i) \in Seq(Names)

(* What is needed of a tree most often.                                    *)
LEMMA TreeTypes ==
  ASSUME NEW nodes, Tree(nodes)
  PROVE  /\ nodes \in Seq(Node) /\ Len(nodes) \in Nat \ {0}
         /\ DOMAIN nodes = 1 .. Len(nodes) /\ Root \in DOMAIN nodes
         /\ \A i \in DOMAIN nodes \ {Root} :
              /\ i \in 2 .. Len(nodes) /\ nodes[i].name \in Names
              /\ nodes[i].parent \in 1 .. i - 1 /\ nodes[i].parent \in DOMAIN nodes
              /\ nodes[nodes[i].parent].kind = "Dir"
<1>1. nodes \in Seq(Node) /\ nodes # <<>>
  BY DEF Tree
<1>2. Len(nodes) \in Nat \ {0} /\ DOMAIN nodes = 1 .. Len(nodes) /\ Root \in DOMAIN nodes
  BY <1>1, SMT DEF Root
<1>3. ASSUME NEW i \in DOMAIN nodes \ {Root}
      PROVE  /\ i \in 2 .. Len(nodes) /\ nodes[i].name \in Names
             /\ nodes[i].parent \in 1 .. i - 1 /\ nodes[i].parent \in DOMAIN nodes
             /\ nodes[nodes[i].parent].kind = "Dir"
  <2>1. /\ nodes[i].name \in Names /\ nodes[i].parent \in 1 .. i - 1
        /\ nodes[nodes[i].parent].kind = "Dir"
    BY DEF Tree
  <2>2. i \in 2 .. Len(nodes) /\ nodes[i].parent \in DOMAIN nodes
    BY <1>2, <2>1, SMT DEF Root
  <2> QED BY <2>1, <2>2
<1> QED BY <1>1, <1>2, <1>3

(* PathOf is a node's parent's path and then its own name.                 *)
LEMMA PathTurns ==
  ASSUME NEW nodes, Tree(nodes)
  PROVE  Rooted(nodes)
<1> DEFINE m == Len(nodes)
           step(g, i) == IF i = Root THEN <<>> ELSE Append(g[nodes[i].parent], nodes[i].name)
           Is(g, n) == g \in [1 .. n -> Seq(Names)] /\ \A i \in 1 .. n : g[i] = step(g, i)
           some == {n \in 0 .. m : \E g : Is(g, n)}
<1>1. /\ nodes \in Seq(Node) /\ m \in Nat \ {0} /\ DOMAIN nodes = 1 .. m
      /\ Root \in DOMAIN nodes
      /\ \A i \in DOMAIN nodes \ {Root} :
           /\ i \in 2 .. m /\ nodes[i].name \in Names
           /\ nodes[i].parent \in 1 .. i - 1 /\ nodes[i].parent \in DOMAIN nodes
  BY TreeTypes
<1>2. 0 \in some
  <2> DEFINE g == [i \in 1 .. 0 |-> <<>>]
  <2>1. Is(g, 0)
    BY SMT
  <2> HIDE DEF Is, g
  <2> QED BY <1>1, <2>1, SMT
<1>3. ASSUME NEW n \in 0 .. m - 1, n \in some PROVE n + 1 \in some
  <2>1. PICK g : Is(g, n)
    BY <1>3
  <2> DEFINE h == [i \in 1 .. n + 1 |-> IF i = n + 1 THEN step(g, n + 1) ELSE g[i]]
  <2>2. ASSUME NEW i \in 1 .. n + 1 PROVE step(h, i) = step(g, i)
    <3>1. CASE i = Root
      BY <3>1
    <3>2. CASE i # Root
      <4>1. i \in DOMAIN nodes \ {Root}
        BY <1>1, <3>2, SMT
      <4>2. nodes[i].parent \in 1 .. i - 1
        BY <1>1, <4>1
      <4>3. nodes[i].parent \in 1 .. n + 1 /\ nodes[i].parent # n + 1
        BY <1>1, <4>2, SMT
      <4>4. h[nodes[i].parent] = g[nodes[i].parent]
        BY <4>3
      <4> HIDE DEF h
      <4> QED BY <3>2, <4>4
    <3> QED BY <3>1, <3>2
  <2>3. step(g, n + 1) \in Seq(Names)
    <3>1. CASE n + 1 = Root
      BY <3>1, SMT
    <3>2. CASE n + 1 # Root
      <4>1. n + 1 \in DOMAIN nodes \ {Root}
        BY <1>1, <3>2, SMT
      <4>2. nodes[n + 1].parent \in 1 .. (n + 1) - 1 /\ nodes[n + 1].name \in Names
        BY <1>1, <4>1
      <4>3. nodes[n + 1].parent \in 1 .. n
        BY <1>1, <4>2, SMT
      <4>4. g[nodes[n + 1].parent] \in Seq(Names)
        BY <2>1, <4>3
      <4> DEFINE p == g[nodes[n + 1].parent]
                 c == nodes[n + 1].name
      <4>5. p \in Seq(Names) /\ c \in Names
        BY <4>2, <4>4
      <4> HIDE DEF p, c
      <4>6. Append(p, c) \in Seq(Names)
        BY <4>5, SMT
      <4> QED BY <3>2, <4>6 DEF p, c
    <3> QED BY <3>1, <3>2
  <2>4. \A i \in 1 .. n + 1 : i = n + 1 \/ i \in 1 .. n
    BY <1>1, SMT
  <2> HIDE DEF step
  <2>5. h \in [1 .. n + 1 -> Seq(Names)]
    BY <2>1, <2>3, <2>4
  <2>6. \A i \in 1 .. n + 1 : h[i] = step(h, i)
    BY <2>1, <2>2, <2>4
  <2>7. n + 1 \in 0 .. m
    BY <1>1, SMT
  <2> HIDE DEF h
  <2> QED BY <2>5, <2>6, <2>7
<1>4. m \in some
  <2> HIDE DEF some
  <2>1. m \in 0 .. m
    BY <1>1, SMT
  <2>2. \A n \in 0 .. m : n \in some
    BY <1>1, <1>2, <1>3, UpTo
  <2> QED BY <2>1, <2>2
<1>5. PICK g : Is(g, m)
  BY <1>4
<1> HIDE DEF some
<1> DEFINE t == Trail(nodes)
<1>6. t = [i \in DOMAIN nodes |-> step(t, i)]
  <2>1. g = [i \in DOMAIN nodes |-> step(g, i)]
    <3>1. g = [i \in 1 .. m |-> g[i]]
      BY <1>5
    <3> HIDE DEF step
    <3> QED BY <1>1, <1>5, <3>1
  <2> QED BY <2>1 DEF Trail
<1>7. \A i \in DOMAIN nodes : PathOf(nodes, i) = t[i] /\ t[i] = step(t, i)
  <2>1. \A i : PathOf(nodes, i) = t[i]
    BY DEF PathOf, Trail
  <2> HIDE DEF t, step
  <2> QED BY <1>6, <2>1
<1> HIDE DEF t
<1>8. \A i \in DOMAIN nodes : t[i] = g[i]
  <2> DEFINE same == {n \in 0 .. m : \A i \in 1 .. n : t[i] = g[i]}
  <2>1. 0 \in same
    BY <1>1, SMT
  <2>2. ASSUME NEW n \in 0 .. m - 1, n \in same PROVE n + 1 \in same
    <3>1. n + 1 \in DOMAIN nodes /\ n + 1 \in 0 .. m /\ n + 1 \in 1 .. m
      BY <1>1, SMT
    <3>2. step(t, n + 1) = step(g, n + 1)
      <4>1. CASE n + 1 = Root
        BY <4>1
      <4>2. CASE n + 1 # Root
        <5>1. nodes[n + 1].parent \in 1 .. (n + 1) - 1
          BY <1>1, <3>1, <4>2
        <5>2. nodes[n + 1].parent \in 1 .. n
          BY <1>1, <5>1, SMT
        <5> QED BY <2>2, <4>2, <5>2
      <4> QED BY <4>1, <4>2
    <3> HIDE DEF step
    <3>3. t[n + 1] = g[n + 1]
      BY <1>5, <1>7, <3>1, <3>2
    <3>4. \A i \in 1 .. n + 1 : i = n + 1 \/ i \in 1 .. n
      BY <1>1, SMT
    <3> QED BY <2>2, <3>1, <3>3, <3>4
  <2>3. \A n \in 0 .. m : n \in same
    <3> HIDE DEF same
    <3> QED BY <1>1, <2>1, <2>2, UpTo
  <2>4. m \in same
    BY <1>1, <2>3, SMT
  <2> QED BY <1>1, <2>4
<1>9. \A i \in DOMAIN nodes : PathOf(nodes, i) \in Seq(Names)
  BY <1>1, <1>5, <1>7, <1>8, ZenonT(40)
<1>10. ASSUME NEW i \in DOMAIN nodes \ {Root}
       PROVE  PathOf(nodes, i) = Append(PathOf(nodes, nodes[i].parent), nodes[i].name)
  BY <1>1, <1>7
<1>11. PathOf(nodes, Root) = <<>>
  BY <1>1, <1>7
<1> QED BY <1>9, <1>10, <1>11 DEF Rooted

(* A path leads to one node.                                               *)
LEMMA PathOnce ==
  ASSUME NEW nodes, Tree(nodes), NEW i \in DOMAIN nodes, NEW j \in DOMAIN nodes,
         PathOf(nodes, i) = PathOf(nodes, j)
  PROVE  i = j
<1> DEFINE m == Len(nodes)
           P(k) == PathOf(nodes, k)
           once == {n \in 0 .. m : \A a \in 1 .. n : \A b \in DOMAIN nodes : P(a) = P(b) => a = b}
<1>1. /\ m \in Nat \ {0} /\ DOMAIN nodes = 1 .. m
      /\ \A a \in DOMAIN nodes \ {Root} :
           /\ nodes[a].parent \in 1 .. a - 1 /\ nodes[a].parent \in DOMAIN nodes
           /\ P(a) = Append(P(nodes[a].parent), nodes[a].name) /\ nodes[a].name \in Names
      /\ P(Root) = <<>> /\ \A a \in DOMAIN nodes : P(a) \in Seq(Names)
  BY TreeTypes, PathTurns DEF Rooted
<1>2. \A a, b \in DOMAIN nodes \ {Root} :
        nodes[a].parent = nodes[b].parent /\ nodes[a].name = nodes[b].name => a = b
  BY DEF Tree
<1> HIDE DEF P
<1>3. \A a \in DOMAIN nodes \ {Root} : P(a) # <<>>
  BY <1>1, SMT
<1>4. ASSUME NEW a \in DOMAIN nodes \ {Root}, NEW b \in DOMAIN nodes \ {Root}, P(a) = P(b)
      PROVE  P(nodes[a].parent) = P(nodes[b].parent) /\ nodes[a].name = nodes[b].name
  <2> DEFINE p == P(nodes[a].parent)
             q == P(nodes[b].parent)
             c == nodes[a].name
             d == nodes[b].name
  <2>1. /\ p \in Seq(Names) /\ q \in Seq(Names) /\ c \in Names /\ d \in Names
        /\ Append(p, c) = Append(q, d)
    BY <1>1, <1>4
  <2> HIDE DEF p, q, c, d
  <2>2. p = q /\ c = d
    BY <2>1, SMT
  <2> QED BY <2>2 DEF p, q, c, d
<1>5. 0 \in once
  BY <1>1, SMT
<1>6. ASSUME NEW n \in 0 .. m - 1, n \in once PROVE n + 1 \in once
  <2> DEFINE a == n + 1
  <2>1. a \in DOMAIN nodes /\ a \in 0 .. m
    BY <1>1, SMT
  <2>2. \A k \in 1 .. n + 1 : k = a \/ k \in 1 .. n
    BY <1>1, SMT
  <2>3. ASSUME NEW b \in DOMAIN nodes, P(a) = P(b) PROVE a = b
    <3>1. CASE a = Root \/ b = Root
      BY <1>1, <1>3, <2>1, <2>3, <3>1
    <3>2. CASE a # Root /\ b # Root
      <4> HIDE DEF a
      <4>1. P(nodes[a].parent) = P(nodes[b].parent) /\ nodes[a].name = nodes[b].name
        BY <1>4, <2>1, <2>3, <3>2
      <4>2. nodes[a].parent \in 1 .. a - 1 /\ nodes[b].parent \in DOMAIN nodes
        BY <1>1, <2>1, <3>2
      <4>3. nodes[a].parent \in 1 .. n
        BY <1>1, <4>2, SMT DEF a
      <4>4. nodes[a].parent = nodes[b].parent
        BY <1>6, <4>1, <4>2, <4>3
      <4> QED BY <1>2, <2>1, <3>2, <4>1, <4>4
    <3> QED BY <3>1, <3>2
  <2> QED BY <1>6, <2>1, <2>2, <2>3
<1>7. m \in once
  <2> HIDE DEF once
  <2>1. \A n \in 0 .. m : n \in once
    BY <1>1, <1>5, <1>6, UpTo
  <2> QED BY <1>1, <2>1, SMT
<1>8. P(i) = P(j)
  BY DEF P
<1> QED BY <1>1, <1>7, <1>8

-----------------------------------------------------------------------------
(* Sorting and the breadth-first order.                                    *)

(* The size of an interval.                                                *)
LEMMA CardinalityUpTo ==
  ASSUME NEW n \in Nat
  PROVE  IsFiniteSet(1 .. n) /\ Cardinality(1 .. n) = n
BY FS_Interval, SMT

(* What is needed of a sequence most often.                                *)
LEMMA SequenceOf ==
  ASSUME NEW D, NEW s \in Seq(D)
  PROVE  Len(s) \in Nat /\ DOMAIN s = 1 .. Len(s) /\ s \in [DOMAIN s -> D]
BY SMT

(* A member of a sequence.                                                 *)
LEMMA EntryOf ==
  ASSUME NEW D, NEW s \in Seq(D), NEW i \in 1 .. Len(s)
  PROVE  s[i] \in D
BY SMT

InOrder(set, key, s) ==
  /\ s \in [1 .. Cardinality(set) -> set]
  /\ \A i, j \in DOMAIN s : i < j => key[s[i]] < key[s[j]]
  /\ \A x \in set : \E i \in DOMAIN s : s[i] = x

(* A finite set whose members have different keys can be sorted: the place *)
(* of a member is the number of those whose keys are not above its own.    *)
LEMMA SortedRight ==
  ASSUME NEW set, IsFiniteSet(set), NEW key, \A x \in set : key[x] \in Int,
         \A x, y \in set : key[x] = key[y] => x = y
  PROVE  InOrder(set, key, Sorted(set, key))
<1> DEFINE n == Cardinality(set)
           upto(x) == {y \in set : key[y] <= key[x]}
           rank == [x \in set |-> Cardinality(upto(x))]
           Is(s) == \A i, j \in DOMAIN s : i < j => key[s[i]] < key[s[j]]
<1>1. n \in Nat /\ IsFiniteSet(1 .. n) /\ Cardinality(1 .. n) = n
  <2>1. n \in Nat
    BY FS_CardinalityType
  <2> QED BY <2>1, CardinalityUpTo
<1>2. ASSUME NEW x \in set
      PROVE  /\ IsFiniteSet(upto(x)) /\ Cardinality(upto(x)) \in 1 .. n
             /\ x \in upto(x)
  <2>1. upto(x) \in SUBSET set /\ x \in upto(x)
    BY SMT, SMT
  <2> HIDE DEF upto
  <2>2. IsFiniteSet(upto(x)) /\ Cardinality(upto(x)) <= n
    BY <2>1, FS_Subset
  <2>3. Cardinality(upto(x)) \in Nat /\ Cardinality(upto(x)) # 0
    BY <2>1, <2>2, FS_CardinalityType, FS_EmptySet
  <2> HIDE DEF n
  <2>4. Cardinality(upto(x)) \in 1 .. n
    BY <1>1, <2>2, <2>3, SMT
  <2> QED BY <2>1, <2>2, <2>4
<1>3. ASSUME NEW x \in set, NEW y \in set, key[x] < key[y] PROVE rank[x] < rank[y]
  <2>1. upto(x) \in SUBSET upto(y) /\ y \in upto(y) /\ y \notin upto(x)
    BY <1>3, SMT
  <2> HIDE DEF upto
  <2>2. /\ Cardinality(upto(x)) <= Cardinality(upto(y))
        /\ Cardinality(upto(x)) # Cardinality(upto(y))
    BY <1>2, <2>1, FS_Subset
  <2>3. Cardinality(upto(x)) \in 1 .. n /\ Cardinality(upto(y)) \in 1 .. n
    BY <1>2
  <2>4. Cardinality(upto(x)) < Cardinality(upto(y))
    BY <1>1, <2>2, <2>3, SMT
  <2> QED BY <2>4
<1>4. rank \in [set -> 1 .. n]
  <2> HIDE DEF upto
  <2> QED BY <1>2
<1> HIDE DEF rank
<1>5. ASSUME NEW x \in set, NEW y \in set, rank[x] = rank[y] PROVE x = y
  <2>1. rank[x] \in 1 .. n /\ rank[y] \in 1 .. n
    BY <1>4
  <2>2. ~(rank[x] < rank[y]) /\ ~(rank[y] < rank[x])
    BY <1>1, <1>5, <2>1, SMT
  <2>3. ~(key[x] < key[y]) /\ ~(key[y] < key[x])
    BY <1>3, <2>2
  <2>4. key[x] = key[y]
    BY <2>3, SMT
  <2> QED BY <2>4
<1>6. \A i \in 1 .. n : \E x \in set : rank[x] = i
  <2>1. rank \in Injection(set, 1 .. n)
    BY <1>4, <1>5 DEF Injection, IsInjective
  <2>2. rank \in Surjection(set, 1 .. n)
    BY <1>1, <2>1, FS_Injection
  <2> QED BY <2>2 DEF Surjection
<1>7. \E s \in [1 .. n -> set] : Is(s)
  <2> DEFINE f == [i \in 1 .. n |-> CHOOSE x \in set : rank[x] = i]
  <2>1. \A i \in 1 .. n : f[i] \in set /\ rank[f[i]] = i
    BY <1>6
  <2>2. f \in [1 .. n -> set] /\ DOMAIN f = 1 .. n
    BY <2>1
  <2> HIDE DEF f
  <2>3. ASSUME NEW i \in 1 .. n, NEW j \in 1 .. n, i < j PROVE key[f[i]] < key[f[j]]
    <3>1. ~(rank[f[j]] < rank[f[i]]) /\ f[i] # f[j]
      BY <1>1, <2>1, <2>3, SMT
    <3>2. ~(key[f[j]] < key[f[i]]) /\ key[f[i]] # key[f[j]]
      BY <1>3, <2>1, <3>1
    <3>3. key[f[i]] \in Int /\ key[f[j]] \in Int
      BY <2>1
    <3> QED BY <3>2, <3>3, SMT
  <2> QED BY <2>2, <2>3
<1> DEFINE s == Sorted(set, key)
<1>8. s \in [1 .. n -> set] /\ Is(s)
  BY <1>7 DEF Sorted
<1> HIDE DEF s
<1>9. \A x \in set : \E i \in DOMAIN s : s[i] = x
  <2>1. ASSUME NEW i \in 1 .. n, NEW j \in 1 .. n, s[i] = s[j] PROVE i = j
    <3>1. s[i] \in set
      BY <1>8
    <3>2. ~(key[s[i]] < key[s[j]]) /\ ~(key[s[j]] < key[s[i]])
      BY <2>1, <3>1, SMT
    <3>3. DOMAIN s = 1 .. n
      BY <1>8
    <3>4. ~(i < j) /\ ~(j < i)
      BY <1>8, <3>2, <3>3
    <3> QED BY <1>1, <3>4, SMT
  <2>2. s \in Injection(1 .. n, set)
    BY <1>8, <2>1 DEF Injection, IsInjective
  <2>3. s \in Surjection(1 .. n, set)
    BY <1>1, <2>2, FS_Injection
  <2> QED BY <1>8, <2>3 DEF Surjection
<1> QED BY <1>8, <1>9 DEF InOrder, s

(* What group_children returns.                                            *)
Grouped(nodes, kids) ==
  /\ kids \in [DOMAIN nodes -> Seq(DOMAIN nodes)]
  /\ \A t \in DOMAIN nodes :
       /\ \A j \in DOMAIN kids[t] :
            kids[t][j] \in DOMAIN nodes \ {Root} /\ nodes[kids[t][j]].parent = t
       /\ \A j, k \in DOMAIN kids[t] :
            j < k => nodes[kids[t][j]].name < nodes[kids[t][k]].name
       /\ \A x \in DOMAIN nodes \ {Root} :
            nodes[x].parent = t => \E j \in DOMAIN kids[t] : kids[t][j] = x

(* group_children: each node has its children, in the order of names.      *)
LEMMA GroupsChildren ==
  ASSUME NEW nodes, Tree(nodes)
  PROVE  Grouped(nodes, group_children(nodes))
<1> DEFINE D == DOMAIN nodes
           key == [k \in D |-> nodes[k].name]
           kids == group_children(nodes)
<1>1. /\ D = 1 .. Len(nodes) /\ Len(nodes) \in Nat
      /\ \A k \in D \ {Root} : nodes[k].name \in Names
  BY TreeTypes
<1>2. IsFiniteSet(D)
  BY <1>1, CardinalityUpTo
<1>3. \A k \in D \ {Root} : key[k] = nodes[k].name /\ key[k] \in Int
  <2>1. \A c \in Names : c \in Int
    BY BuildAssumption, SMT
  <2> QED BY <1>1, <2>1
<1>4. kids = [t \in D |-> Sorted(Kids(nodes, t), key)]
  BY DEF group_children
<1> HIDE DEF key, D, kids
<1>5. ASSUME NEW t \in D
      PROVE  /\ kids[t] \in Seq(D)
             /\ \A j \in DOMAIN kids[t] :
                  kids[t][j] \in D \ {Root} /\ nodes[kids[t][j]].parent = t
             /\ \A j, k \in DOMAIN kids[t] :
                  j < k => nodes[kids[t][j]].name < nodes[kids[t][k]].name
             /\ \A x \in D \ {Root} :
                  nodes[x].parent = t => \E j \in DOMAIN kids[t] : kids[t][j] = x
  <2> DEFINE set == Kids(nodes, t)
             s == kids[t]
  <2>1. \A k : k \in set <=> k \in D \ {Root} /\ nodes[k].parent = t
    BY DEF Kids, D
  <2> HIDE DEF set
  <2>2. IsFiniteSet(set) /\ Cardinality(set) \in Nat
    <3>1. set \in SUBSET D
      BY <2>1
    <3>2. IsFiniteSet(set)
      BY <1>2, <3>1, FS_Subset
    <3> QED BY <3>2, FS_CardinalityType
  <2>3. \A x \in set : key[x] \in Int
    BY <1>3, <2>1
  <2>4. \A x, y \in set : key[x] = key[y] => x = y
    BY <1>3, <2>1 DEF Tree, D
  <2>5. s = Sorted(set, key)
    BY <1>4 DEF set
  <2> HIDE DEF s
  <2>6. InOrder(set, key, s)
    BY <2>2, <2>3, <2>4, <2>5, SortedRight
  <2>7. s \in [1 .. Cardinality(set) -> set] /\ DOMAIN s = 1 .. Cardinality(set)
    BY <2>6 DEF InOrder
  <2>8. \A j \in DOMAIN s : s[j] \in set
    BY <2>7
  <2>9. s \in Seq(D)
    <3>1. s \in [1 .. Cardinality(set) -> D]
      BY <2>1, <2>7
    <3> QED BY <2>2, <3>1, SMT
  <2>10. \A j, k \in DOMAIN s : j < k => nodes[s[j]].name < nodes[s[k]].name
    BY <1>3, <2>1, <2>6, <2>8 DEF InOrder
  <2>11. \A x \in D \ {Root} : nodes[x].parent = t => \E j \in DOMAIN s : s[j] = x
    BY <2>1, <2>6 DEF InOrder
  <2> QED BY <2>1, <2>8, <2>9, <2>10, <2>11 DEF s
<1>6. kids \in [D -> Seq(D)]
  BY <1>4, <1>5
<1> QED BY <1>5, <1>6 DEF Grouped, D, kids

(* The turns of breadth_first_order.                                       *)
AfterAt(kids) ==
  CHOOSE after : after = [i \in 0 .. Len(kids) |->
    IF i = 0 THEN [order |-> <<Root>>, first |-> [t \in DOMAIN kids |-> 0]]
    ELSE LET o == after[i - 1]
             t == o.order[i]
         IN IF i > Len(o.order) THEN o
            ELSE [order |-> o.order \o kids[t],
                  first |-> [o.first EXCEPT ![t] = Len(o.order) + 1]]]

Orders(D) == [order: Seq(D), first: [D -> Nat]]

Numbering(kids, i, o) ==
  IF i > Len(o.order) THEN o
  ELSE [order |-> o.order \o kids[o.order[i]],
        first |-> [o.first EXCEPT ![o.order[i]] = Len(o.order) + 1]]

Numberings(D, m, kids, at) ==
  /\ breadth_first_order(kids) = at[m] /\ at[0].order = <<Root>>
  /\ at \in [0 .. m -> Orders(D)]
  /\ \A i \in 1 .. m : at[i] = Numbering(kids, i, at[i - 1])

(* breadth_first_order: what one turn of its loop does.                    *)
LEMMA AfterTurns ==
  ASSUME NEW D, NEW m \in Nat \ {0}, D = 1 .. m, NEW kids \in [D -> Seq(D)]
  PROVE  Numberings(D, m, kids, AfterAt(kids))
<1> DEFINE S == Orders(D)
           c == [order |-> <<Root>>, first |-> [t \in D |-> 0]]
           turn == [i \in 1 .. m |-> [o \in S |-> Numbering(kids, i, o)]]
           after == AfterAt(kids)
           step(g, i) == IF i = 0 THEN c ELSE Numbering(kids, i, g[i - 1])
           Is(g) == g = [i \in 0 .. m |-> step(g, i)]
<1>1. Len(kids) = m /\ DOMAIN kids = D
  <2>1. kids \in Seq(Seq(D))
    BY SMT
  <2> QED BY <2>1, SMT
<1>2. c \in S
  <2>1. <<Root>> \in Seq(D)
    BY SMT DEF Root
  <2>2. [t \in D |-> 0] \in [D -> Nat]
    OBVIOUS
  <2> QED BY <2>1, <2>2 DEF Orders
<1>3. ASSUME NEW i \in 1 .. m, NEW o \in S PROVE Numbering(kids, i, o) \in S
  <2>1. o.order \in Seq(D) /\ o.first \in [D -> Nat]
    BY DEF Orders
  <2>2. CASE i > Len(o.order)
    BY <2>2 DEF Numbering
  <2>3. CASE ~(i > Len(o.order))
    <3> DEFINE t == o.order[i]
               order == o.order \o kids[t]
               first == [o.first EXCEPT ![t] = Len(o.order) + 1]
    <3>1. t \in D
      <4>1. i \in 1 .. Len(o.order)
        BY <2>1, <2>3, SMT
      <4> QED BY <2>1, <4>1, EntryOf
    <3> HIDE DEF t
    <3>2. kids[t] \in Seq(D)
      BY <3>1
    <3>3. order \in Seq(D)
      BY <2>1, <3>2, SMT
    <3>4. Len(o.order) + 1 \in Nat
      BY <2>1, SMT
    <3>5. first \in [D -> Nat]
      BY <2>1, <3>4
    <3> HIDE DEF order, first
    <3>6. [order |-> order, first |-> first] \in S
      BY <3>3, <3>5 DEF Orders
    <3> QED BY <2>3, <3>6 DEF Numbering, order, first, t
  <2> QED BY <2>2, <2>3
<1> HIDE DEF S, c

<1>4. turn \in Turns(m, S)
  BY <1>3 DEF Turns
<1>5. \A i \in 1 .. m : \A o \in S : turn[i][o] = Numbering(kids, i, o)
  OBVIOUS
<1> HIDE DEF turn
<1>6. PICK f : Runs(f, m, S, c, turn)
  BY <1>2, <1>4, Loop
<1>7. f \in [0 .. m -> S] /\ f[0] = c /\ \A i \in 1 .. m : f[i] = Numbering(kids, i, f[i - 1])
  <2>1. f \in [0 .. m -> S] /\ f[0] = c /\ \A i \in 1 .. m : f[i] = turn[i][f[i - 1]]
    BY <1>6 DEF Runs
  <2>2. ASSUME NEW i \in 1 .. m PROVE f[i] = Numbering(kids, i, f[i - 1])
    <3>1. i - 1 \in 0 .. m
      BY SMT
    <3> QED BY <1>5, <2>1, <3>1
  <2> QED BY <2>1, <2>2
<1>8. Is(f)
  <2>1. ASSUME NEW i \in 0 .. m PROVE f[i] = step(f, i)
    <3>1. i = 0 \/ (i \in 1 .. m /\ i # 0)
      BY SMT
    <3> QED BY <1>7, <3>1
  <2> HIDE DEF step
  <2> QED BY <1>7, <2>1
<1>9. Is(after)
  <2> DEFINE From(g) == g = [i \in 0 .. Len(kids) |->
               IF i = 0 THEN [order |-> <<Root>>, first |-> [t \in DOMAIN kids |-> 0]]
               ELSE Numbering(kids, i, g[i - 1])]
  <2>1. From(f)
    BY <1>1, <1>8 DEF c
  <2>2. From(after)
    <3>1. after = CHOOSE g : From(g)
      BY DEF AfterAt, Numbering
    <3> HIDE DEF From
    <3> QED BY <2>1, <3>1
  <2> HIDE DEF after
  <2> QED BY <1>1, <2>2 DEF c
<1>10. breadth_first_order(kids) = after[m]
  BY <1>1 DEF breadth_first_order, AfterAt
<1> HIDE DEF after
<1>11. after[0] = c /\ \A i \in 1 .. m : after[i] = Numbering(kids, i, after[i - 1])
  <2>1. 0 \in 0 .. m /\ \A i \in 1 .. m : i \in 0 .. m /\ i # 0
    BY SMT
  <2> QED BY <1>9, <2>1
<1>12. \A i \in 0 .. m : after[i] = f[i]
  <2>1. Follows(after, m, S, c, turn)
    BY <1>5, <1>11 DEF Follows
  <2> QED BY <1>6, <2>1, LoopOnce, SMT
<1>13. after \in [0 .. m -> S]
  <2>1. after = [i \in 0 .. m |-> after[i]]
    BY <1>9
  <2> QED BY <1>7, <1>12, <2>1
<1>14. after[0].order = <<Root>>
  <2>1. c.order = <<Root>>
    BY DEF c
  <2> QED BY <1>11, <2>1
<1> QED BY <1>10, <1>11, <1>13, <1>14 DEF Numberings, after, S

(* The children of the node at x stand in a row.                           *)
InARow(kids, o, x) ==
  LET t == o.order[x]
      f == o.first[t]
  IN /\ f \in Nat \ {0} /\ f + Len(kids[t]) <= Len(o.order) + 1
     /\ \A j \in DOMAIN kids[t] : o.order[f + j - 1] = kids[t][j]

(* After i turns: every node stands once, the children of the first i are  *)
(* in their rows, and nothing else but the root is there.                  *)
Numbered(nodes, kids, i, o) ==
  /\ o \in Orders(DOMAIN nodes) /\ Len(o.order) >= 1 /\ o.order[1] = Root
  /\ \A x, y \in DOMAIN o.order : o.order[x] = o.order[y] => x = y
  /\ \A x \in DOMAIN o.order : x <= i => InARow(kids, o, x)
  /\ \A y \in DOMAIN o.order \ {1} :
       \E x \in DOMAIN o.order : x <= i /\ nodes[o.order[y]].parent = o.order[x]

(* A sequence after another.                                               *)
Joined(p, q, s) ==
  /\ Len(s) = Len(p) + Len(q) /\ \A x \in DOMAIN p : x \in DOMAIN s /\ s[x] = p[x]
  /\ \A j \in DOMAIN q : Len(p) + j \in DOMAIN s /\ s[Len(p) + j] = q[j]
  /\ \A y \in DOMAIN s : y \in DOMAIN p \/ \E j \in DOMAIN q : y = Len(p) + j

(* What concatenation gives.                                               *)
LEMMA JoinedRight ==
  ASSUME NEW D, NEW p \in Seq(D), NEW q \in Seq(D)
  PROVE  Joined(p, q, p \o q)
<1> DEFINE s == p \o q
<1>1. /\ Len(s) = Len(p) + Len(q) /\ Len(p) \in Nat /\ Len(q) \in Nat
      /\ DOMAIN s = 1 .. Len(p) + Len(q)
      /\ DOMAIN p = 1 .. Len(p) /\ DOMAIN q = 1 .. Len(q)
  BY SMT
<1>2. \A x \in DOMAIN p : x \in DOMAIN s /\ s[x] = p[x]
  BY SMT
<1>3. \A j \in DOMAIN q : Len(p) + j \in DOMAIN s /\ s[Len(p) + j] = q[j]
  BY SMT
<1> HIDE DEF s
<1>4. ASSUME NEW y \in DOMAIN s
      PROVE  y \in DOMAIN p \/ \E j \in DOMAIN q : y = Len(p) + j
  <2>1. y \in 1 .. Len(p) \/ (y - Len(p) \in 1 .. Len(q) /\ y = Len(p) + (y - Len(p)))
    BY <1>1, SMT
  <2> QED BY <1>1, <2>1
<1> QED BY <1>1, <1>2, <1>3, <1>4 DEF Joined, s

(* A turn keeps what has been numbered, and numbers one row more.          *)
LEMMA NumberedOn ==
  ASSUME NEW nodes, Tree(nodes), NEW kids, Grouped(nodes, kids),
         NEW i \in 1 .. Len(nodes), NEW o, Numbered(nodes, kids, i - 1, o)
  PROVE  Numbered(nodes, kids, i, Numbering(kids, i, o))
<1> DEFINE D == DOMAIN nodes
           order == o.order
           first == o.first
           L == Len(order)
<1>1. /\ o \in Orders(D) /\ L >= 1 /\ order[1] = Root
      /\ \A x, y \in DOMAIN order : order[x] = order[y] => x = y
      /\ \A x \in DOMAIN order : x <= i - 1 => InARow(kids, o, x)
      /\ \A y \in DOMAIN order \ {1} :
           \E x \in DOMAIN order : x <= i - 1 /\ nodes[order[y]].parent = order[x]
  BY DEF Numbered
<1>2. order \in Seq(D) /\ first \in [D -> Nat]
  BY <1>1 DEF Orders
<1>3. L \in Nat /\ DOMAIN order = 1 .. L /\ i \in Nat \ {0} /\ \A x \in DOMAIN order : x \in Nat
  BY <1>2, TreeTypes, SMT
<1>4. CASE i > L
  <2>1. Numbering(kids, i, o) = o
    BY <1>4 DEF Numbering
  <2>2. \A x \in DOMAIN order : x <= i - 1 /\ x <= i
    BY <1>3, <1>4, SMT
  <2>3. Numbered(nodes, kids, i, o)
    BY <1>1, <2>2 DEF Numbered
  <2> QED BY <2>1, <2>3
<1>5. CASE ~(i > L)
  <2> DEFINE t == order[i]
             row == kids[t]
             s == order \o row
             f == [first EXCEPT ![t] = L + 1]
             n == [order |-> s, first |-> f]
  <2>1. Numbering(kids, i, o) = n /\ n.order = s /\ n.first = f
    BY <1>5 DEF Numbering
  <2>2. i \in DOMAIN order /\ i # 0 /\ ~(i <= i - 1)
    BY <1>3, <1>5, SMT
  <2>3. t \in D
    BY <1>2, <1>3, <2>2, EntryOf
  <2> HIDE DEF t
  <2>4. /\ row \in Seq(D) /\ \A j \in DOMAIN row : row[j] \in D \ {Root}
        /\ \A j \in DOMAIN row : nodes[row[j]].parent = t
        /\ \A j, k \in DOMAIN row : j < k => nodes[row[j]].name < nodes[row[k]].name
    BY <2>3 DEF Grouped
  <2> HIDE DEF row
  <2>5. Joined(order, row, s) /\ s \in Seq(D)
    <3>1. Joined(order, row, s)
      BY <1>2, <2>4, JoinedRight
    <3>2. s \in Seq(D)
      BY <1>2, <2>4, SMT
    <3> QED BY <3>1, <3>2
  <2> HIDE DEF s
  <2>6. L + 1 \in Nat \ {0}
    BY <1>3, SMT
  <2>7. f \in [D -> Nat] /\ f[t] = L + 1 /\ \A u \in D \ {t} : f[u] = first[u]
    BY <1>2, <2>3, <2>6
  <2> HIDE DEF f
  <2>8. n \in Orders(D)
    BY <2>5, <2>7 DEF Orders
  <2> HIDE DEF n
  <2>9. ASSUME NEW x \in DOMAIN order, NEW j \in DOMAIN row PROVE order[x] # row[j]
    <3>1. SUFFICES ASSUME order[x] = row[j] PROVE FALSE
      OBVIOUS
    <3>2. x # 1
      BY <1>1, <2>4, <3>1
    <3>3. PICK y \in DOMAIN order : y <= i - 1 /\ nodes[order[x]].parent = order[y]
      BY <1>1, <3>2
    <3>4. order[y] = order[i]
      BY <2>4, <3>1, <3>3 DEF t
    <3>5. y = i
      BY <1>1, <2>2, <3>4
    <3> QED BY <2>2, <3>3, <3>5
  <2>10. ASSUME NEW j \in DOMAIN row, NEW k \in DOMAIN row, row[j] = row[k] PROVE j = k
    <3>1. /\ j \in Nat /\ k \in Nat /\ nodes[row[j]].name \in Int
          /\ nodes[row[k]].name = nodes[row[j]].name
      <4>1. nodes[row[j]].name \in Names /\ nodes[row[k]].name = nodes[row[j]].name
        BY <2>4, <2>10, TreeTypes
      <4>2. \A c \in Names : c \in Int
        BY BuildAssumption, SMT
      <4>3. j \in Nat /\ k \in Nat
        BY <2>4, SMT
      <4> QED BY <4>1, <4>2, <4>3
    <3>2. ~(nodes[row[j]].name < nodes[row[k]].name) /\ ~(nodes[row[k]].name < nodes[row[j]].name)
      BY <3>1, SMT
    <3>3. ~(j < k) /\ ~(k < j)
      BY <2>4, <3>2
    <3> QED BY <3>1, <3>3, SMT

  <2>11. ASSUME NEW x \in DOMAIN s, NEW y \in DOMAIN s, s[x] = s[y] PROVE x = y
    <3>1. CASE x \in DOMAIN order /\ y \in DOMAIN order
      BY <1>1, <2>5, <2>11, <3>1 DEF Joined
    <3>2. ASSUME NEW j \in DOMAIN row, NEW k \in DOMAIN row, x = L + j, y = L + k
          PROVE  x = y
      <4>1. s[x] = row[j] /\ s[y] = row[k]
        BY <2>5, <3>2 DEF Joined
      <4>2. j = k
        BY <2>10, <2>11, <4>1
      <4> QED BY <3>2, <4>2
    <3>3. ASSUME NEW a \in DOMAIN order, NEW j \in DOMAIN row PROVE s[a] # s[L + j]
      <4>1. s[a] = order[a] /\ s[L + j] = row[j]
        BY <2>5 DEF Joined
      <4> QED BY <2>9, <4>1
    <3>4. /\ x \in DOMAIN order \/ \E j \in DOMAIN row : x = L + j
          /\ y \in DOMAIN order \/ \E j \in DOMAIN row : y = L + j
      BY <2>5 DEF Joined
    <3>5. CASE x \in DOMAIN order
      <4>1. ~ \E j \in DOMAIN row : y = L + j
        BY <2>11, <3>3, <3>5
      <4> QED BY <3>1, <3>4, <3>5, <4>1
    <3>6. ASSUME NEW j \in DOMAIN row, x = L + j PROVE x = y
      <4>1. y \notin DOMAIN order
        BY <2>11, <3>3, <3>6
      <4> QED BY <3>2, <3>4, <3>6, <4>1
    <3> QED BY <3>4, <3>5, <3>6
  <2>12. ASSUME NEW x \in DOMAIN order, x <= i PROVE InARow(kids, n, x)
    <3>0. Len(row) \in Nat
      BY <2>4, SMT
    <3>1. s[x] = order[x] /\ Len(s) = L + Len(row) /\ Len(row) \in Nat
      BY <2>5, <3>0 DEF Joined
    <3>2. CASE x = i
      <4>1. s[x] = t
        BY <3>1, <3>2 DEF t
      <4>2. (L + 1) + Len(row) <= Len(s) + 1
        BY <1>3, <3>1, SMT
      <4>3. ASSUME NEW j \in DOMAIN row PROVE s[(L + 1) + j - 1] = row[j]
        <5>1. (L + 1) + j - 1 = L + j
          BY <1>3, <2>4, SMT
        <5> QED BY <2>5, <5>1 DEF Joined
      <4>4. n.order = s /\ n.order[x] = t /\ n.first[t] = L + 1
        BY <2>1, <2>7, <4>1
      <4>5. (L + 1) + Len(kids[t]) <= Len(n.order) + 1
        BY <4>2, <4>4 DEF row
      <4>6. \A j \in DOMAIN kids[t] : n.order[(L + 1) + j - 1] = kids[t][j]
        BY <4>3, <4>4 DEF row
      <4> QED BY <2>6, <4>4, <4>5, <4>6 DEF InARow
    <3>3. CASE x # i
      <4> DEFINE u == order[x]
                 a == first[u]
      <4>1. x <= i - 1
        BY <1>3, <2>12, <3>3, SMT
      <4>2. /\ a \in Nat \ {0} /\ a + Len(kids[u]) <= L + 1
            /\ \A j \in DOMAIN kids[u] : order[a + j - 1] = kids[u][j]
        BY <1>1, <4>1 DEF InARow
      <4>3. u # t /\ u \in D
        BY <1>1, <1>2, <1>3, <2>2, <3>3, EntryOf DEF t
      <4>4. f[u] = a /\ s[x] = u
        BY <2>7, <3>1, <4>3
      <4>5. kids[u] \in Seq(D)
        BY <4>3 DEF Grouped
      <4> HIDE DEF u, a, L, order
      <4>6. a + Len(kids[u]) <= Len(s) + 1
        <5>1. Len(kids[u]) \in Nat
          BY <4>5, SMT
        <5>2. L \in Nat /\ a \in Nat /\ a + Len(kids[u]) <= L + 1
          BY <1>3, <4>2
        <5> QED BY <3>1, <5>1, <5>2, SMT
      <4>7. ASSUME NEW j \in DOMAIN kids[u] PROVE s[a + j - 1] = kids[u][j]
        <5>1. j \in Nat \ {0} /\ j <= Len(kids[u]) /\ Len(kids[u]) \in Nat
          BY <4>5, SMT
        <5>2. /\ L \in Nat /\ DOMAIN order = 1 .. L
              /\ a \in Nat \ {0} /\ a + Len(kids[u]) <= L + 1
          BY <1>3, <4>2
        <5>3. a + j - 1 \in 1 .. L
          BY <5>1, <5>2, SMT
        <5>4. a + j - 1 \in DOMAIN order
          BY <5>2, <5>3
        <5> QED BY <2>5, <4>2, <5>4 DEF Joined
      <4> QED BY <2>1, <4>2, <4>4, <4>6, <4>7 DEF InARow
    <3> QED BY <3>2, <3>3
  <2>13. ASSUME NEW x \in DOMAIN s, x <= i PROVE InARow(kids, n, x)
    <3>1. x \in DOMAIN order
      BY <1>3, <1>5, <2>5, <2>13, SMT
    <3> QED BY <2>12, <2>13, <3>1
  <2>14. ASSUME NEW y \in DOMAIN s \ {1}
         PROVE  \E x \in DOMAIN s : x <= i /\ nodes[s[y]].parent = s[x]
    <3>1. CASE y \in DOMAIN order
      <4>1. PICK x \in DOMAIN order : x <= i - 1 /\ nodes[order[y]].parent = order[x]
        BY <1>1, <3>1
      <4>2. x <= i
        BY <1>3, <4>1, SMT
      <4> QED BY <2>5, <3>1, <4>1, <4>2 DEF Joined
    <3>2. ASSUME NEW j \in DOMAIN row, y = L + j
          PROVE  \E x \in DOMAIN s : x <= i /\ nodes[s[y]].parent = s[x]
      <4>1. nodes[s[y]].parent = s[i] /\ i \in DOMAIN s
        BY <2>2, <2>4, <2>5, <3>2 DEF Joined, t
      <4>2. i <= i
        BY <1>3, SMT
      <4> QED BY <4>1, <4>2
    <3> QED BY <2>5, <3>1, <3>2 DEF Joined
  <2>15. Len(s) >= 1 /\ s[1] = Root
    <3>1. 1 \in DOMAIN order
      BY <1>1, <1>3, SMT
    <3>2. s[1] = Root /\ Len(s) = L + Len(row)
      BY <1>1, <2>5, <3>1 DEF Joined
    <3>3. Len(row) \in Nat
      BY <2>4, SMT
    <3> QED BY <1>1, <1>3, <3>2, <3>3, SMT
  <2>16. Numbered(nodes, kids, i, n)
    BY <2>1, <2>8, <2>11, <2>13, <2>14, <2>15, ZenonT(40) DEF Numbered
  <2> QED BY <2>1, <2>16
<1> QED BY <1>4, <1>5

(* In the end every node stands exactly once, with its children in a row.  *)
Ordered(nodes, kids, o) ==
  /\ o \in Orders(DOMAIN nodes) /\ Len(o.order) = Len(nodes) /\ o.order[1] = Root
  /\ \A x, y \in DOMAIN o.order : o.order[x] = o.order[y] => x = y
  /\ \A k \in DOMAIN nodes : \E x \in DOMAIN o.order : o.order[x] = k
  /\ \A x \in DOMAIN o.order : InARow(kids, o, x)

(* breadth_first_order has every node once, and children in rows.          *)
LEMMA BreadthFirst ==
  ASSUME NEW nodes, Tree(nodes), NEW kids, Grouped(nodes, kids)
  PROVE  Ordered(nodes, kids, breadth_first_order(kids))
<1> DEFINE D == DOMAIN nodes
           m == Len(nodes)
           at == AfterAt(kids)
           o == breadth_first_order(kids)
           order == o.order
<1>1. /\ m \in Nat \ {0} /\ D = 1 .. m /\ Root \in D /\ kids \in [D -> Seq(D)]
      /\ \A i \in D \ {Root} : nodes[i].parent \in 1 .. i - 1
  BY TreeTypes DEF Grouped
<1>2. /\ o = at[m] /\ at[0].order = <<Root>> /\ at \in [0 .. m -> Orders(D)]
      /\ \A i \in 1 .. m : at[i] = Numbering(kids, i, at[i - 1])
  <2> HIDE DEF D, m
  <2>1. Numberings(D, m, kids, at)
    BY <1>1, AfterTurns
  <2> QED BY <2>1 DEF Numberings
<1> HIDE DEF at, o
<1>3. Numbered(nodes, kids, m, o)
  <2> DEFINE right == {i \in 0 .. m : Numbered(nodes, kids, i, at[i])}
  <2>1. 0 \in right
    <3>1. 0 \in 0 .. m
      BY <1>1, SMT
    <3>2. at[0] \in Orders(D) /\ at[0].order = <<Root>>
      BY <1>2, <3>1
    <3>3. /\ Len(at[0].order) >= 1 /\ at[0].order[1] = Root
          /\ \A x \in DOMAIN at[0].order : x = 1 /\ ~(x <= 0)
      BY <3>2, SMT
    <3>4. Numbered(nodes, kids, 0, at[0])
      BY <3>2, <3>3 DEF Numbered
    <3> QED BY <3>1, <3>4
  <2>2. ASSUME NEW i \in 0 .. m - 1, i \in right PROVE i + 1 \in right
    <3> DEFINE j == i + 1
    <3>1. j \in 1 .. m /\ j - 1 = i /\ j \in 0 .. m
      BY <1>1, SMT
    <3> HIDE DEF j
    <3>2. Numbered(nodes, kids, j - 1, at[j - 1])
      BY <2>2, <3>1
    <3>3. Numbered(nodes, kids, j, at[j])
      BY <1>2, <3>1, <3>2, NumberedOn
    <3> QED BY <3>1, <3>3 DEF j
  <2>3. m \in right
    <3> HIDE DEF right, m
    <3>1. \A i \in 0 .. m : i \in right
      BY <1>1, <2>1, <2>2, UpTo
    <3> QED BY <1>1, <3>1, SMT
  <2> QED BY <1>2, <2>3
<1>4. /\ o \in Orders(D) /\ order \in Seq(D) /\ order[1] = Root /\ Len(order) >= 1
      /\ \A x, y \in DOMAIN order : order[x] = order[y] => x = y
      /\ \A x \in DOMAIN order : x <= m => InARow(kids, o, x)
  BY <1>3 DEF Numbered, Orders
<1>5. /\ IsFiniteSet(D) /\ Cardinality(D) = m
      /\ Len(order) \in Nat /\ DOMAIN order = 1 .. Len(order)
      /\ Cardinality(DOMAIN order) = Len(order) /\ order \in [DOMAIN order -> D]
  <2>1. IsFiniteSet(D) /\ Cardinality(D) = m
    BY <1>1, CardinalityUpTo
  <2>2. /\ Len(order) \in Nat /\ DOMAIN order = 1 .. Len(order)
        /\ order \in [DOMAIN order -> D]
    BY <1>4, SequenceOf
  <2>3. Cardinality(1 .. Len(order)) = Len(order)
    BY <2>2, CardinalityUpTo
  <2> QED BY <2>1, <2>2, <2>3
<1>6. order \in Injection(DOMAIN order, D)
  BY <1>4, <1>5 DEF Injection, IsInjective
<1>7. Len(order) <= m
  <2>1. Cardinality(DOMAIN order) <= Cardinality(D)
    BY <1>5, <1>6, FS_Injection
  <2> QED BY <1>5, <2>1
<1>8. \A x \in DOMAIN order : x \in Nat /\ InARow(kids, o, x)
  <2>1. \A x \in DOMAIN order : x \in Nat /\ x <= m
    BY <1>1, <1>5, <1>7, SMT
  <2> QED BY <1>4, <2>1
<1>9. \A k \in D : \E x \in DOMAIN order : order[x] = k
  <2> DEFINE There(k) == \E x \in DOMAIN order : order[x] = k
             have == {n \in 0 .. m : \A k \in 1 .. n : There(k)}
  <2>1. 0 \in have
    BY <1>1, SMT
  <2>2. ASSUME NEW n \in 0 .. m - 1, n \in have PROVE n + 1 \in have
    <3> DEFINE k == n + 1
    <3>1. k \in D /\ k \in 0 .. m /\ \A l \in 1 .. n + 1 : l = k \/ l \in 1 .. n
      BY <1>1, SMT
    <3>2. CASE k = Root
      <4>1. 1 \in DOMAIN order
        BY <1>4, <1>5, SMT
      <4>2. There(k)
        BY <1>4, <3>2, <4>1
      <4> HIDE DEF There
      <4> QED BY <2>2, <3>1, <4>2
    <3>3. CASE k # Root
      <4> DEFINE p == nodes[k].parent
                 f == o.first[p]
      <4>1. p \in 1 .. k - 1
        BY <1>1, <3>1, <3>3
      <4>2. p \in 1 .. n /\ p \in D
        BY <1>1, <4>1, SMT
      <4>3. There(p)
        BY <2>2, <4>2
      <4>4. PICK x \in DOMAIN order : order[x] = p
        BY <4>3
      <4> HIDE DEF k
      <4>5. PICK j \in DOMAIN kids[p] : kids[p][j] = k
        BY <3>1, <3>3, <4>2 DEF Grouped
      <4>6. /\ f \in Nat \ {0} /\ f + Len(kids[p]) <= Len(order) + 1
            /\ order[f + j - 1] = k
        <5>1. InARow(kids, o, x)
          BY <1>8
        <5> HIDE DEF p
        <5> QED BY <4>4, <4>5, <5>1 DEF InARow
      <4>7. kids[p] \in Seq(D)
        BY <1>1, <4>2
      <4>8. j \in Nat \ {0} /\ j <= Len(kids[p]) /\ Len(kids[p]) \in Nat
        <5> HIDE DEF p
        <5> QED BY <4>5, <4>7, SMT
      <4> HIDE DEF f, p
      <4>9. f + j - 1 \in DOMAIN order
        <5>1. /\ f \in Nat \ {0} /\ f + Len(kids[p]) <= Len(order) + 1
              /\ Len(order) \in Nat /\ DOMAIN order = 1 .. Len(order)
          BY <1>5, <4>6
        <5> HIDE DEF order
        <5>2. f + j - 1 \in 1 .. Len(order)
          BY <4>8, <5>1, SMT
        <5> QED BY <5>1, <5>2
      <4>10. There(k)
        BY <4>6, <4>9
      <4> HIDE DEF There
      <4> QED BY <2>2, <3>1, <4>10 DEF k
    <3> QED BY <3>2, <3>3
  <2>3. m \in have
    <3> HIDE DEF have, m
    <3>1. \A n \in 0 .. m : n \in have
      BY <1>1, <2>1, <2>2, UpTo
    <3> QED BY <1>1, <3>1, SMT
  <2> QED BY <1>1, <2>3
<1>10. Len(order) = m
  <2>1. order \in Surjection(DOMAIN order, D)
    BY <1>5, <1>9 DEF Surjection
  <2> QED BY <1>5, <1>6, <2>1, FS_Injection
<1> QED BY <1>4, <1>8, <1>9, <1>10 DEF Ordered, o

-----------------------------------------------------------------------------
(* The index that finish makes: the same nodes in another order.           *)

Renumbered(nodes, order, idx) ==
  /\ DOMAIN idx = DOMAIN nodes
  /\ order \in Bijection(DOMAIN nodes, DOMAIN nodes) /\ order[Root] = Root
  /\ \A i \in DOMAIN nodes :
       /\ idx[i].name = nodes[order[i]].name /\ idx[i].kind = nodes[order[i]].kind
       /\ idx[i].synthetic = nodes[order[i]].synthetic
       /\ idx[i].meta = nodes[order[i]].meta
       /\ idx[i].parent \in DOMAIN nodes
       /\ order[idx[i].parent] = nodes[order[i]].parent

(* finish: the index has the same nodes, under other numbers.              *)
LEMMA FinishedNodes ==
  ASSUME NEW nodes, Tree(nodes)
  PROVE  LET o == breadth_first_order(group_children(nodes))
         IN Renumbered(nodes, o.order, Finished(nodes))
<1> DEFINE D == DOMAIN nodes
           kids == group_children(nodes)
           bfs == breadth_first_order(kids)
           order == bfs.order
           final_of(t) == CHOOSE i \in DOMAIN order : order[i] = t
           rec(i) == LET t == order[i]
                     IN [name |-> nodes[t].name, kind |-> nodes[t].kind,
                         synthetic |-> nodes[t].synthetic, meta |-> nodes[t].meta,
                         parent |-> final_of(nodes[t].parent),
                         first_child |-> bfs.first[t], child_len |-> Len(kids[t]),
                         subdir_count |->
                           Cardinality({j \in DOMAIN kids[t] :
                                          nodes[kids[t][j]].kind = "Dir"})]
           idx == Finished(nodes)
<1>1. idx = [i \in DOMAIN order |-> rec(i)]
  BY DEF Finished
<1>2. ASSUME NEW i
      PROVE  /\ rec(i).name = nodes[order[i]].name /\ rec(i).kind = nodes[order[i]].kind
             /\ rec(i).synthetic = nodes[order[i]].synthetic
             /\ rec(i).meta = nodes[order[i]].meta
             /\ rec(i).parent = final_of(nodes[order[i]].parent)
  OBVIOUS
<1> HIDE DEF rec
<1>3. Ordered(nodes, kids, bfs)
  BY GroupsChildren, BreadthFirst
<1> HIDE DEF bfs, kids, idx
<1>4. /\ order \in Seq(D) /\ Len(order) = Len(nodes) /\ order[1] = Root
      /\ \A x, y \in DOMAIN order : order[x] = order[y] => x = y
      /\ \A k \in D : \E x \in DOMAIN order : order[x] = k
  BY <1>3 DEF Ordered, Orders
<1>5. DOMAIN order = D /\ order \in [D -> D]
  <2>1. D = 1 .. Len(nodes)
    BY TreeTypes
  <2>2. DOMAIN order = D
    BY <1>4, <2>1, SequenceOf
  <2>3. order \in [DOMAIN order -> D]
    BY <1>4, SequenceOf
  <2> QED BY <2>2, <2>3
<1>6. order \in Bijection(D, D)
  <2>1. order \in Injection(D, D)
    BY <1>4, <1>5 DEF Injection, IsInjective
  <2>2. order \in Surjection(D, D)
    BY <1>4, <1>5 DEF Surjection
  <2> QED BY <2>1, <2>2 DEF Bijection
<1>7. ASSUME NEW i \in D
      PROVE  /\ idx[i].name = nodes[order[i]].name /\ idx[i].kind = nodes[order[i]].kind
             /\ idx[i].synthetic = nodes[order[i]].synthetic
             /\ idx[i].meta = nodes[order[i]].meta
             /\ idx[i].parent \in D /\ order[idx[i].parent] = nodes[order[i]].parent
  <2>1. idx[i] = rec(i)
    BY <1>1, <1>5
  <2>2. order[i] \in D
    BY <1>5
  <2>3. nodes[order[i]].parent \in D
    <3>1. CASE order[i] = Root
      BY <2>2, <3>1 DEF Tree
    <3>2. CASE order[i] # Root
      BY <2>2, <3>2, TreeTypes
    <3> QED BY <3>1, <3>2
  <2>4. /\ final_of(nodes[order[i]].parent) \in D
        /\ order[final_of(nodes[order[i]].parent)] = nodes[order[i]].parent
    BY <1>4, <1>5, <2>3
  <2> HIDE DEF final_of
  <2> QED BY <1>2, <2>1, <2>4
<1>8. DOMAIN idx = D
  BY <1>1, <1>5
<1>9. order[Root] = Root
  BY <1>4 DEF Root
<1> QED BY <1>6, <1>7, <1>8, <1>9 DEF Renumbered, idx, bfs, kids

-----------------------------------------------------------------------------
(* Where the children of a node stand in the index.                        *)

Row(n) == n.first_child .. n.first_child + n.child_len - 1

Subs(idx, i) == {k \in DOMAIN idx \ {Root} : idx[k].parent = i /\ idx[k].kind = "Dir"}

(* Exactly its children do, in the order of their names.                   *)
LaidAt(idx, i) ==
  /\ idx[i].first_child \in Nat \ {0} /\ idx[i].child_len \in Nat
  /\ \A k : k \in Row(idx[i]) <=> k \in DOMAIN idx \ {Root} /\ idx[k].parent = i
  /\ \A j, k \in Row(idx[i]) : j < k => idx[j].name < idx[k].name
  /\ idx[i].subdir_count = Cardinality(Subs(idx, i))

Laid(idx) ==
  /\ \A i \in DOMAIN idx : LaidAt(idx, i)
  /\ \A k \in DOMAIN idx \ {Root} :
       /\ idx[k].name \in Names /\ idx[k].parent \in DOMAIN idx
       /\ idx[idx[k].parent].kind = "Dir"

(* What finish writes about the children.                                  *)
RowsOf(nodes, kids, bfs, idx) ==
  \A i \in DOMAIN bfs.order :
    LET t == bfs.order[i]
    IN /\ idx[i].first_child = bfs.first[t] /\ idx[i].child_len = Len(kids[t])
       /\ idx[i].subdir_count =
            Cardinality({j \in DOMAIN kids[t] : nodes[kids[t][j]].kind = "Dir"})

(* finish: the fields about children come from the breadth-first order.    *)
LEMMA FinishedRows ==
  ASSUME NEW nodes
  PROVE  LET kids == group_children(nodes)
         IN RowsOf(nodes, kids, breadth_first_order(kids), Finished(nodes))
<1> DEFINE kids == group_children(nodes)
           bfs == breadth_first_order(kids)
           order == bfs.order
           final_of(t) == CHOOSE i \in DOMAIN order : order[i] = t
           rec(i) == LET t == order[i]
                     IN [name |-> nodes[t].name, kind |-> nodes[t].kind,
                         synthetic |-> nodes[t].synthetic, meta |-> nodes[t].meta,
                         parent |-> final_of(nodes[t].parent),
                         first_child |-> bfs.first[t], child_len |-> Len(kids[t]),
                         subdir_count |->
                           Cardinality({j \in DOMAIN kids[t] :
                                          nodes[kids[t][j]].kind = "Dir"})]
           idx == Finished(nodes)
<1>1. idx = [i \in DOMAIN order |-> rec(i)]
  BY DEF Finished
<1>2. ASSUME NEW i
      PROVE  LET t == order[i]
             IN /\ rec(i).first_child = bfs.first[t] /\ rec(i).child_len = Len(kids[t])
                /\ rec(i).subdir_count =
                     Cardinality({j \in DOMAIN kids[t] : nodes[kids[t][j]].kind = "Dir"})
  OBVIOUS
<1> HIDE DEF rec
<1>3. \A i \in DOMAIN order : idx[i] = rec(i)
  BY <1>1
<1> HIDE DEF bfs, kids, idx
<1> QED BY <1>2, <1>3 DEF RowsOf, idx, bfs, kids

(* The children of a node are those in its row, one for each of its kids.  *)
RowAt(nodes, kids, bfs, idx, i) ==
  LET t == bfs.order[i]
      f == bfs.first[t]
      c == Len(kids[t])
  IN /\ f \in Nat \ {0} /\ c \in Nat /\ DOMAIN kids[t] = 1 .. c
     /\ \A j \in 1 .. c :
          f + j - 1 \in DOMAIN nodes /\ bfs.order[f + j - 1] = kids[t][j]
     /\ \A k : k \in DOMAIN nodes \ {Root} /\ idx[k].parent = i
                 <=> \E j \in 1 .. c : k = f + j - 1

(* A node's row holds its children and nothing else.                       *)
LEMMA RowHasKids ==
  ASSUME NEW nodes, Tree(nodes), NEW kids, Grouped(nodes, kids), NEW bfs,
         Ordered(nodes, kids, bfs), NEW idx, Renumbered(nodes, bfs.order, idx),
         NEW i \in DOMAIN nodes
  PROVE  RowAt(nodes, kids, bfs, idx, i)
<1> DEFINE D == DOMAIN nodes
           order == bfs.order
           t == order[i]
           f == bfs.first[t]
           c == Len(kids[t])
<1>1. /\ D = 1 .. Len(nodes) /\ Len(nodes) \in Nat
  BY TreeTypes
<1>2. /\ order \in [D -> D] /\ order[Root] = Root
      /\ \A x, y \in D : order[x] = order[y] => x = y
      /\ \A k \in D : idx[k].parent \in D /\ order[idx[k].parent] = nodes[order[k]].parent
  BY DEF Renumbered, Bijection, Injection, IsInjective
<1>3. Len(order) = Len(nodes) /\ DOMAIN order = D
  BY <1>2 DEF Ordered
<1>4. t \in D /\ kids[t] \in Seq(D)
  BY <1>2 DEF Grouped
<1>5. c \in Nat /\ DOMAIN kids[t] = 1 .. c
  <2> HIDE DEF t
  <2> QED BY <1>4, SequenceOf
<1>6. /\ \A j \in 1 .. c : kids[t][j] \in D \ {Root} /\ nodes[kids[t][j]].parent = t
      /\ \A x \in D \ {Root} : nodes[x].parent = t => \E j \in 1 .. c : kids[t][j] = x
  <2> HIDE DEF t, c
  <2>1. /\ \A j \in DOMAIN kids[t] :
             kids[t][j] \in D \ {Root} /\ nodes[kids[t][j]].parent = t
        /\ \A x \in D \ {Root} :
             nodes[x].parent = t => \E j \in DOMAIN kids[t] : kids[t][j] = x
    BY <1>4 DEF Grouped
  <2> QED BY <1>5, <2>1
<1>7. /\ f \in Nat \ {0} /\ f + c <= Len(nodes) + 1
      /\ \A j \in 1 .. c : order[f + j - 1] = kids[t][j]
  <2>1. InARow(kids, bfs, i)
    BY <1>3 DEF Ordered
  <2> QED BY <1>3, <1>5, <2>1 DEF InARow
<1> HIDE DEF c, f, D
<1>8. ASSUME NEW j \in 1 .. c PROVE f + j - 1 \in D
  BY <1>1, <1>5, <1>7, SMT
<1> HIDE DEF order, t
<1>9. ASSUME NEW k, k \in D \ {Root}, idx[k].parent = i
      PROVE  \E j \in 1 .. c : k = f + j - 1
  <2>1. order[k] # Root
    <3>1. Root \in D
      BY TreeTypes DEF D
    <3> QED BY <1>2, <1>9, <3>1
  <2>2. order[k] \in D /\ nodes[order[k]].parent = t
    BY <1>2, <1>9 DEF t
  <2>3. PICK j \in 1 .. c : kids[t][j] = order[k]
    BY <1>6, <2>1, <2>2
  <2>4. order[f + j - 1] = order[k] /\ f + j - 1 \in D
    BY <1>7, <1>8, <2>3
  <2> HIDE <1>6, <1>7, <1>8
  <2> QED BY <1>2, <1>9, <2>4
<1>10. ASSUME NEW j \in 1 .. c
       PROVE  f + j - 1 # Root /\ idx[f + j - 1].parent = i
  <2> DEFINE k == f + j - 1
  <2>1. k \in D /\ order[k] = kids[t][j]
    BY <1>7, <1>8
  <2> HIDE DEF k
  <2>2. order[k] # Root /\ nodes[order[k]].parent = t
    BY <1>6, <2>1
  <2>3. k # Root
    BY <1>2, <2>2
  <2>4. order[idx[k].parent] = order[i] /\ idx[k].parent \in D /\ i \in D
    BY <1>2, <2>1, <2>2 DEF t, D
  <2>5. idx[k].parent = i
    BY <1>2, <2>4
  <2> QED BY <2>3, <2>5 DEF k
<1>11. \A k : k \in D \ {Root} /\ idx[k].parent = i <=> \E j \in 1 .. c : k = f + j - 1
  BY <1>8, <1>9, <1>10
<1> QED BY <1>5, <1>7, <1>8, <1>11 DEF RowAt, D, order, t, f, c

(* finish: every row is right, sorted, and its directories counted.        *)
LEMMA FinishedLaid ==
  ASSUME NEW nodes, Tree(nodes)
  PROVE  Laid(Finished(nodes))
<1> DEFINE D == DOMAIN nodes
           kids == group_children(nodes)
           bfs == breadth_first_order(kids)
           order == bfs.order
           idx == Finished(nodes)
<1>1. /\ Grouped(nodes, kids) /\ Ordered(nodes, kids, bfs) /\ Renumbered(nodes, order, idx)
      /\ RowsOf(nodes, kids, bfs, idx)
  BY GroupsChildren, BreadthFirst, FinishedNodes, FinishedRows
<1> HIDE DEF kids, bfs, idx
<1>2. /\ order \in [D -> D] /\ order[Root] = Root /\ DOMAIN idx = D
      /\ \A x, y \in D : order[x] = order[y] => x = y
      /\ \A k \in D : /\ idx[k].name = nodes[order[k]].name
                      /\ idx[k].kind = nodes[order[k]].kind /\ idx[k].parent \in D
                      /\ order[idx[k].parent] = nodes[order[k]].parent
  BY <1>1 DEF Renumbered, Bijection, Injection, IsInjective
<1>3. Root \in D /\ DOMAIN order = D
  BY <1>2, TreeTypes
<1>4. ASSUME NEW i \in D PROVE LaidAt(idx, i)
  <2> DEFINE t == order[i]
             f == bfs.first[t]
             c == Len(kids[t])
             dirs == {j \in DOMAIN kids[t] : nodes[kids[t][j]].kind = "Dir"}
             s == [j \in dirs |-> f + j - 1]
  <2>1. /\ f \in Nat \ {0} /\ c \in Nat /\ DOMAIN kids[t] = 1 .. c
        /\ \A j \in 1 .. c : f + j - 1 \in D /\ order[f + j - 1] = kids[t][j]
        /\ \A k : k \in D \ {Root} /\ idx[k].parent = i <=> \E j \in 1 .. c : k = f + j - 1
    <3>1. RowAt(nodes, kids, bfs, idx, i)
      BY <1>1, RowHasKids
    <3> QED BY <3>1 DEF RowAt
  <2>2. /\ idx[i].first_child = f /\ idx[i].child_len = c
        /\ idx[i].subdir_count = Cardinality(dirs)
    BY <1>1, <1>3 DEF RowsOf
  <2>3. \A j, k \in 1 .. c : j < k => nodes[kids[t][j]].name < nodes[kids[t][k]].name
    <3>1. t \in D
      BY <1>2
    <3> HIDE DEF t, c
    <3>2. \A j, k \in DOMAIN kids[t] :
            j < k => nodes[kids[t][j]].name < nodes[kids[t][k]].name
      BY <1>1, <3>1 DEF Grouped
    <3> QED BY <2>1, <3>2
  <2> HIDE DEF t, f, c
  <2>4. \A k : k \in f .. f + c - 1 <=> \E j \in 1 .. c : k = f + j - 1
    <3>1. ASSUME NEW k, k \in f .. f + c - 1
          PROVE  k - f + 1 \in 1 .. c /\ k = f + (k - f + 1) - 1
      BY <2>1, <3>1, SMT
    <3>2. ASSUME NEW j \in 1 .. c PROVE f + j - 1 \in f .. f + c - 1
      BY <2>1, SMT
    <3> QED BY <3>1, <3>2
  <2>5. \A k : k \in Row(idx[i]) <=> \E j \in 1 .. c : k = f + j - 1
    BY <2>2, <2>4 DEF Row
  <2>6. ASSUME NEW j \in 1 .. c
        PROVE  /\ idx[f + j - 1].name = nodes[kids[t][j]].name
               /\ idx[f + j - 1].kind = nodes[kids[t][j]].kind
    <3> DEFINE k == f + j - 1
    <3>1. k \in D /\ order[k] = kids[t][j]
      BY <2>1
    <3> HIDE DEF k
    <3>2. idx[k].name = nodes[kids[t][j]].name /\ idx[k].kind = nodes[kids[t][j]].kind
      <4>1. idx[k].name = nodes[order[k]].name /\ idx[k].kind = nodes[order[k]].kind
        BY <1>2, <3>1
      <4> QED BY <3>1, <4>1
    <3> QED BY <3>2 DEF k
  <2>7. ASSUME NEW x \in Row(idx[i]), NEW y \in Row(idx[i]), x < y
        PROVE  idx[x].name < idx[y].name
    <3>1. PICK j \in 1 .. c : x = f + j - 1
      BY <2>5
    <3>2. PICK k \in 1 .. c : y = f + k - 1
      BY <2>5
    <3>3. j < k
      BY <2>1, <2>7, <3>1, <3>2, SMT
    <3> QED BY <2>3, <2>6, <3>1, <3>2, <3>3
  <2>8. Cardinality(dirs) = Cardinality(Subs(idx, i))
    <3> DEFINE T == Subs(idx, i)
    <3>1. \A j : j \in dirs <=> j \in 1 .. c /\ idx[f + j - 1].kind = "Dir"
      BY <2>1, <2>6
    <3>2. \A k : k \in T <=> (\E j \in 1 .. c : k = f + j - 1) /\ idx[k].kind = "Dir"
      BY <1>2, <2>1 DEF Subs
    <3>3. IsFiniteSet(dirs)
      <4>1. IsFiniteSet(1 .. c)
        BY <2>1, CardinalityUpTo
      <4>2. dirs \subseteq 1 .. c
        BY <3>1
      <4> HIDE DEF dirs
      <4> QED BY <4>1, <4>2, FS_Subset
    <3> HIDE DEF dirs, T
    <3>4. s \in [dirs -> T] /\ DOMAIN s = dirs /\ \A j \in dirs : s[j] = f + j - 1
      BY <3>1, <3>2
    <3> HIDE DEF s
    <3>5. ASSUME NEW j \in dirs, NEW k \in dirs, s[j] = s[k] PROVE j = k
      <4>1. j \in 1 .. c /\ k \in 1 .. c /\ f + j - 1 = f + k - 1
        BY <3>1, <3>4, <3>5
      <4> QED BY <2>1, <4>1, SMT
    <3>6. s \in Injection(dirs, T)
      BY <3>4, <3>5 DEF Injection, IsInjective
    <3>7. s \in Surjection(dirs, T)
      <4>1. ASSUME NEW k \in T PROVE \E j \in dirs : s[j] = k
        <5>1. PICK j \in 1 .. c : k = f + j - 1
          BY <3>2
        <5>2. j \in dirs
          BY <3>1, <3>2, <5>1
        <5> QED BY <3>4, <5>1, <5>2
      <4> QED BY <3>4, <4>1 DEF Surjection
    <3>8. s \in Bijection(dirs, T)
      BY <3>6, <3>7 DEF Bijection
    <3>9. ExistsBijection(dirs, T)
      BY <3>8 DEF ExistsBijection
    <3> QED BY <3>3, <3>9, FS_Bijection DEF T
  <2> HIDE DEF dirs
  <2>9. \A k : k \in Row(idx[i]) <=> k \in DOMAIN idx \ {Root} /\ idx[k].parent = i
    <3>1. \A k : k \in Row(idx[i]) <=> k \in D \ {Root} /\ idx[k].parent = i
      BY <2>1, <2>5
    <3>2. DOMAIN idx = D
      BY <1>2
    <3> QED BY <3>1, <3>2
  <2>10. /\ idx[i].first_child \in Nat \ {0} /\ idx[i].child_len \in Nat
         /\ idx[i].subdir_count = Cardinality(Subs(idx, i))
    BY <2>1, <2>2, <2>8
  <2> QED BY <2>7, <2>9, <2>10 DEF LaidAt
<1>5. ASSUME NEW k \in D \ {Root}
      PROVE  idx[k].name \in Names /\ idx[k].parent \in D /\ idx[idx[k].parent].kind = "Dir"
  <2>1. order[k] \in D \ {Root}
    BY <1>2, <1>3
  <2>2. nodes[order[k]].name \in Names /\ nodes[nodes[order[k]].parent].kind = "Dir"
    BY <2>1, TreeTypes
  <2>3. /\ idx[k].name \in Names /\ idx[k].parent \in D
        /\ nodes[order[idx[k].parent]].kind = "Dir"
    BY <1>2, <2>2
  <2> QED BY <1>2, <2>3
<1> QED BY <1>2, <1>4, <1>5 DEF Laid, idx

-----------------------------------------------------------------------------
(* lookup: the turns of the binary search.                                 *)

Narrow(name, s) ==
  LET mid == (s.lo + s.hi) \div 2
  IN IF s.found # None \/ s.lo >= s.hi THEN s
     ELSE IF index[mid].name = name THEN [s EXCEPT !.found = mid]
     ELSE IF index[mid].name < name THEN [s EXCEPT !.lo = mid + 1]
     ELSE [s EXCEPT !.hi = mid]

SearchStart(dir) ==
  [lo |-> dir.first_child, hi |-> dir.first_child + dir.child_len, found |-> None]

SearchAt(dir, name) ==
  CHOOSE after : after = [i \in 0 .. dir.child_len |->
    IF i = 0 THEN SearchStart(dir) ELSE Narrow(name, after[i - 1])]

Searches == [lo: Nat, hi: Nat, found: Nat]

(* A turn of the search stays within the row.                              *)
LEMMA NarrowStays ==
  ASSUME NEW s \in Searches, NEW name
  PROVE  LET mid == (s.lo + s.hi) \div 2
             new == Narrow(name, s)
         IN /\ new \in Searches
            /\ \/ new = s /\ (s.found # None \/ s.lo >= s.hi)
               \/ /\ s.found = None /\ s.lo < s.hi /\ mid \in s.lo .. s.hi - 1
                  /\ \/ /\ index[mid].name = name
                        /\ new.lo = s.lo /\ new.hi = s.hi /\ new.found = mid
                     \/ /\ index[mid].name < name
                        /\ new.lo = mid + 1 /\ new.hi = s.hi /\ new.found = None
                     \/ /\ index[mid].name # name /\ ~(index[mid].name < name)
                        /\ new.lo = s.lo /\ new.hi = mid /\ new.found = None
<1> DEFINE mid == (s.lo + s.hi) \div 2
           new == Narrow(name, s)
<1>1. s.lo \in Nat /\ s.hi \in Nat /\ s.found \in Nat
  BY DEF Searches
<1>2. mid \in Nat /\ mid + 1 \in Nat /\ (s.lo < s.hi => mid \in s.lo .. s.hi - 1)
  BY <1>1, SMT
<1>3. CASE s.found # None \/ s.lo >= s.hi
  <2>1. new = s
    BY <1>3 DEF Narrow
  <2> HIDE DEF new, mid
  <2> QED BY <1>3, <2>1 DEF new, mid
<1>4. CASE ~(s.found # None \/ s.lo >= s.hi)
  <2>1. s.found = None /\ s.lo < s.hi
    BY <1>1, <1>4, SMT
  <2> HIDE DEF mid
  <2>2. CASE index[mid].name = name
    <3>1. new = [s EXCEPT !.found = mid]
      BY <1>4, <2>2 DEF Narrow, mid
    <3> HIDE DEF new
    <3>2. new \in Searches /\ new.lo = s.lo /\ new.hi = s.hi /\ new.found = mid
      BY <1>2, <3>1 DEF Searches
    <3> QED BY <1>2, <2>1, <2>2, <3>2 DEF new, mid
  <2>3. CASE index[mid].name # name /\ index[mid].name < name
    <3>1. new = [s EXCEPT !.lo = mid + 1]
      BY <1>4, <2>3 DEF Narrow, mid
    <3> HIDE DEF new
    <3>2. new \in Searches /\ new.lo = mid + 1 /\ new.hi = s.hi /\ new.found = s.found
      BY <1>2, <3>1 DEF Searches
    <3> QED BY <1>2, <2>1, <2>3, <3>2 DEF new, mid
  <2>4. CASE index[mid].name # name /\ ~(index[mid].name < name)
    <3>1. new = [s EXCEPT !.hi = mid]
      BY <1>4, <2>4 DEF Narrow, mid
    <3> HIDE DEF new
    <3>2. new \in Searches /\ new.lo = s.lo /\ new.hi = mid /\ new.found = s.found
      BY <1>2, <3>1 DEF Searches
    <3> QED BY <1>2, <2>1, <2>4, <3>2 DEF new, mid
  <2> QED BY <2>2, <2>3, <2>4
<1> QED BY <1>3, <1>4

(* The search runs.                                                        *)
SearchRuns(dir, name, at) ==
  /\ at \in [0 .. dir.child_len -> Searches] /\ at[0] = SearchStart(dir)
  /\ \A i \in 1 .. dir.child_len : at[i] = Narrow(name, at[i - 1])

(* lookup is what is found after as many turns as the row is long.         *)
LEMMA SearchTurns ==
  ASSUME NEW dir, dir.first_child \in Nat, dir.child_len \in Nat, NEW name
  PROVE  SearchRuns(dir, name, SearchAt(dir, name))
<1> DEFINE m == dir.child_len
           S == Searches
           c == SearchStart(dir)
           step(g, i) == IF i = 0 THEN c ELSE Narrow(name, g[i - 1])
           turn == [i \in 1 .. m |-> [s \in S |-> Narrow(name, s)]]
           at == SearchAt(dir, name)
<1>1. c \in S
  <2>1. dir.first_child + dir.child_len \in Nat /\ None \in Nat
    BY SMT DEF None
  <2> QED BY <2>1 DEF SearchStart, Searches
<1>2. turn \in Turns(m, S)
  <2> HIDE DEF S, m
  <2>1. \A s \in S : Narrow(name, s) \in S
    BY NarrowStays DEF S
  <2> QED BY <2>1 DEF Turns
<1>3. \A i \in 1 .. m, s \in S : turn[i][s] = Narrow(name, s)
  OBVIOUS
<1> HIDE DEF turn, S, c, m
<1>4. m \in Nat
  BY DEF m
<1>5. PICK f : Runs(f, m, S, c, turn)
  BY <1>1, <1>2, <1>4, Loop
<1>6. f \in [0 .. m -> S] /\ f[0] = c /\ \A n \in 1 .. m : f[n] = turn[n][f[n - 1]]
  BY <1>5 DEF Runs
<1>7. ASSUME NEW n \in 0 .. m PROVE f[n] = step(f, n)
  <2>1. CASE n = 0
    BY <1>6, <2>1
  <2>2. CASE n # 0
    <3>1. n \in 1 .. m /\ n - 1 \in 0 .. m
      BY <1>4, <2>2, SMT
    <3> QED BY <1>3, <1>6, <2>2, <3>1
  <2> QED BY <2>1, <2>2
<1>8. at = [n \in 0 .. m |-> step(at, n)]
  <2>1. f = [n \in 0 .. m |-> step(f, n)]
    <3>1. f = [n \in 0 .. m |-> f[n]]
      BY <1>6
    <3> HIDE DEF step
    <3> QED BY <1>7, <3>1
  <2> QED BY <2>1 DEF SearchAt, m, c
<1> HIDE DEF at
<1>9. at[0] = c /\ \A n \in 1 .. m : at[n] = Narrow(name, at[n - 1])
  <2>1. 0 \in 0 .. m /\ \A n \in 1 .. m : n \in 0 .. m /\ n # 0
    BY <1>4, SMT
  <2> QED BY <1>8, <2>1
<1>10. \A n \in 0 .. m : at[n] = f[n]
  <2>1. Follows(at, m, S, c, turn)
    BY <1>3, <1>9 DEF Follows
  <2> QED BY <1>4, <1>5, <2>1, LoopOnce, SMT
<1>11. at \in [0 .. m -> S]
  <2>1. at = [n \in 0 .. m |-> at[n]]
    BY <1>8
  <2> QED BY <1>6, <1>10, <2>1
<1> QED BY <1>9, <1>11 DEF SearchRuns, at, S, c, m

(* After i turns: the name is found, or it can only be in what is left,    *)
(* which has got smaller by one for each turn.                             *)
Seeks(n, name, i, s) ==
  /\ s.found # None => s.found \in Row(n) /\ index[s.found].name = name
  /\ s.found = None =>
       /\ s.lo \in n.first_child .. s.hi /\ s.hi \in s.lo .. n.first_child + n.child_len
       /\ s.hi - s.lo <= n.child_len - i
       /\ \A k \in Row(n) : index[k].name = name => k \in s.lo .. s.hi - 1

(* A turn of the search loses no node with the name.                       *)
LEMMA NarrowsOn ==
  ASSUME NEW n, n.first_child \in Nat \ {0}, n.child_len \in Nat,
         \A k \in Row(n) : index[k].name \in Nat,
         \A j, k \in Row(n) : j < k => index[j].name < index[k].name,
         NEW name \in Nat, NEW i \in 1 .. n.child_len, NEW s \in Searches,
         Seeks(n, name, i - 1, s)
  PROVE  Seeks(n, name, i, Narrow(name, s))
<1> DEFINE f == n.first_child
           c == n.child_len
           mid == (s.lo + s.hi) \div 2
           new == Narrow(name, s)
<1>1. s.lo \in Nat /\ s.hi \in Nat /\ s.found \in Nat
  BY DEF Searches
<1>2. /\ f \in Nat \ {0} /\ c \in Nat /\ \A k : k \in Row(n) <=> k \in f .. f + c - 1
      /\ i \in 1 .. c
  BY DEF Row
<1>3. s.found = None =>
        /\ s.lo \in f .. s.hi /\ s.hi \in s.lo .. f + c /\ s.hi - s.lo <= c - (i - 1)
        /\ \A k \in Row(n) : index[k].name = name => k \in s.lo .. s.hi - 1
  BY DEF Seeks
<1>4. CASE new = s /\ (s.found # None \/ s.lo >= s.hi)
  <2>1. CASE s.found # None
    BY <1>4, <2>1 DEF Seeks
  <2>2. CASE s.found = None
    <3>1. s.hi - s.lo <= c - i
      BY <1>1, <1>2, <1>3, <1>4, <2>2, SMT
    <3> HIDE DEF new, f, c
    <3> QED BY <1>3, <1>4, <2>2, <3>1 DEF Seeks, f, c, new
  <2> QED BY <2>1, <2>2
<1> DEFINE Goes == s.found = None /\ s.lo < s.hi /\ mid \in s.lo .. s.hi - 1
<1>5. ASSUME Goes
      PROVE  mid \in Row(n) /\ mid \in Nat \ {0} /\ s.lo \in f .. s.hi
             /\ s.hi \in s.lo .. f + c /\ s.hi - s.lo <= c - i + 1
  <2> HIDE DEF mid, f, c
  <2> QED BY <1>1, <1>2, <1>3, <1>5, SMT
<1>6. CASE /\ Goes /\ index[mid].name = name
           /\ new.lo = s.lo /\ new.hi = s.hi /\ new.found = mid
  <2>1. mid # None
    BY <1>5, <1>6 DEF None
  <2> HIDE DEF mid, new
  <2> QED BY <1>5, <1>6, <2>1 DEF Seeks, new
<1>7. CASE /\ Goes /\ index[mid].name < name
           /\ new.lo = mid + 1 /\ new.hi = s.hi /\ new.found = None
  <2> HIDE DEF mid, new
  <2>1. /\ mid + 1 \in f .. s.hi /\ s.hi \in mid + 1 .. f + c
        /\ s.hi - (mid + 1) <= c - i
    <3> HIDE DEF f, c
    <3> QED BY <1>1, <1>2, <1>5, <1>7, SMT
  <2>2. ASSUME NEW k \in Row(n), index[k].name = name PROVE k \in mid + 1 .. s.hi - 1
    <3>1. k \in s.lo .. s.hi - 1
      BY <1>3, <1>7, <2>2
    <3>2. ~(k < mid) /\ k # mid
      <4>1. index[mid].name \in Nat /\ index[k].name \in Nat
        BY <1>5, <1>7
      <4>2. ~(index[k].name < index[mid].name) /\ index[k].name # index[mid].name
        BY <1>7, <2>2, <4>1, SMT
      <4> QED BY <1>5, <1>7, <4>2
    <3>3. s.lo \in Nat /\ s.hi \in Nat /\ mid \in Nat
      BY <1>1, <1>5, <1>7
    <3> QED BY <3>1, <3>2, <3>3, SMT
  <2> QED BY <1>7, <2>1, <2>2 DEF Seeks, f, c, new
<1>8. CASE /\ Goes /\ index[mid].name # name /\ ~(index[mid].name < name)
           /\ new.lo = s.lo /\ new.hi = mid /\ new.found = None
  <2> HIDE DEF mid, new
  <2>1. /\ s.lo \in f .. mid /\ mid \in s.lo .. f + c /\ mid - s.lo <= c - i
    <3> HIDE DEF f, c
    <3> QED BY <1>1, <1>2, <1>5, <1>8, SMT
  <2>2. ASSUME NEW k \in Row(n), index[k].name = name PROVE k \in s.lo .. mid - 1
    <3>1. k \in s.lo .. s.hi - 1
      BY <1>3, <1>8, <2>2
    <3>2. ~(mid < k) /\ k # mid
      BY <1>5, <1>8, <2>2
    <3>3. s.lo \in Nat /\ s.hi \in Nat /\ mid \in Nat
      BY <1>1, <1>5, <1>8
    <3> QED BY <3>1, <3>2, <3>3, SMT
  <2> QED BY <1>8, <2>1, <2>2 DEF Seeks, f, c, new
<1>9. \/ new = s /\ (s.found # None \/ s.lo >= s.hi)
      \/ /\ Goes
         /\ \/ /\ index[mid].name = name
               /\ new.lo = s.lo /\ new.hi = s.hi /\ new.found = mid
            \/ /\ index[mid].name < name
               /\ new.lo = mid + 1 /\ new.hi = s.hi /\ new.found = None
            \/ /\ index[mid].name # name /\ ~(index[mid].name < name)
               /\ new.lo = s.lo /\ new.hi = mid /\ new.found = None
  BY NarrowStays
<1> HIDE DEF new, mid, Goes
<1> QED BY <1>4, <1>6, <1>7, <1>8, <1>9 DEF new, mid, Goes

(* What lookup should give.                                                *)
Leads(i, name, k) ==
  \/ k \in DOMAIN index \ {Root} /\ index[k].parent = i /\ index[k].name = name
  \/ /\ k = None
     /\ \A j \in DOMAIN index \ {Root} : ~(index[j].parent = i /\ index[j].name = name)

(* lookup finds the child with that name, or none if there is none.        *)
LEMMA LookupRight ==
  ASSUME Laid(index), NEW i \in DOMAIN index, NEW name \in Names
  PROVE  Leads(i, name, lookup(i, name))
<1> DEFINE n == index[i]
           m == n.child_len
           at == SearchAt(n, name)
           right == {j \in 0 .. m : Seeks(n, name, j, at[j])}
<1>1. LaidAt(index, i)
  BY DEF Laid
<1>2. /\ n.first_child \in Nat \ {0} /\ m \in Nat
      /\ \A k : k \in Row(n) <=> k \in DOMAIN index \ {Root} /\ index[k].parent = i
      /\ \A j, k \in Row(n) : j < k => index[j].name < index[k].name
  BY <1>1 DEF LaidAt
<1>3. name \in Nat /\ \A k \in Row(n) : index[k].name \in Nat
  <2>1. \A c \in Names : c \in Nat
    BY BuildAssumption
  <2>2. \A k \in Row(n) : index[k].name \in Names
    BY <1>2 DEF Laid
  <2> QED BY <2>1, <2>2
<1>4. CASE n.kind # "Dir"
  <2>1. lookup(i, name) = None
    BY <1>4 DEF lookup
  <2>2. \A j \in DOMAIN index \ {Root} : index[j].parent # i
    BY <1>4 DEF Laid
  <2> QED BY <2>1, <2>2 DEF Leads
<1>5. CASE n.kind = "Dir"
  <2>1. lookup(i, name) = at[m].found
    BY <1>5 DEF lookup, SearchAt, SearchStart, Narrow
  <2> HIDE DEF n, at
  <2>2. SearchRuns(n, name, at)
    BY <1>2, SearchTurns DEF at
  <2>3. /\ at \in [0 .. m -> Searches] /\ at[0] = SearchStart(n)
        /\ \A j \in 1 .. m : at[j] = Narrow(name, at[j - 1])
    BY <2>2 DEF SearchRuns
  <2>4. 0 \in right
    <3> DEFINE f == n.first_child
    <3>1. at[0].lo = f /\ at[0].hi = f + m /\ at[0].found = None
      <4>1. /\ SearchStart(n).lo = f /\ SearchStart(n).hi = f + m
            /\ SearchStart(n).found = None
        BY DEF SearchStart
      <4> QED BY <2>3, <4>1
    <3>2. /\ at[0].lo \in f .. at[0].hi /\ at[0].hi \in at[0].lo .. f + m
          /\ at[0].hi - at[0].lo <= m - 0 /\ 0 \in 0 .. m
      <4> HIDE DEF f, m
      <4>1. f \in Nat /\ m \in Nat
        BY <1>2 DEF f, m
      <4> QED BY <3>1, <4>1, SMT
    <3>3. \A k \in Row(n) : k \in at[0].lo .. at[0].hi - 1
      <4>1. \A k \in Row(n) : k \in f .. f + m - 1
        BY DEF Row
      <4>2. at[0].lo .. at[0].hi - 1 = f .. f + m - 1
        <5> HIDE DEF f, m
        <5>1. f \in Nat /\ m \in Nat
          BY <1>2 DEF f, m
        <5> QED BY <3>1, <5>1, SMT
      <4> QED BY <4>1, <4>2
    <3>4. Seeks(n, name, 0, at[0])
      BY <3>1, <3>2, <3>3 DEF Seeks
    <3> QED BY <3>2, <3>4
  <2>5. ASSUME NEW j \in 0 .. m - 1, j \in right PROVE j + 1 \in right
    <3> DEFINE l == j + 1
    <3>1. l \in 1 .. m /\ l - 1 = j /\ l \in 0 .. m /\ j \in 0 .. m
      <4> HIDE DEF m
      <4> QED BY <1>2, SMT
    <3> HIDE DEF l
    <3>2. at[l - 1] \in Searches /\ Seeks(n, name, l - 1, at[l - 1])
      BY <2>3, <2>5, <3>1
    <3>3. Seeks(n, name, l, Narrow(name, at[l - 1]))
      BY <1>2, <1>3, <3>1, <3>2, NarrowsOn
    <3>4. at[l] = Narrow(name, at[l - 1])
      BY <2>3, <3>1
    <3> QED BY <3>1, <3>3, <3>4 DEF l
  <2>6. m \in right /\ m \in 0 .. m
    <3> HIDE DEF right, m
    <3>1. \A j \in 0 .. m : j \in right
      BY <1>2, <2>4, <2>5, UpTo
    <3> QED BY <1>2, <3>1, SMT
  <2>7. Seeks(n, name, m, at[m]) /\ at[m] \in Searches
    BY <2>3, <2>6
  <2>8. CASE at[m].found # None
    BY <1>2, <2>1, <2>7, <2>8 DEF Seeks, Leads, n
  <2>9. CASE at[m].found = None
    <3> DEFINE s == at[m]
    <3>1. /\ s.hi - s.lo <= m - m /\ s.lo \in Nat /\ s.hi \in Nat
          /\ \A k \in Row(n) : index[k].name = name => k \in s.lo .. s.hi - 1
      BY <2>7, <2>9 DEF Seeks, Searches
    <3> HIDE DEF s, m
    <3>2. \A k \in s.lo .. s.hi - 1 : FALSE
      BY <1>2, <3>1, SMT
    <3>3. \A k \in Row(n) : index[k].name # name
      BY <3>1, <3>2
    <3> QED BY <1>2, <2>1, <2>9, <3>3 DEF Leads, m
  <2> QED BY <2>8, <2>9
<1> QED BY <1>4, <1>5

-----------------------------------------------------------------------------
(* Where lookups, name by name, lead.                                      *)

(* An inode is that of the node with path p, or none as there is no node.  *)
Reaches(nodes, order, p, i) ==
  \/ i \in DOMAIN nodes /\ PathOf(nodes, order[i]) = p
  \/ i = None /\ \A t \in DOMAIN nodes : PathOf(nodes, t) # p

SameEnds(p, c, q, d) == p = q /\ c = d

(* A sequence that is not empty comes about in one way.                    *)
LEMMA AppendOnce ==
  ASSUME NEW p \in Seq(Names), NEW q \in Seq(Names), NEW c, NEW d,
         Append(p, c) = Append(q, d)
  PROVE  SameEnds(p, c, q, d)
<1>1. Len(p) = Len(q)
  BY SMT
<1>2. c = d /\ \A i \in 1 .. Len(p) : p[i] = q[i]
  BY <1>1, SMT
<1>3. p = q
  BY <1>1, <1>2, SMT
<1> QED BY <1>2, <1>3 DEF SameEnds

(* The node with one more name on its path.                                *)
IsDown(nodes, t, p, c) ==
  t # Root /\ PathOf(nodes, nodes[t].parent) = p /\ nodes[t].name = c

(* A path that is one name longer is that of a child.                      *)
LEMMA OneDown ==
  ASSUME NEW nodes, Tree(nodes), NEW t \in DOMAIN nodes, NEW p \in Seq(Names), NEW c,
         PathOf(nodes, t) = Append(p, c)
  PROVE  IsDown(nodes, t, p, c)
<1>1. Rooted(nodes)
  BY PathTurns
<1>2. t # Root
  <2>1. Append(p, c) # <<>>
    BY SMT
  <2> QED BY <1>1, <2>1 DEF Rooted
<1> DEFINE u == nodes[t].parent
<1>3. u \in DOMAIN nodes
  BY <1>2, TreeTypes
<1>4. /\ PathOf(nodes, t) = Append(PathOf(nodes, u), nodes[t].name)
      /\ PathOf(nodes, u) \in Seq(Names)
  BY <1>1, <1>2, <1>3 DEF Rooted
<1>5. Append(PathOf(nodes, u), nodes[t].name) = Append(p, c)
  BY <1>4
<1> HIDE DEF u
<1>6. SameEnds(PathOf(nodes, u), nodes[t].name, p, c)
  BY <1>4, <1>5, AppendOnce
<1> QED BY <1>2, <1>6 DEF u, SameEnds, IsDown

(* One lookup more goes one name further down.                             *)
LEMMA ReachesOn ==
  ASSUME NEW nodes, Tree(nodes), NEW order, Renumbered(nodes, order, index), Laid(index),
         NEW p \in Seq(Names), NEW c \in Names, NEW i, Reaches(nodes, order, p, i)
  PROVE  Reaches(nodes, order, Append(p, c), IF i = None THEN None ELSE lookup(i, c))
<1> DEFINE D == DOMAIN nodes
           q == Append(p, c)
<1>1. /\ order \in [D -> D] /\ order[Root] = Root /\ DOMAIN index = D
      /\ \A x, y \in D : order[x] = order[y] => x = y
      /\ \A t \in D : \E x \in D : order[x] = t
      /\ \A k \in D : /\ index[k].name = nodes[order[k]].name /\ index[k].parent \in D
                      /\ order[index[k].parent] = nodes[order[k]].parent
  BY DEF Renumbered, Bijection, Injection, Surjection, IsInjective
<1>2. Root \in D /\ None \notin D
  <2>1. Root \in D /\ D = 1 .. Len(nodes)
    BY TreeTypes
  <2>2. None \notin 1 .. Len(nodes)
    BY SMT DEF None
  <2> QED BY <2>1, <2>2
<1>3. CASE i = None
  <2>1. \A t \in D : PathOf(nodes, t) # p
    BY <1>2, <1>3 DEF Reaches
  <2>2. ASSUME NEW t \in D, PathOf(nodes, t) = q PROVE FALSE
    <3>1. t # Root /\ PathOf(nodes, nodes[t].parent) = p
      <4>1. IsDown(nodes, t, p, c)
        BY <2>2, OneDown
      <4> QED BY <4>1 DEF IsDown
    <3>2. nodes[t].parent \in D
      BY <3>1, TreeTypes
    <3> QED BY <2>1, <3>1, <3>2
  <2> QED BY <1>3, <2>2 DEF Reaches
<1>4. CASE i # None
  <2> DEFINE k == lookup(i, c)
  <2>1. i \in D /\ PathOf(nodes, order[i]) = p
    BY <1>4 DEF Reaches
  <2>2. Leads(i, c, k)
    BY <1>1, <2>1, LookupRight
  <2> HIDE DEF k
  <2>3. CASE k \in DOMAIN index \ {Root} /\ index[k].parent = i /\ index[k].name = c
    <3> DEFINE t == order[k]
    <3>1. k \in D /\ t \in D /\ nodes[t].name = c /\ nodes[t].parent = order[i]
      BY <1>1, <2>3
    <3>2. t # Root
      <4>1. order[k] = order[Root] => k = Root
        BY <1>1, <1>2, <3>1
      <4>2. order[Root] = Root /\ k # Root
        BY <1>1, <2>3
      <4> QED BY <4>1, <4>2
    <3> HIDE DEF t
    <3>3. PathOf(nodes, t) = Append(PathOf(nodes, nodes[t].parent), nodes[t].name)
      BY <3>1, <3>2, PathTurns DEF Rooted
    <3>4. PathOf(nodes, t) = q
      BY <2>1, <3>1, <3>3
    <3> QED BY <1>4, <3>1, <3>4 DEF Reaches, t, k
  <2>4. CASE /\ k = None
             /\ \A j \in DOMAIN index \ {Root} : ~(index[j].parent = i /\ index[j].name = c)
    <3>1. ASSUME NEW t \in D, PathOf(nodes, t) = q PROVE FALSE
      <4>1. t # Root /\ PathOf(nodes, nodes[t].parent) = p /\ nodes[t].name = c
        <5>1. IsDown(nodes, t, p, c)
          BY <3>1, OneDown
        <5> QED BY <5>1 DEF IsDown
      <4>2. nodes[t].parent \in D /\ order[i] \in D
        BY <1>1, <2>1, <4>1, TreeTypes
      <4>3. nodes[t].parent = order[i]
        BY <2>1, <4>1, <4>2, PathOnce
      <4>4. PICK j \in D : order[j] = t
        BY <1>1
      <4>5. j # Root /\ index[j].name = c
        BY <1>1, <4>1, <4>4
      <4>6. order[index[j].parent] = order[i] /\ index[j].parent \in D
        BY <1>1, <4>3, <4>4
      <4>7. index[j].parent = i
        BY <1>1, <2>1, <4>6
      <4> QED BY <1>1, <2>4, <4>5, <4>7
    <3> QED BY <1>4, <2>4, <3>1 DEF Reaches, k
  <2> QED BY <2>2, <2>3, <2>4 DEF Leads
<1> QED BY <1>3, <1>4

(* The turns of it.                                                        *)
Onward(i, c) == IF i = None THEN None ELSE lookup(i, c)

ResolveAt(p) ==
  CHOOSE ino : ino = [n \in 0 .. Len(p) |->
    IF n = 0 THEN Root ELSE Onward(ino[n - 1], p[n])]

ResolveRuns(p, at) ==
  /\ at[0] = Root /\ \A n \in 1 .. Len(p) : at[n] = Onward(at[n - 1], p[n])
  /\ Resolve(p) = at[Len(p)]

(* Resolve is one lookup after the other.                                  *)
LEMMA ResolveTurns ==
  ASSUME Laid(index), Root \in DOMAIN index, NEW p \in Seq(Names)
  PROVE  ResolveRuns(p, ResolveAt(p))
<1> DEFINE m == Len(p)
           S == DOMAIN index \cup {None}
           c == Root
           step(g, n) == IF n = 0 THEN c ELSE Onward(g[n - 1], p[n])
           turn == [n \in 1 .. m |-> [s \in S |-> Onward(s, p[n])]]
           at == ResolveAt(p)
<1>1. m \in Nat /\ \A n \in 1 .. m : p[n] \in Names
  BY SMT
<1>2. ASSUME NEW s \in S, NEW x \in Names PROVE Onward(s, x) \in S
  <2>1. CASE s = None
    BY <2>1 DEF Onward
  <2>2. CASE s # None
    <3>1. s \in DOMAIN index
      BY <2>2
    <3>2. Leads(s, x, lookup(s, x))
      BY <3>1, LookupRight
    <3> QED BY <2>2, <3>2 DEF Onward, Leads
  <2> QED BY <2>1, <2>2
<1>3. turn \in Turns(m, S) /\ c \in S
  <2> HIDE DEF S, m
  <2>1. turn \in Turns(m, S)
    BY <1>1, <1>2 DEF Turns
  <2> QED BY <2>1 DEF S
<1>4. \A n \in 1 .. m, s \in S : turn[n][s] = Onward(s, p[n])
  OBVIOUS
<1> HIDE DEF turn, S, c, m
<1>5. PICK f : Runs(f, m, S, c, turn)
  BY <1>1, <1>3, Loop
<1>6. f \in [0 .. m -> S] /\ f[0] = c /\ \A n \in 1 .. m : f[n] = turn[n][f[n - 1]]
  BY <1>5 DEF Runs
<1>7. ASSUME NEW n \in 0 .. m PROVE f[n] = step(f, n)
  <2>1. CASE n = 0
    BY <1>6, <2>1
  <2>2. CASE n # 0
    <3>1. n \in 1 .. m /\ n - 1 \in 0 .. m
      BY <1>1, <2>2, SMT
    <3> QED BY <1>4, <1>6, <2>2, <3>1
  <2> QED BY <2>1, <2>2
<1>8. at = [n \in 0 .. m |-> step(at, n)]
  <2>1. f = [n \in 0 .. m |-> step(f, n)]
    <3>1. f = [n \in 0 .. m |-> f[n]]
      BY <1>6
    <3> HIDE DEF step
    <3> QED BY <1>7, <3>1
  <2> QED BY <2>1 DEF ResolveAt, m, c
<1>9. Resolve(p) = at[m]
  BY DEF Resolve, ResolveAt, Onward, m
<1> HIDE DEF at
<1>10. at[0] = c /\ \A n \in 1 .. m : at[n] = Onward(at[n - 1], p[n])
  <2>1. 0 \in 0 .. m /\ \A n \in 1 .. m : n \in 0 .. m /\ n # 0
    BY <1>1, SMT
  <2> QED BY <1>8, <2>1
<1> QED BY <1>9, <1>10 DEF ResolveRuns, at, c, m

(* So lookups from the root find the node with a path, if there is one.    *)
LEMMA ResolveRight ==
  ASSUME NEW nodes, Tree(nodes), NEW order, Renumbered(nodes, order, index), Laid(index),
         NEW p \in Seq(Names)
  PROVE  Reaches(nodes, order, p, Resolve(p))
<1> DEFINE m == Len(p)
           at == ResolveAt(p)
           right == {n \in 0 .. m : Reaches(nodes, order, SubSeq(p, 1, n), at[n])}
<1>1. Root \in DOMAIN nodes /\ DOMAIN index = DOMAIN nodes /\ order[Root] = Root
  BY TreeTypes DEF Renumbered
<1>2. ResolveRuns(p, at)
  BY <1>1, ResolveTurns
<1> HIDE DEF at
<1>3. /\ at[0] = Root /\ \A n \in 1 .. m : at[n] = Onward(at[n - 1], p[n])
      /\ Resolve(p) = at[m]
  BY <1>2 DEF ResolveRuns
<1>4. m \in Nat /\ SubSeq(p, 1, 0) = <<>> /\ SubSeq(p, 1, m) = p
  BY SMT
<1>5. 0 \in right
  <2>1. PathOf(nodes, Root) = <<>>
    BY PathTurns DEF Rooted
  <2>2. Reaches(nodes, order, SubSeq(p, 1, 0), at[0])
    BY <1>1, <1>3, <1>4, <2>1 DEF Reaches
  <2>3. 0 \in 0 .. m
    BY <1>4, SMT
  <2> QED BY <2>2, <2>3
<1>6. ASSUME NEW n \in 0 .. m - 1, n \in right PROVE n + 1 \in right
  <2> DEFINE q == SubSeq(p, 1, n)
             l == n + 1
  <2>1. l \in 1 .. m /\ l - 1 = n /\ l \in 0 .. m
    BY <1>4, SMT
  <2>2. q \in Seq(Names) /\ p[l] \in Names /\ SubSeq(p, 1, l) = Append(q, p[l])
    BY <1>4, SMT
  <2>3. at[l] = IF at[n] = None THEN None ELSE lookup(at[n], p[l])
    BY <1>3, <2>1 DEF Onward
  <2> HIDE DEF q, l
  <2>4. Reaches(nodes, order, q, at[n])
    BY <1>6 DEF q
  <2>5. Reaches(nodes, order, Append(q, p[l]), at[l])
    BY <2>2, <2>3, <2>4, ReachesOn
  <2>6. Reaches(nodes, order, SubSeq(p, 1, l), at[l])
    BY <2>2, <2>5
  <2> QED BY <2>1, <2>6 DEF l
<1>7. m \in right
  <2> HIDE DEF right, m
  <2>1. \A n \in 0 .. m : n \in right
    BY <1>4, <1>5, <1>6, UpTo
  <2> QED BY <1>4, <2>1, SMT
<1> QED BY <1>3, <1>4, <1>7

-----------------------------------------------------------------------------
(* What a listing of a directory gives.                                    *)

(* A piece of a sequence.                                                  *)
Slice(s, f, c, t) ==
  DOMAIN t = 1 .. c /\ Len(t) = c /\ \A j \in 1 .. c : t[j] = s[f + j - 1]

(* What SubSeq gives.                                                      *)
LEMMA SliceOf ==
  ASSUME NEW X, NEW s \in Seq(X), NEW f \in Nat \ {0}, NEW c \in Nat,
         c = 0 \/ f + c - 1 <= Len(s)
  PROVE  SubSeq(s, f, f + c - 1) \in Seq(X) /\ Slice(s, f, c, SubSeq(s, f, f + c - 1))
<1>1. SubSeq(s, f, f + c - 1) \in Seq(X)
  BY SMT
<1>2. Slice(s, f, c, SubSeq(s, f, f + c - 1))
  BY SMT DEF Slice
<1> QED BY <1>1, <1>2

(* ".", ".." and the children in their row, each with the cursor after it. *)
Whole(dir) ==
  [i \in 1 .. index[dir].child_len + 2 |->
     IF i = 1 THEN Item(dir, 1, "Dir", Dot)
     ELSE IF i = 2 THEN Item(index[dir].parent, 2, "Dir", DotDot)
     ELSE LET k == index[dir].first_child + (i - 3)
          IN Item(k, i, index[k].kind, index[k].name)]

(* What comes after the first c of the n members of w.                     *)
After(w, n, c, s) ==
  /\ s \in Seq({w[i] : i \in 1 .. n}) /\ Len(s) = n - c
  /\ \A i \in 1 .. n - c : s[i] = w[c + i]

(* The children that come after the first a.                               *)
LEMMA RestListed ==
  ASSUME Laid(index), NEW X, index \in Seq(X), NEW dir \in DOMAIN index,
         index[dir].kind = "Dir", NEW a \in 0 .. index[dir].child_len
  PROVE  LET n == index[dir]
             rest == SubSeq(children(n), a + 1, n.child_len)
         IN /\ DOMAIN rest = 1 .. n.child_len - a
            /\ \A i \in 1 .. n.child_len - a : rest[i] = index[n.first_child + a + i - 1]
<1> DEFINE n == index[dir]
           f == n.first_child
           c == n.child_len
           kids == children(n)
           rest == SubSeq(kids, a + 1, c)
<1>1. f \in Nat \ {0} /\ c \in Nat /\ \A k \in Row(n) : k \in DOMAIN index
  BY DEF Laid, LaidAt
<1>2. kids = SubSeq(index, f, f + c - 1)
  BY DEF children
<1> HIDE DEF kids, f, c
<1>3. c = 0 \/ f + c - 1 <= Len(index)
  <2>1. c # 0 => f + c - 1 \in f .. f + c - 1
    BY <1>1, SMT
  <2>2. c # 0 => f + c - 1 \in DOMAIN index
    BY <1>1, <2>1 DEF Row, f, c
  <2> QED BY <1>1, <2>2, SMT
<1>4. kids \in Seq(X) /\ Slice(index, f, c, kids)
  BY <1>1, <1>2, <1>3, SliceOf
<1>5. a \in Nat /\ a <= c /\ c - a \in Nat /\ a + 1 \in Nat \ {0} /\ (a + 1) + (c - a) - 1 = c
      /\ Len(kids) = c
  BY <1>1, <1>4, SMT DEF Slice, c
<1>6. rest = SubSeq(kids, a + 1, (a + 1) + (c - a) - 1)
  BY <1>5
<1>7. Slice(kids, a + 1, c - a, rest)
  <2> DEFINE d == c - a
  <2>1. d = 0 \/ (a + 1) + d - 1 <= Len(kids)
    BY <1>5, SMT
  <2>2. Slice(kids, a + 1, d, SubSeq(kids, a + 1, (a + 1) + d - 1))
    <3>1. d \in Nat
      BY <1>5
    <3> HIDE DEF d
    <3> QED BY <1>4, <1>5, <2>1, <3>1, SliceOf
  <2> QED BY <1>6, <2>2
<1> HIDE DEF rest
<1>8. ASSUME NEW i \in 1 .. c - a PROVE rest[i] = index[f + a + i - 1]
  <2>1. /\ (a + 1) + i - 1 \in 1 .. c /\ f + ((a + 1) + i - 1) - 1 = f + a + i - 1
    BY <1>1, <1>5, SMT
  <2>2. rest[i] = kids[(a + 1) + i - 1]
    BY <1>7 DEF Slice
  <2>3. kids[(a + 1) + i - 1] = index[f + ((a + 1) + i - 1) - 1]
    BY <1>4, <2>1 DEF Slice
  <2> QED BY <2>1, <2>2, <2>3
<1> QED BY <1>7, <1>8 DEF Slice, rest, kids, f, c

(* What is joined to the front of a sequence comes first.                  *)
Led(x, t, s) == Len(s) = Len(t) + 1 /\ s[1] = x /\ \A i \in 1 .. Len(t) : s[i + 1] = t[i]

(* One or two members in front of a sequence.                              *)
LEMMA JoinedFront ==
  ASSUME NEW W, NEW x \in W, NEW y \in W, NEW t \in Seq(W)
  PROVE  /\ <<>> \o <<y>> \o t \in Seq(W) /\ Led(y, t, <<>> \o <<y>> \o t)
         /\ <<x>> \o <<y>> \o t \in Seq(W)
         /\ Led(x, <<>> \o <<y>> \o t, <<x>> \o <<y>> \o t)
<1>1. <<>> \o <<y>> \o t \in Seq(W) /\ <<x>> \o <<y>> \o t \in Seq(W)
  BY SMT
<1>2. Led(y, t, <<>> \o <<y>> \o t)
  BY SMT DEF Led
<1>3. Led(x, <<>> \o <<y>> \o t, <<x>> \o <<y>> \o t)
  BY SMT DEF Led
<1> QED BY <1>1, <1>2, <1>3

(* One or both of the dots, if the cursor is before them, and the rest.    *)
LEMMA DotsAndRest ==
  ASSUME NEW w, NEW n \in Nat, n >= 2, NEW c \in 0 .. n, NEW t,
         NEW a \in 0 .. n - 2, a = IF c > 2 THEN c - 2 ELSE 0,
         t \in Seq({w[i] : i \in 1 .. n}), Len(t) = n - 2 - a,
         \A i \in 1 .. n - 2 - a : t[i] = w[2 + a + i]
  PROVE  After(w, n, c, (IF c < 1 THEN <<w[1]>> ELSE <<>>)
                        \o (IF c < 2 THEN <<w[2]>> ELSE <<>>) \o t)
<1> DEFINE W == {w[i] : i \in 1 .. n}
<1>1. w[1] \in W /\ w[2] \in W
  BY SMT
<1>2. t \in Seq(W) /\ <<>> \in Seq(W)
  BY SMT
<1> HIDE DEF W
<1> DEFINE u == <<>> \o <<w[2]>> \o t
           s == <<w[1]>> \o <<w[2]>> \o t
<1>3. u \in Seq(W) /\ Led(w[2], t, u) /\ s \in Seq(W) /\ Led(w[1], u, s)
  BY <1>1, <1>2, JoinedFront
<1> HIDE DEF u, s
<1>4. a = 0 /\ c < 2 => /\ Len(t) = n - 2 /\ Len(u) = n - 1
                       /\ \A i \in 1 .. n - 1 : u[i] = w[i + 1]
  <2>1. SUFFICES ASSUME a = 0 /\ c < 2
                 PROVE  /\ Len(t) = n - 2 /\ Len(u) = n - 1
                        /\ \A i \in 1 .. n - 1 : u[i] = w[i + 1]
    OBVIOUS
  <2>2. Len(t) = n - 2 /\ Len(u) = n - 1
    BY <1>3, <2>1, SMT DEF Led
  <2>3. ASSUME NEW i \in 1 .. n - 1 PROVE u[i] = w[i + 1]
    <3>1. CASE i = 1
      <4>1. i + 1 = 2
        BY <3>1, SMT
      <4> QED BY <1>3, <3>1, <4>1 DEF Led
    <3>2. CASE i # 1
      <4>1. /\ i - 1 \in 1 .. n - 2 - a /\ i - 1 \in 1 .. Len(t) /\ (i - 1) + 1 = i
            /\ 2 + a + (i - 1) = i + 1
        BY <2>1, <2>2, <3>2, SMT
      <4>2. u[(i - 1) + 1] = t[i - 1] /\ t[i - 1] = w[2 + a + (i - 1)]
        BY <1>3, <4>1 DEF Led
      <4> QED BY <4>1, <4>2
    <3> QED BY <3>1, <3>2
  <2> QED BY <2>2, <2>3
<1>5. CASE c = 0
  <2>1. a = 0 /\ c < 2 /\ c < 1 /\ n - c = n
    BY <1>5, SMT
  <2>2. Len(u) = n - 1 /\ \A i \in 1 .. n - 1 : u[i] = w[i + 1]
    BY <1>4, <2>1
  <2>3. Len(s) = n - c
    BY <1>3, <2>1, <2>2, SMT DEF Led
  <2>4. ASSUME NEW i \in 1 .. n - c PROVE s[i] = w[c + i]
    <3>1. c + i = i
      BY <1>5, SMT
    <3>2. CASE i = 1
      BY <1>3, <3>1, <3>2 DEF Led
    <3>3. CASE i # 1
      <4>1. i - 1 \in 1 .. n - 1 /\ i - 1 \in 1 .. Len(u) /\ (i - 1) + 1 = i
        BY <2>1, <2>2, <3>3, SMT
      <4>2. s[(i - 1) + 1] = u[i - 1] /\ u[i - 1] = w[(i - 1) + 1]
        BY <1>3, <2>2, <4>1 DEF Led
      <4> QED BY <3>1, <4>1, <4>2
    <3> QED BY <3>2, <3>3
  <2>5. After(w, n, c, s)
    BY <1>3, <2>3, <2>4 DEF After, W
  <2> QED BY <2>1, <2>5 DEF s
<1>6. CASE c = 1
  <2>1. a = 0 /\ c < 2 /\ ~(c < 1) /\ n - c = n - 1
    BY <1>6, SMT
  <2>2. Len(u) = n - 1 /\ \A i \in 1 .. n - 1 : u[i] = w[i + 1]
    BY <1>4, <2>1
  <2>3. \A i \in 1 .. n - 1 : c + i = i + 1
    BY <1>6, SMT
  <2>4. After(w, n, c, u)
    BY <1>3, <2>1, <2>2, <2>3 DEF After, W
  <2> QED BY <2>1, <2>4 DEF u
<1>7. CASE c \in 2 .. n
  <2>1. <<>> \o <<>> \o t = t
    BY <1>2, SMT
  <2>2. ~(c < 1) /\ ~(c < 2) /\ n - 2 - a = n - c /\ 2 + a = c
    BY <1>7, SMT
  <2> QED BY <1>2, <2>1, <2>2 DEF After, W
<1>8. c = 0 \/ c = 1 \/ c \in 2 .. n
  BY SMT
<1> QED BY <1>5, <1>6, <1>7, <1>8

(* A reply begins where the last one ended.                                *)
LEMMA ListedRight ==
  ASSUME Laid(index), NEW X, index \in Seq(X), NEW dir \in DOMAIN index,
         index[dir].kind = "Dir", NEW c \in 0 .. index[dir].child_len + 2
  PROVE  After(Whole(dir), index[dir].child_len + 2, c, Listed(dir, c, <<"Dir", "Dir">>))
<1> DEFINE d == index[dir]
           m == d.child_len
           f == d.first_child
           w == Whole(dir)
           a == Start(c)
           rest == SubSeq(children(d), a + 1, m)
           at(i) == f + a + i - 1
           t == [i \in DOMAIN rest |-> Item(at(i), 2 + a + i, rest[i].kind, rest[i].name)]
           dots == <<"Dir", "Dir">>
<1>1. m \in Nat /\ f \in Nat
  BY DEF Laid, LaidAt
<1>2. a \in 0 .. m /\ a = IF c > 2 THEN c - 2 ELSE 0
  BY <1>1, SMT DEF Start
<1>3. /\ DOMAIN rest = 1 .. m - a
      /\ \A i \in 1 .. m - a : rest[i] = index[at(i)]
  <2> HIDE DEF a
  <2> QED BY <1>2, RestListed
<1> HIDE DEF rest, a
<1>4. w[1] = Item(dir, 1, "Dir", Dot) /\ w[2] = Item(d.parent, 2, "Dir", DotDot)
  <2>1. 1 \in 1 .. m + 2 /\ 2 \in 1 .. m + 2 /\ 2 # 1
    BY <1>1, SMT
  <2> QED BY <2>1 DEF Whole
<1>5. ASSUME NEW i \in 1 .. m - a PROVE t[i] = w[2 + a + i]
  <2>1. /\ 2 + a + i \in 1 .. m + 2 /\ 2 + a + i # 1 /\ 2 + a + i # 2
        /\ f + ((2 + a + i) - 3) = at(i)
    <3>1. f \in Nat /\ m \in Nat /\ a \in 0 .. m
      BY <1>1, <1>2
    <3> HIDE DEF m, f
    <3> QED BY <3>1, SMT
  <2> DEFINE k == f + ((2 + a + i) - 3)
  <2>2. w[2 + a + i] = Item(k, 2 + a + i, index[k].kind, index[k].name)
    BY <2>1 DEF Whole
  <2>3. t[i] = Item(at(i), 2 + a + i, index[at(i)].kind, index[at(i)].name)
    BY <1>3
  <2> HIDE DEF t, w, k, at
  <2> QED BY <2>1, <2>2, <2>3 DEF k
<1>6. t \in Seq({w[i] : i \in 1 .. m + 2}) /\ Len(t) = m - a
  <2> DEFINE W == {w[i] : i \in 1 .. m + 2}
  <2>1. DOMAIN t = 1 .. m - a /\ m - a \in Nat
    <3>1. DOMAIN t = 1 .. m - a
      BY <1>3
    <3>2. m \in Nat /\ a \in 0 .. m
      BY <1>1, <1>2
    <3> HIDE DEF m, t
    <3> QED BY <3>1, <3>2, SMT
  <2>2. ASSUME NEW i \in 1 .. m - a PROVE t[i] \in W
    <3>1. m \in Nat /\ a \in 0 .. m
      BY <1>1, <1>2
    <3>2. 2 + a + i \in 1 .. m + 2
      <4> HIDE DEF m
      <4> QED BY <3>1, SMT
    <3> HIDE DEF t, w
    <3> QED BY <1>5, <3>2
  <2>3. t = [i \in 1 .. m - a |-> t[i]]
    BY <2>1
  <2>4. t \in [1 .. m - a -> W]
    <3> HIDE DEF t, W
    <3> QED BY <2>2, <2>3
  <2> HIDE DEF t, W
  <2>5. t \in Seq(W) /\ Len(t) = m - a
    BY <2>1, <2>4, SMT
  <2> QED BY <2>1, <2>5 DEF W
<1>7. Listed(dir, c, dots) = (IF c < 1 THEN <<w[1]>> ELSE <<>>)
                             \o (IF c < 2 THEN <<w[2]>> ELSE <<>>) \o t
  <2>1. dots[1] = "Dir" /\ dots[2] = "Dir"
    BY SMT
  <2>2. Listed(dir, c, dots) = (IF c < 1 THEN <<Item(dir, 1, dots[1], Dot)>> ELSE <<>>)
                             \o (IF c < 2 THEN <<Item(d.parent, 2, dots[2], DotDot)>>
                                 ELSE <<>>) \o t
    BY DEF Listed, rest, a
  <2> HIDE DEF t, w, d, dots
  <2> QED BY <1>4, <2>1, <2>2
<1>8. m + 2 \in Nat /\ m + 2 >= 2 /\ (m + 2) - 2 = m /\ a \in 0 .. (m + 2) - 2
  BY <1>1, <1>2, SMT
<1> DEFINE n == m + 2
<1>9. n - 2 - a = m - a
  BY <1>1, <1>2, SMT
<1>10. c \in 0 .. n
  OBVIOUS
<1> HIDE DEF t, w
<1>11. After(w, n, c, (IF c < 1 THEN <<w[1]>> ELSE <<>>)
                      \o (IF c < 2 THEN <<w[2]>> ELSE <<>>) \o t)
  <2>1. t \in Seq({w[i] : i \in 1 .. n}) /\ Len(t) = n - 2 - a
    BY <1>6, <1>9
  <2>2. \A i \in 1 .. n - 2 - a : t[i] = w[2 + a + i]
    BY <1>5, <1>9
  <2>3. n \in Nat /\ n >= 2 /\ a \in 0 .. n - 2
    BY <1>8
  <2> HIDE DEF n
  <2> QED BY <1>2, <1>10, <2>1, <2>2, <2>3, DotsAndRest
<1> QED BY <1>7, <1>11 DEF w

(* Equality, as a predicate.                                               *)
Same(f, g) == f = g

(* Functions with the same values are the same.                            *)
LEMMA SameFunction ==
  ASSUME NEW D, NEW R, NEW f \in [D -> R], NEW g \in [D -> R], \A x \in D : f[x] = g[x]
  PROVE  Same(f, g)
BY SMT DEF Same

(* s has the n members of S in order.                                      *)
Climbs(s, n, S) ==
  /\ s \in [1 .. n -> S] /\ \A i, j \in 1 .. n : i < j => s[i] < s[j]
  /\ \A x \in S : \E i \in 1 .. n : s[i] = x

(* There is one way to sort a set of numbers.                              *)
LEMMA SortedOnce ==
  ASSUME NEW n \in Nat, NEW S, S \subseteq Nat, NEW s, Climbs(s, n, S),
         NEW t, Climbs(t, n, S)
  PROVE  s = t
<1> DEFINE bad == {i \in 1 .. n : s[i] # t[i]}
<1>1. SUFFICES ASSUME bad # {} PROVE FALSE
  <2>1. bad = {} => \A i \in 1 .. n : s[i] = t[i]
    OBVIOUS
  <2>2. s \in [1 .. n -> S] /\ t \in [1 .. n -> S]
    BY DEF Climbs
  <2>3. bad = {}
    BY <1>1
  <2>4. \A i \in 1 .. n : s[i] = t[i]
    BY <2>1, <2>3
  <2>5. Same(s, t)
    BY <2>2, <2>4, SameFunction
  <2> QED BY <2>5 DEF Same
<1>2. bad \subseteq Nat
  BY SMT
<1>3. PICK i \in bad : \A y \in bad : ~(y < i)
  BY <1>1, <1>2, LeastOf
<1>4. i \in 1 .. n /\ s[i] # t[i] /\ \A y \in 1 .. n : y < i => s[y] = t[y]
  BY <1>3
<1>5. s[i] \in S /\ t[i] \in S /\ s[i] \in Nat /\ t[i] \in Nat
  BY <1>4 DEF Climbs
<1>6. PICK j \in 1 .. n : t[j] = s[i]
  BY <1>5 DEF Climbs
<1>7. PICK k \in 1 .. n : s[k] = t[i]
  BY <1>5 DEF Climbs
<1>8. /\ j < i => s[j] < s[i]
      /\ i < j => t[i] < t[j]
      /\ k < i => t[k] < t[i]
      /\ i < k => s[i] < s[k]
  BY <1>4 DEF Climbs
<1>9. (j < i => s[j] = t[j]) /\ (k < i => s[k] = t[k])
  BY <1>4
<1>10. ~(j < i) /\ ~(k < i)
  BY <1>5, <1>6, <1>7, <1>8, <1>9, SMT
<1>11. j # i /\ k # i
  BY <1>4, <1>6, <1>7
<1>12. i < j /\ i < k
  BY <1>4, <1>10, <1>11, SMT
<1> QED BY <1>5, <1>6, <1>7, <1>8, <1>12, SMT

(* lookup gives back every node but the root.                              *)
LEMMA FoundAgain ==
  ASSUME Laid(index), NEW k \in DOMAIN index \ {Root}
  PROVE  lookup(index[k].parent, index[k].name) = k
<1> DEFINE i == index[k].parent
           x == lookup(i, index[k].name)
<1>1. i \in DOMAIN index /\ index[k].name \in Names
  BY DEF Laid
<1>2. Leads(i, index[k].name, x)
  <2> HIDE DEF i
  <2> QED BY <1>1, LookupRight
<1> HIDE DEF x
<1>3. x \in DOMAIN index \ {Root} /\ index[x].parent = i /\ index[x].name = index[k].name
  BY <1>2 DEF Leads
<1>4. /\ x \in Row(index[i]) /\ k \in Row(index[i])
      /\ \A j, l \in Row(index[i]) : j < l => index[j].name < index[l].name
      /\ index[i].first_child \in Nat \ {0} /\ index[i].child_len \in Nat
  BY <1>1, <1>3 DEF Laid, LaidAt
<1>5. /\ x < k => index[x].name < index[k].name
      /\ k < x => index[k].name < index[x].name
  BY <1>4
<1>6. index[k].name \in Nat
  BY <1>1, BuildAssumption
<1>7. x \in Int /\ k \in Int
  <2>1. /\ x \in Row(index[i]) /\ k \in Row(index[i])
        /\ index[i].first_child \in Nat /\ index[i].child_len \in Nat
    BY <1>4
  <2> HIDE DEF i
  <2> QED BY <2>1, SMT DEF Row
<1>8. x = k
  BY <1>3, <1>5, <1>6, <1>7, SMT
<1> QED BY <1>8 DEF x, i

(* The names that lookup finds in a directory, sorted, are those of its    *)
(* row; so its children are what lookup gives for them.                    *)
FoundNames(dir) == {c \in Names : lookup(dir, c) # None}

(* Sorting what lookup finds gives the row.                                *)
LEMMA RowNames ==
  ASSUME Laid(index), None \notin DOMAIN index, NEW dir \in DOMAIN index
  PROVE  LET w == Sorted(FoundNames(dir), [c \in Names |-> c])
             f == index[dir].first_child
             m == index[dir].child_len
         IN /\ DOMAIN w = 1 .. m
            /\ \A j \in 1 .. m : w[j] = index[f + j - 1].name
                                 /\ lookup(dir, w[j]) = f + j - 1
<1> DEFINE S == FoundNames(dir)
           id == [c \in Names |-> c]
           w == Sorted(S, id)
           f == index[dir].first_child
           m == index[dir].child_len
           s == [j \in 1 .. m |-> index[f + j - 1].name]
<1>1. LaidAt(index, dir)
  BY DEF Laid
<1>2. f \in Nat \ {0} /\ m \in Nat
  BY <1>1 DEF LaidAt
<1> HIDE DEF w, f, m
<1>3. ASSUME NEW j \in 1 .. m
      PROVE  /\ f + j - 1 \in DOMAIN index \ {Root} /\ f + j - 1 \in Row(index[dir])
             /\ index[f + j - 1].name \in Names
             /\ lookup(dir, index[f + j - 1].name) = f + j - 1
  <2> DEFINE k == f + j - 1
  <2>1. k \in f .. f + m - 1
    BY <1>2, SMT
  <2>2. k \in Row(index[dir])
    BY <2>1 DEF Row, f, m
  <2> HIDE DEF k
  <2>3. k \in DOMAIN index \ {Root} /\ index[k].parent = dir
    BY <1>1, <2>2 DEF LaidAt
  <2>4. index[k].name \in Names
    BY <2>3 DEF Laid
  <2>5. lookup(dir, index[k].name) = k
    BY <2>3, FoundAgain
  <2> QED BY <2>2, <2>3, <2>4, <2>5 DEF k
<1>4. s \in [1 .. m -> S]
  <2>1. ASSUME NEW j \in 1 .. m PROVE index[f + j - 1].name \in S
    BY <1>3 DEF FoundNames
  <2> QED BY <2>1
<1>5. \A j \in 1 .. m : s[j] = index[f + j - 1].name
  OBVIOUS
<1>6. \A x \in S : \E j \in 1 .. m : s[j] = x
  <2>1. SUFFICES ASSUME NEW x \in S PROVE \E j \in 1 .. m : s[j] = x
    OBVIOUS
  <2> DEFINE k == lookup(dir, x)
  <2>2. x \in Names /\ k # None
    BY <2>1 DEF FoundNames
  <2>3. Leads(dir, x, k)
    BY <2>2, LookupRight
  <2> HIDE DEF k
  <2>4. k \in DOMAIN index \ {Root} /\ index[k].parent = dir /\ index[k].name = x
    BY <2>2, <2>3 DEF Leads
  <2>5. k \in f .. f + m - 1
    BY <1>1, <2>4 DEF LaidAt, Row, f, m
  <2>6. k - f + 1 \in 1 .. m /\ f + (k - f + 1) - 1 = k
    BY <1>2, <2>5, SMT
  <2> HIDE DEF s
  <2> QED BY <1>5, <2>4, <2>6
<1> HIDE DEF s
<1>7. \A i, j \in 1 .. m : i < j => s[i] < s[j]
  <2>1. SUFFICES ASSUME NEW i \in 1 .. m, NEW j \in 1 .. m, i < j PROVE s[i] < s[j]
    OBVIOUS
  <2>2. f + i - 1 < f + j - 1
    BY <1>2, <2>1, SMT
  <2>3. index[f + i - 1].name < index[f + j - 1].name
    BY <1>1, <1>3, <2>2 DEF LaidAt
  <2> QED BY <1>5, <2>3
<1>8. Climbs(s, m, S)
  BY <1>4, <1>6, <1>7 DEF Climbs
<1>9. S \subseteq Nat
  BY BuildAssumption DEF FoundNames
<1> HIDE DEF S
<1>10. IsFiniteSet(S) /\ Cardinality(S) = m
  <2>1. IsFiniteSet(1 .. m) /\ Cardinality(1 .. m) = m
    BY <1>2, CardinalityUpTo
  <2>2. \A i, j \in 1 .. m : s[i] = s[j] => i = j
    <3>1. SUFFICES ASSUME NEW i \in 1 .. m, NEW j \in 1 .. m, s[i] = s[j] PROVE i = j
      OBVIOUS
    <3>2. s[i] \in Nat /\ (i < j => s[i] < s[j]) /\ (j < i => s[j] < s[i])
      BY <1>4, <1>7, <1>9
    <3> QED BY <3>1, <3>2, SMT
  <2>3. s \in Bijection(1 .. m, S)
    BY <1>4, <1>6, <2>2 DEF Bijection, Injection, Surjection, IsInjective
  <2>4. ExistsBijection(1 .. m, S)
    BY <2>3 DEF ExistsBijection
  <2> QED BY <2>1, <2>4, FS_Bijection
<1>11. \A x \in S : id[x] = x
  BY DEF S, FoundNames
<1>12. InOrder(S, id, w)
  <2>1. \A x \in S : id[x] \in Int
    BY <1>9, <1>11, SMT
  <2>2. \A x, y \in S : id[x] = id[y] => x = y
    BY <1>11
  <2> HIDE DEF id
  <2> QED BY <1>10, <2>1, <2>2, SortedRight DEF w
<1>13. Climbs(w, m, S)
  <2>1. w \in [1 .. m -> S]
    BY <1>10, <1>12 DEF InOrder
  <2>2. \A i, j \in 1 .. m : i < j => id[w[i]] < id[w[j]]
    BY <1>12, <2>1 DEF InOrder
  <2>3. \A i \in 1 .. m : id[w[i]] = w[i]
    BY <1>11, <2>1
  <2>4. \A i, j \in 1 .. m : i < j => w[i] < w[j]
    BY <2>2, <2>3
  <2>5. \A x \in S : \E i \in 1 .. m : w[i] = x
    BY <1>12, <2>1 DEF InOrder
  <2> QED BY <2>1, <2>4, <2>5 DEF Climbs
<1>14. w = s
  BY <1>2, <1>8, <1>9, <1>13, SortedOnce
<1>15. DOMAIN w = 1 .. m
  BY <1>4, <1>14
<1>16. \A j \in 1 .. m : w[j] = index[f + j - 1].name /\ lookup(dir, w[j]) = f + j - 1
  BY <1>3, <1>5, <1>14
<1> QED BY <1>15, <1>16 DEF w, S, f, m

(* So what a listing should give is what is in the directory's row.        *)
LEMMA WholeRight ==
  ASSUME Laid(index), None \notin DOMAIN index, NEW dir \in DOMAIN index
  PROVE  LET whole == Sorted(FoundNames(dir), [c \in Names |-> c])
         IN <<Item(dir, 1, "Dir", Dot), Item(index[dir].parent, 2, "Dir", DotDot)>>
              \o [i \in DOMAIN whole |->
                    Item(lookup(dir, whole[i]), 2 + i,
                         index[lookup(dir, whole[i])].kind, whole[i])]
            = Whole(dir)
<1> DEFINE f == index[dir].first_child
           m == index[dir].child_len
           whole == Sorted(FoundNames(dir), [c \in Names |-> c])
           t == [i \in DOMAIN whole |->
                   Item(lookup(dir, whole[i]), 2 + i,
                        index[lookup(dir, whole[i])].kind, whole[i])]
           w == Whole(dir)
           x == Item(dir, 1, "Dir", Dot)
           y == Item(index[dir].parent, 2, "Dir", DotDot)
           q == <<x, y>> \o t
           W == {w[i] : i \in 1 .. m + 2}
<1>1. f \in Nat \ {0} /\ m \in Nat
  BY DEF Laid, LaidAt
<1>2. /\ DOMAIN whole = 1 .. m
      /\ \A j \in 1 .. m : whole[j] = index[f + j - 1].name /\ lookup(dir, whole[j]) = f + j - 1
  BY RowNames
<1> HIDE DEF whole
<1>3. w = [i \in 1 .. m + 2 |-> w[i]] /\ DOMAIN w = 1 .. m + 2
  BY DEF Whole
<1>4. w[1] = x /\ w[2] = y
  <2>1. 1 \in 1 .. m + 2 /\ 2 \in 1 .. m + 2 /\ 2 # 1
    BY <1>1, SMT
  <2> QED BY <2>1 DEF Whole
<1>5. ASSUME NEW i \in 1 .. m PROVE t[i] = w[2 + i] /\ 2 + i \in 1 .. m + 2
  <2>1. /\ 2 + i \in 1 .. m + 2 /\ 2 + i # 1 /\ 2 + i # 2
        /\ f + ((2 + i) - 3) = f + i - 1
    BY <1>1, SMT
  <2> DEFINE k == f + ((2 + i) - 3)
             l == f + i - 1
  <2>2. w[2 + i] = Item(k, 2 + i, index[k].kind, index[k].name)
    BY <2>1 DEF Whole
  <2>3. t[i] = Item(l, 2 + i, index[l].kind, index[l].name)
    BY <1>2
  <2>4. k = l
    BY <2>1
  <2> HIDE DEF t, w, k, l
  <2> QED BY <2>1, <2>2, <2>3, <2>4
<1>6. DOMAIN t = 1 .. m /\ t = [i \in 1 .. m |-> t[i]]
  BY <1>2
<1> HIDE DEF t, w
<1>7. t \in [1 .. m -> W]
  <2>1. \A i \in 1 .. m : t[i] \in W
    BY <1>5
  <2> HIDE DEF W
  <2> QED BY <1>6, <2>1
<1>8. x \in W /\ y \in W
  <2>1. 1 \in 1 .. m + 2 /\ 2 \in 1 .. m + 2
    BY <1>1, SMT
  <2> HIDE DEF x, y
  <2> QED BY <1>4, <2>1
<1>9. w \in [1 .. m + 2 -> W]
  BY <1>3
<1> HIDE DEF W, x, y
<1>10. /\ q \in [1 .. m + 2 -> W] /\ q[1] = x /\ q[2] = y
       /\ \A i \in 1 .. m : q[2 + i] = t[i]
  <2>1. t \in Seq(W) /\ Len(t) = m
    BY <1>1, <1>7, SMT
  <2>2. <<x, y>> \in Seq(W) /\ Len(<<x, y>>) = 2 /\ <<x, y>>[1] = x /\ <<x, y>>[2] = y
        /\ 1 \in 1 .. 2 /\ 2 \in 1 .. 2
    BY <1>8, SMT
  <2>3. Joined(<<x, y>>, t, q)
    BY <2>1, <2>2, JoinedRight
  <2>4. q \in Seq(W) /\ Len(q) = m + 2
    BY <1>1, <2>1, <2>2, <2>3, SMT DEF Joined
  <2> HIDE DEF q
  <2>5. q \in [1 .. m + 2 -> W]
    BY <1>1, <2>4, SMT
  <2>6. DOMAIN <<x, y>> = 1 .. 2 /\ DOMAIN t = 1 .. m
    BY <1>6, SMT
  <2> QED BY <2>2, <2>3, <2>5, <2>6 DEF Joined
<1> HIDE DEF q
<1>11. ASSUME NEW i \in 1 .. m + 2 PROVE q[i] = w[i]
  <2>1. i = 1 \/ i = 2 \/ (i - 2 \in 1 .. m /\ 2 + (i - 2) = i)
    BY <1>1, SMT
  <2>2. CASE i = 1
    BY <1>4, <1>10, <2>2
  <2>3. CASE i = 2
    BY <1>4, <1>10, <2>3
  <2>4. CASE i - 2 \in 1 .. m /\ 2 + (i - 2) = i
    <3>1. q[2 + (i - 2)] = t[i - 2] /\ t[i - 2] = w[2 + (i - 2)]
      BY <1>5, <1>10, <2>4
    <3> QED BY <2>4, <3>1
  <2> QED BY <2>1, <2>2, <2>3, <2>4
<1>12. q = w
  <2> DEFINE n == m + 2
  <2>1. q \in [1 .. n -> W] /\ w \in [1 .. n -> W] /\ \A i \in 1 .. n : q[i] = w[i]
    BY <1>9, <1>10, <1>11
  <2> HIDE DEF n
  <2>2. Same(q, w)
    BY <2>1, SameFunction
  <2> QED BY <2>2 DEF Same
<1> QED BY <1>12 DEF q, w, t, whole, x, y

=============================================================================
