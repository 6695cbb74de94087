------------------------ MODULE IndexRecords_proofs -------------------------
(***************************************************************************)
(* Proofs about the builder in IndexBuild, for any names, records and      *)
(* limits: the tree says at any time what the records read so far say, and *)
(* the index that finish makes of it says the same.                        *)
(***************************************************************************)
EXTENDS IndexBuild_proofs

(* The prover of the steps that name no other.                             *)
USE Zenon

-----------------------------------------------------------------------------
(* What the records of an archive say.                                     *)

(* components loses no piece but the empty ones and the dots.              *)
LEMMA KeepsPieces ==
  ASSUME NEW P, NEW path \in Seq(P), NEW i \in 1 .. Len(path), path[i] \notin {Empty, Dot}
  PROVE  \E k \in DOMAIN components(path) : components(path)[k] = path[i]
<1> DEFINE m == Len(path)
           kept == Kept(path)
           has == {j \in 0 .. m : i <= j => \E k \in DOMAIN kept[j] : kept[j][k] = path[i]}
<1>1. /\ m \in Nat /\ kept \in [0 .. m -> Seq(P \ {Empty, Dot})]
      /\ components(path) = kept[m]
      /\ \A j \in 1 .. m : kept[j] = IF path[j] \in {Empty, Dot} THEN kept[j - 1]
                                     ELSE Append(kept[j - 1], path[j])
  <2>1. m \in Nat
    BY SMT
  <2> QED BY <2>1, KeptTurns
<1> HIDE DEF kept
<1>2. 0 \in has
  BY <1>1, SMT
<1>3. ASSUME NEW n \in 0 .. m - 1, n \in has PROVE n + 1 \in has
  <2>1. /\ n \in 0 .. m /\ n + 1 \in 1 .. m /\ n + 1 \in 0 .. m /\ (n + 1) - 1 = n
        /\ i <= n + 1 => i = n + 1 \/ i <= n
    BY <1>1, SMT
  <2> DEFINE old == kept[n]
             new == kept[n + 1]
  <2>2. /\ old \in Seq(P \ {Empty, Dot})
        /\ new = IF path[n + 1] \in {Empty, Dot} THEN old ELSE Append(old, path[n + 1])
    BY <1>1, <2>1
  <2>3. /\ \A k \in DOMAIN old : k \in DOMAIN Append(old, path[n + 1])
                                 /\ Append(old, path[n + 1])[k] = old[k]
        /\ Len(old) + 1 \in DOMAIN Append(old, path[n + 1])
        /\ Append(old, path[n + 1])[Len(old) + 1] = path[n + 1]
    BY <2>2, SMT
  <2>4. CASE i = n + 1
    BY <2>1, <2>2, <2>3, <2>4
  <2>5. CASE i <= n
    <3>1. PICK k \in DOMAIN old : old[k] = path[i]
      BY <1>3, <2>5
    <3>2. k \in DOMAIN new /\ new[k] = path[i]
      BY <2>2, <2>3, <3>1
    <3> QED BY <2>1, <3>2
  <2>6. CASE ~(i <= n + 1)
    BY <2>1, <2>6
  <2> QED BY <2>1, <2>4, <2>5, <2>6
<1>4. m \in has
  <2>1. m \in Nat /\ m \in 0 .. m
    BY <1>1, SMT
  <2> HIDE DEF has, m
  <2> QED BY <1>2, <1>3, <2>1, UpTo
<1>5. i <= m
  BY <1>1, SMT
<1> QED BY <1>1, <1>4, <1>5

(* The names on an accepted path are the components that the builder sees. *)
LEMMA MeaningIs ==
  ASSUME NEW e \in Records, Accepted(e)
  PROVE  Meaning(e) = normalize_path(e.pieces)
<1> DEFINE path == e.pieces
           m == Len(path)
           kept == Kept(path)
           step(g, i) == IF i = 0 THEN <<>>
                         ELSE IF path[i] \notin Names THEN g[i - 1]
                         ELSE Append(g[i - 1], path[i])
           Is(g) == g = [i \in 0 .. m |-> step(g, i)]
           named == CHOOSE g : Is(g)
           same == {i \in 0 .. m : named[i] = kept[i]}
<1>1. path \in Seq(Pieces) /\ Names \subseteq Nat \ {0}
  BY BuildAssumption
<1>2. /\ m \in Nat /\ kept \in [0 .. m -> Seq(Pieces \ {Empty, Dot})] /\ kept[0] = <<>>
      /\ components(path) = kept[m]
      /\ \A i \in 1 .. m : kept[i] = IF path[i] \in {Empty, Dot} THEN kept[i - 1]
                                     ELSE Append(kept[i - 1], path[i])
  <2>1. m \in Nat
    BY <1>1, SMT
  <2> QED BY <1>1, <2>1, KeptTurns
<1>3. ASSUME NEW i \in 1 .. m PROVE path[i] \notin Names <=> path[i] \in {Empty, Dot}
  <2>1. path[i] \in Pieces
    BY <1>1, EntryOf
  <2>2. Empty \notin Names /\ Dot \notin Names
    BY <1>1, SMT DEF Empty, Dot
  <2>3. path[i] \notin {Empty, Dot} => path[i] \notin {DotDot, Long}
    BY <1>1, KeepsPieces DEF Accepted, reject_reason
  <2> QED BY <2>1, <2>2, <2>3 DEF Pieces
<1> HIDE DEF kept
<1>4. ASSUME NEW i \in 1 .. m PROVE i \in 0 .. m /\ i # 0 /\ kept[i] = step(kept, i)
  <2>1. i \in 0 .. m /\ i # 0
    BY <1>2, SMT
  <2> QED BY <1>2, <1>3, <2>1
<1>5. Is(kept)
  <2>1. ASSUME NEW i \in 0 .. m PROVE kept[i] = step(kept, i)
    <3>1. i = 0 \/ i \in 1 .. m
      BY <1>2, SMT
    <3> QED BY <1>2, <1>4, <3>1
  <2>2. kept = [i \in 0 .. m |-> kept[i]]
    BY <1>2
  <2> QED BY <2>1, <2>2
<1>6. Is(named)
  BY <1>5
<1> HIDE DEF named
<1>7. 0 \in same
  <2>1. 0 \in 0 .. m
    BY <1>2, SMT
  <2> QED BY <1>2, <1>6, <2>1
<1>8. ASSUME NEW n \in 0 .. m - 1, n \in same PROVE n + 1 \in same
  <2>1. n + 1 \in 1 .. m /\ (n + 1) - 1 = n
    BY <1>2, SMT
  <2>2. n + 1 \in 0 .. m /\ n + 1 # 0 /\ kept[n + 1] = step(kept, n + 1)
    BY <1>4, <2>1
  <2>3. named[n + 1] = step(named, n + 1)
    BY <1>6, <2>2
  <2> QED BY <1>8, <2>1, <2>2, <2>3
<1>9. m \in same
  <2>1. m \in Nat /\ m \in 0 .. m
    BY <1>2, SMT
  <2> HIDE DEF same, m
  <2> QED BY <1>7, <1>8, <2>1, UpTo
<1> QED BY <1>2, <1>9 DEF Meaning, named, normalize_path

(* The least of a set of numbers, and no other.                            *)
LEMMA FirstOf ==
  ASSUME NEW S, S \subseteq Nat, S # {}
  PROVE  First(S) \in S /\ \A j \in S : First(S) <= j
<1>1. PICK x \in S : \A y \in S : ~(y < x)
  BY LeastOf
<1>2. \A y \in S : x <= y
  BY <1>1, SMT
<1> QED BY <1>2 DEF First

(* The first of a set is the one before all others.                        *)
LEMMA FirstIs ==
  ASSUME NEW S, S \subseteq Nat, NEW x \in S, \A j \in S : x <= j
  PROVE  First(S) = x
<1>1. First(S) \in Nat /\ x \in Nat /\ First(S) <= x /\ x <= First(S)
  BY FirstOf
<1> HIDE DEF First
<1> QED BY <1>1, SMT

(* The records with path p and those below it, as At and Below give them,  *)
(* of any sequence of records.                                             *)
Here(recs, p) == {i \in DOMAIN recs : Meaning(recs[i]) = p /\ Accepted(recs[i])}

Over(p, q) == Len(p) < Len(q) /\ Begins(p, q)

Under(recs, p) ==
  {i \in DOMAIN recs : Over(p, Meaning(recs[i])) /\ Accepted(recs[i])}

Files(recs, p) == {i \in Here(recs, p) : ~is_dir(recs[i])}

(* The owners of a path that has the records A, of which F are files, with *)
(* the records U below it.                                                 *)
Won(A, F, U) ==
  IF U # {} THEN {i \in A \ F : ~\E k \in F : k < i /\ \A d \in U : i < d} ELSE A

(* What one more record changes in these sets.                             *)
Arrives(recs, e, more) ==
  LET n == Len(recs) + 1
  IN /\ more[n] = e /\ n \in DOMAIN more /\ n \in Nat /\ n \notin DOMAIN recs
     /\ \A i \in DOMAIN recs : i \in Nat /\ i < n /\ more[i] = recs[i]
     /\ \A p : /\ Here(recs, p) \subseteq DOMAIN recs
               /\ Under(recs, p) \subseteq DOMAIN recs
               /\ Files(recs, p) \subseteq Here(recs, p)
     /\ \A p : Here(more, p) = IF Accepted(e) /\ Meaning(e) = p
                               THEN Here(recs, p) \cup {n} ELSE Here(recs, p)
     /\ \A p : Under(more, p) = IF Accepted(e) /\ Over(p, Meaning(e))
                                THEN Under(recs, p) \cup {n} ELSE Under(recs, p)
     /\ \A p : Files(more, p) = IF Accepted(e) /\ Meaning(e) = p /\ ~is_dir(e)
                                THEN Files(recs, p) \cup {n} ELSE Files(recs, p)

(* What one record more changes in the sets.                               *)
LEMMA RecordArrives ==
  ASSUME NEW recs \in Seq(Records), NEW e \in Records
  PROVE  Arrives(recs, e, Append(recs, e))
<1> DEFINE n == Len(recs) + 1
           more == Append(recs, e)
<1>1. /\ more[n] = e /\ n \in DOMAIN more /\ n \in Nat /\ n \notin DOMAIN recs
      /\ DOMAIN more = DOMAIN recs \cup {n}
      /\ \A i \in DOMAIN recs : i \in Nat /\ i < n /\ more[i] = recs[i]
  BY SMT
<1> HIDE DEF n, more
<1>2. ASSUME NEW p
      PROVE  /\ Here(recs, p) \subseteq DOMAIN recs /\ Under(recs, p) \subseteq DOMAIN recs
             /\ Files(recs, p) \subseteq Here(recs, p)
             /\ Here(more, p) = IF Accepted(e) /\ Meaning(e) = p
                                THEN Here(recs, p) \cup {n} ELSE Here(recs, p)
             /\ Under(more, p) = IF Accepted(e) /\ Over(p, Meaning(e))
                                 THEN Under(recs, p) \cup {n} ELSE Under(recs, p)
             /\ Files(more, p) = IF Accepted(e) /\ Meaning(e) = p /\ ~is_dir(e)
                                 THEN Files(recs, p) \cup {n} ELSE Files(recs, p)
  <2>1. Here(recs, p) \subseteq DOMAIN recs /\ Under(recs, p) \subseteq DOMAIN recs
        /\ Files(recs, p) \subseteq Here(recs, p)
    BY DEF Here, Under, Files
  <2>2. \A i : i \in Here(more, p) <=>
                 \/ i \in Here(recs, p)
                 \/ i = n /\ Accepted(e) /\ Meaning(e) = p
    BY <1>1 DEF Here
  <2>3. \A i : i \in Under(more, p) <=>
                 \/ i \in Under(recs, p)
                 \/ i = n /\ Accepted(e) /\ Over(p, Meaning(e))
    BY <1>1 DEF Under
  <2>4. \A i : i \in Files(more, p) <=>
                 \/ i \in Files(recs, p)
                 \/ i = n /\ Accepted(e) /\ Meaning(e) = p /\ ~is_dir(e)
    BY <1>1, <2>1, <2>2 DEF Files
  <2> QED BY <2>1, <2>2, <2>3, <2>4
<1> QED BY <1>1, <1>2 DEF Arrives, n, more

(* A record n arrives below the path.  If it is the first, a file loses    *)
(* the path and a directory keeps it.                                      *)
ComesBelow(n, A, F, U) ==
  LET W == Won(A, F, U \cup {n})
  IN /\ U # {} => W = Won(A, F, U)
     /\ U = {} /\ A = {} => W = {}
     /\ U = {} /\ A # {} /\ First(A) \in F => W = {}
     /\ U = {} /\ A # {} /\ First(A) \notin F => W # {} /\ First(W) = First(A)

(* Who wins a path that the new record lies below.                         *)
LEMMA WonBelow ==
  ASSUME NEW n \in Nat, NEW A, NEW F, NEW U, F \subseteq A,
         \A i \in A \cup U : i \in Nat /\ i < n
  PROVE  ComesBelow(n, A, F, U)
<1> DEFINE V == U \cup {n}
           W == Won(A, F, V)
<1>1. W = {i \in A \ F : ~\E k \in F : k < i /\ \A d \in V : i < d}
  BY DEF Won
<1>2. \A i \in A : (\A d \in V : i < d) <=> (\A d \in U : i < d)
  OBVIOUS
<1>3. CASE U # {}
  <2>1. Won(A, F, U) = {i \in A \ F : ~\E k \in F : k < i /\ \A d \in U : i < d}
    BY <1>3 DEF Won
  <2> QED BY <1>1, <1>2, <1>3, <2>1 DEF ComesBelow
<1>4. CASE U = {} /\ A # {}
  <2> DEFINE x == First(A)
  <2>1. A \subseteq Nat
    OBVIOUS
  <2>2. x \in A /\ \A j \in A : x <= j
    BY <1>4, <2>1, FirstOf
  <2> HIDE DEF x
  <2>3. \A j \in A : x = j \/ x < j
    BY <2>1, <2>2, SMT
  <2>4. \A k \in A : ~(k < x)
    BY <2>1, <2>2, SMT
  <2>5. CASE x \in F
    <3>1. W = {}
      BY <1>1, <1>2, <1>4, <2>2, <2>3, <2>5
    <3> QED BY <1>4, <2>5, <3>1 DEF x, ComesBelow
  <2>6. CASE x \notin F
    <3>1. x \in W /\ W \subseteq A
      BY <1>1, <2>2, <2>4, <2>6
    <3>2. First(W) = x
      BY <2>1, <2>2, <3>1, FirstIs
    <3> QED BY <1>4, <2>6, <3>1, <3>2 DEF x, ComesBelow
  <2> QED BY <2>5, <2>6
<1>5. CASE U = {} /\ A = {}
  BY <1>1, <1>5 DEF ComesBelow
<1> QED BY <1>3, <1>4, <1>5

(* A record n arrives at the path: below it there was something already or *)
(* not, and it is a file or a directory.                                   *)
ComesAt(n, A, F, U) ==
  /\ U = {} => \A G : Won(A \cup {n}, G, U) = A \cup {n}
  /\ U # {} => Won(A \cup {n}, F \cup {n}, U) = Won(A, F, U)
  /\ U # {} => Won(A \cup {n}, F, U) = Won(A, F, U) \cup {n}
  /\ Won(A, F, U) \subseteq A

(* Who wins the path of the new record.                                    *)
LEMMA WonAt ==
  ASSUME NEW n \in Nat, NEW A, NEW F, NEW U, F \subseteq A,
         \A i \in A \cup U : i \in Nat /\ i < n
  PROVE  ComesAt(n, A, F, U)
<1>1. Won(A, F, U) \subseteq A /\ (U = {} => \A G : Won(A \cup {n}, G, U) = A \cup {n})
  BY DEF Won
<1>2. ASSUME U # {} PROVE Won(A \cup {n}, F \cup {n}, U) = Won(A, F, U)
  <2>1. n \notin A /\ \A i \in A : ~(n < i)
    BY SMT
  <2> QED BY <1>2, <2>1 DEF Won
<1>3. ASSUME U # {} PROVE Won(A \cup {n}, F, U) = Won(A, F, U) \cup {n}
  <2>1. n \notin A /\ \A d \in U : ~(n < d)
    BY SMT
  <2> QED BY <1>3, <2>1 DEF Won
<1> QED BY <1>1, <1>2, <1>3 DEF ComesAt

(* A later record is not the first.                                        *)
LEMMA FirstStays ==
  ASSUME NEW n \in Nat, NEW S, S # {}, \A i \in S : i \in Nat /\ i < n
  PROVE  First(S \cup {n}) = First(S) /\ First(S) \in S
<1>1. First(S) \in S /\ \A j \in S : First(S) <= j
  BY FirstOf
<1>2. First(S) \in Nat /\ First(S) < n
  BY <1>1
<1>3. \A j \in S \cup {n} : First(S) <= j
  BY <1>1, <1>2, SMT
<1>4. S \cup {n} \subseteq Nat
  OBVIOUS
<1> QED BY <1>1, <1>3, <1>4, FirstIs

(* The node that a path should have: something was found there or below;   *)
(* it is a directory if something is below, and else what the first record *)
(* is; and it shows its owner, or is synthetic.                            *)
Owners(recs, p) == Won(Here(recs, p), Files(recs, p), Under(recs, p))

Fits(recs, metas, p, node) ==
  /\ Here(recs, p) \cup Under(recs, p) # {}
  /\ node.kind = IF Under(recs, p) # {} THEN "Dir" ELSE Kind(recs[First(Here(recs, p))])
  /\ IF Owners(recs, p) = {} THEN node.synthetic = TRUE /\ node.meta = None
     ELSE /\ node.synthetic = FALSE /\ node.meta \in DOMAIN metas
          /\ metas[node.meta].record = First(Owners(recs, p))

(* Metas are only added.                                                   *)
MetasKept(old, new) == \A m \in DOMAIN old : m \in DOMAIN new /\ new[m] = old[m]

(* A record is of a directory or not, as its kind says.                    *)
LEMMA KindIsDir ==
  ASSUME NEW e
  PROVE  (Kind(e) = "Dir") <=> is_dir(e)
<1>1. "Symlink" # "Dir" /\ "File" # "Dir"
  OBVIOUS
<1> QED BY <1>1 DEF Kind

(* A record that has nothing to do with the path.                          *)
LEMMA FitsElsewhere ==
  ASSUME NEW recs, NEW e, NEW more, Arrives(recs, e, more), NEW p,
         ~(Accepted(e) /\ (Meaning(e) = p \/ Over(p, Meaning(e)))),
         NEW metas, NEW new, MetasKept(metas, new), NEW node, Fits(recs, metas, p, node)
  PROVE  Fits(more, new, p, node)
<1> DEFINE A == Here(recs, p)
<1>1. /\ Here(more, p) = A /\ Under(more, p) = Under(recs, p)
      /\ Files(more, p) = Files(recs, p) /\ A \subseteq DOMAIN recs
      /\ \A i \in DOMAIN recs : i \in Nat /\ more[i] = recs[i]
  BY DEF Arrives
<1>2. Owners(more, p) = Owners(recs, p)
  BY <1>1 DEF Owners
<1>3. A # {} => more[First(A)] = recs[First(A)]
  BY <1>1, FirstOf
<1>4. Under(recs, p) = {} => A # {}
  BY DEF Fits
<1> QED BY <1>1, <1>2, <1>3, <1>4 DEF Fits, MetasKept

(* A record below the path, where the node is a directory already.         *)
LEMMA FitsAbove ==
  ASSUME NEW recs, NEW e, NEW more, Arrives(recs, e, more), NEW p,
         Accepted(e), Meaning(e) # p, Over(p, Meaning(e)),
         NEW metas, NEW new, MetasKept(metas, new), NEW node,
         Fits(recs, metas, p, node), node.kind = "Dir"
  PROVE  Fits(more, new, p, node)
<1> DEFINE n == Len(recs) + 1
           A == Here(recs, p)
           F == Files(recs, p)
           U == Under(recs, p)
<1>1. /\ Here(more, p) = A /\ Under(more, p) = U \cup {n} /\ Files(more, p) = F
      /\ n \in Nat /\ F \subseteq A /\ \A i \in A \cup U : i \in Nat /\ i < n
  BY DEF Arrives
<1>2. Owners(more, p) = Won(A, F, U \cup {n}) /\ Owners(recs, p) = Won(A, F, U)
  BY <1>1 DEF Owners
<1>3. /\ A \cup U # {} /\ node.kind = IF U # {} THEN "Dir" ELSE Kind(recs[First(A)])
      /\ IF Won(A, F, U) = {} THEN node.synthetic = TRUE /\ node.meta = None
         ELSE /\ node.synthetic = FALSE /\ node.meta \in DOMAIN metas
              /\ metas[node.meta].record = First(Won(A, F, U))
  BY <1>2 DEF Fits
<1> DEFINE V == Won(A, F, U)
           W == Won(A, F, U \cup {n})
<1>4. /\ U # {} => W = V
      /\ U = {} /\ A # {} /\ First(A) \notin F => W # {} /\ First(W) = First(A)
  <2>1. ComesBelow(n, A, F, U)
    BY <1>1, WonBelow
  <2> HIDE DEF n, A, F, U
  <2> QED BY <2>1 DEF ComesBelow
<1>5. U = {} => V = A /\ A # {} /\ First(A) \notin F
  <2>1. SUFFICES ASSUME U = {} PROVE V = A /\ A # {} /\ First(A) \notin F
    OBVIOUS
  <2>2. V = A /\ A # {} /\ Kind(recs[First(A)]) = "Dir"
    BY <1>3, <2>1 DEF Won
  <2> QED BY <2>2, KindIsDir DEF Files
<1> HIDE DEF V, W
<1>6. (W = {} <=> V = {}) /\ (W # {} => First(W) = First(V))
  BY <1>4, <1>5
<1>7. /\ Owners(more, p) = W /\ Under(more, p) # {}
      /\ IF V = {} THEN node.synthetic = TRUE /\ node.meta = None
         ELSE /\ node.synthetic = FALSE /\ node.meta \in DOMAIN metas
              /\ metas[node.meta].record = First(V)
  BY <1>1, <1>2, <1>3 DEF V, W
<1> QED BY <1>6, <1>7 DEF Fits, MetasKept

(* A record below the path, where there was no node, or a file's: now it   *)
(* is a synthetic directory.                                               *)
LEMMA FitsTakenOver ==
  ASSUME NEW recs, NEW e, NEW more, Arrives(recs, e, more), NEW p,
         Accepted(e), Meaning(e) # p, Over(p, Meaning(e)), NEW metas, NEW node,
         node.kind = "Dir" /\ node.synthetic = TRUE /\ node.meta = None,
         \/ Here(recs, p) \cup Under(recs, p) = {}
         \/ \E old, was : Fits(recs, was, p, old) /\ old.kind # "Dir"
  PROVE  Fits(more, metas, p, node)
<1> DEFINE n == Len(recs) + 1
           A == Here(recs, p)
           F == Files(recs, p)
           U == Under(recs, p)
           W == Won(A, F, U \cup {n})
<1>1. /\ Here(more, p) = A /\ Under(more, p) = U \cup {n} /\ Files(more, p) = F
      /\ n \in Nat /\ F \subseteq A /\ \A i \in A \cup U : i \in Nat /\ i < n
  BY DEF Arrives
<1>2. Owners(more, p) = W
  BY <1>1 DEF Owners
<1>3. /\ U = {} /\ A = {} => W = {}
      /\ U = {} /\ A # {} /\ First(A) \in F => W = {}
  <2>1. ComesBelow(n, A, F, U)
    BY <1>1, WonBelow
  <2> HIDE DEF n, A, F, U
  <2> QED BY <2>1 DEF ComesBelow
<1>4. U = {} /\ (A # {} => First(A) \in F)
  <2>1. CASE A \cup U = {}
    BY <2>1
  <2>2. CASE \E old, was : Fits(recs, was, p, old) /\ old.kind # "Dir"
    <3>1. PICK old, was : Fits(recs, was, p, old) /\ old.kind # "Dir"
      BY <2>2
    <3>2. U = {} /\ A # {} /\ Kind(recs[First(A)]) # "Dir"
      BY <3>1 DEF Fits
    <3>3. First(A) \in A
      BY <1>1, <3>2, FirstOf
    <3> QED BY <3>2, <3>3, KindIsDir DEF Files
  <2> QED BY <2>1, <2>2
<1> HIDE DEF W
<1>5. W = {} /\ Under(more, p) # {}
  BY <1>1, <1>3, <1>4
<1> QED BY <1>2, <1>5 DEF Fits

(* A record with this path that wins it.                                   *)
LEMMA FitsWinner ==
  ASSUME NEW recs, NEW e, NEW more, Arrives(recs, e, more), NEW p,
         Accepted(e), Meaning(e) = p, ~Over(p, Meaning(e)), NEW metas, NEW node,
         node.kind = Kind(e) /\ node.synthetic = FALSE /\ node.meta \in DOMAIN metas,
         metas[node.meta].record = Len(recs) + 1,
         \/ Here(recs, p) \cup Under(recs, p) = {}
         \/ Kind(e) = "Dir" /\ \E old, was : Fits(recs, was, p, old) /\ old.synthetic = TRUE
  PROVE  Fits(more, metas, p, node)
<1> DEFINE n == Len(recs) + 1
           A == Here(recs, p)
           F == Files(recs, p)
           U == Under(recs, p)
<1>1. /\ Here(more, p) = A \cup {n} /\ Under(more, p) = U
      /\ is_dir(e) => Files(more, p) = F
      /\ n \in Nat /\ F \subseteq A /\ more[n] = e
      /\ \A i \in A \cup U : i \in Nat /\ i < n
  BY DEF Arrives
<1>2. First({n}) = n
  <2>1. {n} \subseteq Nat /\ {n} # {}
    BY <1>1
  <2>2. First({n}) \in {n}
    BY <2>1, FirstOf
  <2> QED BY <2>2
<1>3. ComesAt(n, A, F, U)
  BY <1>1, WonAt
<1>4. CASE A \cup U = {}
  <2>1. A = {} /\ U = {}
    BY <1>4
  <2>2. Here(more, p) = {n} /\ Under(more, p) = {}
    BY <1>1, <2>1
  <2>3. Owners(more, p) = {n}
    BY <2>2 DEF Owners, Won
  <2> QED BY <1>1, <1>2, <2>2, <2>3 DEF Fits
<1>5. CASE Kind(e) = "Dir" /\ \E old, was : Fits(recs, was, p, old) /\ old.synthetic = TRUE
  <2>1. PICK old, was : Fits(recs, was, p, old) /\ old.synthetic = TRUE
    BY <1>5
  <2>2. Won(A, F, U) = {} /\ A \cup U # {}
    BY <2>1 DEF Fits, Owners
  <2>3. U # {}
    BY <2>2 DEF Won
  <2>4. Files(more, p) = F
    BY <1>1, <1>5, KindIsDir
  <2>5. Won(A \cup {n}, F, U) = Won(A, F, U) \cup {n}
    BY <1>3, <2>3 DEF ComesAt
  <2>6. Owners(more, p) = {n}
    BY <1>1, <2>2, <2>4, <2>5 DEF Owners
  <2> QED BY <1>1, <1>2, <1>5, <2>3, <2>6 DEF Fits
<1> QED BY <1>4, <1>5

(* A record with this path that loses it.                                  *)
LEMMA FitsLoser ==
  ASSUME NEW recs, NEW e, NEW more, Arrives(recs, e, more), NEW p,
         Accepted(e), Meaning(e) = p, ~Over(p, Meaning(e)), NEW metas, NEW node,
         Fits(recs, metas, p, node), Kind(e) # "Dir" \/ node.synthetic = FALSE
  PROVE  Fits(more, metas, p, node)
<1> DEFINE n == Len(recs) + 1
           A == Here(recs, p)
           F == Files(recs, p)
           U == Under(recs, p)
           V == Won(A, F, U)
           W == Owners(more, p)
<1>1. /\ Here(more, p) = A \cup {n} /\ Under(more, p) = U
      /\ Files(more, p) = IF is_dir(e) THEN F ELSE F \cup {n}
      /\ n \in Nat /\ F \subseteq A
      /\ \A i \in DOMAIN recs : more[i] = recs[i]
      /\ A \subseteq DOMAIN recs /\ \A i \in A \cup U : i \in Nat /\ i < n
  BY DEF Arrives
<1>2. ComesAt(n, A, F, U)
  BY <1>1, WonAt
<1>3. /\ A \cup U # {} /\ node.kind = IF U # {} THEN "Dir" ELSE Kind(recs[First(A)])
      /\ IF V = {} THEN node.synthetic = TRUE /\ node.meta = None
         ELSE /\ node.synthetic = FALSE /\ node.meta \in DOMAIN metas
              /\ metas[node.meta].record = First(V)
  BY DEF Fits, Owners
<1>4. V \subseteq A
  BY <1>2 DEF ComesAt
<1> HIDE DEF n
<1>5. A # {} => First(A \cup {n}) = First(A) /\ First(A) \in A
  BY <1>1, FirstStays
<1>6. V # {} => First(V \cup {n}) = First(V)
  BY <1>1, <1>4, FirstStays
<1>7. /\ W = V \/ W = V \cup {n}
      /\ V = {} => W = V
  <2>1. CASE U = {}
    <3>1. V = A /\ W = A \cup {n} /\ A # {}
      BY <1>1, <1>2, <1>3, <2>1 DEF Owners, Won, ComesAt
    <3> QED BY <3>1
  <2>2. CASE U # {} /\ is_dir(e)
    <3>1. W = V \cup {n}
      BY <1>1, <1>2, <2>2 DEF Owners, ComesAt
    <3>2. V # {}
      BY <1>3, <2>2, KindIsDir
    <3> QED BY <3>1, <3>2
  <2>3. CASE U # {} /\ ~is_dir(e)
    BY <1>1, <1>2, <2>3 DEF Owners, ComesAt
  <2> QED BY <2>1, <2>2, <2>3
<1> HIDE DEF V, W
<1>8. (W = {} <=> V = {}) /\ (V # {} => First(W) = First(V))
  BY <1>6, <1>7
<1>9. node.kind = IF U # {} THEN "Dir" ELSE Kind(more[First(Here(more, p))])
  BY <1>1, <1>3, <1>5
<1>10. Here(more, p) \cup Under(more, p) # {}
  BY <1>1
<1> QED BY <1>1, <1>3, <1>8, <1>9, <1>10 DEF Fits, W

-----------------------------------------------------------------------------
(* The tree says what the records say.                                     *)

(* A path is not above itself, and what is above a longer one is the rest *)
(* of it or above that.                                                    *)
LEMMA OverNone ==
  ASSUME NEW p \in Seq(Names)
  PROVE  ~Over(p, p) /\ ~Over(p, <<>>)
BY SMT DEF Over

(* What lies over a path with one name more.                               *)
LEMMA OverAppend ==
  ASSUME NEW p \in Seq(Names), NEW q \in Seq(Names), NEW c
  PROVE  Over(p, Append(q, c)) <=> p = q \/ Over(p, q)
<1>1. Over(p, Append(q, c)) => p = q \/ Over(p, q)
  BY SMT DEF Over, Begins
<1>2. p = q => Over(p, Append(q, c))
  BY SMT DEF Over, Begins
<1>3. Over(p, q) => Over(p, Append(q, c))
  BY SMT DEF Over, Begins
<1> QED BY <1>1, <1>2, <1>3

(* What is above a node is a directory.                                    *)
HasDir(nodes, p) == \E t \in DOMAIN nodes : PathOf(nodes, t) = p /\ nodes[t].kind = "Dir"

(* Every beginning of a node's path is that of a directory.                *)
LEMMA Ancestors ==
  ASSUME NEW nodes, Tree(nodes), NEW i \in DOMAIN nodes, NEW p \in Seq(Names),
         Over(p, PathOf(nodes, i))
  PROVE  HasDir(nodes, p)
<1> DEFINE bad == {x \in DOMAIN nodes : Over(p, PathOf(nodes, x)) /\ ~HasDir(nodes, p)}
<1>1. SUFFICES ASSUME bad # {} PROVE FALSE
  OBVIOUS
<1>2. /\ DOMAIN nodes = 1 .. Len(nodes) /\ Len(nodes) \in Nat
      /\ \A x \in DOMAIN nodes \ {Root} :
           /\ nodes[x].parent \in 1 .. x - 1 /\ nodes[x].parent \in DOMAIN nodes
           /\ nodes[nodes[x].parent].kind = "Dir"
  BY TreeTypes
<1>3. Rooted(nodes)
  BY PathTurns
<1>4. bad \subseteq Nat
  BY <1>2, SMT
<1>5. PICK x \in bad : \A y \in bad : ~(y < x)
  BY <1>1, <1>4, LeastOf
<1>6. x # Root
  BY <1>3, <1>5, OverNone DEF Rooted
<1> DEFINE u == nodes[x].parent
           q == PathOf(nodes, u)
<1>7. /\ u \in DOMAIN nodes /\ nodes[u].kind = "Dir" /\ u \in 1 .. x - 1
      /\ q \in Seq(Names) /\ PathOf(nodes, x) = Append(q, nodes[x].name)
  BY <1>2, <1>3, <1>5, <1>6 DEF Rooted
<1>8. u < x
  <2> HIDE DEF u
  <2> QED BY <1>4, <1>5, <1>7, SMT
<1> HIDE DEF u, q
<1>9. p = q \/ Over(p, q)
  <2>1. Over(p, Append(q, nodes[x].name))
    BY <1>5, <1>7
  <2> QED BY <1>7, <2>1, OverAppend
<1>10. q = PathOf(nodes, u)
  BY DEF q
<1> QED BY <1>5, <1>7, <1>8, <1>9, <1>10 DEF HasDir

(* Every node fits, and every path that a record has or lies below has one.*)
Told(recs, nodes, metas) ==
  /\ \A t \in DOMAIN nodes \ {Root} : Fits(recs, metas, PathOf(nodes, t), nodes[t])
  /\ \A p \in Seq(Names) :
       p # <<>> /\ Here(recs, p) \cup Under(recs, p) # {}
         => \E t \in DOMAIN nodes \ {Root} : PathOf(nodes, t) = p

(* A record that was turned away.                                          *)
LEMMA ToldRejected ==
  ASSUME NEW recs, NEW e, ~Accepted(e), NEW more, Arrives(recs, e, more),
         NEW nodes, NEW metas, Told(recs, nodes, metas)
  PROVE  Told(more, nodes, metas)
<1>1. MetasKept(metas, metas)
  BY DEF MetasKept
<1>2. \A p : Here(more, p) = Here(recs, p) /\ Under(more, p) = Under(recs, p)
  BY DEF Arrives
<1>3. ASSUME NEW t \in DOMAIN nodes \ {Root}
      PROVE  Fits(more, metas, PathOf(nodes, t), nodes[t])
  <2>1. Fits(recs, metas, PathOf(nodes, t), nodes[t])
    BY DEF Told
  <2> QED BY <1>1, <2>1, FitsElsewhere
<1> QED BY <1>2, <1>3 DEF Told

(* What an accepted record with path q and node id does to the nodes: all  *)
(* others stay, but for those on the way to it.                            *)
Turned(old, nodes, q, id) ==
  /\ Tree(old) /\ Tree(nodes) /\ Grows(old, nodes)
  /\ id \in DOMAIN nodes \ {Root} /\ PathOf(nodes, id) = q
  /\ \A t \in DOMAIN nodes \ {id} :
       \/ t \in DOMAIN old /\ nodes[t] = old[t]
       \/ /\ nodes[t].synthetic = TRUE /\ nodes[t].meta = None
          /\ Over(PathOf(nodes, t), q)
          /\ t \in DOMAIN old => old[t].kind # "Dir"

Wins(old, node, e, n, metas, id) ==
  /\ node.kind = Kind(e) /\ node.synthetic = FALSE
  /\ node.meta \in DOMAIN metas /\ metas[node.meta].record = n
  /\ id \in DOMAIN old => old[id].synthetic = TRUE /\ Kind(e) = "Dir"

Lost(old, node, e, id) ==
  /\ id \in DOMAIN old /\ node = old[id]
  /\ Kind(e) # "Dir" \/ old[id].synthetic = FALSE

(* No node that was there has the path, so no record had it.               *)
LEMMA NoneBefore ==
  ASSUME NEW recs, NEW old, NEW metas, Told(recs, old, metas), NEW nodes,
         Tree(old), Tree(nodes), Grows(old, nodes),
         NEW t \in DOMAIN nodes \ {Root}, t \notin DOMAIN old
  PROVE  LET p == PathOf(nodes, t) IN Here(recs, p) \cup Under(recs, p) = {}
<1> DEFINE p == PathOf(nodes, t)
<1>1. SUFFICES ASSUME Here(recs, p) \cup Under(recs, p) # {} PROVE FALSE
  OBVIOUS
<1>2. Rooted(nodes) /\ Root \in DOMAIN nodes
  BY PathTurns, TreeTypes
<1>3. p \in Seq(Names) /\ p # <<>>
  <2>1. p \in Seq(Names) /\ PathOf(nodes, Root) = <<>>
    BY <1>2 DEF Rooted
  <2> QED BY <1>2, <2>1, PathOnce
<1>4. PICK k \in DOMAIN old \ {Root} : PathOf(old, k) = p
  BY <1>1, <1>3 DEF Told
<1>5. k \in DOMAIN nodes /\ PathOf(nodes, k) = p
  <2>1. SamePaths(old, nodes)
    BY PathKept
  <2> QED BY <1>4, <2>1 DEF SamePaths
<1>6. k = t
  BY <1>5, PathOnce
<1> QED BY <1>4, <1>6

(* An accepted record, whether it wins its path or loses it: again every   *)
(* node fits.                                                              *)
LEMMA ToldFits ==
  ASSUME NEW recs, NEW e, Accepted(e), NEW more, Arrives(recs, e, more),
         NEW old, NEW metas, Told(recs, old, metas),
         NEW nodes, NEW id, Turned(old, nodes, Meaning(e), id),
         NEW new, MetasKept(metas, new),
         \/ Lost(old, nodes[id], e, id) /\ new = metas
         \/ Wins(old, nodes[id], e, Len(recs) + 1, new, id),
         NEW t \in DOMAIN nodes \ {Root}
  PROVE  Fits(more, new, PathOf(nodes, t), nodes[t])
<1> DEFINE q == Meaning(e)
           p == PathOf(nodes, t)
<1>1. /\ Tree(old) /\ Tree(nodes) /\ Grows(old, nodes)
      /\ id \in DOMAIN nodes \ {Root} /\ PathOf(nodes, id) = q
  BY DEF Turned
<1>2. p \in Seq(Names) /\ q \in Seq(Names)
  BY <1>1, PathTurns DEF Rooted
<1>3. t \in DOMAIN old => t \in DOMAIN old \ {Root} /\ Fits(recs, metas, p, old[t])
  <2>1. SamePaths(old, nodes)
    BY <1>1, PathKept
  <2> QED BY <2>1 DEF SamePaths, Told
<1>4. t \notin DOMAIN old => Here(recs, p) \cup Under(recs, p) = {}
  BY <1>1, NoneBefore
<1>5. CASE t = id
  <2>1. Meaning(e) = p /\ ~Over(p, Meaning(e))
    BY <1>1, <1>2, <1>5, OverNone
  <2>2. CASE Lost(old, nodes[id], e, id) /\ new = metas
    <3>1. /\ Fits(recs, metas, p, nodes[t])
          /\ Kind(e) # "Dir" \/ nodes[t].synthetic = FALSE
      BY <1>3, <1>5, <2>2 DEF Lost
    <3> HIDE DEF p
    <3>2. Fits(more, metas, p, nodes[t])
      BY <2>1, <3>1, FitsLoser
    <3> QED BY <2>2, <3>2 DEF p
  <2>3. CASE Wins(old, nodes[id], e, Len(recs) + 1, new, id)
    <3>1. /\ nodes[t].kind = Kind(e) /\ nodes[t].synthetic = FALSE
          /\ nodes[t].meta \in DOMAIN new /\ new[nodes[t].meta].record = Len(recs) + 1
      BY <1>5, <2>3 DEF Wins
    <3>2. \/ Here(recs, p) \cup Under(recs, p) = {}
          \/ /\ Kind(e) = "Dir"
             /\ \E o, was : Fits(recs, was, p, o) /\ o.synthetic = TRUE
      BY <1>3, <1>4, <1>5, <2>3 DEF Wins
    <3>3. Fits(more, new, p, nodes[t])
      <4> HIDE DEF p
      <4> QED BY <2>1, <3>1, <3>2, FitsWinner
    <3> QED BY <3>3
  <2> QED BY <2>2, <2>3
<1>6. CASE t # id
  <2>1. Meaning(e) # p
    BY <1>1, <1>6, PathOnce
  <2>2. CASE t \in DOMAIN old /\ nodes[t] = old[t] /\ ~Over(p, q)
    <3>1. Fits(recs, metas, p, nodes[t])
      BY <1>3, <2>2
    <3>9. Fits(more, new, p, nodes[t])
      <4> HIDE DEF p
      <4> QED BY <2>1, <2>2, <3>1, FitsElsewhere
    <3> QED BY <3>9
  <2>3. CASE t \in DOMAIN old /\ nodes[t] = old[t] /\ Over(p, q)
    <3>1. Fits(recs, metas, p, nodes[t])
      BY <1>3, <2>3
    <3>2. nodes[t].kind = "Dir"
      <4>1. HasDir(nodes, p)
        BY <1>1, <1>2, <2>3, Ancestors
      <4>2. PICK k \in DOMAIN nodes : PathOf(nodes, k) = p /\ nodes[k].kind = "Dir"
        BY <4>1 DEF HasDir
      <4>3. k = t
        BY <1>1, <4>2, PathOnce
      <4> QED BY <4>2, <4>3
    <3>9. Fits(more, new, p, nodes[t])
      <4> HIDE DEF p
      <4> QED BY <2>1, <2>3, <3>1, <3>2, FitsAbove
    <3> QED BY <3>9
  <2>4. CASE /\ nodes[t].synthetic = TRUE /\ nodes[t].meta = None
             /\ Over(p, q)
             /\ t \in DOMAIN old => old[t].kind # "Dir"
    <3>1. nodes[t].kind = "Dir"
      BY <1>1, <2>4 DEF Tree
    <3>2. \/ Here(recs, p) \cup Under(recs, p) = {}
          \/ \E o, was : Fits(recs, was, p, o) /\ o.kind # "Dir"
      BY <1>3, <1>4, <2>4
    <3>9. Fits(more, new, p, nodes[t])
      <4> HIDE DEF p
      <4> QED BY <2>1, <2>4, <3>1, <3>2, FitsTakenOver
    <3> QED BY <3>9
  <2> QED BY <1>6, <2>2, <2>3, <2>4 DEF Turned
<1> QED BY <1>5, <1>6

(* The tree says what the records say, one record later.                   *)
LEMMA ToldOn ==
  ASSUME NEW recs, NEW e, Accepted(e), NEW more, Arrives(recs, e, more),
         NEW old, NEW metas, Told(recs, old, metas),
         NEW nodes, NEW id, Turned(old, nodes, Meaning(e), id),
         NEW new, MetasKept(metas, new),
         \/ Lost(old, nodes[id], e, id) /\ new = metas
         \/ Wins(old, nodes[id], e, Len(recs) + 1, new, id)
  PROVE  Told(more, nodes, new)
<1> DEFINE q == Meaning(e)
<1>1. /\ Tree(old) /\ Tree(nodes) /\ Grows(old, nodes)
      /\ id \in DOMAIN nodes \ {Root} /\ PathOf(nodes, id) = q
  BY DEF Turned
<1>2. \A t \in DOMAIN nodes \ {Root} : Fits(more, new, PathOf(nodes, t), nodes[t])
  BY ToldFits
<1>3. ASSUME NEW p \in Seq(Names), p # <<>>, Here(more, p) \cup Under(more, p) # {}
      PROVE  \E t \in DOMAIN nodes \ {Root} : PathOf(nodes, t) = p
  <2>1. Here(recs, p) \cup Under(recs, p) # {} \/ p = q \/ Over(p, q)
    BY <1>3 DEF Arrives
  <2>2. CASE Here(recs, p) \cup Under(recs, p) # {}
    <3>1. PICK k \in DOMAIN old \ {Root} : PathOf(old, k) = p
      BY <1>3, <2>2 DEF Told
    <3>2. SamePaths(old, nodes)
      BY <1>1, PathKept
    <3> QED BY <3>1, <3>2 DEF SamePaths
  <2>3. CASE p = q
    BY <1>1, <2>3
  <2>4. CASE Over(p, q)
    <3>1. HasDir(nodes, p)
      BY <1>1, <2>4, Ancestors
    <3>2. PICK k \in DOMAIN nodes : PathOf(nodes, k) = p
      BY <3>1 DEF HasDir
    <3>3. k # Root
      BY <1>1, <1>3, <3>2, PathTurns DEF Rooted
    <3> QED BY <3>2, <3>3
  <2> QED BY <2>1, <2>2, <2>3, <2>4
<1> QED BY <1>2, <1>3 DEF Told

-----------------------------------------------------------------------------
(* What Builder::add does for an accepted record, told by paths.           *)

(* What resolve_parent left of a node: what it was, or a directory above   *)
(* the record's path.                                                      *)
LeftOf(old, nodes, t, q) ==
  \/ t \in DOMAIN old /\ nodes[t] = old[t]
  \/ /\ nodes[t].synthetic = TRUE /\ nodes[t].meta = None
     /\ Over(PathOf(nodes, t), q)
     /\ t \in DOMAIN old => old[t].kind # "Dir"

(* A proper beginning of a path lies over it.                              *)
LEMMA BeginningOver ==
  ASSUME NEW p \in Seq(Names), NEW k \in 1 .. Len(p), NEW c
  PROVE  SubSeq(p, 1, k) \in Seq(Names) /\ Over(SubSeq(p, 1, k), Append(p, c))
<1>1. SubSeq(p, 1, k) \in Seq(Names)
  BY SMT
<1>2. SubSeq(p, 1, k) = p \/ Over(SubSeq(p, 1, k), p)
  BY <1>1, SMT DEF Over, Begins
<1> HIDE <1>1
<1> QED BY <1>1, <1>2, OverAppend

(* The flag of a node is TRUE or FALSE.                                    *)
LEMMA SyntheticIsBoolean ==
  ASSUME NEW nodes, Tree(nodes), NEW t \in DOMAIN nodes
  PROVE  nodes[t].synthetic \in BOOLEAN
<1>1. nodes \in Seq(Node)
  BY DEF Tree
<1>2. nodes[t] \in Node
  BY <1>1, SMT
<1> QED BY <1>2 DEF Node

(* The path of an accepted record is its parent's and its last name.       *)
LEMMA PlacePath ==
  ASSUME NEW e \in Records, Accepted(e)
  PROVE  LET path == split_parent(normalize_path(e.pieces))
         IN /\ Meaning(e) = Append(path.parent, path.leaf)
            /\ Meaning(e) \in Seq(Names) /\ path.parent \in Seq(Names)
BY AcceptedPath, MeaningIs

(* The walk turns files on the way into directories.                       *)
LEMMA LeftOnTheWay ==
  ASSUME NEW e \in Records, Accepted(e), NEW b, NEW s, NEW i, Placed(b, e, s, i),
         NEW t \in DOMAIN s.b.nodes
  PROVE  LeftOf(b.nodes, s.b.nodes, t, Meaning(e))
<1> DEFINE path == split_parent(normalize_path(e.pieces))
           nodes == s.b.nodes
<1>1. Meaning(e) = Append(path.parent, path.leaf) /\ path.parent \in Seq(Names)
  BY PlacePath
<1>2. OnTheWay(b.nodes, nodes, path.parent, Len(path.parent)) /\ Tree(nodes)
  BY DEF Placed, Resolved, Standing
<1>3. nodes[t].synthetic \in BOOLEAN
  BY <1>2, SyntheticIsBoolean
<1> HIDE DEF path, nodes
<1>4. ASSUME NEW k \in 1 .. Len(path.parent), PathOf(nodes, t) = SubSeq(path.parent, 1, k)
      PROVE  Over(PathOf(nodes, t), Meaning(e))
  BY <1>1, <1>4, BeginningOver
<1>5. t \in DOMAIN nodes
  BY DEF nodes
<1>6. LeftOf(b.nodes, nodes, t, Meaning(e))
  BY <1>2, <1>3, <1>4, <1>5 DEF OnTheWay, LeftOf
<1> QED BY <1>6 DEF nodes

(* The record that loses its place.                                        *)
LEMMA LosesTurns ==
  ASSUME NEW e \in Records, Accepted(e), NEW b, Standing(b), NEW s, NEW i,
         Placed(b, e, s, i), Loses(i, Kind(e))
  PROVE  /\ Turned(b.nodes, s.b.nodes, Meaning(e), i.id)
         /\ Lost(b.nodes, s.b.nodes[i.id], e, i.id)
<1> DEFINE path == split_parent(normalize_path(e.pieces))
           nodes == s.b.nodes
           id == i.id
           q == Meaning(e)
<1>1. q = Append(path.parent, path.leaf) /\ q \in Seq(Names)
  BY PlacePath
<1>2. /\ Tree(b.nodes) /\ Tree(nodes) /\ Grows(b.nodes, nodes)
      /\ PathOf(nodes, s.cur) = path.parent
  BY DEF Placed, Resolved, Standing
<1>3. Finds(s.b, s.cur, path.leaf, i)
  BY DEF Placed, Loses, Adds
<1>4. /\ id \in DOMAIN nodes \ {Root} /\ nodes[id].parent = s.cur
      /\ nodes[id].name = path.leaf /\ i.b = s.b
  BY <1>3 DEF Finds
<1>5. \A t \in DOMAIN nodes : LeftOf(b.nodes, nodes, t, q)
  BY LeftOnTheWay
<1> HIDE DEF path
<1>6. PathOf(nodes, id) = q
  BY <1>1, <1>2, <1>4, PathTurns DEF Rooted
<1>7. id \in DOMAIN b.nodes /\ nodes[id] = b.nodes[id]
  <2>1. LeftOf(b.nodes, nodes, id, q)
    BY <1>4, <1>5
  <2>2. ~Over(q, q)
    BY <1>1, OverNone
  <2> HIDE DEF q, nodes, id
  <2> QED BY <1>6, <2>1, <2>2 DEF LeftOf
<1>8. Kind(e) # "Dir" \/ nodes[id].synthetic = FALSE
  <2>1. Kind(e) # "Dir" \/ ~nodes[id].synthetic
    BY <1>4 DEF Loses
  <2>2. nodes[id].synthetic \in BOOLEAN
    BY <1>2, <1>4, SyntheticIsBoolean
  <2> QED BY <2>1, <2>2
<1>9. Turned(b.nodes, nodes, q, id)
  <2> HIDE DEF q, nodes, id
  <2> QED BY <1>2, <1>4, <1>5, <1>6 DEF Turned, LeftOf
<1>10. Lost(b.nodes, nodes[id], e, id)
  BY <1>7, <1>8 DEF Lost
<1> QED BY <1>9, <1>10

(* The record that wins it.                                                *)
LEMMA GainsTurns ==
  ASSUME NEW e \in Records, Accepted(e), NEW b, Standing(b), NEW s, NEW i,
         Placed(b, e, s, i), NEW new, Standing(new), NEW id, Gains(b, e, s, id, new)
  PROVE  /\ Turned(b.nodes, new.nodes, Meaning(e), id)
         /\ id \in DOMAIN b.nodes => b.nodes[id].synthetic = TRUE /\ Kind(e) = "Dir"
<1> DEFINE path == split_parent(normalize_path(e.pieces))
           mid == s.b.nodes
           nodes == new.nodes
           q == Meaning(e)
<1>1. q = Append(path.parent, path.leaf) /\ q \in Seq(Names)
  BY PlacePath
<1>2. /\ Tree(b.nodes) /\ Tree(mid) /\ Tree(nodes) /\ Grows(b.nodes, mid)
      /\ s.cur \in DOMAIN mid /\ PathOf(mid, s.cur) = path.parent
  BY DEF Placed, Resolved, Standing
<1>3. /\ id \in DOMAIN nodes \ {Root} /\ nodes[id].parent = s.cur
      /\ nodes[id].name = path.leaf /\ Grows(mid, nodes)
      /\ \A k \in DOMAIN nodes \ {id} : k \in DOMAIN mid /\ nodes[k] = mid[k]
      /\ id \in DOMAIN mid => mid[id].synthetic /\ Kind(e) = "Dir"
  BY DEF Gains
<1>4. \A t \in DOMAIN mid : LeftOf(b.nodes, mid, t, q)
  BY LeftOnTheWay
<1>5. SamePaths(mid, nodes) /\ SamePaths(b.nodes, mid)
  BY <1>2, <1>3, PathKept
<1> HIDE DEF path
<1>6. PathOf(nodes, id) = q
  <2>1. PathOf(nodes, s.cur) = path.parent
    BY <1>2, <1>5 DEF SamePaths
  <2>2. Rooted(nodes)
    BY <1>2, PathTurns
  <2>3. PathOf(nodes, id) = Append(PathOf(nodes, s.cur), path.leaf)
    BY <1>3, <2>2 DEF Rooted
  <2> QED BY <1>1, <2>1, <2>3
<1> HIDE DEF q, mid, nodes
<1>7. Grows(b.nodes, nodes)
  <2> DEFINE k == Len(b.nodes)
             m == Len(mid)
             n == Len(nodes)
  <2>1. k \in Nat /\ m \in Nat /\ n \in Nat
    BY <1>2, TreeTypes
  <2>2. k <= m /\ m <= n
    BY <1>2, <1>3 DEF Grows
  <2>3. k <= n /\ 1 .. k \subseteq 1 .. m
    BY <2>1, <2>2, SMT
  <2> QED BY <1>2, <1>3, <2>3 DEF Grows
<1>8. ASSUME NEW t \in DOMAIN nodes \ {id}
      PROVE  LeftOf(b.nodes, nodes, t, q)
  <2>1. t \in DOMAIN mid /\ nodes[t] = mid[t] /\ PathOf(nodes, t) = PathOf(mid, t)
    BY <1>3, <1>5 DEF SamePaths
  <2>2. LeftOf(b.nodes, mid, t, q)
    BY <1>4, <2>1
  <2> QED BY <2>1, <2>2 DEF LeftOf
<1>9. Turned(b.nodes, nodes, q, id)
  BY <1>2, <1>3, <1>6, <1>7, <1>8 DEF Turned, LeftOf
<1>10. ASSUME id \in DOMAIN b.nodes
       PROVE  b.nodes[id].synthetic = TRUE /\ Kind(e) = "Dir"
  <2>1. id \in DOMAIN mid /\ PathOf(mid, id) = q
    BY <1>5, <1>6, <1>10 DEF SamePaths
  <2>2. ~Over(q, q)
    BY <1>1, OverNone
  <2>3. mid[id] = b.nodes[id]
    BY <1>4, <2>1, <2>2 DEF LeftOf
  <2>4. b.nodes[id].synthetic \in BOOLEAN
    BY <1>2, <1>10, SyntheticIsBoolean
  <2> QED BY <1>3, <2>1, <2>3, <2>4
<1> QED BY <1>9, <1>10 DEF q, nodes

(* What it puts in the metas.                                              *)
GainedMeta(b, e, id, new) ==
  LET m == new.nodes[id].meta
  IN /\ MetasKept(b.metas, new.metas) /\ m \in DOMAIN new.metas
     /\ new.metas[m].record = Len(seen) + 1
     /\ Kind(e) = "Symlink" => new.metas[m].slot = b.symlink_count

(* The entry that is attached gets a record and a slot.                    *)
LEMMA GainsMeta ==
  ASSUME NEW e, NEW b, Standing(b), NEW s, NEW new, NEW id, Gains(b, e, s, id, new)
  PROVE  GainedMeta(b, e, id, new)
<1> DEFINE meta == NewMeta(b, e)
           m == Len(b.metas) + 1
<1>1. new.metas = Append(b.metas, meta) /\ new.nodes[id].meta = m
  BY DEF Gains
<1>2. meta.record = Len(seen) + 1 /\ (Kind(e) = "Symlink" => meta.slot = b.symlink_count)
  BY DEF NewMeta
<1> HIDE DEF meta
<1>3. b.metas \in Seq([record: Nat, slot: Nat])
  BY GrowsTypes
<1>4. /\ m \in DOMAIN new.metas /\ new.metas[m] = meta
      /\ \A k \in DOMAIN b.metas : k \in DOMAIN new.metas /\ new.metas[k] = b.metas[k]
  BY <1>1, <1>3, SMT
<1> HIDE DEF m
<1> QED BY <1>1, <1>2, <1>4 DEF MetasKept, GainedMeta

(* The targets of symbolic links: each has a slot, and its own.            *)
Slots(nodes, metas, count) ==
  /\ \A t \in DOMAIN nodes :
       nodes[t].kind = "Symlink" =>
         nodes[t].meta \in DOMAIN metas /\ metas[nodes[t].meta].slot \in 0 .. count - 1
  /\ \A t, u \in DOMAIN nodes :
       /\ nodes[t].kind = "Symlink" /\ nodes[u].kind = "Symlink"
       /\ metas[nodes[t].meta].slot = metas[nodes[u].meta].slot
       => t = u

(* One more node is a link, with the next slot; or no more are.            *)
OneSlot(old, nodes, metas, id, count, more) ==
  \/ id \in DOMAIN old /\ nodes[id] = old[id] /\ more = count
  \/ nodes[id].kind # "Symlink" /\ more = count
  \/ /\ nodes[id].meta \in DOMAIN metas /\ metas[nodes[id].meta].slot = count
     /\ more = count + 1

(* Links have slots of their own, one attached entry later.                *)
LEMMA SlotsKept ==
  ASSUME NEW old, NEW nodes, NEW q, NEW id, Turned(old, nodes, q, id),
         NEW metas, NEW new, MetasKept(metas, new), NEW count \in Nat, NEW more,
         Slots(old, metas, count), OneSlot(old, nodes, new, id, count, more)
  PROVE  Slots(nodes, new, more)
<1>1. 0 .. count - 1 \subseteq 0 .. count /\ count \notin 0 .. count - 1
  BY SMT
<1>2. ASSUME NEW t \in DOMAIN nodes, nodes[t].kind = "Symlink"
      PROVE  \/ t \in DOMAIN old /\ nodes[t] = old[t]
             \/ t = id
  <2>1. Tree(nodes) /\ "Symlink" # "Dir"
    BY DEF Turned
  <2>2. nodes[t].synthetic # TRUE
    BY <1>2, <2>1 DEF Tree
  <2> QED BY <2>2 DEF Turned
<1>3. ASSUME NEW t \in DOMAIN old, old[t].kind = "Symlink"
      PROVE  /\ old[t].meta \in DOMAIN new /\ new[old[t].meta] = metas[old[t].meta]
             /\ metas[old[t].meta].slot \in 0 .. count - 1
  BY <1>3 DEF Slots, MetasKept
<1>4. ASSUME more = count,
             \A t \in DOMAIN nodes :
               nodes[t].kind = "Symlink" => t \in DOMAIN old /\ nodes[t] = old[t]
      PROVE  Slots(nodes, new, more)
  <2>1. ASSUME NEW t \in DOMAIN nodes, nodes[t].kind = "Symlink"
        PROVE  /\ t \in DOMAIN old /\ old[t].kind = "Symlink"
               /\ nodes[t].meta \in DOMAIN new
               /\ new[nodes[t].meta].slot \in 0 .. more - 1
               /\ new[nodes[t].meta].slot = metas[old[t].meta].slot
    BY <1>3, <1>4, <2>1
  <2>2. ASSUME NEW t \in DOMAIN nodes, NEW u \in DOMAIN nodes,
               nodes[t].kind = "Symlink", nodes[u].kind = "Symlink",
               new[nodes[t].meta].slot = new[nodes[u].meta].slot
        PROVE  t = u
    BY <2>1, <2>2 DEF Slots
  <2> QED BY <2>1, <2>2 DEF Slots
<1>5. CASE id \in DOMAIN old /\ nodes[id] = old[id] /\ more = count
  BY <1>2, <1>4, <1>5
<1>6. CASE nodes[id].kind # "Symlink" /\ more = count
  BY <1>2, <1>4, <1>6
<1>7. CASE /\ nodes[id].meta \in DOMAIN new /\ new[nodes[id].meta].slot = count
           /\ more = count + 1
  <2>1. more - 1 = count /\ count \in 0 .. count
    BY <1>7, SMT
  <2>2. ASSUME NEW t \in DOMAIN nodes \ {id}, nodes[t].kind = "Symlink"
        PROVE  /\ nodes[t].meta \in DOMAIN new
               /\ new[nodes[t].meta].slot \in 0 .. count /\ new[nodes[t].meta].slot # count
    BY <1>1, <1>2, <1>3, <2>2
  <2>3. ASSUME NEW t \in DOMAIN nodes, nodes[t].kind = "Symlink"
        PROVE  nodes[t].meta \in DOMAIN new /\ new[nodes[t].meta].slot \in 0 .. more - 1
    BY <1>7, <2>1, <2>2, <2>3
  <2>4. ASSUME NEW t \in DOMAIN nodes, NEW u \in DOMAIN nodes,
               nodes[t].kind = "Symlink", nodes[u].kind = "Symlink",
               new[nodes[t].meta].slot = new[nodes[u].meta].slot
        PROVE  t = u
    <3>1. CASE t = id
      BY <1>7, <2>2, <2>4, <3>1
    <3>2. CASE u = id
      BY <1>7, <2>2, <2>4, <3>2
    <3>3. CASE t # id /\ u # id
      BY <1>2, <1>3, <2>4, <3>3 DEF Slots
    <3> QED BY <3>1, <3>2, <3>3
  <2> QED BY <2>3, <2>4 DEF Slots
<1> QED BY <1>5, <1>6, <1>7 DEF OneSlot

(* The builder knows what the records say.                                 *)
Knows(recs, b) == Told(recs, b.nodes, b.metas) /\ Slots(b.nodes, b.metas, b.symlink_count)

(* No record is told by an empty builder.                                  *)
LEMMA NothingTold ==
  Knows(<<>>, NewBuilder)
<1>1. \A p : Here(<<>>, p) \cup Under(<<>>, p) = {}
  <2>1. DOMAIN <<>> = {}
    BY SMT
  <2> QED BY <2>1 DEF Here, Under
<1>2. NewBuilder.nodes = <<NewNode(Root, Empty)>>
  BY DEF NewBuilder
<1>3. DOMAIN NewBuilder.nodes = {Root} /\ NewBuilder.nodes[Root] = NewNode(Root, Empty)
  BY <1>2, SMT DEF Root
<1>4. NewNode(Root, Empty).kind # "Symlink"
  BY DEF NewNode
<1> QED BY <1>1, <1>3, <1>4 DEF Knows, Told, Slots

(* Every record that add deals with is told.                               *)
LEMMA RecordTold ==
  ASSUME BuilderInv, Knows(seen, builder), NEW e \in Records,
         RejectPath(e) \/ RejectSize(e) \/ Duplicate(e) \/ Attach(e)
  PROVE  Knows(seen', builder')
<1> DEFINE b == builder
           i == Interned(builder, e)
<1>1. /\ seen \in Seq(Records) /\ Standing(b) /\ Remembers(b) /\ b \in Builders
      /\ Told(seen, b.nodes, b.metas) /\ Slots(b.nodes, b.metas, b.symlink_count)
  BY DEF BuilderInv, Knows, Standing
<1>2. Arrives(seen, e, seen')
  <2>1. seen' = Append(seen, e)
    BY DEF RejectPath, RejectSize, Duplicate, Attach, NextRecord
  <2>2. Arrives(seen, e, Append(seen, e))
    BY <1>1, RecordArrives
  <2> QED BY <2>1, <2>2
<1>3. CASE RejectPath(e) \/ RejectSize(e)
  <2>1. ~Accepted(e)
    BY <1>3 DEF RejectPath, RejectSize, Accepted
  <2>2. \E s \in Stats : builder' = Count(b, s)
    <3>1. "rejected_paths" \in Stats /\ "rejected_sizes" \in Stats
      BY DEF Stats
    <3> QED BY <1>3, <3>1 DEF RejectPath, RejectSize
  <2>3. \E s \in Stats : CountsOne(b, builder', s)
    BY <1>1, <2>2, CountFields
  <2>4. /\ builder'.nodes = b.nodes /\ builder'.metas = b.metas
        /\ builder'.symlink_count = b.symlink_count
    BY <2>3 DEF CountsOne, Besides
  <2>5. Told(seen', b.nodes, b.metas)
    BY <1>1, <1>2, <2>1, ToldRejected
  <2> QED BY <1>1, <2>4, <2>5 DEF Knows
<1>4. Accepted(e) => \E s : Placed(b, e, s, i)
  BY <1>1, InternedPlace
<1>5. CASE Duplicate(e)
  <2>1. Accepted(e) /\ Loses(i, Kind(e)) /\ builder' = Count(i.b, "duplicates")
    BY <1>5 DEF Duplicate
  <2> HIDE DEF i
  <2>2. PICK s : Placed(b, e, s, i)
    BY <1>4, <2>1
  <2>3. CountsOne(s.b, builder', "duplicates")
    BY <2>1, <2>2, LosesKeeps
  <2>4. /\ builder'.nodes = s.b.nodes /\ builder'.metas = b.metas
        /\ builder'.symlink_count = b.symlink_count
    BY <2>2, <2>3 DEF CountsOne, Besides, Placed, Resolved
  <2>5. /\ Turned(b.nodes, s.b.nodes, Meaning(e), i.id)
        /\ Lost(b.nodes, s.b.nodes[i.id], e, i.id)
    BY <1>1, <2>1, <2>2, LosesTurns
  <2>6. MetasKept(b.metas, b.metas) /\ b.symlink_count \in Nat
    BY <1>1, GrowsTypes DEF MetasKept
  <2>7. Told(seen', s.b.nodes, b.metas)
    <3> DEFINE nodes == s.b.nodes
    <3>1. \/ Lost(b.nodes, nodes[i.id], e, i.id) /\ b.metas = b.metas
          \/ Wins(b.nodes, nodes[i.id], e, Len(seen) + 1, b.metas, i.id)
      BY <2>5
    <3> HIDE DEF nodes, b
    <3>2. Told(seen', nodes, b.metas)
      BY <1>1, <1>2, <2>1, <2>5, <2>6, <3>1, ToldOn DEF nodes
    <3> QED BY <3>2 DEF nodes
  <2>8. OneSlot(b.nodes, s.b.nodes, b.metas, i.id, b.symlink_count, b.symlink_count)
    BY <2>5 DEF OneSlot, Lost
  <2>9. Slots(s.b.nodes, b.metas, b.symlink_count)
    BY <1>1, <2>5, <2>6, <2>8, SlotsKept
  <2> QED BY <2>4, <2>7, <2>9 DEF Knows
<1>6. CASE Attach(e)
  <2>1. Accepted(e) /\ ~Loses(i, Kind(e)) /\ builder' = Attached(i, e)
    BY <1>6 DEF Attach
  <2> HIDE DEF i
  <2> DEFINE nodes == builder'.nodes
             metas == builder'.metas
             id == i.id
  <2>2. PICK s : Placed(b, e, s, i)
    BY <1>4, <2>1
  <2>3. AttachAt(e, s, i)
    BY <2>1, <2>2, AttachPlace
  <2>4. i.b \in Builders /\ i.id \in DOMAIN i.b.nodes
    BY <2>3 DEF AttachAt, AttachNodes, Besides
  <2>5. AttachedTo(i, e, builder')
    BY <1>1, <2>1, <2>4, AttachedFields
  <2>6. Standing(builder') /\ Gains(b, e, s, id, builder')
    BY <1>1, <2>1, <2>2, <2>5, AttachKeeps
  <2>7. /\ Turned(b.nodes, nodes, Meaning(e), id)
        /\ id \in DOMAIN b.nodes => b.nodes[id].synthetic = TRUE /\ Kind(e) = "Dir"
    BY <1>1, <2>1, <2>2, <2>6, GainsTurns
  <2>8. /\ MetasKept(b.metas, metas) /\ nodes[id].meta \in DOMAIN metas
        /\ metas[nodes[id].meta].record = Len(seen) + 1
        /\ Kind(e) = "Symlink" => metas[nodes[id].meta].slot = b.symlink_count
    <3>1. GainedMeta(b, e, id, builder')
      BY <1>1, <2>6, GainsMeta
    <3> QED BY <3>1 DEF GainedMeta
  <2>9. /\ nodes[id].kind = Kind(e) /\ nodes[id].synthetic = FALSE
        /\ builder'.symlink_count = IF Kind(e) = "Symlink" THEN b.symlink_count + 1
                                    ELSE b.symlink_count
    BY <2>6 DEF Gains
  <2> HIDE DEF nodes, metas, id, b
  <2>10. Told(seen', nodes, metas)
    <3>1. Wins(b.nodes, nodes[id], e, Len(seen) + 1, metas, id)
      BY <2>7, <2>8, <2>9 DEF Wins
    <3> QED BY <1>1, <1>2, <2>1, <2>7, <2>8, <3>1, ToldOn
  <2>11. Slots(nodes, metas, builder'.symlink_count)
    <3>1. b.symlink_count \in Nat
      BY <1>1, GrowsTypes
    <3>2. OneSlot(b.nodes, nodes, metas, id, b.symlink_count, builder'.symlink_count)
      BY <2>8, <2>9 DEF OneSlot
    <3> QED BY <1>1, <2>7, <2>8, <3>1, <3>2, SlotsKept
  <2> QED BY <2>10, <2>11 DEF Knows, nodes, metas
<1> QED BY <1>3, <1>5, <1>6

-----------------------------------------------------------------------------
(* The invariant of the builder and of the index that is made of it.       *)

(* The inductive invariant: the builder knows what the records say, and    *)
(* the index is made of its nodes.                                         *)
IndexInv ==
  /\ BuilderInv /\ Knows(seen, builder)
  /\ phase = "serve" => index = Finished(builder.nodes)

(* The builder knows the records, and the index is made of it, always.     *)
LEMMA IndexInvariant ==
  Spec => []IndexInv
<1> DEFINE I == Knows(seen, builder) /\ (phase = "serve" => index = Finished(builder.nodes))
<1>1. Init => I
  <2>1. SUFFICES ASSUME Init PROVE I
    OBVIOUS
  <2>2. seen = <<>> /\ builder = NewBuilder /\ phase # "serve"
    BY <2>1 DEF Init
  <2> QED BY <2>2, NothingTold
<1>2. BuilderInv /\ I /\ [Next]_vars => I'
  <2>1. SUFFICES ASSUME BuilderInv, I, [Next]_vars PROVE I'
    OBVIOUS
  <2>2. ASSUME NEW e \in Records,
               RejectPath(e) \/ RejectSize(e) \/ Duplicate(e) \/ Attach(e)
        PROVE  I'
    <3>1. Knows(seen', builder')
      BY <2>1, <2>2, RecordTold
    <3>2. phase' # "serve"
      BY <2>2 DEF RejectPath, RejectSize, Duplicate, Attach, NextRecord
    <3> QED BY <3>1, <3>2
  <2>3. CASE Finish
    <3> DEFINE nodes == builder.nodes
               idx == Finished(nodes)
               count == Cardinality({i \in DOMAIN idx \ {Root} : idx[i].synthetic})
               new == [builder EXCEPT !.stats["synthetic_dirs"] = count]
    <3>1. seen' = seen /\ builder' = new /\ index' = idx
      BY <2>3 DEF Finish
    <3>2. Standing(builder) /\ Remembers(builder) /\ Tree(nodes)
      BY <2>1 DEF BuilderInv, Standing
    <3>3. \E order : Renumbered(nodes, order, idx)
      BY <3>2, FinishedNodes
    <3> HIDE DEF idx
    <3>4. count = Cardinality(Synthetic(nodes))
      BY <3>2, <3>3, SyntheticStay
    <3> HIDE DEF count
    <3>5. /\ new.nodes = nodes /\ new.metas = builder.metas
          /\ new.symlink_count = builder.symlink_count
      BY <3>2, <3>4, FinishKeeps
    <3> HIDE DEF new
    <3>6. Knows(seen', builder')
      BY <2>1, <3>1, <3>5 DEF Knows
    <3>7. index' = Finished(builder'.nodes)
      BY <3>1, <3>5 DEF idx
    <3> QED BY <3>6, <3>7
  <2>4. ASSUME UNCHANGED <<phase, seen, builder, index>> PROVE I'
    BY <2>1, <2>4
  <2>5. ASSUME NEW ino, opendir(ino) PROVE I'
    BY <2>4, <2>5 DEF opendir
  <2>6. ASSUME readdir \/ readdirplus PROVE I'
    BY <2>4, <2>6 DEF readdir, readdirplus, Replied
  <2>7. CASE UNCHANGED vars
    BY <2>4, <2>7 DEF vars
  <2> HIDE DEF I
  <2> QED BY <2>1, <2>2, <2>3, <2>5, <2>6, <2>7 DEF Next
<1>3. BuilderInv /\ I => IndexInv
  BY DEF IndexInv
<1> HIDE DEF I
<1> QED BY <1>1, <1>2, <1>3, BuilderInvariant, PTL DEF Spec
=============================================================================
