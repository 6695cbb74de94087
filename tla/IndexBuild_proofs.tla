------------------------- MODULE IndexBuild_proofs --------------------------
(***************************************************************************)
(* Proofs about the builder in IndexBuild, for any names, records and      *)
(* limits: what Builder::add does to the tree, to the counter of synthetic *)
(* directories and to the remembered parent.                               *)
(***************************************************************************)
EXTENDS IndexTree_proofs

(* The prover of the steps that name no other.                             *)
USE Zenon

-----------------------------------------------------------------------------
(* What the loop of components computes.                                   *)

Kept(path) ==
  CHOOSE kept : kept = [i \in 0 .. Len(path) |->
    IF i = 0 THEN <<>>
    ELSE IF path[i] \in {Empty, Dot} THEN kept[i - 1]
    ELSE Append(kept[i - 1], path[i])]

(* components keeps the pieces that name something, one after the other.   *)
LEMMA KeptTurns ==
  ASSUME NEW P, NEW path \in Seq(P)
  PROVE  /\ components(path) = Kept(path)[Len(path)]
         /\ Kept(path) \in [0 .. Len(path) -> Seq(P \ {Empty, Dot})]
         /\ Kept(path)[0] = <<>>
         /\ \A i \in 1 .. Len(path) :
              Kept(path)[i] = IF path[i] \in {Empty, Dot} THEN Kept(path)[i - 1]
                              ELSE Append(Kept(path)[i - 1], path[i])
<1> DEFINE m == Len(path)
           Q == P \ {Empty, Dot}
           Is(kept) ==
             kept = [i \in 0 .. m |->
                       IF i = 0 THEN <<>>
                       ELSE IF path[i] \in {Empty, Dot} THEN kept[i - 1]
                       ELSE Append(kept[i - 1], path[i])]
           turn == [i \in 1 .. m |-> [s \in Seq(Q) |->
                     IF path[i] \in {Empty, Dot} THEN s ELSE Append(s, path[i])]]
<1>1. m \in Nat /\ <<>> \in Seq(Q) /\ turn \in [1 .. m -> [Seq(Q) -> Seq(Q)]]
  BY SMT
<1>0. \A i \in 1 .. m, s \in Seq(Q) :
        turn[i][s] = IF path[i] \in {Empty, Dot} THEN s ELSE Append(s, path[i])
  OBVIOUS
<1> HIDE DEF turn
<1>r. PICK f : Runs(f, m, Seq(Q), <<>>, turn)
  <2> HIDE DEF m
  <2> QED BY <1>1, Loop DEF Turns
<1>2. f \in [0 .. m -> Seq(Q)] /\ f[0] = <<>> /\ \A i \in 1 .. m : f[i] = turn[i][f[i - 1]]
  BY <1>r DEF Runs
<1>3. ASSUME NEW i \in 1 .. m
      PROVE  f[i] = IF path[i] \in {Empty, Dot} THEN f[i - 1] ELSE Append(f[i - 1], path[i])
  <2>1. i - 1 \in 0 .. m
    BY <1>1, SMT
  <2>2. f[i - 1] \in Seq(Q)
    BY <1>2, <2>1
  <2> QED BY <1>0, <1>2, <2>2
<1>4. Is(f)
  <2> DEFINE h == [i \in 0 .. m |->
                     IF i = 0 THEN <<>>
                     ELSE IF path[i] \in {Empty, Dot} THEN f[i - 1]
                     ELSE Append(f[i - 1], path[i])]
  <2>1. ASSUME NEW i \in 0 .. m PROVE f[i] = h[i]
    <3>1. CASE i = 0
      BY <1>2, <3>1
    <3>2. CASE i # 0
      <4>1. i \in 1 .. m
        BY <3>2, SMT
      <4> QED BY <1>3, <3>2, <4>1
    <3> QED BY <3>1, <3>2
  <2>2. h = [i \in 0 .. m |-> h[i]] /\ f = [i \in 0 .. m |-> f[i]]
    BY <1>2
  <2> QED BY <2>1, <2>2
<1>5. Is(Kept(path))
  <2>1. \E kept : Is(kept)
    BY <1>4
  <2> QED BY <2>1 DEF Kept
<1>6. Kept(path)[0] = <<>>
  BY <1>1, <1>5, SMT
<1>7. ASSUME NEW i \in 1 .. m
      PROVE  Kept(path)[i] = IF path[i] \in {Empty, Dot} THEN Kept(path)[i - 1]
                             ELSE Append(Kept(path)[i - 1], path[i])
  <2>1. i \in 0 .. m /\ i # 0
    BY <1>1, SMT
  <2> QED BY <1>5, <2>1
<1>8. \A i \in 0 .. m : Kept(path)[i] = f[i]
  <2>1. Follows(Kept(path), m, Seq(Q), <<>>, turn)
    BY <1>0, <1>6, <1>7 DEF Follows
  <2>2. m \in Nat
    BY <1>1
  <2> HIDE DEF m
  <2> QED BY <2>2, <1>r, <2>1, LoopOnce, SMT
<1>9. Kept(path) \in [0 .. m -> Seq(Q)]
  <2>1. Kept(path) = [i \in 0 .. m |-> Kept(path)[i]]
    BY <1>5
  <2>2. \A i \in 0 .. m : Kept(path)[i] \in Seq(Q)
    BY <1>2, <1>8
  <2> QED BY <2>1, <2>2
<1>10. components(path) = Kept(path)[m]
  BY DEF components, Kept
<1> QED BY <1>6, <1>7, <1>9, <1>10

(* What an accepted path consists of: names, at least one, and so a parent *)
(* and a last name.                                                        *)
LEMMA AcceptedPath ==
  ASSUME NEW e \in Records, Accepted(e)
  PROVE  LET path == normalize_path(e.pieces)
             split == split_parent(path)
         IN /\ path \in Seq(Names) /\ path # <<>>
            /\ split.parent \in Seq(Names) /\ split.leaf \in Names
            /\ path = Append(split.parent, split.leaf)
<1> DEFINE path == components(e.pieces)
<1>1. e.pieces \in Seq(Pieces)
  BY BuildAssumption
<1>2. path \in Seq(Pieces \ {Empty, Dot})
  <2>1. Len(e.pieces) \in Nat /\ Len(e.pieces) \in 0 .. Len(e.pieces)
    BY <1>1, SMT
  <2>2. /\ path = Kept(e.pieces)[Len(e.pieces)]
        /\ Kept(e.pieces) \in [0 .. Len(e.pieces) -> Seq(Pieces \ {Empty, Dot})]
    <3> HIDE DEF path
    <3> QED BY <1>1, KeptTurns DEF path
  <2> QED BY <2>1, <2>2
<1>3. path # <<>> /\ \A i \in DOMAIN path : path[i] \notin {DotDot, Long}
  BY DEF Accepted, reject_reason
<1> HIDE DEF path
<1>4. path \in Seq(Names)
  <2>1. \A i \in 1 .. Len(path) : path[i] \in Names
    BY <1>2, <1>3, SMT DEF Pieces
  <2> QED BY <1>2, <2>1, SMT
<1>5. /\ SubSeq(path, 1, Len(path) - 1) \in Seq(Names) /\ path[Len(path)] \in Names
      /\ path = Append(SubSeq(path, 1, Len(path) - 1), path[Len(path)])
  <2>1. Len(path) \in Nat \ {0}
    BY <1>3, <1>4, SMT
  <2>2. SubSeq(path, 1, Len(path) - 1) \in Seq(Names)
    BY <1>4, <2>1, SMT
  <2>3. path[Len(path)] \in Names
    BY <1>4, <2>1, SMT
  <2> QED BY <1>4, <2>1, <2>2, <2>3, SMT
<1>6. path = components(e.pieces)
  BY DEF path
<1> QED BY <1>3, <1>4, <1>5, <1>6 DEF normalize_path, split_parent

-----------------------------------------------------------------------------
(* How the tree of a Builder grows.                                        *)

(* Nodes are added, never moved or renamed, and a directory stays one.     *)
Grows(old, new) ==
  /\ Len(old) <= Len(new)
  /\ \A i \in 1 .. Len(old) :
       /\ new[i].name = old[i].name /\ new[i].parent = old[i].parent
       /\ old[i].kind = "Dir" => new[i].kind = "Dir"

Synthetic(nodes) == {i \in DOMAIN nodes \ {Root} : nodes[i].synthetic}

(* Builder::intern adds a directory to the tree.                           *)
Added(old, new, parent, name) ==
  /\ new \in Seq(Node) /\ Grows(old, new)
  /\ Len(new) = Len(old) + 1 /\ DOMAIN new = DOMAIN old \cup {Len(old) + 1}
  /\ Len(old) + 1 \notin DOMAIN old \cup {Root}
  /\ new[Len(old) + 1] = NewNode(parent, name)
  /\ \A i \in DOMAIN old : new[i] = old[i]
  /\ Synthetic(new) = Synthetic(old) \cup {Len(old) + 1}

(* intern of a new name: a node is pushed.                                 *)
LEMMA NodeAdded ==
  ASSUME NEW nodes, Tree(nodes), NEW parent \in DOMAIN nodes,
         nodes[parent].kind = "Dir", NEW name \in Names,
         Find(nodes, parent, name) = {}
  PROVE  LET new == Append(nodes, NewNode(parent, name))
         IN Tree(new) /\ Added(nodes, new, parent, name)
<1> DEFINE new == Append(nodes, NewNode(parent, name))
           n == Len(nodes)
<1>1. nodes \in Seq(Node) /\ n \in Nat \ {0} /\ DOMAIN nodes = 1 .. n
  BY SMT DEF Tree
<1>2. NewNode(parent, name) \in Node
  BY <1>1, SMT DEF NewNode, Node, Kinds, None
<1>3. /\ new \in Seq(Node) /\ Len(new) = n + 1 /\ DOMAIN new = 1 .. n + 1
      /\ new[n + 1] = NewNode(parent, name) /\ \A i \in DOMAIN nodes : new[i] = nodes[i]
  BY <1>1, <1>2, SMT
<1> HIDE DEF new
<1>4. \A i \in DOMAIN nodes \ {Root} :
        /\ nodes[i].name \in Names /\ nodes[i].parent \in 1 .. i - 1
        /\ nodes[nodes[i].parent].kind = "Dir" /\ nodes[i].parent \in DOMAIN nodes
        /\ nodes[i].synthetic => nodes[i].kind = "Dir"
        /\ ~(nodes[i].parent = parent /\ nodes[i].name = name)
  BY <1>1, SMT DEF Tree, Find
<1>5. /\ new[n + 1].name = name /\ new[n + 1].parent = parent
      /\ new[n + 1].synthetic = TRUE /\ new[n + 1].kind = "Dir"
  BY <1>3, SMT DEF NewNode
<1>6. /\ new[Root] = nodes[Root] /\ nodes[Root].kind = "Dir" /\ nodes[Root].parent = Root
      /\ new # <<>> /\ n + 1 # Root
  BY <1>1, <1>3, SMT DEF Root, Tree
<1>7. DOMAIN new \ {Root} = (DOMAIN nodes \ {Root}) \cup {n + 1}
  BY <1>1, <1>3, <1>6, SMT
<1>8. ASSUME NEW i \in DOMAIN new \ {Root}
      PROVE  /\ new[i].name \in Names /\ new[i].parent \in 1 .. i - 1
             /\ new[new[i].parent].kind = "Dir"
             /\ new[i].synthetic => new[i].kind = "Dir"
  <2>1. CASE i = n + 1
    <3>1. parent \in 1 .. i - 1
      BY <1>1, <2>1, SMT
    <3> QED BY <1>3, <1>5, <2>1, <3>1
  <2>2. CASE i \in DOMAIN nodes \ {Root}
    BY <1>3, <1>4, <2>2
  <2> QED BY <1>7, <2>1, <2>2
<1>9. ASSUME NEW i \in DOMAIN new \ {Root}, NEW j \in DOMAIN new \ {Root},
             new[i].parent = new[j].parent, new[i].name = new[j].name
      PROVE  i = j
  <2>1. CASE i \in DOMAIN nodes \ {Root} /\ j \in DOMAIN nodes \ {Root}
    BY <1>3, <1>9, <2>1 DEF Tree
  <2>2. ASSUME NEW k \in DOMAIN nodes \ {Root}
        PROVE  ~(new[k].parent = new[n + 1].parent /\ new[k].name = new[n + 1].name)
    BY <1>3, <1>4, <1>5
  <2> QED BY <1>7, <1>9, <2>1, <2>2
<1>10. Tree(new)
  BY <1>3, <1>6, <1>8, <1>9 DEF Tree
<1>11. Grows(nodes, new)
  BY <1>1, <1>3, SMT DEF Grows
<1>12. Synthetic(new) = Synthetic(nodes) \cup {n + 1}
  BY <1>3, <1>5, <1>7 DEF Synthetic
<1>13. n + 1 \notin DOMAIN nodes \cup {Root} /\ DOMAIN new = DOMAIN nodes \cup {n + 1}
  BY <1>1, <1>3, SMT DEF Root
<1> QED BY <1>3, <1>10, <1>11, <1>12, <1>13 DEF new, Added

(* A node changed in place.                                                *)
Changed(nodes, id, kind, synthetic, meta) ==
  [nodes EXCEPT ![id] = [@ EXCEPT !.kind = kind, !.synthetic = synthetic, !.meta = meta]]

Only(old, new, id, kind, synthetic, meta) ==
  /\ new \in Seq(Node) /\ Len(new) = Len(old) /\ DOMAIN new = DOMAIN old
  /\ \A i \in DOMAIN old :
       new[i].name = old[i].name /\ new[i].parent = old[i].parent
  /\ new[id].kind = kind /\ new[id].synthetic = synthetic /\ new[id].meta = meta
  /\ \A i \in DOMAIN old \ {id} : new[i] = old[i]
  /\ Synthetic(new) = IF synthetic THEN Synthetic(old) \cup {id} ELSE Synthetic(old) \ {id}

(* take_over_as_dir and the end of Builder::add change one node in place.  *)
(* It keeps its name and its parent, and a directory with something in it  *)
(* stays a directory.                                                      *)
LEMMA NodeChanged ==
  ASSUME NEW nodes, Tree(nodes), NEW id \in DOMAIN nodes \ {Root},
         NEW kind \in Kinds, NEW synthetic \in BOOLEAN, NEW meta \in Nat,
         synthetic => kind = "Dir",
         kind = "Dir" \/ \A i \in DOMAIN nodes \ {Root} : nodes[i].parent # id
  PROVE  LET new == Changed(nodes, id, kind, synthetic, meta)
         IN Tree(new) /\ Only(nodes, new, id, kind, synthetic, meta)
<1> DEFINE new == Changed(nodes, id, kind, synthetic, meta)
<1> USE DEF Changed
<1>1. nodes \in Seq(Node) /\ Len(nodes) \in Nat \ {0} /\ DOMAIN nodes = 1 .. Len(nodes)
  BY SMT DEF Tree
<1>2. nodes[id] \in Node
  BY <1>1, SMT
<1>3. [nodes[id] EXCEPT !.kind = kind, !.synthetic = synthetic, !.meta = meta] \in Node
  BY <1>2 DEF Node
<1>4. new \in Seq(Node) /\ Len(new) = Len(nodes) /\ DOMAIN new = DOMAIN nodes
  BY <1>1, <1>3, SMT
<1>5. /\ new[id].name = nodes[id].name /\ new[id].parent = nodes[id].parent
      /\ new[id].kind = kind /\ new[id].synthetic = synthetic /\ new[id].meta = meta
  BY <1>1, <1>2 DEF Node
<1>6. \A i \in DOMAIN nodes \ {id} : new[i] = nodes[i]
  BY <1>1
<1> HIDE DEF new, Changed
<1>7. \A i \in DOMAIN nodes : new[i].name = nodes[i].name /\ new[i].parent = nodes[i].parent
  BY <1>5, <1>6
<1>8. /\ new[Root] = nodes[Root] /\ Root \in DOMAIN nodes
      /\ nodes[Root].kind = "Dir" /\ nodes[Root].parent = Root
  <2>1. Root \in DOMAIN nodes
    BY <1>1, SMT DEF Root
  <2> QED BY <1>6, <2>1 DEF Tree
<1>9. ASSUME NEW i \in DOMAIN new \ {Root}
      PROVE  /\ new[i].name \in Names /\ new[i].parent \in 1 .. i - 1
             /\ new[new[i].parent].kind = "Dir"
             /\ new[i].synthetic => new[i].kind = "Dir"
  <2>1. /\ nodes[i].name \in Names /\ nodes[i].parent \in 1 .. i - 1
        /\ nodes[nodes[i].parent].kind = "Dir"
        /\ nodes[i].synthetic => nodes[i].kind = "Dir"
    BY <1>4 DEF Tree
  <2>2. nodes[i].parent \in DOMAIN nodes
    BY <1>1, <1>4, <2>1, SMT
  <2>3. new[nodes[i].parent].kind = "Dir"
    BY <1>4, <1>5, <1>6, <2>1, <2>2
  <2>4. new[i].synthetic => new[i].kind = "Dir"
    BY <1>4, <1>5, <1>6, <2>1
  <2> QED BY <1>4, <1>7, <2>1, <2>3, <2>4
<1>10. ASSUME NEW i \in DOMAIN new \ {Root}, NEW j \in DOMAIN new \ {Root},
              new[i].parent = new[j].parent, new[i].name = new[j].name
       PROVE  i = j
  BY <1>4, <1>7, <1>10 DEF Tree
<1>11. new # <<>>
  BY <1>1, <1>4
<1>12. Tree(new)
  BY <1>4, <1>8, <1>9, <1>10, <1>11 DEF Tree
<1>13. Synthetic(new) = IF synthetic THEN Synthetic(nodes) \cup {id}
                        ELSE Synthetic(nodes) \ {id}
  BY <1>4, <1>5, <1>6 DEF Synthetic
<1> QED BY <1>4, <1>5, <1>6, <1>7, <1>12, <1>13 DEF new, Only

(* There are finitely many of them, so they can be counted one by one.     *)
LEMMA SyntheticFinite ==
  ASSUME NEW nodes, nodes \in Seq(Node)
  PROVE  IsFiniteSet(Synthetic(nodes)) /\ Cardinality(Synthetic(nodes)) \in Nat
<1>1. IsFiniteSet(1 .. Len(nodes))
  BY FS_Interval, SMT
<1>2. Synthetic(nodes) \subseteq 1 .. Len(nodes)
  BY SMT DEF Synthetic
<1> QED BY <1>1, <1>2, FS_Subset, FS_CardinalityType

-----------------------------------------------------------------------------
(* How a parent's path is resolved.                                        *)

Builders ==
  [nodes: Seq(Node), metas: Seq([record: Nat, slot: Nat]), memo_path: Seq(Names),
   memo_id: Nat, symlink_count: Nat, stats: [Stats -> Int]]

Counted(b) == b.stats["synthetic_dirs"] = Cardinality(Synthetic(b.nodes))

Standing(b) == b \in Builders /\ Tree(b.nodes) /\ Counted(b)

(* Nothing but nodes and counters has changed.                             *)
Besides(old, new) ==
  /\ new \in Builders
  /\ new.metas = old.metas /\ new.symlink_count = old.symlink_count
  /\ new.memo_path = old.memo_path /\ new.memo_id = old.memo_id

Resolving(old, new) == Grows(old.nodes, new.nodes) /\ Besides(old, new)

(* Only node id has, to a synthetic directory that was none before.        *)
MadeDir(old, new, id) ==
  \A i \in DOMAIN new :
    \/ i \in DOMAIN old /\ new[i] = old[i]
    \/ /\ i = id /\ new[i].synthetic /\ new[i].meta = None
       /\ i \in DOMAIN old => old[i].kind # "Dir"

(* What is needed of a builder most often.                                 *)
LEMMA GrowsTypes ==
  ASSUME NEW b, Standing(b)
  PROVE  /\ b.nodes \in Seq(Node) /\ Len(b.nodes) \in Nat \ {0}
         /\ DOMAIN b.nodes = 1 .. Len(b.nodes) /\ Tree(b.nodes)
         /\ b.metas \in Seq([record: Nat, slot: Nat]) /\ b.memo_path \in Seq(Names)
         /\ b.memo_id \in Nat /\ b.symlink_count \in Nat /\ b.stats \in [Stats -> Int]
         /\ b.stats["synthetic_dirs"] \in Int
<1>1. b \in Builders /\ Tree(b.nodes)
  BY DEF Standing
<1>2. "synthetic_dirs" \in Stats
  BY DEF Stats
<1>3. b.nodes \in Seq(Node) /\ b.nodes # <<>>
  BY <1>1 DEF Tree
<1>4. Len(b.nodes) \in Nat \ {0} /\ DOMAIN b.nodes = 1 .. Len(b.nodes)
  BY <1>3, SMT
<1>5. /\ b.metas \in Seq([record: Nat, slot: Nat]) /\ b.memo_path \in Seq(Names)
      /\ b.memo_id \in Nat /\ b.symlink_count \in Nat /\ b.stats \in [Stats -> Int]
  BY <1>1 DEF Builders
<1> QED BY <1>1, <1>2, <1>3, <1>4, <1>5

(* Builder::intern finds the node or adds it.                              *)
Finds(b, parent, name, i) ==
  /\ i.fresh = FALSE /\ i.b = b /\ i.id \in DOMAIN b.nodes \ {Root}
  /\ b.nodes[i.id].parent = parent /\ b.nodes[i.id].name = name

Adds(b, parent, name, i) ==
  /\ i.fresh = TRUE /\ Find(b.nodes, parent, name) = {}
  /\ i.b = [b EXCEPT !.nodes = Append(b.nodes, NewNode(parent, name))]
  /\ i.id = Len(b.nodes) + 1

(* intern finds the child with that name, or adds it.                      *)
LEMMA Interns ==
  ASSUME NEW b, NEW parent, NEW name
  PROVE  LET i == intern(b, parent, name)
         IN Finds(b, parent, name, i) \/ Adds(b, parent, name, i)
<1> DEFINE found == Find(b.nodes, parent, name)
<1>1. CASE found = {}
  <2> DEFINE i == [b |-> [b EXCEPT !.nodes = Append(b.nodes, NewNode(parent, name))],
                   id |-> Len(b.nodes) + 1, fresh |-> TRUE]
  <2>1. intern(b, parent, name) = i
    BY <1>1 DEF intern
  <2>2. Adds(b, parent, name, i)
    BY <1>1 DEF Adds
  <2> QED BY <2>1, <2>2
<1>2. CASE found # {}
  <2> DEFINE id == CHOOSE i \in found : TRUE
  <2>1. id \in found
    BY <1>2
  <2>2. /\ id \in DOMAIN b.nodes \ {Root}
        /\ b.nodes[id].parent = parent /\ b.nodes[id].name = name
    BY <2>1 DEF Find
  <2> DEFINE i == [b |-> b, id |-> id, fresh |-> FALSE]
  <2>3. intern(b, parent, name) = i
    BY <1>2 DEF intern
  <2> HIDE DEF id
  <2>4. Finds(b, parent, name, i)
    BY <2>2 DEF Finds
  <2> QED BY <2>3, <2>4
<1> QED BY <1>1, <1>2

(* Fields that are replaced, and fields that are not.                      *)
CountsOne(old, new, s) ==
  /\ Besides(old, new) /\ new.nodes = old.nodes
  /\ new.stats[s] = old.stats[s] + 1
  /\ \A t \in Stats \ {s} : new.stats[t] = old.stats[t]

(* A counter goes up, and nothing else changes.                            *)
LEMMA CountFields ==
  ASSUME NEW b \in Builders, NEW s \in Stats
  PROVE  CountsOne(b, Count(b, s), s)
<1> DEFINE stats == [b.stats EXCEPT ![s] = @ + 1]
           new == [b EXCEPT !.stats = stats]
<1>1. b.stats \in [Stats -> Int]
  BY DEF Builders
<1>2. stats \in [Stats -> Int] /\ stats[s] = b.stats[s] + 1
      /\ \A t \in Stats \ {s} : stats[t] = b.stats[t]
  BY <1>1, SMT
<1> HIDE DEF stats
<1>3. Besides(b, new) /\ new.nodes = b.nodes /\ new.stats = stats
  BY <1>2 DEF Builders, Besides
<1>4. Count(b, s) = new
  BY DEF Count, stats
<1> QED BY <1>2, <1>3, <1>4 DEF CountsOne

(* New nodes, and nothing else changes.                                    *)
LEMMA NodesFields ==
  ASSUME NEW b \in Builders, NEW nodes \in Seq(Node)
  PROVE  LET new == [b EXCEPT !.nodes = nodes]
         IN Besides(b, new) /\ new.nodes = nodes /\ new.stats = b.stats
BY DEF Builders, Besides

(* A builder with other nodes and one more counted.                        *)
LEMMA OneMore ==
  ASSUME NEW b, Standing(b), NEW new, Tree(new.nodes), NEW id,
         id \notin Synthetic(b.nodes),
         Synthetic(new.nodes) = Synthetic(b.nodes) \cup {id},
         Grows(b.nodes, new.nodes), Besides(b, new),
         new.stats["synthetic_dirs"] = b.stats["synthetic_dirs"] + 1
  PROVE  Standing(new) /\ Resolving(b, new)
<1>1. b.nodes \in Seq(Node)
  BY GrowsTypes
<1>2. IsFiniteSet(Synthetic(b.nodes))
  BY <1>1, SyntheticFinite
<1>3. Cardinality(Synthetic(new.nodes)) = Cardinality(Synthetic(b.nodes)) + 1
  BY <1>2, FS_AddElement
<1> QED BY <1>3 DEF Standing, Counted, Resolving, Besides

(* Builder::take_over_as_dir.                                              *)
LEMMA TakesOver ==
  ASSUME NEW b, Standing(b), NEW id \in DOMAIN b.nodes \ {Root},
         b.nodes[id].kind # "Dir"
  PROVE  LET new == take_over_as_dir(b, id)
         IN /\ Standing(new) /\ Resolving(b, new)
            /\ Only(b.nodes, new.nodes, id, "Dir", TRUE, None)
            /\ MadeDir(b.nodes, new.nodes, id)
<1> DEFINE old == b.nodes
           nodes == Changed(old, id, "Dir", TRUE, None)
           b1 == [b EXCEPT !.nodes = nodes]
           b2 == Count(b1, "duplicates")
           new == take_over_as_dir(b, id)
<1>1. /\ old \in Seq(Node) /\ Len(old) \in Nat \ {0} /\ DOMAIN old = 1 .. Len(old)
      /\ Tree(old) /\ b \in Builders
  BY GrowsTypes DEF Standing
<1>2. Tree(nodes) /\ Only(old, nodes, id, "Dir", TRUE, None)
  <2>1. "Dir" \in Kinds /\ None \in Nat
    BY DEF Kinds, None
  <2>2. TRUE \in BOOLEAN
    OBVIOUS
  <2> QED BY <1>1, <2>1, <2>2, NodeChanged
<1>3. new = Count(b2, "synthetic_dirs")
  BY DEF take_over_as_dir, Changed
<1> HIDE DEF nodes, new
<1>4. Besides(b, b1) /\ b1.nodes = nodes /\ b1.stats = b.stats
  <2>1. nodes \in Seq(Node)
    BY <1>2 DEF Only
  <2> QED BY <1>1, <2>1, NodesFields
<1>5. "duplicates" \in Stats /\ "synthetic_dirs" \in Stats \ {"duplicates"}
  BY DEF Stats
<1> HIDE DEF b1
<1>6. CountsOne(b1, b2, "duplicates")
  BY <1>4, <1>5, CountFields DEF Besides
<1> HIDE DEF b2
<1>7. CountsOne(b2, new, "synthetic_dirs")
  <2>1. b2 \in Builders
    BY <1>6 DEF CountsOne, Besides
  <2>2. "synthetic_dirs" \in Stats
    BY <1>5
  <2> QED BY <1>3, <2>1, <2>2, CountFields
<1>8. /\ Besides(b, new) /\ new.nodes = nodes
      /\ new.stats["synthetic_dirs"] = b.stats["synthetic_dirs"] + 1
  BY <1>4, <1>5, <1>6, <1>7 DEF CountsOne, Besides
<1>9. id \notin Synthetic(old)
  BY <1>1 DEF Synthetic, Tree
<1>10. Grows(old, nodes)
  <2>1. Len(old) \in Nat /\ Len(nodes) = Len(old)
    BY <1>1, <1>2 DEF Only
  <2>2. Len(old) <= Len(nodes)
    BY <2>1, SMT
  <2> QED BY <1>1, <1>2, <2>2 DEF Grows, Only
<1>11. Synthetic(nodes) = Synthetic(old) \cup {id}
  BY <1>2 DEF Only
<1>12. Standing(new) /\ Resolving(b, new)
  BY <1>2, <1>8, <1>9, <1>10, <1>11, OneMore
<1>13. MadeDir(old, nodes, id)
  BY <1>2 DEF MadeDir, Only
<1> QED BY <1>2, <1>8, <1>12, <1>13 DEF new

(* A fresh node of Builder::intern, counted.                               *)
LEMMA AddsDir ==
  ASSUME NEW b, Standing(b), NEW parent \in DOMAIN b.nodes,
         b.nodes[parent].kind = "Dir", NEW name \in Names,
         NEW i, Adds(b, parent, name, i)
  PROVE  LET new == Count(i.b, "synthetic_dirs")
         IN /\ Standing(new) /\ Resolving(b, new)
            /\ Added(b.nodes, new.nodes, parent, name)
            /\ MadeDir(b.nodes, new.nodes, i.id)
<1> DEFINE old == b.nodes
           id == Len(old) + 1
           nodes == Append(old, NewNode(parent, name))
           b1 == [b EXCEPT !.nodes = nodes]
           new == Count(b1, "synthetic_dirs")
<1>1. /\ Tree(old) /\ b \in Builders
      /\ i.b = b1 /\ i.id = id /\ Find(old, parent, name) = {}
  BY DEF Standing, Adds
<1>2. Tree(nodes) /\ Added(old, nodes, parent, name)
  BY <1>1, NodeAdded
<1> HIDE DEF nodes
<1>3. nodes \in Seq(Node) /\ Grows(old, nodes) /\ Synthetic(nodes) = Synthetic(old) \cup {id}
      /\ id \notin DOMAIN old
  BY <1>2 DEF Added
<1>4. Besides(b, b1) /\ b1.nodes = nodes /\ b1.stats = b.stats
  BY <1>1, <1>3, NodesFields
<1>5. "synthetic_dirs" \in Stats
  BY DEF Stats
<1> HIDE DEF b1
<1>6. CountsOne(b1, new, "synthetic_dirs")
  BY <1>4, <1>5, CountFields DEF Besides
<1> HIDE DEF new
<1>7. Besides(b, new) /\ new.nodes = nodes
      /\ new.stats["synthetic_dirs"] = b.stats["synthetic_dirs"] + 1
  BY <1>4, <1>6 DEF Besides, CountsOne
<1>8. id \notin Synthetic(old)
  BY <1>3 DEF Synthetic
<1>9. Standing(new) /\ Resolving(b, new)
  BY <1>2, <1>3, <1>7, <1>8, OneMore
<1>10. MadeDir(old, nodes, id)
  <2>1. NewNode(parent, name).synthetic = TRUE /\ NewNode(parent, name).meta = None
    BY DEF NewNode
  <2> QED BY <1>2, <2>1 DEF MadeDir, Added
<1> QED BY <1>1, <1>2, <1>7, <1>9, <1>10 DEF new

(* One turn of the loop of resolve_parent, from a directory s.cur.         *)
Descended(s, d, name) ==
  /\ d = [cur |-> d.cur, b |-> d.b]
  /\ Standing(d.b) /\ Resolving(s.b, d.b)
  /\ d.cur \in DOMAIN d.b.nodes \ {Root} /\ d.b.nodes[d.cur].kind = "Dir"
  /\ d.b.nodes[d.cur].parent = s.cur /\ d.b.nodes[d.cur].name = name
  /\ MadeDir(s.b.nodes, d.b.nodes, d.cur)

(* One turn of the walk: the child is found, made or taken over.           *)
LEMMA DescendStep ==
  ASSUME NEW s, Standing(s.b), s.cur \in DOMAIN s.b.nodes,
         s.b.nodes[s.cur].kind = "Dir", NEW name \in Names
  PROVE  Descended(s, Descend(s, name), name)
<1> DEFINE b == s.b
           i == intern(b, s.cur, name)
           d == Descend(s, name)
<1>0. b.nodes \in Seq(Node) /\ b \in Builders
  BY GrowsTypes DEF Standing
<1>1. Finds(b, s.cur, name, i) \/ Adds(b, s.cur, name, i)
  BY Interns
<1>2. CASE Finds(b, s.cur, name, i) /\ b.nodes[i.id].kind = "Dir"
  <2>1. d = [cur |-> i.id, b |-> b]
    BY <1>2 DEF Descend, Finds
  <2>2. d = [cur |-> d.cur, b |-> d.b] /\ d.cur = i.id /\ d.b = b
    BY <2>1, SMT
  <2> HIDE DEF i, d
  <2>3. Resolving(b, b)
    BY <1>0, SMT DEF Resolving, Grows, Besides
  <2>4. MadeDir(b.nodes, b.nodes, i.id)
    BY DEF MadeDir
  <2> QED BY <1>2, <2>2, <2>3, <2>4 DEF Finds, d, Descended
<1>3. CASE Finds(b, s.cur, name, i) /\ b.nodes[i.id].kind # "Dir"
  <2> DEFINE new == take_over_as_dir(b, i.id)
  <2>1. d = [cur |-> i.id, b |-> new]
    BY <1>3 DEF Descend, Finds
  <2>2. d = [cur |-> d.cur, b |-> d.b] /\ d.cur = i.id /\ d.b = new
    BY <2>1, SMT
  <2> HIDE DEF i, d
  <2>3. /\ Standing(new) /\ Resolving(b, new) /\ MadeDir(b.nodes, new.nodes, i.id)
        /\ Only(b.nodes, new.nodes, i.id, "Dir", TRUE, None)
    BY <1>3, TakesOver DEF Finds
  <2> HIDE DEF new
  <2>4. /\ i.id \in DOMAIN new.nodes \ {Root} /\ new.nodes[i.id].kind = "Dir"
        /\ new.nodes[i.id].parent = s.cur /\ new.nodes[i.id].name = name
    BY <1>3, <2>3 DEF Only, Finds
  <2> QED BY <2>2, <2>3, <2>4 DEF d, Descended
<1>4. CASE Adds(b, s.cur, name, i)
  <2> DEFINE new == Count(i.b, "synthetic_dirs")
  <2>1. d = [cur |-> i.id, b |-> new]
    BY <1>4 DEF Descend, Adds
  <2>2. d = [cur |-> d.cur, b |-> d.b] /\ d.cur = i.id /\ d.b = new
    BY <2>1, SMT
  <2> HIDE DEF i, d
  <2>3. /\ Standing(new) /\ Resolving(b, new)
        /\ Added(b.nodes, new.nodes, s.cur, name)
        /\ MadeDir(b.nodes, new.nodes, i.id)
    BY <1>4, AddsDir
  <2> HIDE DEF new
  <2>4. /\ i.id \in DOMAIN new.nodes \ {Root}
        /\ new.nodes[i.id] = NewNode(s.cur, name)
    BY <1>4, <2>3 DEF Added, Adds
  <2>5. /\ new.nodes[i.id].kind = "Dir" /\ new.nodes[i.id].parent = s.cur
        /\ new.nodes[i.id].name = name
    BY <2>4, SMT DEF NewNode
  <2> QED BY <2>2, <2>3, <2>4, <2>5 DEF d, Descended
<1> QED BY <1>1, <1>2, <1>3, <1>4

-----------------------------------------------------------------------------
(* Paths stay when the tree grows.                                         *)

(* As nodes are added, those that were there keep their paths.             *)
SamePaths(old, new) ==
  \A i \in DOMAIN old : i \in DOMAIN new /\ PathOf(new, i) = PathOf(old, i)

(* A node keeps its path when the tree grows.                              *)
LEMMA PathKept ==
  ASSUME NEW old, NEW new, Tree(old), Tree(new), Grows(old, new)
  PROVE  SamePaths(old, new)
<1> DEFINE m == Len(old)
           same == {n \in 0 .. m : \A i \in 1 .. n : PathOf(new, i) = PathOf(old, i)}
<1>1. /\ m \in Nat \ {0} /\ DOMAIN old = 1 .. m
      /\ \A i \in DOMAIN old \ {Root} : old[i].parent \in 1 .. i - 1
      /\ Rooted(old) /\ Rooted(new)
  BY TreeTypes, PathTurns
<1>2. DOMAIN old \subseteq DOMAIN new
  BY <1>1, TreeTypes, SMT DEF Grows
<1>3. 0 \in same
  BY <1>1, SMT
<1>4. ASSUME NEW n \in 0 .. m - 1, n \in same PROVE n + 1 \in same
  <2>1. n + 1 \in DOMAIN old /\ n + 1 \in 0 .. m /\ n + 1 \in 1 .. m
    BY <1>1, SMT
  <2>2. \A i \in 1 .. n + 1 : i = n + 1 \/ i \in 1 .. n
    BY <1>1, SMT
  <2>3. CASE n + 1 = Root
    BY <1>1, <1>4, <2>1, <2>2, <2>3 DEF Rooted
  <2>4. CASE n + 1 # Root
    <3>1. old[n + 1].parent \in 1 .. (n + 1) - 1
      BY <1>1, <2>1, <2>4
    <3>2. old[n + 1].parent \in 1 .. n
      BY <1>1, <3>1, SMT
    <3>3. new[n + 1].parent = old[n + 1].parent /\ new[n + 1].name = old[n + 1].name
      BY <2>1 DEF Grows
    <3>4. PathOf(new, old[n + 1].parent) = PathOf(old, old[n + 1].parent)
      BY <1>4, <3>2
    <3>5. PathOf(new, n + 1) = PathOf(old, n + 1)
      BY <1>1, <1>2, <2>1, <2>4, <3>3, <3>4 DEF Rooted
    <3> QED BY <1>4, <2>1, <2>2, <3>5
  <2> QED BY <2>3, <2>4
<1>5. m \in same
  <2> HIDE DEF same
  <2>1. \A n \in 0 .. m : n \in same
    BY <1>1, <1>3, <1>4, UpTo
  <2> QED BY <1>1, <2>1, SMT
<1> QED BY <1>1, <1>2, <1>5 DEF SamePaths

-----------------------------------------------------------------------------
(* The walk of resolve_parent along a path.                                *)

WalkAt(b, path) ==
  CHOOSE at : at = [n \in 0 .. Len(path) |->
    IF n = 0 THEN [b |-> b, cur |-> Root] ELSE Descend(at[n - 1], path[n])]

(* Where it can be: in a directory of a tree that has grown.               *)
Walks(b) ==
  {s \in [b: Builders, cur: Nat] :
     /\ Standing(s.b) /\ Resolving(b, s.b)
     /\ s.cur \in DOMAIN s.b.nodes /\ s.b.nodes[s.cur].kind = "Dir"}

(* What two stretches of a walk do together.                               *)
LEMMA ResolvingOn ==
  ASSUME NEW a, NEW b, NEW c, Standing(a), Standing(b), Standing(c),
         Resolving(a, b), Resolving(b, c)
  PROVE  Resolving(a, c)
<1> DEFINE k == Len(a.nodes)
           m == Len(b.nodes)
           n == Len(c.nodes)
<1>1. k \in Nat /\ m \in Nat /\ n \in Nat
  BY GrowsTypes
<1>2. k <= m /\ m <= n
  BY DEF Resolving, Grows
<1>3. k <= n /\ 1 .. k \subseteq 1 .. m
  BY <1>1, <1>2, SMT
<1>4. Grows(a.nodes, c.nodes)
  BY <1>3 DEF Resolving, Grows
<1> QED BY <1>4 DEF Resolving, Besides

(* One turn more of the walk keeps the builder right.                      *)
LEMMA WalkOn ==
  ASSUME NEW b, Standing(b), NEW s \in Walks(b), NEW name \in Names
  PROVE  Descend(s, name) \in Walks(b) /\ Descended(s, Descend(s, name), name)
<1> DEFINE d == Descend(s, name)
<1>1. /\ Standing(s.b) /\ Resolving(b, s.b)
      /\ s.cur \in DOMAIN s.b.nodes /\ s.b.nodes[s.cur].kind = "Dir"
  BY DEF Walks
<1>2. Descended(s, d, name)
  BY <1>1, DescendStep
<1> HIDE DEF d
<1>3. Resolving(b, d.b)
  BY <1>1, <1>2, ResolvingOn DEF Descended
<1>4. d.b \in Builders /\ d.cur \in Nat
  BY <1>2, GrowsTypes, SMT DEF Descended, Standing
<1>5. d \in [b: Builders, cur: Nat]
  BY <1>2, <1>4 DEF Descended
<1> QED BY <1>2, <1>3, <1>5 DEF Descended, Walks, d

(* The walk of resolve_parent, as a loop.                                  *)
LEMMA WalkTurns ==
  ASSUME NEW b, Standing(b), NEW path \in Seq(Names)
  PROVE  LET at == WalkAt(b, path)
         IN /\ at \in [0 .. Len(path) -> Walks(b)] /\ at[0] = [b |-> b, cur |-> Root]
            /\ \A n \in 1 .. Len(path) : at[n] = Descend(at[n - 1], path[n])
            /\ Walk(b, path) = at[Len(path)]
<1> DEFINE m == Len(path)
           S == Walks(b)
           c == [b |-> b, cur |-> Root]
           step(g, n) == IF n = 0 THEN c ELSE Descend(g[n - 1], path[n])
           turn == [n \in 1 .. m |-> [s \in S |-> Descend(s, path[n])]]
           at == WalkAt(b, path)
<1>1. m \in Nat /\ \A n \in 1 .. m : path[n] \in Names
  BY SMT
<1>2. turn \in Turns(m, S)
  BY <1>1, WalkOn DEF Turns
<1>3. c \in S
  <2>1. Resolving(b, b) /\ b \in Builders
    BY GrowsTypes, SMT DEF Resolving, Grows, Besides, Standing
  <2>2. Root \in DOMAIN b.nodes /\ b.nodes[Root].kind = "Dir" /\ Root \in Nat
    BY GrowsTypes, SMT DEF Root, Tree
  <2> QED BY <2>1, <2>2 DEF Walks
<1>4. \A n \in 1 .. m, s \in S : turn[n][s] = Descend(s, path[n])
  OBVIOUS
<1> HIDE DEF turn, S, m
<1>5. PICK f : Runs(f, m, S, c, turn)
  <2> HIDE DEF c
  <2> QED BY <1>1, <1>2, <1>3, Loop
<1> HIDE DEF c
<1>6. f \in [0 .. m -> S] /\ f[0] = c /\ \A n \in 1 .. m : f[n] = turn[n][f[n - 1]]
  BY <1>5 DEF Runs
<1>7. ASSUME NEW n \in 0 .. m PROVE f[n] = step(f, n)
  <2>1. CASE n = 0
    BY <1>6, <2>1
  <2>2. CASE n # 0
    <3>1. n \in 1 .. m /\ n - 1 \in 0 .. m
      BY <1>1, <2>2, SMT
    <3> QED BY <1>4, <1>6, <2>2, <3>1
  <2> QED BY <2>1, <2>2
<1>8. at = [n \in 0 .. m |-> step(at, n)]
  <2>1. f = [n \in 0 .. m |-> step(f, n)]
    <3>1. f = [n \in 0 .. m |-> f[n]]
      BY <1>6
    <3> HIDE DEF step
    <3> QED BY <1>7, <3>1
  <2> QED BY <2>1 DEF WalkAt, m, c
<1>9. Walk(b, path) = at[m]
  BY DEF Walk, WalkAt, m
<1> HIDE DEF at
<1>10. at[0] = c /\ \A n \in 1 .. m : at[n] = Descend(at[n - 1], path[n])
  <2>1. 0 \in 0 .. m /\ \A n \in 1 .. m : n \in 0 .. m /\ n # 0
    BY <1>1, SMT
  <2> QED BY <1>8, <2>1
<1>11. \A n \in 0 .. m : at[n] = f[n]
  <2>1. Follows(at, m, S, c, turn)
    BY <1>4, <1>10 DEF Follows
  <2> QED BY <1>1, <1>5, <2>1, LoopOnce, SMT
<1>12. at \in [0 .. m -> S]
  <2>1. at = [n \in 0 .. m |-> at[n]]
    BY <1>8
  <2> QED BY <1>6, <1>11, <2>1
<1> QED BY <1>9, <1>10, <1>12 DEF at, S, c, m

(* What n turns along a path have done to the nodes: they ended where the  *)
(* path leads, and what they changed or added are directories on the way.  *)
OnTheWay(old, nodes, path, n) ==
  \A i \in DOMAIN nodes :
    \/ i \in DOMAIN old /\ nodes[i] = old[i]
    \/ /\ nodes[i].synthetic /\ nodes[i].meta = None
       /\ \E k \in 1 .. n : PathOf(nodes, i) = SubSeq(path, 1, k)
       /\ i \in DOMAIN old => old[i].kind # "Dir"

Walked(old, path, n, s) ==
  PathOf(s.b.nodes, s.cur) = SubSeq(path, 1, n) /\ OnTheWay(old, s.b.nodes, path, n)

(* One name more on the way.                                               *)
LEMMA WalkedOn ==
  ASSUME NEW b, Standing(b), NEW path \in Seq(Names), NEW n \in 0 .. Len(path) - 1,
         NEW s \in Walks(b), Walked(b.nodes, path, n, s)
  PROVE  Walked(b.nodes, path, n + 1, Descend(s, path[n + 1]))
<1> DEFINE name == path[n + 1]
           d == Descend(s, name)
           old == s.b.nodes
           new == d.b.nodes
<1>1. name \in Names /\ Len(path) \in Nat /\ n + 1 \in 1 .. n + 1
      /\ \A k \in 1 .. n : k \in 1 .. n + 1
  BY SMT
<1>2. Descended(s, d, name) /\ d \in Walks(b)
  BY <1>1, WalkOn
<1> HIDE DEF d, name
<1>3. /\ Tree(old) /\ Tree(new) /\ Grows(old, new) /\ Tree(b.nodes) /\ Grows(b.nodes, old)
      /\ s.cur \in DOMAIN old
  BY <1>2 DEF Walks, Descended, Standing, Resolving
<1>4. Rooted(new) /\ SamePaths(old, new) /\ SamePaths(b.nodes, old)
  BY <1>3, PathKept, PathTurns
<1>5. PathOf(new, d.cur) = SubSeq(path, 1, n + 1)
  <2>1. PathOf(new, d.cur) = Append(PathOf(new, s.cur), name)
    BY <1>2, <1>4 DEF Rooted, Descended
  <2>2. PathOf(new, s.cur) = SubSeq(path, 1, n)
    BY <1>3, <1>4 DEF Walked, SamePaths
  <2>3. Append(SubSeq(path, 1, n), path[n + 1]) = SubSeq(path, 1, n + 1)
    BY SMT
  <2> QED BY <2>1, <2>2, <2>3 DEF name
<1>6. ASSUME NEW i \in DOMAIN new
      PROVE  \/ i \in DOMAIN b.nodes /\ new[i] = b.nodes[i]
             \/ /\ new[i].synthetic /\ new[i].meta = None
                /\ \E k \in 1 .. n + 1 : PathOf(new, i) = SubSeq(path, 1, k)
                /\ i \in DOMAIN b.nodes => b.nodes[i].kind # "Dir"
  <2>1. CASE i \in DOMAIN old /\ new[i] = old[i]
    BY <1>1, <1>4, <2>1 DEF Walked, OnTheWay, SamePaths
  <2>2. CASE /\ i = d.cur /\ new[i].synthetic /\ new[i].meta = None
             /\ i \in DOMAIN old => old[i].kind # "Dir"
    <3>1. i \in DOMAIN b.nodes => i \in DOMAIN old /\ i \in 1 .. Len(b.nodes)
      BY <1>3, <1>4, TreeTypes DEF SamePaths
    <3>2. i \in DOMAIN b.nodes => b.nodes[i].kind # "Dir"
      BY <1>3, <2>2, <3>1 DEF Grows
    <3> QED BY <1>1, <1>5, <2>2, <3>2
  <2> QED BY <1>2, <2>1, <2>2 DEF Descended, MadeDir
<1> QED BY <1>5, <1>6 DEF Walked, OnTheWay, d, name

(* The walk ends in the directory that the path leads to.                  *)
LEMMA WalkEnds ==
  ASSUME NEW b, Standing(b), NEW path \in Seq(Names)
  PROVE  LET s == Walk(b, path)
         IN s \in Walks(b) /\ Walked(b.nodes, path, Len(path), s)
<1> DEFINE at == WalkAt(b, path)
           m == Len(path)
           right == {n \in 0 .. m : Walked(b.nodes, path, n, at[n])}
<1>1. /\ at \in [0 .. m -> Walks(b)] /\ at[0] = [b |-> b, cur |-> Root]
      /\ \A n \in 1 .. m : at[n] = Descend(at[n - 1], path[n])
      /\ Walk(b, path) = at[m]
  BY WalkTurns
<1>2. m \in Nat
  BY SMT
<1> HIDE DEF at
<1>3. 0 \in right
  <2>1. at[0].b = b /\ at[0].cur = Root
    BY <1>1, SMT
  <2>2. PathOf(b.nodes, Root) = <<>> /\ SubSeq(path, 1, 0) = <<>>
    BY PathTurns, SMT DEF Rooted, Standing
  <2>3. Walked(b.nodes, path, 0, at[0])
    BY <2>1, <2>2 DEF Walked, OnTheWay
  <2> QED BY <1>2, <2>3, SMT
<1>4. ASSUME NEW n \in 0 .. m - 1, n \in right PROVE n + 1 \in right
  <2>1. n + 1 \in 1 .. m /\ n + 1 \in 0 .. m /\ n \in 0 .. m /\ (n + 1) - 1 = n
    BY <1>2, SMT
  <2>2. at[n] \in Walks(b) /\ at[n + 1] = Descend(at[n], path[n + 1])
    BY <1>1, <2>1
  <2>3. Walked(b.nodes, path, n + 1, at[n + 1])
    BY <1>4, <2>2, WalkedOn
  <2> QED BY <2>1, <2>3
<1>5. m \in right
  <2> HIDE DEF right
  <2>1. \A n \in 0 .. m : n \in right
    BY <1>2, <1>3, <1>4, UpTo
  <2> QED BY <1>2, <2>1, SMT
<1>6. m \in 0 .. m
  BY <1>2, SMT
<1> QED BY <1>1, <1>5, <1>6

(* The remembered parent is right.                                         *)
Remembers(b) ==
  /\ b.memo_id \in DOMAIN b.nodes /\ b.nodes[b.memo_id].kind = "Dir"
  /\ PathOf(b.nodes, b.memo_id) = b.memo_path

(* What resolve_parent leaves, remembered or walked.                       *)
Resolved(b, path, s) ==
  /\ Standing(s.b) /\ Remembers(s.b) /\ Grows(b.nodes, s.b.nodes)
  /\ s.b.metas = b.metas /\ s.b.symlink_count = b.symlink_count
  /\ s.cur \in DOMAIN s.b.nodes /\ s.b.nodes[s.cur].kind = "Dir"
  /\ PathOf(s.b.nodes, s.cur) = path
  /\ OnTheWay(b.nodes, s.b.nodes, path, Len(path))

(* resolve_parent gives that directory, remembered or walked to.           *)
LEMMA ResolvesParent ==
  ASSUME NEW b, Standing(b), Remembers(b), NEW path \in Seq(Names)
  PROVE  Resolved(b, path, resolve_parent(b, path))
<1>1. CASE path = b.memo_path
  <2> DEFINE s == [b |-> b, cur |-> b.memo_id]
  <2>1. resolve_parent(b, path) = s
    BY <1>1 DEF resolve_parent
  <2>2. s.b = b /\ s.cur = b.memo_id
    OBVIOUS
  <2>3. Grows(b.nodes, b.nodes)
    BY GrowsTypes, SMT DEF Grows
  <2> HIDE DEF s
  <2> QED BY <1>1, <2>1, <2>2, <2>3 DEF Resolved, Remembers, OnTheWay
<1>2. CASE path # b.memo_path
  <2> DEFINE w == Walk(b, path)
             new == [w.b EXCEPT !.memo_path = path, !.memo_id = w.cur]
             s == [w EXCEPT !.b.memo_path = path, !.b.memo_id = w.cur]
  <2>1. resolve_parent(b, path) = s
    BY <1>2 DEF resolve_parent
  <2>2. w \in Walks(b) /\ Walked(b.nodes, path, Len(path), w)
    BY WalkEnds
  <2> HIDE DEF w
  <2>3. /\ w \in [b: Builders, cur: Nat] /\ Standing(w.b) /\ Resolving(b, w.b)
        /\ w.cur \in DOMAIN w.b.nodes /\ w.b.nodes[w.cur].kind = "Dir"
    BY <2>2 DEF Walks
  <2>4. w.b \in Builders /\ w.cur \in Nat /\ s.b = new /\ s.cur = w.cur
    BY <2>3
  <2>5. /\ new \in Builders /\ new.nodes = w.b.nodes /\ new.metas = w.b.metas
        /\ new.symlink_count = w.b.symlink_count /\ new.stats = w.b.stats
        /\ new.memo_path = path /\ new.memo_id = w.cur
    BY <2>4 DEF Builders
  <2> HIDE DEF new, s
  <2>6. Standing(new)
    BY <2>3, <2>5 DEF Standing, Counted
  <2>7. SubSeq(path, 1, Len(path)) = path
    BY SMT
  <2>8. PathOf(new.nodes, w.cur) = path /\ OnTheWay(b.nodes, new.nodes, path, Len(path))
    BY <2>2, <2>5, <2>7 DEF Walked
  <2>9. Remembers(new)
    BY <2>3, <2>5, <2>8 DEF Remembers
  <2>10. /\ Grows(b.nodes, new.nodes) /\ new.metas = b.metas
         /\ new.symlink_count = b.symlink_count
    BY <2>3, <2>5 DEF Resolving, Besides
  <2>11. Resolved(b, path, s)
    BY <2>3, <2>4, <2>5, <2>6, <2>8, <2>9, <2>10 DEF Resolved
  <2> QED BY <2>1, <2>11
<1> QED BY <1>1, <1>2

-----------------------------------------------------------------------------
(* The end of Builder::add.                                                *)

AttachedTo(i, e, new) ==
  /\ new \in Builders
  /\ new.nodes = Changed(i.b.nodes, i.id, Kind(e), FALSE, Len(i.b.metas) + 1)
  /\ new.metas = Append(i.b.metas, NewMeta(i.b, e))
  /\ new.symlink_count = IF Kind(e) = "Symlink" THEN i.b.symlink_count + 1
                         ELSE i.b.symlink_count
  /\ new.memo_path = i.b.memo_path /\ new.memo_id = i.b.memo_id
  /\ new.stats["synthetic_dirs"] =
       IF i.fresh THEN i.b.stats["synthetic_dirs"] ELSE i.b.stats["synthetic_dirs"] - 1

(* The counters before it leave the number of synthetic directories alone. *)
LEMMA ReadLinked ==
  ASSUME NEW b \in Builders, NEW e
  PROVE  LET new == Linked(Readability(Count(b, "entries"), e), e)
         IN /\ new \in Builders /\ new.nodes = b.nodes /\ new.metas = b.metas
            /\ new.memo_path = b.memo_path /\ new.memo_id = b.memo_id
            /\ new.stats["synthetic_dirs"] = b.stats["synthetic_dirs"]
            /\ new.symlink_count = IF Kind(e) = "Symlink" THEN b.symlink_count + 1
                                   ELSE b.symlink_count
<1> DEFINE b1 == Count(b, "entries")
           b2 == Readability(b1, e)
           up == [b2 EXCEPT !.symlink_count = @ + 1]
           new == Linked(b2, e)
<1>1. /\ "entries" \in Stats /\ "encrypted" \in Stats /\ "unsupported" \in Stats
      /\ "symlinks" \in Stats /\ "synthetic_dirs" \in Stats \ {"entries"}
      /\ "synthetic_dirs" \in Stats \ {"encrypted"}
      /\ "synthetic_dirs" \in Stats \ {"unsupported"}
      /\ "synthetic_dirs" \in Stats \ {"symlinks"}
  BY DEF Stats
<1>2. CountsOne(b, b1, "entries")
  BY <1>1, CountFields
<1> HIDE DEF b1
<1>3. /\ b2 \in Builders /\ b2.nodes = b.nodes /\ Besides(b, b2)
      /\ b2.stats["synthetic_dirs"] = b.stats["synthetic_dirs"]
  <2>1. b1 \in Builders
    BY <1>2 DEF CountsOne, Besides
  <2>2. /\ CountsOne(b1, Count(b1, "encrypted"), "encrypted")
        /\ CountsOne(b1, Count(b1, "unsupported"), "unsupported")
    BY <1>1, <2>1, CountFields
  <2>3. b2 = b1 \/ b2 = Count(b1, "encrypted") \/ b2 = Count(b1, "unsupported")
    BY DEF Readability
  <2> HIDE DEF b2
  <2>4. CASE b2 = b1
    BY <1>1, <1>2, <2>4 DEF CountsOne, Besides
  <2>5. CASE b2 = Count(b1, "encrypted")
    BY <1>1, <1>2, <2>2, <2>5 DEF CountsOne, Besides
  <2>6. CASE b2 = Count(b1, "unsupported")
    BY <1>1, <1>2, <2>2, <2>6 DEF CountsOne, Besides
  <2> QED BY <2>3, <2>4, <2>5, <2>6
<1> HIDE DEF b2
<1>4. /\ up \in Builders /\ up.nodes = b2.nodes /\ up.metas = b2.metas
      /\ up.memo_path = b2.memo_path /\ up.memo_id = b2.memo_id
      /\ up.stats = b2.stats /\ up.symlink_count = b2.symlink_count + 1
  <2>1. b2 \in Builders
    BY <1>3
  <2>2. b2.symlink_count + 1 \in Nat
    BY <2>1, SMT DEF Builders
  <2> HIDE DEF b2
  <2> QED BY <2>1, <2>2 DEF Builders
<1>5. CASE Kind(e) = "Symlink"
  <2>1. new = Count(up, "symlinks")
    BY <1>5 DEF Linked
  <2> HIDE DEF up, new
  <2>2. CountsOne(up, new, "symlinks")
    BY <1>1, <1>4, <2>1, CountFields
  <2> QED BY <1>1, <1>3, <1>4, <1>5, <2>2 DEF CountsOne, Besides, new, b2, b1
<1>6. CASE Kind(e) # "Symlink"
  <2>1. new = b2
    BY <1>6 DEF Linked
  <2> HIDE DEF new
  <2> QED BY <1>3, <1>6, <2>1 DEF Besides, new, b2, b1
<1> QED BY <1>5, <1>6

(* What the end of add writes, field by field.                             *)
LEMMA AttachedFields ==
  ASSUME seen \in Seq(Records), NEW i, i.b \in Builders, i.id \in DOMAIN i.b.nodes, NEW e
  PROVE  AttachedTo(i, e, Attached(i, e))
<1> DEFINE b == Linked(Readability(Count(i.b, "entries"), e), e)
           node == [b.nodes[i.id] EXCEPT !.kind = Kind(e), !.synthetic = FALSE,
                                         !.meta = Len(i.b.metas) + 1]
           nodes == [b.nodes EXCEPT ![i.id] = node]
           metas == Append(b.metas, NewMeta(i.b, e))
           less == IF i.fresh THEN b.stats["synthetic_dirs"]
                   ELSE b.stats["synthetic_dirs"] - 1
           stats == [b.stats EXCEPT !["synthetic_dirs"] = less]
           new == [b EXCEPT !.stats = stats, !.metas = metas, !.nodes = nodes]
<1>1. /\ b \in Builders /\ b.nodes = i.b.nodes /\ b.metas = i.b.metas
      /\ b.memo_path = i.b.memo_path /\ b.memo_id = i.b.memo_id
      /\ b.stats["synthetic_dirs"] = i.b.stats["synthetic_dirs"]
      /\ b.symlink_count = IF Kind(e) = "Symlink" THEN i.b.symlink_count + 1
                           ELSE i.b.symlink_count
  BY ReadLinked
<1>2. Attached(i, e) = new
  BY DEF Attached
<1> HIDE DEF b
<1>3. /\ b.nodes \in Seq(Node) /\ b.metas \in Seq([record: Nat, slot: Nat])
      /\ b.stats \in [Stats -> Int] /\ i.b.metas \in Seq([record: Nat, slot: Nat])
      /\ i.b.symlink_count \in Nat
  BY <1>1 DEF Builders
<1>4. nodes = Changed(i.b.nodes, i.id, Kind(e), FALSE, Len(i.b.metas) + 1)
  BY <1>1 DEF Changed
<1>5. nodes \in Seq(Node)
  <2>1. b.nodes[i.id] \in Node
    BY <1>1, <1>3, SMT
  <2>2. Kind(e) \in Kinds /\ Len(i.b.metas) + 1 \in Nat
    BY <1>3, SMT DEF Kind, Kinds
  <2>3. node \in Node
    BY <2>1, <2>2 DEF Node
  <2> HIDE DEF node
  <2> QED BY <1>1, <1>3, <2>3, SMT
<1>6. metas \in Seq([record: Nat, slot: Nat])
  <2>1. NewMeta(i.b, e) \in [record: Nat, slot: Nat]
    <3>1. Len(seen) + 1 \in Nat
      BY SMT
    <3> QED BY <1>3, <3>1 DEF NewMeta
  <2> QED BY <1>3, <2>1, SMT
<1>7. stats \in [Stats -> Int] /\ stats["synthetic_dirs"] = less
  <2>1. "synthetic_dirs" \in Stats
    BY DEF Stats
  <2>2. less \in Int
    BY <1>3, <2>1, SMT
  <2> HIDE DEF less
  <2> QED BY <1>3, <2>1, <2>2
<1>8. metas = Append(i.b.metas, NewMeta(i.b, e))
  BY <1>1
<1>9. less = IF i.fresh THEN i.b.stats["synthetic_dirs"]
             ELSE i.b.stats["synthetic_dirs"] - 1
  BY <1>1
<1> HIDE DEF nodes, metas, stats, less
<1>10. /\ new \in Builders /\ new.nodes = nodes /\ new.metas = metas
       /\ new.stats = stats /\ new.symlink_count = b.symlink_count
       /\ new.memo_path = b.memo_path /\ new.memo_id = b.memo_id
  BY <1>1, <1>5, <1>6, <1>7 DEF Builders
<1> HIDE DEF new
<1> QED BY <1>1, <1>2, <1>4, <1>7, <1>8, <1>9, <1>10 DEF AttachedTo

(* The place of an accepted entry: its parent is resolved, and its node is *)
(* found there or added.                                                   *)
Placed(b, e, s, i) ==
  LET path == split_parent(normalize_path(e.pieces))
  IN /\ Resolved(b, path.parent, s) /\ path.leaf \in Names
     /\ Finds(s.b, s.cur, path.leaf, i) \/ Adds(s.b, s.cur, path.leaf, i)

(* The node that add writes to has the path of its entry.                  *)
LEMMA InternedPlace ==
  ASSUME NEW b, Standing(b), Remembers(b), NEW e \in Records, Accepted(e)
  PROVE  \E s : Placed(b, e, s, Interned(b, e))
<1> DEFINE path == split_parent(normalize_path(e.pieces))
           s == resolve_parent(b, path.parent)
           i == intern(s.b, s.cur, path.leaf)
<1>1. path.parent \in Seq(Names) /\ path.leaf \in Names
  BY AcceptedPath
<1>2. Interned(b, e) = i
  BY DEF Interned
<1> HIDE DEF path
<1>3. Resolved(b, path.parent, s)
  BY <1>1, ResolvesParent
<1> HIDE DEF s
<1>4. Finds(s.b, s.cur, path.leaf, i) \/ Adds(s.b, s.cur, path.leaf, i)
  BY Interns
<1> QED BY <1>1, <1>2, <1>3, <1>4 DEF path, Placed

(* A later entry that loses its place is counted, and nothing else.        *)
LEMMA LosesKeeps ==
  ASSUME NEW b, NEW e, NEW s, NEW i, Placed(b, e, s, i), NEW kind, Loses(i, kind)
  PROVE  LET new == Count(i.b, "duplicates")
         IN Standing(new) /\ Remembers(new) /\ CountsOne(s.b, new, "duplicates")
<1> DEFINE new == Count(i.b, "duplicates")
<1>1. i.b = s.b /\ Standing(s.b) /\ Remembers(s.b) /\ s.b \in Builders
  BY DEF Placed, Loses, Adds, Finds, Resolved, Standing
<1>2. "duplicates" \in Stats /\ "synthetic_dirs" \in Stats \ {"duplicates"}
  BY DEF Stats
<1>3. CountsOne(s.b, new, "duplicates")
  BY <1>1, <1>2, CountFields
<1> HIDE DEF new
<1>4. Standing(new)
  BY <1>1, <1>2, <1>3 DEF CountsOne, Besides, Standing, Counted
<1>5. Remembers(new)
  BY <1>1, <1>3 DEF CountsOne, Besides, Remembers
<1> QED BY <1>3, <1>4, <1>5 DEF new

(* An entry that wins its place: one node is the entry's own now, and it   *)
(* was not there before or was a synthetic directory.                      *)
Gains(b, e, s, id, new) ==
  LET old == s.b.nodes
      nodes == new.nodes
      leaf == split_parent(normalize_path(e.pieces)).leaf
  IN /\ id \in DOMAIN nodes \ {Root}
     /\ nodes[id].parent = s.cur /\ nodes[id].name = leaf /\ nodes[id].kind = Kind(e)
     /\ nodes[id].synthetic = FALSE /\ nodes[id].meta = Len(b.metas) + 1
     /\ \A k \in DOMAIN nodes \ {id} : k \in DOMAIN old /\ nodes[k] = old[k]
     /\ id \in DOMAIN old => old[id].synthetic /\ old[id].kind = "Dir" /\ Kind(e) = "Dir"
     /\ Grows(old, nodes) /\ new.metas = Append(b.metas, NewMeta(b, e))
     /\ new.symlink_count = IF Kind(e) = "Symlink" THEN b.symlink_count + 1
                            ELSE b.symlink_count

(* The nodes, where the entry's node is found or where it is new.          *)
AttachNodes(old, mid, id, fresh) ==
  /\ Tree(mid) /\ Grows(old, mid) /\ DOMAIN mid = DOMAIN old \cup {id}
  /\ id \in DOMAIN mid \ {Root} /\ \A k \in DOMAIN old : mid[k] = old[k]
  /\ Synthetic(mid) = Synthetic(old) \cup {id}
  /\ fresh = (id \notin DOMAIN old)
  /\ fresh => \A k \in DOMAIN mid \ {Root} : mid[k].parent # id
  /\ ~fresh => old[id].synthetic /\ old[id].kind = "Dir" /\ mid = old

AttachAt(e, s, i) ==
  /\ AttachNodes(s.b.nodes, i.b.nodes, i.id, i.fresh)
  /\ Besides(s.b, i.b) /\ i.b.stats = s.b.stats
  /\ i.b.nodes[i.id].parent = s.cur
  /\ i.b.nodes[i.id].name = split_parent(normalize_path(e.pieces)).leaf
  /\ i.fresh \/ Kind(e) = "Dir"

(* The place of an entry that is attached.                                 *)
LEMMA AttachPlace ==
  ASSUME NEW b, NEW e, NEW s, NEW i, Placed(b, e, s, i), ~Loses(i, Kind(e))
  PROVE  AttachAt(e, s, i)
<1> USE DEF AttachAt
<1> DEFINE old == s.b.nodes
           leaf == split_parent(normalize_path(e.pieces)).leaf
<1>1. /\ Standing(s.b) /\ s.cur \in DOMAIN old /\ old[s.cur].kind = "Dir"
      /\ s.b \in Builders /\ Tree(old) /\ leaf \in Names
      /\ Finds(s.b, s.cur, leaf, i) \/ Adds(s.b, s.cur, leaf, i)
  BY DEF Placed, Resolved, Standing
<1>2. /\ old \in Seq(Node) /\ Len(old) \in Nat \ {0} /\ DOMAIN old = 1 .. Len(old)
      /\ Root \in DOMAIN old
  BY <1>1, TreeTypes
<1> HIDE DEF leaf
<1>3. CASE Finds(s.b, s.cur, leaf, i)
  <2>1. /\ i.fresh = FALSE /\ i.b = s.b /\ i.id \in DOMAIN old \ {Root}
        /\ old[i.id].parent = s.cur /\ old[i.id].name = leaf
    BY <1>3 DEF Finds
  <2>2. old[i.id].synthetic /\ Kind(e) = "Dir"
    BY <2>1 DEF Loses
  <2>3. old[i.id].kind = "Dir"
    BY <1>1, <2>1, <2>2 DEF Tree
  <2>4. Synthetic(old) = Synthetic(old) \cup {i.id}
    BY <2>1, <2>2 DEF Synthetic
  <2>5. Grows(old, old)
    BY <1>2, SMT DEF Grows
  <2>6. DOMAIN old = DOMAIN old \cup {i.id}
    BY <2>1
  <2>7. AttachNodes(old, old, i.id, i.fresh)
    BY <1>1, <2>1, <2>2, <2>3, <2>4, <2>5, <2>6 DEF AttachNodes
  <2> QED BY <1>1, <2>1, <2>2, <2>7 DEF Besides, leaf
<1>4. CASE Adds(s.b, s.cur, leaf, i)
  <2> DEFINE id == Len(old) + 1
             mid == Append(old, NewNode(s.cur, leaf))
             b1 == [s.b EXCEPT !.nodes = mid]
  <2>1. i.fresh = TRUE /\ i.b = b1 /\ i.id = id /\ Find(old, s.cur, leaf) = {}
    BY <1>4 DEF Adds
  <2>2. Tree(mid) /\ Added(old, mid, s.cur, leaf)
    BY <1>1, <2>1, NodeAdded
  <2> HIDE DEF mid
  <2>3. /\ mid \in Seq(Node) /\ Grows(old, mid) /\ DOMAIN mid = DOMAIN old \cup {id}
        /\ id \notin DOMAIN old \cup {Root} /\ \A k \in DOMAIN old : mid[k] = old[k]
        /\ Synthetic(mid) = Synthetic(old) \cup {id} /\ mid[id] = NewNode(s.cur, leaf)
    BY <2>2 DEF Added
  <2>4. Besides(s.b, b1) /\ b1.nodes = mid /\ b1.stats = s.b.stats
    BY <1>1, <2>3, NodesFields
  <2> HIDE DEF b1
  <2>5. mid[id].parent = s.cur /\ mid[id].name = leaf
    BY <2>3, SMT DEF NewNode
  <2>6. ASSUME NEW k \in DOMAIN mid \ {Root} PROVE mid[k].parent # id
    <3>1. mid[k].parent \in DOMAIN old
      <4>1. CASE k = id
        BY <1>1, <2>5, <4>1
      <4>2. CASE k \in DOMAIN old
        BY <1>1, <2>3, <4>2, TreeTypes
      <4> QED BY <2>3, <4>1, <4>2
    <3> QED BY <2>3, <3>1
  <2> HIDE DEF id
  <2>7. AttachNodes(old, mid, id, TRUE)
    BY <2>2, <2>3, <2>6 DEF AttachNodes
  <2> QED BY <2>1, <2>4, <2>5, <2>7 DEF leaf
<1> QED BY <1>1, <1>3, <1>4

(* Attaching an entry keeps the builder right.                             *)
LEMMA AttachKeeps ==
  ASSUME seen \in Seq(Records), NEW b, NEW e, NEW s, NEW i, Placed(b, e, s, i),
         ~Loses(i, Kind(e)), NEW new, AttachedTo(i, e, new)
  PROVE  Standing(new) /\ Remembers(new) /\ Gains(b, e, s, i.id, new)
<1> DEFINE old == s.b.nodes
           mid == i.b.nodes
           nodes == new.nodes
           id == i.id
           meta == Len(i.b.metas) + 1
           leaf == split_parent(normalize_path(e.pieces)).leaf
<1>1. /\ AttachNodes(old, mid, id, i.fresh) /\ Besides(s.b, i.b)
      /\ i.b.stats = s.b.stats /\ (i.fresh \/ Kind(e) = "Dir")
      /\ mid[id].parent = s.cur /\ mid[id].name = leaf
  <2>1. AttachAt(e, s, i)
    BY AttachPlace
  <2> QED BY <2>1 DEF AttachAt
<1>2. /\ Standing(s.b) /\ Remembers(s.b) /\ s.b.metas = b.metas
      /\ s.b.symlink_count = b.symlink_count
  BY DEF Placed, Resolved
<1>3. /\ old \in Seq(Node) /\ Len(old) \in Nat \ {0} /\ DOMAIN old = 1 .. Len(old)
      /\ s.b.stats["synthetic_dirs"] \in Int /\ Tree(old)
      /\ s.b.metas \in Seq([record: Nat, slot: Nat])
  BY <1>2, GrowsTypes
<1>4. i.b.metas = b.metas /\ i.b.symlink_count = b.symlink_count
      /\ i.b.memo_path = s.b.memo_path /\ i.b.memo_id = s.b.memo_id
  BY <1>1, <1>2 DEF Besides
<1>5. NewMeta(i.b, e) = NewMeta(b, e)
  BY <1>4 DEF NewMeta
<1>6. Tree(nodes) /\ Only(mid, nodes, id, Kind(e), FALSE, meta)
  <2>1. Kind(e) \in Kinds /\ meta \in Nat
    BY <1>2, <1>3, <1>4, SMT DEF Kind, Kinds
  <2>2. FALSE \in BOOLEAN
    OBVIOUS
  <2>3. Kind(e) = "Dir" \/ \A k \in DOMAIN mid \ {Root} : mid[k].parent # id
    BY <1>1 DEF AttachNodes
  <2>4. nodes = Changed(mid, id, Kind(e), FALSE, meta)
    BY DEF AttachedTo
  <2>5. Tree(mid) /\ id \in DOMAIN mid \ {Root}
    BY <1>1 DEF AttachNodes
  <2> HIDE DEF meta, mid, nodes, id
  <2> QED BY <2>1, <2>2, <2>3, <2>4, <2>5, NodeChanged
<1>7. /\ id \in DOMAIN nodes \ {Root} /\ DOMAIN nodes = DOMAIN old \cup {id}
      /\ nodes[id].parent = s.cur /\ nodes[id].name = leaf /\ nodes[id].kind = Kind(e)
      /\ nodes[id].synthetic = FALSE /\ nodes[id].meta = Len(b.metas) + 1
      /\ \A k \in DOMAIN nodes \ {id} : k \in DOMAIN old /\ nodes[k] = old[k]
      /\ id \in DOMAIN old => old[id].synthetic /\ old[id].kind = "Dir" /\ Kind(e) = "Dir"
  <2> HIDE DEF leaf
  <2> QED BY <1>1, <1>4, <1>6 DEF AttachNodes, Only
<1>8. Grows(old, nodes)
  <2>1. Len(nodes) = Len(mid) /\ Len(old) <= Len(mid)
    BY <1>1, <1>6 DEF AttachNodes, Only, Grows
  <2>2. Len(old) <= Len(nodes)
    BY <2>1
  <2>3. ASSUME NEW k \in DOMAIN old
        PROVE  /\ nodes[k].name = old[k].name /\ nodes[k].parent = old[k].parent
               /\ old[k].kind = "Dir" => nodes[k].kind = "Dir"
    <3>1. k \in DOMAIN mid /\ mid[k] = old[k] /\ k \in DOMAIN nodes
      BY <1>1, <1>6 DEF AttachNodes, Only
    <3>2. nodes[k].name = old[k].name /\ nodes[k].parent = old[k].parent
      BY <1>6, <3>1 DEF Only
    <3>3. old[k].kind = "Dir" => nodes[k].kind = "Dir"
      BY <1>7, <3>1
    <3> QED BY <3>2, <3>3
  <2> QED BY <1>3, <2>2, <2>3 DEF Grows
<1>9. Gains(b, e, s, id, new)
  BY <1>4, <1>5, <1>7, <1>8 DEF Gains, AttachedTo

<1>10. Counted(new)
  <2>1. Synthetic(nodes) = (Synthetic(old) \cup {id}) \ {id}
    BY <1>1, <1>6 DEF AttachNodes, Only
  <2>2. IsFiniteSet(Synthetic(old)) /\ Cardinality(Synthetic(old)) \in Nat
    BY <1>3, SyntheticFinite
  <2>3. s.b.stats["synthetic_dirs"] = Cardinality(Synthetic(old))
    BY <1>2 DEF Standing, Counted
  <2>4. CASE i.fresh
    <3>1. id \notin Synthetic(old)
      BY <1>1, <2>4 DEF AttachNodes, Synthetic
    <3>2. Synthetic(nodes) = Synthetic(old)
      BY <2>1, <3>1
    <3>3. new.stats["synthetic_dirs"] = s.b.stats["synthetic_dirs"]
      BY <1>1, <2>4 DEF AttachedTo
    <3> QED BY <2>3, <3>2, <3>3 DEF Counted
  <2>5. CASE ~i.fresh
    <3>1. id \in Synthetic(old)
      BY <1>1, <2>5 DEF AttachNodes, Synthetic
    <3>2. Synthetic(nodes) = Synthetic(old) \ {id}
      BY <2>1
    <3>3. Cardinality(Synthetic(nodes)) = Cardinality(Synthetic(old)) - 1
      <4> DEFINE S == Synthetic(old)
      <4>1. IsFiniteSet(S) /\ id \in S /\ Synthetic(nodes) = S \ {id}
        BY <2>2, <3>1, <3>2
      <4> HIDE DEF S
      <4>2. Cardinality(S \ {id}) = Cardinality(S) - 1
        BY <4>1, FS_RemoveElement
      <4> QED BY <4>1, <4>2 DEF S
    <3>4. new.stats["synthetic_dirs"] = s.b.stats["synthetic_dirs"] - 1
      BY <1>1, <2>5 DEF AttachedTo
    <3> QED BY <2>3, <3>3, <3>4 DEF Counted
  <2> QED BY <2>4, <2>5
<1>11. Standing(new)
  BY <1>6, <1>10 DEF Standing, AttachedTo
<1>12. Remembers(new)
  <2>1. new.memo_id = s.b.memo_id /\ new.memo_path = s.b.memo_path
    BY <1>4 DEF AttachedTo
  <2>2. SamePaths(old, nodes)
    BY <1>3, <1>6, <1>8, PathKept
  <2>3. /\ s.b.memo_id \in DOMAIN old /\ old[s.b.memo_id].kind = "Dir"
        /\ PathOf(old, s.b.memo_id) = s.b.memo_path
    BY <1>2 DEF Remembers
  <2>4. nodes[s.b.memo_id].kind = "Dir"
    BY <1>3, <1>8, <2>3 DEF Grows
  <2> QED BY <2>1, <2>2, <2>3, <2>4 DEF Remembers, SamePaths
<1> QED BY <1>9, <1>11, <1>12

-----------------------------------------------------------------------------
(* The invariant of the builder.                                           *)

(* So it has as many synthetic directories.                                *)
LEMMA SyntheticStay ==
  ASSUME NEW nodes, Tree(nodes), NEW order, NEW idx, Renumbered(nodes, order, idx)
  PROVE  Cardinality({i \in DOMAIN idx \ {Root} : idx[i].synthetic})
           = Cardinality(Synthetic(nodes))
<1> DEFINE S == {i \in DOMAIN idx \ {Root} : idx[i].synthetic}
           T == Synthetic(nodes)
           f == [i \in S |-> order[i]]
<1>1. /\ order \in [DOMAIN nodes -> DOMAIN nodes] /\ DOMAIN idx = DOMAIN nodes
      /\ \A x, y \in DOMAIN nodes : order[x] = order[y] => x = y
      /\ \A k \in DOMAIN nodes : \E x \in DOMAIN nodes : order[x] = k
      /\ order[Root] = Root /\ Root \in DOMAIN nodes
      /\ \A i \in DOMAIN nodes : idx[i].synthetic = nodes[order[i]].synthetic
  BY TreeTypes DEF Renumbered, Bijection, Injection, Surjection, IsInjective
<1>2. \A i : i \in S <=> i \in DOMAIN nodes \ {Root} /\ nodes[order[i]].synthetic
  BY <1>1
<1>3. \A k : k \in T <=> k \in DOMAIN nodes \ {Root} /\ nodes[k].synthetic
  BY DEF Synthetic
<1> HIDE DEF S, T
<1>4. f \in [S -> T] /\ DOMAIN f = S /\ \A i \in S : f[i] = order[i]
  BY <1>1, <1>2, <1>3
<1> HIDE DEF f
<1>5. f \in Injection(S, T)
  BY <1>1, <1>2, <1>4 DEF Injection, IsInjective
<1>6. ASSUME NEW k \in T PROVE \E i \in S : f[i] = k
  <2>1. PICK i \in DOMAIN nodes : order[i] = k
    BY <1>1, <1>3
  <2>2. k # Root /\ nodes[k].synthetic
    BY <1>3
  <2>3. i # Root /\ nodes[order[i]].synthetic
    BY <1>1, <2>1, <2>2
  <2>4. i \in S
    BY <1>2, <2>1, <2>3
  <2> QED BY <1>4, <2>1, <2>4
<1>7. f \in Surjection(S, T)
  BY <1>4, <1>6 DEF Surjection
<1>8. IsFiniteSet(T)
  <2>1. nodes \in Seq(Node)
    BY DEF Tree
  <2> QED BY <2>1, SyntheticFinite DEF T
<1>9. Cardinality(S) = Cardinality(T)
  BY <1>5, <1>7, <1>8, FS_Injection
<1> QED BY <1>9 DEF S, T

(* The inductive invariant: the builder's nodes are a tree, its counter is *)
(* exact and its memory right, between any two entries and after the last. *)
BuilderInv ==
  /\ phase \in {"scan", "serve"} /\ seen \in Seq(Records)
  /\ Standing(builder) /\ Remembers(builder)

(* An empty builder is right.                                              *)
LEMMA NewBuilderRight ==
  Standing(NewBuilder) /\ Remembers(NewBuilder)
<1> DEFINE n == NewNode(Root, Empty)
           nodes == <<n>>
           b == NewBuilder
<1>1. /\ n.name = Empty /\ n.kind = "Dir" /\ n.synthetic = TRUE /\ n.parent = Root
      /\ n \in Node
  BY DEF NewNode, Node, Kinds, Root, None
<1>2. /\ b \in Builders /\ b.nodes = nodes /\ b.memo_path = <<>> /\ b.memo_id = Root
      /\ b.stats["synthetic_dirs"] = 0
  <2>1. nodes \in Seq(Node) /\ Root \in Nat /\ <<>> \in Seq(Names)
        /\ <<>> \in Seq([record: Nat, slot: Nat])
    BY <1>1, SMT DEF Root
  <2>2. [s \in Stats |-> 0] \in [Stats -> Int] /\ "synthetic_dirs" \in Stats
    BY SMT DEF Stats
  <2> HIDE DEF n
  <2> QED BY <2>1, <2>2 DEF NewBuilder, Builders, n
<1> HIDE DEF n, b
<1>3. /\ nodes \in Seq(Node) /\ nodes # <<>> /\ DOMAIN nodes = {Root}
      /\ nodes[Root] = n
  BY <1>1, SMT DEF Root
<1> HIDE DEF nodes
<1>4. Tree(nodes)
  BY <1>1, <1>3 DEF Tree
<1>5. Synthetic(nodes) = {}
  BY <1>3 DEF Synthetic
<1>6. Standing(b)
  BY <1>2, <1>4, <1>5, FS_EmptySet DEF Standing, Counted
<1>7. Remembers(b)
  BY <1>1, <1>2, <1>3, <1>4, PathTurns DEF Remembers, Rooted
<1> QED BY <1>6, <1>7 DEF b

(* Only a counter that is not the synthetic directories' changes.          *)
LEMMA CountKeeps ==
  ASSUME NEW b, Standing(b), Remembers(b), NEW s \in Stats \ {"synthetic_dirs"}
  PROVE  Standing(Count(b, s)) /\ Remembers(Count(b, s))
<1> DEFINE new == Count(b, s)
<1>1. "synthetic_dirs" \in Stats \ {s} /\ s \in Stats
  BY DEF Stats
<1>2. CountsOne(b, new, s)
  BY <1>1, CountFields DEF Standing
<1> HIDE DEF new
<1>3. Standing(new) /\ Remembers(new)
  BY <1>1, <1>2 DEF CountsOne, Besides, Standing, Counted, Remembers
<1> QED BY <1>3 DEF new

(* build: the counter is set to what the index says.                       *)
LEMMA FinishKeeps ==
  ASSUME NEW b, Standing(b), Remembers(b), NEW count, count = Cardinality(Synthetic(b.nodes))
  PROVE  LET new == [b EXCEPT !.stats["synthetic_dirs"] = count]
         IN /\ Standing(new) /\ Remembers(new) /\ new.nodes = b.nodes
            /\ new.metas = b.metas /\ new.symlink_count = b.symlink_count
<1> DEFINE stats == [b.stats EXCEPT !["synthetic_dirs"] = count]
           new == [b EXCEPT !.stats = stats]
<1>1. b \in Builders /\ b.stats \in [Stats -> Int] /\ b.nodes \in Seq(Node)
  BY DEF Standing, Builders
<1>2. "synthetic_dirs" \in Stats
  BY DEF Stats
<1>3. count \in Int
  <2>1. count \in Nat
    BY <1>1, SyntheticFinite
  <2> QED BY <2>1, SMT
<1>4. stats \in [Stats -> Int] /\ stats["synthetic_dirs"] = count
  BY <1>1, <1>2, <1>3
<1> HIDE DEF stats
<1>5. Besides(b, new) /\ new.nodes = b.nodes /\ new.stats = stats
  BY <1>1, <1>4 DEF Builders, Besides
<1> HIDE DEF new
<1>6. Standing(new) /\ Remembers(new)
  BY <1>4, <1>5 DEF Besides, Standing, Counted, Remembers
<1> QED BY <1>5, <1>6 DEF new, stats, Besides

(* A record that Builder::add has dealt with.                              *)
LEMMA RecordKeeps ==
  ASSUME BuilderInv, NEW e \in Records,
         RejectPath(e) \/ RejectSize(e) \/ Duplicate(e) \/ Attach(e)
  PROVE  BuilderInv'
<1>1. /\ phase \in {"scan", "serve"} /\ seen \in Seq(Records)
      /\ Standing(builder) /\ Remembers(builder)
  BY DEF BuilderInv
<1>2. NextRecord(e)
  BY DEF RejectPath, RejectSize, Duplicate, Attach
<1>3. phase' \in {"scan", "serve"} /\ seen' \in Seq(Records)
  <2>1. phase' = phase /\ seen' = Append(seen, e)
    BY <1>2 DEF NextRecord
  <2> QED BY <1>1, <2>1, SMT
<1>4. {"rejected_paths", "rejected_sizes"} \subseteq Stats \ {"synthetic_dirs"}
  BY DEF Stats
<1>5. CASE RejectPath(e)
  BY <1>1, <1>3, <1>4, <1>5, CountKeeps DEF RejectPath, BuilderInv
<1>6. CASE RejectSize(e)
  BY <1>1, <1>3, <1>4, <1>6, CountKeeps DEF RejectSize, BuilderInv
<1> DEFINE i == Interned(builder, e)
<1>7. Accepted(e) => \E s : Placed(builder, e, s, i)
  BY <1>1, InternedPlace
<1>8. CASE Duplicate(e)
  <2>1. Accepted(e) /\ Loses(i, Kind(e)) /\ builder' = Count(i.b, "duplicates")
    BY <1>8 DEF Duplicate
  <2> HIDE DEF i
  <2>2. PICK s : Placed(builder, e, s, i)
    BY <1>7, <2>1
  <2>3. Standing(builder') /\ Remembers(builder')
    BY <2>1, <2>2, LosesKeeps
  <2> QED BY <1>3, <2>3 DEF BuilderInv
<1>9. CASE Attach(e)
  <2>1. Accepted(e) /\ ~Loses(i, Kind(e)) /\ builder' = Attached(i, e)
    BY <1>9 DEF Attach
  <2> HIDE DEF i
  <2>2. PICK s : Placed(builder, e, s, i)
    BY <1>7, <2>1
  <2>3. AttachAt(e, s, i)
    BY <2>1, <2>2, AttachPlace
  <2>4. i.b \in Builders /\ i.id \in DOMAIN i.b.nodes
    BY <2>3 DEF AttachAt, AttachNodes, Besides
  <2>5. AttachedTo(i, e, builder')
    BY <1>1, <2>1, <2>4, AttachedFields
  <2>6. Standing(builder') /\ Remembers(builder')
    BY <1>1, <2>1, <2>2, <2>5, AttachKeeps
  <2> QED BY <1>3, <2>6 DEF BuilderInv
<1> QED BY <1>5, <1>6, <1>8, <1>9

(* The builder is right in every state.                                    *)
LEMMA BuilderInvariant ==
  Spec => []BuilderInv
<1>1. Init => BuilderInv
  <2>1. SUFFICES ASSUME Init PROVE BuilderInv
    OBVIOUS
  <2>2. phase \in {"scan", "serve"} /\ seen = <<>> /\ builder = NewBuilder
    BY <2>1 DEF Init
  <2>3. seen \in Seq(Records)
    BY <2>2, SMT
  <2> QED BY <2>2, <2>3, NewBuilderRight DEF BuilderInv
<1>2. BuilderInv /\ [Next]_vars => BuilderInv'
  <2>1. SUFFICES ASSUME BuilderInv, [Next]_vars PROVE BuilderInv'
    OBVIOUS
  <2>2. ASSUME NEW e \in Records,
               RejectPath(e) \/ RejectSize(e) \/ Duplicate(e) \/ Attach(e)
        PROVE  BuilderInv'
    BY <2>1, <2>2, RecordKeeps
  <2>3. CASE Finish
    <3> DEFINE nodes == builder.nodes
               idx == Finished(nodes)
               count == Cardinality({i \in DOMAIN idx \ {Root} : idx[i].synthetic})
    <3>1. /\ phase' = "serve" /\ seen' = seen
          /\ builder' = [builder EXCEPT !.stats["synthetic_dirs"] = count]
      BY <2>3 DEF Finish
    <3>2. seen \in Seq(Records) /\ Standing(builder) /\ Remembers(builder) /\ Tree(nodes)
      BY <2>1 DEF BuilderInv, Standing
    <3>3. \E order : Renumbered(nodes, order, idx)
      BY <3>2, FinishedNodes
    <3> HIDE DEF idx
    <3>4. count = Cardinality(Synthetic(nodes))
      BY <3>2, <3>3, SyntheticStay
    <3> HIDE DEF count
    <3>5. Standing(builder') /\ Remembers(builder')
      BY <3>1, <3>2, <3>4, FinishKeeps
    <3> QED BY <3>1, <3>2, <3>5 DEF BuilderInv
  <2>4. ASSUME UNCHANGED <<phase, seen, builder>> PROVE BuilderInv'
    BY <2>1, <2>4 DEF BuilderInv
  <2>5. ASSUME NEW ino, opendir(ino) PROVE BuilderInv'
    BY <2>4, <2>5 DEF opendir
  <2>6. ASSUME readdir \/ readdirplus PROVE BuilderInv'
    BY <2>4, <2>6 DEF readdir, readdirplus, Replied
  <2>7. CASE UNCHANGED vars
    BY <2>4, <2>7 DEF vars
  <2> QED BY <2>1, <2>2, <2>3, <2>5, <2>6, <2>7 DEF Next
<1> QED BY <1>1, <1>2, PTL DEF Spec

(* build.rs 213-234: for any names and records, and for archives of any    *)
(* length, the remembered parent is the directory that the remembered path *)
(* leads to.  The whole tree has to be an invariant for it: a path leads   *)
(* to one node only if no two nodes have the same place.                   *)
THEOREM MemoIsRight ==
  Spec => []MemoRight
<1>1. BuilderInv => MemoRight
  BY DEF BuilderInv, Remembers, MemoRight
<1> QED BY <1>1, BuilderInvariant, PTL

(* build.rs 221, 249, 327: for any names and records, and for archives of  *)
(* any length, the counter of synthetic directories is exact; and the one  *)
(* that finish counts from the index is the same, as the breadth-first     *)
(* order has every node once.                                              *)
THEOREM SyntheticIsExact ==
  Spec => []SyntheticExact
<1>1. BuilderInv => SyntheticExact
  BY DEF BuilderInv, Standing, Counted, Synthetic, SyntheticExact
<1> QED BY <1>1, BuilderInvariant, PTL
=============================================================================
