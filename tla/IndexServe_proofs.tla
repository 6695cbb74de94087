------------------------- MODULE IndexServe_proofs --------------------------
(***************************************************************************)
(* Proofs about the index in use in IndexBuild, for any names, records and *)
(* limits: what lookups find, the attributes that the kernel gets, and what *)
(* a listing gives.                                                        *)
(***************************************************************************)
EXTENDS IndexRecords_proofs

(* The prover of the steps that name no other.                             *)
USE Zenon

-----------------------------------------------------------------------------
(* The index in use.                                                       *)

(* What holds of the index in use.                                         *)
Serves(nodes, order) ==
  /\ nodes = builder.nodes /\ Tree(nodes) /\ Renumbered(nodes, order, index) /\ Laid(index)
  /\ DOMAIN index = DOMAIN nodes /\ None \notin DOMAIN nodes /\ Root \in DOMAIN nodes
  /\ IsFiniteSet(DOMAIN nodes)
  /\ Told(seen, nodes, builder.metas)
  /\ Slots(nodes, builder.metas, builder.symlink_count)
  /\ None \notin DOMAIN builder.metas

(* What follows for the index once it is there.                            *)
LEMMA IndexServes ==
  ASSUME IndexInv, phase = "serve"
  PROVE  \E nodes, order : Serves(nodes, order)
<1> DEFINE nodes == builder.nodes
           order == breadth_first_order(group_children(nodes)).order
<1>1. /\ index = Finished(nodes) /\ Standing(builder) /\ Tree(nodes)
      /\ Told(seen, nodes, builder.metas)
      /\ Slots(nodes, builder.metas, builder.symlink_count)
  BY DEF IndexInv, BuilderInv, Standing, Knows
<1>2. Renumbered(nodes, order, index) /\ Laid(index)
  BY <1>1, FinishedNodes, FinishedLaid
<1>3. DOMAIN index = DOMAIN nodes
  BY <1>2 DEF Renumbered
<1>4. DOMAIN nodes = 1 .. Len(nodes) /\ Len(nodes) \in Nat /\ Root \in DOMAIN nodes
  BY <1>1, TreeTypes
<1>5. IsFiniteSet(DOMAIN nodes) /\ None \notin DOMAIN nodes
  <2>1. None \notin 1 .. Len(nodes)
    BY SMT DEF None
  <2> HIDE DEF nodes
  <2> QED BY <1>4, <2>1, CardinalityUpTo
<1>6. None \notin DOMAIN builder.metas
  <2>1. builder.metas \in Seq([record: Nat, slot: Nat])
    BY <1>1, GrowsTypes
  <2> QED BY <2>1, SMT DEF None
<1>7. nodes = builder.nodes
  OBVIOUS
<1> HIDE DEF nodes, order
<1> QED BY <1>1, <1>2, <1>3, <1>4, <1>5, <1>6, <1>7 DEF Serves

(* The paths of the properties are sequences of names.                     *)
LEMMA PathsAre ==
  ASSUME NEW p \in Paths
  PROVE  p \in Seq(Names) /\ p # <<>>
<1>1. PICK n \in 1 .. MaxDepth : p \in [1 .. n -> Names]
  BY DEF Paths
<1>2. n \in Nat \ {0}
  BY <1>1, BuildAssumption, SMT
<1> QED BY <1>1, <1>2, SMT

(* What lookups find under a path.                                         *)
IsFound(nodes, order, p, i) ==
  /\ i # None <=> Here(seen, p) \cup Under(seen, p) # {}
  /\ i # None =>
       /\ i \in DOMAIN index /\ order[i] \in DOMAIN nodes
       /\ Fits(seen, builder.metas, p, nodes[order[i]])
       /\ index[i].kind = nodes[order[i]].kind /\ index[i].meta = nodes[order[i]].meta
       /\ index[i].synthetic = nodes[order[i]].synthetic

(* Lookups find a path as the records say.                                 *)
LEMMA FoundRight ==
  ASSUME NEW nodes, NEW order, Serves(nodes, order), NEW p \in Seq(Names), p # <<>>
  PROVE  IsFound(nodes, order, p, Resolve(p))
<1> DEFINE i == Resolve(p)
           D == DOMAIN nodes
<1>1. /\ Tree(nodes) /\ Renumbered(nodes, order, index) /\ Laid(index) /\ None \notin D
      /\ Told(seen, nodes, builder.metas) /\ DOMAIN index = D
  BY DEF Serves
<1>2. Reaches(nodes, order, p, i)
  BY <1>1, ResolveRight
<1> HIDE DEF i
<1>3. /\ \A k \in D : order[k] \in D
      /\ \A k \in D : /\ index[k].kind = nodes[order[k]].kind
                      /\ index[k].meta = nodes[order[k]].meta
                      /\ index[k].synthetic = nodes[order[k]].synthetic
  BY <1>1 DEF Renumbered, Bijection, Injection
<1>4. CASE i \in D /\ PathOf(nodes, order[i]) = p
  <2>1. order[i] \in D
    BY <1>3, <1>4
  <2>2. order[i] # Root
    <3>1. PathOf(nodes, Root) = <<>>
      BY <1>1, PathTurns DEF Rooted
    <3> QED BY <1>4, <3>1
  <2>3. Fits(seen, builder.metas, p, nodes[order[i]])
    BY <1>1, <1>4, <2>1, <2>2 DEF Told
  <2>4. Here(seen, p) \cup Under(seen, p) # {} /\ i # None
    BY <1>1, <1>4, <2>3 DEF Fits
  <2> QED BY <1>1, <1>3, <1>4, <2>1, <2>3, <2>4 DEF IsFound, i
<1>5. CASE i = None /\ \A t \in D : PathOf(nodes, t) # p
  <2>1. Here(seen, p) \cup Under(seen, p) = {}
    BY <1>1, <1>5 DEF Told
  <2> QED BY <1>5, <2>1 DEF IsFound, i
<1> QED BY <1>2, <1>4, <1>5 DEF Reaches

(* The child of a directory with a name is what the longer path leads to.  *)
IsChild(i, c, k) == k \in DOMAIN index \ {Root} /\ index[k].parent = i /\ index[k].name = c

(* lookup in what a path leads to goes to the longer path.                 *)
LEMMA ChildRight ==
  ASSUME NEW nodes, NEW order, Serves(nodes, order), NEW p \in Seq(Names),
         Resolve(p) # None, NEW c \in Names, NEW k
  PROVE  IsChild(Resolve(p), c, k) <=> k # None /\ k = Resolve(Append(p, c))
<1> DEFINE D == DOMAIN nodes
           i == Resolve(p)
           q == Append(p, c)
           j == Resolve(q)
<1>1. /\ Tree(nodes) /\ Renumbered(nodes, order, index) /\ Laid(index) /\ None \notin D
      /\ DOMAIN index = D /\ Root \in D
  BY DEF Serves
<1>2. q \in Seq(Names)
  BY SMT
<1>3. Reaches(nodes, order, p, i) /\ Reaches(nodes, order, q, j)
  BY <1>1, <1>2, ResolveRight
<1>4. /\ \A x \in D : order[x] \in D /\ order[Root] = Root
      /\ \A x, y \in D : order[x] = order[y] => x = y
      /\ \A x \in D : /\ index[x].name = nodes[order[x]].name /\ index[x].parent \in D
                      /\ order[index[x].parent] = nodes[order[x]].parent
  BY <1>1 DEF Renumbered, Bijection, Injection, IsInjective
<1> HIDE DEF i, j, D
<1>5. i \in D /\ PathOf(nodes, order[i]) = p
  BY <1>3 DEF Reaches, i, D
<1>6. ASSUME IsChild(i, c, k) PROVE k # None /\ k = j
  <2> DEFINE t == order[k]
  <2>1. k \in D /\ k # Root /\ t \in D /\ nodes[t].name = c /\ nodes[t].parent = order[i]
    BY <1>1, <1>4, <1>6 DEF IsChild
  <2>2. t # Root
    BY <1>1, <1>4, <2>1
  <2> HIDE DEF t
  <2>3. PathOf(nodes, t) = Append(PathOf(nodes, nodes[t].parent), nodes[t].name)
    BY <1>1, <2>1, <2>2, PathTurns DEF Rooted, D
  <2>4. PathOf(nodes, t) = q
    BY <1>5, <2>1, <2>3
  <2>5. j \in D /\ PathOf(nodes, order[j]) = q
    <3>1. t \in DOMAIN nodes
      BY <2>1 DEF D
    <3> QED BY <1>3, <2>4, <3>1 DEF Reaches, D
  <2>6. order[j] = t
    <3>1. order[j] \in DOMAIN nodes /\ t \in DOMAIN nodes
      BY <1>4, <2>1, <2>5 DEF D
    <3> QED BY <1>1, <2>4, <2>5, <3>1, PathOnce
  <2> QED BY <1>1, <1>4, <2>1, <2>5, <2>6 DEF t
<1>7. ASSUME j # None PROVE IsChild(i, c, j)
  <2> DEFINE t == order[j]
             u == nodes[t].parent
  <2>1. j \in D /\ PathOf(nodes, t) = q
    BY <1>3, <1>7 DEF Reaches, D
  <2>2. t \in DOMAIN nodes
    BY <1>4, <2>1 DEF D
  <2> HIDE DEF t
  <2>3. IsDown(nodes, t, p, c)
    BY <1>1, <2>1, <2>2, OneDown
  <2>4. t # Root /\ PathOf(nodes, u) = p /\ nodes[t].name = c
    BY <2>3 DEF IsDown
  <2>5. u \in DOMAIN nodes
    BY <1>1, <2>2, <2>4, TreeTypes
  <2>6. order[i] \in DOMAIN nodes
    BY <1>4, <1>5 DEF D
  <2>7. u = order[i]
    <3> HIDE DEF u
    <3> QED BY <1>1, <1>5, <2>4, <2>5, <2>6, PathOnce
  <2>8. order[index[j].parent] = order[i] /\ index[j].parent \in D /\ index[j].name = c
    BY <1>4, <2>1, <2>4, <2>7 DEF t
  <2>9. index[j].parent = i
    BY <1>4, <1>5, <2>8
  <2>10. j # Root
    BY <1>4, <2>1, <2>4 DEF t
  <2> QED BY <1>1, <2>1, <2>8, <2>9, <2>10 DEF IsChild
<1> QED BY <1>6, <1>7 DEF i, j

(* The subdirectories that finish counted are those that lookups find.     *)
SubNames(p) ==
  {c \in Names : LET k == Resolve(Append(p, c)) IN k # None /\ index[k].kind = "Dir"}

(* subdir_count is the number of directories that lookups find.            *)
LEMMA SubdirsCounted ==
  ASSUME NEW nodes, NEW order, Serves(nodes, order), NEW p \in Seq(Names),
         Resolve(p) # None
  PROVE  index[Resolve(p)].subdir_count = Cardinality(SubNames(p))
<1> DEFINE i == Resolve(p)
           S == Subs(index, i)
           T == SubNames(p)
           f == [k \in S |-> index[k].name]
<1>1. /\ Tree(nodes) /\ Renumbered(nodes, order, index) /\ Laid(index)
      /\ DOMAIN index = DOMAIN nodes /\ IsFiniteSet(DOMAIN nodes)
  BY DEF Serves
<1>2. i \in DOMAIN index
  <2>1. Reaches(nodes, order, p, i)
    BY <1>1, ResolveRight
  <2> QED BY <1>1, <2>1 DEF Reaches
<1>3. LaidAt(index, i)
  <2> HIDE DEF i
  <2> QED BY <1>1, <1>2 DEF Laid
<1>4. index[i].subdir_count = Cardinality(S)
  BY <1>3 DEF LaidAt
<1>5. \A c \in Names : \A k : IsChild(i, c, k) <=> k # None /\ k = Resolve(Append(p, c))
  BY ChildRight
<1> HIDE DEF i
<1>6. \A k : k \in S <=> \E c \in Names : IsChild(i, c, k) /\ index[k].kind = "Dir"
  <2>1. \A k \in DOMAIN index \ {Root} : index[k].name \in Names
    BY <1>1 DEF Laid
  <2> QED BY <2>1 DEF Subs, IsChild
<1>7. \A c : c \in T <=> c \in Names /\ \E k : IsChild(i, c, k) /\ index[k].kind = "Dir"
  BY <1>5 DEF SubNames
<1>8. IsFiniteSet(S)
  <2>1. S \subseteq DOMAIN nodes
    BY <1>1 DEF Subs
  <2> HIDE DEF S
  <2> QED BY <1>1, <2>1, FS_Subset
<1> HIDE DEF S, T
<1>9. f \in [S -> T] /\ DOMAIN f = S /\ \A k \in S : f[k] = index[k].name
  <2>1. ASSUME NEW k \in S PROVE index[k].name \in T
    <3>1. PICK c \in Names : IsChild(i, c, k) /\ index[k].kind = "Dir"
      BY <1>6
    <3>2. index[k].name = c
      BY <3>1 DEF IsChild
    <3> QED BY <1>7, <3>1, <3>2
  <2> QED BY <2>1
<1> HIDE DEF f
<1>10. ASSUME NEW k \in S PROVE f[k] \in Names /\ IsChild(i, f[k], k)
  BY <1>6, <1>9 DEF IsChild
<1>11. ASSUME NEW x \in S, NEW y \in S, f[x] = f[y] PROVE x = y
  <2>1. x = Resolve(Append(p, f[x]))
    BY <1>5, <1>10
  <2>2. y = Resolve(Append(p, f[y]))
    BY <1>5, <1>10
  <2> QED BY <1>11, <2>1, <2>2
<1>12. ASSUME NEW c \in T PROVE \E k \in S : f[k] = c
  <2>1. PICK k : c \in Names /\ IsChild(i, c, k) /\ index[k].kind = "Dir"
    BY <1>7
  <2>2. k \in S
    BY <1>6, <2>1
  <2> QED BY <1>9, <2>1, <2>2 DEF IsChild
<1>13. f \in Bijection(S, T)
  BY <1>9, <1>11, <1>12 DEF Bijection, Injection, Surjection, IsInjective
<1>14. ExistsBijection(S, T)
  BY <1>13 DEF ExistsBijection
<1>15. Cardinality(T) = Cardinality(S)
  BY <1>8, <1>14, FS_Bijection
<1> QED BY <1>4, <1>15 DEF i, T

(* build.rs 259-497, index.rs 189-202: for any names and records and for   *)
(* archives of any length, in whatever order the entries come, lookups     *)
(* find a path exactly if an accepted entry has it or lies below it, and   *)
(* find the right kind and the right number of subdirectories there.       *)
THEOREM TreeIsRight ==
  Spec => []TreeRight
<1>1. IndexInv => TreeRight
  <2>1. SUFFICES ASSUME IndexInv, Built PROVE TreeRight
    BY DEF TreeRight
  <2>2. PICK nodes, order : Serves(nodes, order)
    BY <2>1, IndexServes DEF Built
  <2>3. ASSUME NEW p \in Paths
        PROVE  LET i == Resolve(p)
               IN /\ (i # None) = (At(p) \cup Below(p) # {})
                  /\ i # None => index[i].kind = IF Below(p) # {} THEN "Dir"
                                                ELSE Kind(seen[First(At(p))])
    <3> DEFINE i == Resolve(p)
    <3>1. p \in Seq(Names) /\ p # <<>>
      BY PathsAre
    <3>2. IsFound(nodes, order, p, i)
      BY <2>2, <3>1, FoundRight
    <3>3. At(p) = Here(seen, p) /\ Below(p) = Under(seen, p)
      BY DEF At, Below, Here, Under, Over
    <3> HIDE DEF i
    <3>4. (i # None) = (At(p) \cup Below(p) # {})
      BY <3>2, <3>3 DEF IsFound
    <3>5. i # None => index[i].kind = IF Below(p) # {} THEN "Dir"
                                     ELSE Kind(seen[First(At(p))])
      BY <3>2, <3>3 DEF IsFound, Fits
    <3> QED BY <3>4, <3>5 DEF i
  <2>4. ASSUME NEW p \in Paths \cup {<<>>}, Resolve(p) # None,
               index[Resolve(p)].kind = "Dir"
        PROVE  file_attr(Resolve(p)).nlink = 2 + Cardinality(SubNames(p))
    <3> DEFINE i == Resolve(p)
    <3>1. p \in Seq(Names)
      <4>1. <<>> \in Seq(Names)
        BY SMT
      <4> QED BY <4>1, PathsAre
    <3>2. index[i].subdir_count = Cardinality(SubNames(p))
      BY <2>2, <2>4, <3>1, SubdirsCounted
    <3>3. index[i].kind = "Dir"
      BY <2>4
    <3> HIDE DEF i
    <3>4. file_attr(i).nlink = 2 + index[i].subdir_count
      BY <3>3 DEF file_attr
    <3> QED BY <3>2, <3>4 DEF i
  <2> QED BY <2>3, <2>4 DEF TreeRight, SubNames
<1> QED BY <1>1, IndexInvariant, PTL

(* a gives the kind of node i, the size in r and the permissions in bits.  *)
AttrFrom(a, i, r, bits) ==
  /\ a.kind = index[i].kind
  /\ a.kind = "Dir" => a.size = 0
  /\ a.kind # "Dir" /\ index[i].meta # None => a.size = r.usize
  /\ a.perm = IF bits # {} THEN bits
              ELSE IF a.kind = "Dir" THEN DirMode \cap 0 .. 8
              ELSE FileMode \cap 0 .. 8

(* The attributes of a node, from the record it has.                       *)
LEMMA AttrRight ==
  ASSUME NEW i, NEW r, index[i].meta # None => Recorded(i) = <<r>>,
         NEW bits, bits = IF index[i].meta = None THEN {} ELSE r.mode \cap 0 .. 8
  PROVE  AttrFrom(file_attr(i), i, r, bits)
<1> DEFINE a == file_attr(i)
           recorded == (UNION {e.mode : e \in Range(Recorded(i))}) \cap 0 .. 8
           size == IF index[i].kind = "Dir" \/ Recorded(i) = <<>> THEN 0
                   ELSE Recorded(i)[1].usize
<1>1. /\ a.kind = index[i].kind /\ a.perm = permissions(i) /\ a.size = size
  BY DEF file_attr
<1> HIDE DEF a
<1>2. recorded = bits
  <2>1. CASE index[i].meta = None
    <3>1. Recorded(i) = <<>> /\ DOMAIN <<>> = {}
      BY <2>1, SMT DEF Recorded
    <3> QED BY <2>1, <3>1 DEF Range
  <2>2. CASE index[i].meta # None
    <3>1. Recorded(i) = <<r>>
      BY <2>2
    <3>2. DOMAIN <<r>> = {1} /\ <<r>>[1] = r
      BY SMT
    <3>3. Range(<<r>>) = {r}
      BY <3>2 DEF Range
    <3> DEFINE R == Range(Recorded(i))
    <3>4. R = {r}
      BY <3>1, <3>3
    <3> HIDE DEF R
    <3>5. UNION {e.mode : e \in R} = r.mode
      BY <3>4, SMT
    <3>6. recorded = r.mode \cap 0 .. 8
      BY <3>5 DEF R
    <3> QED BY <2>2, <3>6
  <2> QED BY <2>1, <2>2
<1>3. permissions(i) = (IF bits # {} THEN bits
                        ELSE IF index[i].kind = "Dir" THEN DirMode ELSE FileMode) \cap 0 .. 8
  <2> HIDE DEF recorded
  <2> QED BY <1>2 DEF permissions, recorded
<1>4. bits \cap 0 .. 8 = bits
  OBVIOUS
<1>5. a.perm = IF bits # {} THEN bits
               ELSE IF a.kind = "Dir" THEN DirMode \cap 0 .. 8
               ELSE FileMode \cap 0 .. 8
  <2>1. CASE bits # {}
    BY <1>1, <1>3, <1>4, <2>1
  <2>2. CASE bits = {}
    BY <1>1, <1>3, <2>2
  <2> QED BY <2>1, <2>2
<1>6. a.kind # "Dir" /\ index[i].meta # None => a.size = r.usize
  <2>1. <<r>> # <<>> /\ <<r>>[1] = r
    BY SMT
  <2> QED BY <1>1, <2>1
<1>7. AttrFrom(a, i, r, bits)
  BY <1>1, <1>5, <1>6 DEF AttrFrom
<1> QED BY <1>7 DEF a

(* build.rs 293-355, attr.rs 27-82: for any names and records and for      *)
(* archives of any length, every path has the entry that should win it,    *)
(* and the attributes that are made of it; links have slots of their own.  *)
THEOREM EntriesAreRight ==
  Spec => []EntriesRight
<1> DEFINE meta(i) == builder.metas[index[i].meta]
<1>1. IndexInv => EntriesRight
  <2>1. SUFFICES ASSUME IndexInv, Built PROVE EntriesRight
    BY DEF EntriesRight
  <2>2. PICK nodes, order : Serves(nodes, order)
    BY <2>1, IndexServes DEF Built
  <2>3. None \notin DOMAIN builder.metas
    BY <2>2 DEF Serves
  <2>4. ASSUME NEW p \in Paths, Resolve(p) # None
        PROVE  LET i == Resolve(p)
                   owner == Owner(p)
                   bits == IF owner = {} THEN {} ELSE seen[First(owner)].mode \cap 0 .. 8
                   a == file_attr(i)
               IN /\ index[i].meta = None <=> owner = {}
                  /\ index[i].meta = None <=> index[i].synthetic
                  /\ owner # {} => meta(i).record = First(owner)
                  /\ a.size = IF a.kind = "Dir" THEN 0 ELSE seen[First(owner)].usize
                  /\ a.perm = IF bits # {} THEN bits
                              ELSE IF a.kind = "Dir" THEN DirMode \cap 0 .. 8
                              ELSE FileMode \cap 0 .. 8
    <3> DEFINE i == Resolve(p)
               owner == Owner(p)
               r == seen[First(owner)]
               bits == IF owner = {} THEN {} ELSE r.mode \cap 0 .. 8
               a == file_attr(i)
    <3>1. p \in Seq(Names) /\ p # <<>>
      BY PathsAre
    <3>2. IsFound(nodes, order, p, i)
      BY <2>2, <3>1, FoundRight
    <3>3. owner = Owners(seen, p)
      BY DEF Owner, Owners, Won, At, Below, Here, Under, Files, Over
    <3>4. i # None
      BY <2>4
    <3> HIDE DEF i, owner
    <3>5. /\ index[i].kind = IF Under(seen, p) # {} THEN "Dir"
                             ELSE Kind(seen[First(Here(seen, p))])
          /\ Here(seen, p) \cup Under(seen, p) # {}
          /\ owner = {} => index[i].synthetic = TRUE /\ index[i].meta = None
          /\ owner # {} => /\ index[i].synthetic = FALSE
                           /\ index[i].meta \in DOMAIN builder.metas
                           /\ meta(i).record = First(owner)
      BY <3>2, <3>3, <3>4 DEF IsFound, Fits
    <3>6. index[i].meta = None <=> owner = {}
      BY <2>3, <3>5
    <3>7. index[i].meta = None <=> index[i].synthetic
      BY <2>3, <3>5
    <3>8. index[i].meta # None => Recorded(i) = <<r>>
      BY <3>5, <3>6 DEF Recorded
    <3>9. index[i].kind # "Dir" => owner # {}
      BY <3>3, <3>5 DEF Owners, Won
    <3> HIDE DEF r
    <3>10. bits = IF index[i].meta = None THEN {} ELSE r.mode \cap 0 .. 8
      BY <3>6
    <3> HIDE DEF bits
    <3>11. /\ a.kind = index[i].kind
           /\ a.kind = "Dir" => a.size = 0
           /\ a.kind # "Dir" /\ index[i].meta # None => a.size = r.usize
           /\ a.perm = IF bits # {} THEN bits
                       ELSE IF a.kind = "Dir" THEN DirMode \cap 0 .. 8
                       ELSE FileMode \cap 0 .. 8
      <4>1. AttrFrom(a, i, r, bits)
        BY <3>8, <3>10, AttrRight
      <4> HIDE DEF a
      <4> QED BY <4>1 DEF AttrFrom
    <3> HIDE DEF a
    <3>12. a.size = IF a.kind = "Dir" THEN 0 ELSE r.usize
      BY <3>6, <3>9, <3>11
    <3>13. owner # {} => meta(i).record = First(owner)
      BY <3>5
    <3> QED BY <3>6, <3>7, <3>11, <3>12, <3>13 DEF a, bits, r, i, owner
  <2> DEFINE links == {i \in DOMAIN index : index[i].kind = "Symlink"}
  <2>5. ASSUME NEW i \in links
        PROVE  /\ order[i] \in DOMAIN nodes /\ nodes[order[i]].kind = "Symlink"
               /\ nodes[order[i]].meta = index[i].meta
    BY <2>2 DEF Serves, Renumbered, Bijection, Injection
  <2>6. ASSUME NEW i \in links PROVE meta(i).slot < builder.symlink_count
    <3>1. meta(i).slot \in 0 .. builder.symlink_count - 1
      BY <2>2, <2>5 DEF Serves, Slots
    <3>2. builder.symlink_count \in Nat
      BY <2>1, GrowsTypes DEF IndexInv, BuilderInv
    <3> HIDE DEF meta
    <3> QED BY <3>1, <3>2, SMT
  <2>7. ASSUME NEW i \in links, NEW k \in links, meta(i).slot = meta(k).slot
        PROVE  i = k
    <3>1. order[i] = order[k]
      BY <2>2, <2>5, <2>7, ZenonT(40) DEF Serves, Slots
    <3> QED BY <2>2, <3>1 DEF Serves, Renumbered, Bijection, Injection, IsInjective
  <2> QED BY <2>4, <2>6, <2>7 DEF EntriesRight
<1> QED BY <1>1, IndexInvariant, PTL

-----------------------------------------------------------------------------
(* A directory being listed.                                               *)

(* The first c of the n members of w.                                      *)
Given(w, n, c, s) ==
  s \in Seq({w[i] : i \in 1 .. n}) /\ Len(s) = c /\ \A i \in 1 .. c : s[i] = w[i]

Moved(w, n, got, fit, next) ==
  next \in 0 .. n /\ Given(w, n, next, got \o fit) /\ (fit = <<>> => next = n)

(* A reply with room for one or more gives the next ones and moves the     *)
(* cursor past them; only at the end it is empty.                          *)
LEMMA ReplyRight ==
  ASSUME NEW w, NEW n \in Nat, NEW c \in 0 .. n, \A i \in 1 .. n : w[i].cursor = i,
         NEW items, After(w, n, c, items), NEW got, Given(w, n, c, got),
         NEW room \in Nat \ {0}
  PROVE  LET fit == SubSeq(items, 1, IF room < Len(items) THEN room ELSE Len(items))
             next == IF fit = <<>> THEN c ELSE fit[Len(fit)].cursor
         IN Moved(w, n, got, fit, next)
<1> DEFINE W == {w[i] : i \in 1 .. n}
           r == IF room < Len(items) THEN room ELSE Len(items)
           fit == SubSeq(items, 1, r)
           next == IF fit = <<>> THEN c ELSE fit[Len(fit)].cursor
<1>1. /\ items \in Seq(W) /\ Len(items) = n - c
      /\ \A i \in 1 .. n - c : items[i] = w[c + i]
      /\ got \in Seq(W) /\ Len(got) = c /\ \A i \in 1 .. c : got[i] = w[i]
  BY DEF After, Given
<1> HIDE DEF W
<1>2. r \in 0 .. n - c /\ (r = 0 => c = n) /\ r \in Nat /\ r <= Len(items) /\ 1 + r - 1 = r
  BY <1>1, SMT
<1> HIDE DEF r
<1>3. fit \in Seq(W) /\ Slice(items, 1, r, fit)
  <2>1. SubSeq(items, 1, 1 + r - 1) \in Seq(W)
        /\ Slice(items, 1, r, SubSeq(items, 1, 1 + r - 1))
    <3>1. 1 \in Nat \ {0} /\ (r = 0 \/ 1 + r - 1 <= Len(items))
      BY <1>2, SMT
    <3> QED BY <1>1, <1>2, <3>1, SliceOf
  <2> QED BY <1>2, <2>1
<1> HIDE DEF fit
<1>4. Len(fit) = r /\ \A i \in 1 .. r : fit[i] = w[c + i]
  <2>1. Len(fit) = r /\ \A i \in 1 .. r : fit[i] = items[1 + i - 1]
    BY <1>3 DEF Slice
  <2>2. \A i \in 1 .. r : 1 + i - 1 = i /\ i \in 1 .. n - c
    BY <1>2, SMT
  <2>3. ASSUME NEW i \in 1 .. r PROVE fit[i] = w[c + i]
    <3>1. fit[i] = items[i] /\ items[i] = w[c + i]
      BY <1>1, <2>1, <2>2
    <3> QED BY <3>1
  <2> QED BY <2>1, <2>3
<1>5. fit = <<>> <=> r = 0
  BY <1>2, <1>3, <1>4, SMT
<1>6. next = c + r
  <2>1. CASE r = 0
    BY <1>5, <2>1, SMT
  <2>2. CASE r # 0
    <3>1. r \in 1 .. r /\ c + r \in 1 .. n
      BY <1>2, <2>2, SMT
    <3>2. fit[Len(fit)] = w[c + r]
      BY <1>4, <3>1
    <3> QED BY <1>5, <2>2, <3>1, <3>2
  <2> QED BY <2>1, <2>2
<1> HIDE DEF next
<1>7. next \in 0 .. n /\ (fit = <<>> => next = n)
  BY <1>2, <1>5, <1>6, SMT
<1>8. /\ got \o fit \in Seq(W) /\ Len(got \o fit) = next
      /\ \A i \in 1 .. c : (got \o fit)[i] = got[i]
      /\ \A i \in 1 .. r : (got \o fit)[c + i] = fit[i]
  <2>1. Joined(got, fit, got \o fit)
    BY <1>1, <1>3, JoinedRight
  <2>2. got \o fit \in Seq(W)
    BY <1>1, <1>3, SMT
  <2>3. DOMAIN got = 1 .. c /\ DOMAIN fit = 1 .. r
    BY <1>1, <1>3, <1>4, SMT
  <2> QED BY <1>1, <1>4, <1>6, <2>1, <2>2, <2>3 DEF Joined
<1>9. ASSUME NEW i \in 1 .. next PROVE (got \o fit)[i] = w[i]
  <2>1. i \in 1 .. c \/ (i - c \in 1 .. r /\ c + (i - c) = i)
    BY <1>2, <1>6, SMT
  <2>2. CASE i \in 1 .. c
    BY <1>1, <1>8, <2>2
  <2>3. CASE i - c \in 1 .. r /\ c + (i - c) = i
    <3>1. (got \o fit)[c + (i - c)] = fit[i - c] /\ fit[i - c] = w[c + (i - c)]
      BY <1>4, <1>8, <2>3
    <3> QED BY <2>3, <3>1
  <2> QED BY <2>1, <2>2, <2>3
<1>10. Given(w, n, next, got \o fit)
  BY <1>8, <1>9 DEF Given, W
<1> QED BY <1>7, <1>10 DEF Moved, next, fit, r

(* What came before the cursor is the beginning of the list.               *)
Lists(l, w, n) ==
  /\ l \in [dir: Nat, cursor: Nat, got: Seq({w[i] : i \in 1 .. n}), done: BOOLEAN]
  /\ l.cursor \in 0 .. n /\ Given(w, n, l.cursor, l.got) /\ (l.done => l.cursor = n)

ListingInv ==
  \/ listing = NoListing
  \/ /\ phase = "serve" /\ listing.dir \in DOMAIN index /\ index[listing.dir].kind = "Dir"
     /\ Lists(listing, Whole(listing.dir), index[listing.dir].child_len + 2)

(* What the listing needs of the index.                                    *)
Ready ==
  /\ Laid(index) /\ None \notin DOMAIN index /\ DOMAIN index \subseteq Nat
  /\ \E X : index \in Seq(X)
  /\ \A dir \in DOMAIN index :
       /\ index[dir].child_len \in Nat
       /\ index[dir].kind = "Dir" => index[index[dir].parent].kind = "Dir"

(* The index in use has what a listing needs.                              *)
LEMMA IndexReady ==
  ASSUME IndexInv, phase = "serve"
  PROVE  Ready
<1>1. PICK nodes, order : Serves(nodes, order)
  BY IndexServes
<1>2. /\ Tree(nodes) /\ Renumbered(nodes, order, index) /\ Laid(index)
      /\ DOMAIN index = DOMAIN nodes /\ None \notin DOMAIN nodes /\ Root \in DOMAIN nodes
      /\ nodes = builder.nodes
  BY <1>1 DEF Serves
<1>3. DOMAIN nodes = 1 .. Len(nodes) /\ Len(nodes) \in Nat
  BY <1>2, TreeTypes
<1>4. \E X : index \in Seq(X)
  <2> DEFINE m == Len(nodes)
             X == {index[i] : i \in 1 .. m}
  <2>1. index = Finished(nodes)
    BY <1>2 DEF IndexInv
  <2>2. index = [i \in DOMAIN index |-> index[i]]
    BY <2>1 DEF Finished
  <2>3. \A i \in 1 .. m : index[i] \in X
    OBVIOUS
  <2> HIDE DEF X
  <2>4. index \in [1 .. m -> X]
    BY <1>2, <1>3, <2>2, <2>3
  <2>5. index \in Seq(X)
    BY <1>3, <2>4, SMT
  <2> QED BY <2>5
<1>5. ASSUME NEW dir \in DOMAIN index
      PROVE  /\ index[dir].child_len \in Nat
             /\ index[dir].kind = "Dir" => index[index[dir].parent].kind = "Dir"
  <2>1. index[dir].child_len \in Nat
    BY <1>2 DEF Laid, LaidAt
  <2>2. CASE dir # Root
    BY <1>2, <2>1, <2>2 DEF Laid
  <2>3. CASE dir = Root
    <3>1. /\ order[Root] = Root /\ index[Root].parent \in DOMAIN nodes
          /\ order[index[Root].parent] = nodes[order[Root]].parent
          /\ \A x, y \in DOMAIN nodes : order[x] = order[y] => x = y
      BY <1>2 DEF Renumbered, Bijection, Injection, IsInjective
    <3>2. nodes[Root].parent = Root
      BY <1>2 DEF Tree
    <3>3. index[Root].parent = Root
      BY <1>2, <3>1, <3>2
    <3> QED BY <2>1, <2>3, <3>3
  <2> QED BY <2>2, <2>3
<1>6. DOMAIN index \subseteq Nat
  <2>1. 1 .. Len(nodes) \subseteq Nat
    BY <1>3, SMT
  <2> QED BY <1>2, <1>3, <2>1
<1> QED BY <1>2, <1>4, <1>5, <1>6 DEF Ready

(* opendir begins at the beginning.                                        *)
LEMMA ListsNone ==
  ASSUME NEW dir \in Nat, NEW w, NEW n \in Nat
  PROVE  /\ [NoListing EXCEPT !.dir = dir].dir = dir
         /\ Lists([NoListing EXCEPT !.dir = dir], w, n)
<1> DEFINE l == [NoListing EXCEPT !.dir = dir]
           W == {w[i] : i \in 1 .. n}
<1>1. None \in Nat
  BY SMT DEF None
<1>2. <<>> \in Seq(W) /\ Len(<<>>) = 0 /\ 0 \in Nat /\ 0 \in 0 .. n /\ 1 .. 0 = {}
  BY SMT
<1>3. Given(w, n, 0, <<>>)
  BY <1>2 DEF Given
<1> HIDE DEF W
<1> DEFINE R == [dir: Nat, cursor: Nat, got: Seq(W), done: BOOLEAN]
<1>4. /\ NoListing \in R /\ NoListing.cursor = 0 /\ NoListing.got = <<>>
      /\ NoListing.done = FALSE
  BY <1>1, <1>2 DEF NoListing
<1>5. l \in R /\ l.dir = dir /\ l.cursor = 0 /\ l.got = <<>> /\ l.done = FALSE
  BY <1>4
<1> HIDE DEF l
<1> QED BY <1>2, <1>3, <1>4, <1>5 DEF Lists, W, l

(* A reply goes on with the list.                                          *)
LEMMA RepliesOn ==
  ASSUME NEW w, NEW n \in Nat, \A i \in 1 .. n : w[i].cursor = i, NEW items,
         Lists(listing, w, n), After(w, n, listing.cursor, items), Replied(items)
  PROVE  listing'.dir = listing.dir /\ Lists(listing', w, n)
<1> DEFINE W == {w[i] : i \in 1 .. n}
           R == [dir: Nat, cursor: Nat, got: Seq(W), done: BOOLEAN]
           c == listing.cursor
<1>1. /\ listing \in R /\ c \in 0 .. n /\ Given(w, n, c, listing.got)
  BY DEF Lists
<1>2. PICK room \in 1 .. MaxReply :
        LET fit == SubSeq(items, 1, IF room < Len(items) THEN room ELSE Len(items))
        IN listing' =
             [listing EXCEPT
                !.cursor = IF fit = <<>> THEN @ ELSE fit[Len(fit)].cursor,
                !.got = @ \o fit, !.done = (fit = <<>>)]
  BY DEF Replied
<1> DEFINE fit == SubSeq(items, 1, IF room < Len(items) THEN room ELSE Len(items))
           next == IF fit = <<>> THEN c ELSE fit[Len(fit)].cursor
           got == listing.got \o fit
           done == (fit = <<>>)
<1>3. listing' = [listing EXCEPT !.cursor = next, !.got = got, !.done = done]
  BY <1>2
<1>4. room \in Nat \ {0}
  BY BuildAssumption, SMT
<1>5. next \in 0 .. n /\ Given(w, n, next, got) /\ (fit = <<>> => next = n)
  <2>1. Moved(w, n, listing.got, fit, next)
    BY <1>1, <1>4, ReplyRight
  <2> HIDE DEF fit, next
  <2> QED BY <2>1 DEF Moved
<1> HIDE DEF fit
<1>6. done \in BOOLEAN /\ (done => next = n)
  BY <1>5
<1> HIDE DEF next, got, done, c
<1>7. next \in Nat
  BY <1>5, SMT
<1>8. got \in Seq(W)
  BY <1>5 DEF Given
<1> HIDE DEF W
<1>9. /\ listing' \in R /\ listing'.dir = listing.dir /\ listing'.cursor = next
      /\ listing'.got = got /\ listing'.done = done
  BY <1>1, <1>3, <1>6, <1>7, <1>8
<1> HIDE DEF R
<1>10. Lists(listing', w, n)
  BY <1>5, <1>6, <1>9 DEF Lists, R, W
<1> QED BY <1>9, <1>10

(* The cursor of the i-th name is i.                                       *)
LEMMA WholeCursors ==
  ASSUME NEW dir, NEW i \in 1 .. index[dir].child_len + 2
  PROVE  Whole(dir)[i].cursor = i
<1> DEFINE k == index[dir].first_child + (i - 3)
           w == Whole(dir)
<1>1. w[i] = IF i = 1 THEN Item(dir, 1, "Dir", Dot)
             ELSE IF i = 2 THEN Item(index[dir].parent, 2, "Dir", DotDot)
             ELSE Item(k, i, index[k].kind, index[k].name)
  BY DEF Whole
<1> HIDE DEF w
<1>2. CASE i = 1
  <2>1. w[i] = Item(dir, 1, "Dir", Dot) /\ Item(dir, 1, "Dir", Dot).cursor = 1
    BY <1>1, <1>2 DEF Item
  <2> QED BY <1>2, <2>1 DEF w
<1>3. CASE i = 2
  <2> DEFINE x == Item(index[dir].parent, 2, "Dir", DotDot)
  <2>1. i # 1
    BY <1>3, SMT
  <2>2. w[i] = x
    BY <1>1, <1>3, <2>1
  <2>3. x.cursor = 2
    BY DEF Item
  <2> HIDE DEF x
  <2> QED BY <1>3, <2>2, <2>3 DEF w
<1>4. CASE i # 1 /\ i # 2
  <2> DEFINE x == Item(k, i, index[k].kind, index[k].name)
  <2>1. w[i] = x
    BY <1>1, <1>4
  <2>2. x.cursor = i
    BY DEF Item
  <2> HIDE DEF x
  <2> QED BY <2>1, <2>2 DEF w
<1> QED BY <1>2, <1>3, <1>4

(* readdir and readdirplus give the same.                                  *)
LEMMA RepliesTheSame ==
  ASSUME Ready, readdir \/ readdirplus, listing.dir \in DOMAIN index,
         index[listing.dir].kind = "Dir"
  PROVE  Replied(Listed(listing.dir, listing.cursor, <<"Dir", "Dir">>))
<1>1. CASE readdir
  BY <1>1 DEF readdir
<1>2. CASE readdirplus
  <2> DEFINE d == listing.dir
             p == index[listing.dir].parent
  <2>1. Replied(Listed(d, listing.cursor, <<file_attr(d).kind, file_attr(p).kind>>))
    BY <1>2 DEF readdirplus
  <2>2. file_attr(d).kind = index[d].kind /\ file_attr(p).kind = index[p].kind
    BY DEF file_attr
  <2>3. index[d].kind = "Dir" /\ index[p].kind = "Dir"
    BY DEF Ready
  <2>4. file_attr(d).kind = "Dir" /\ file_attr(p).kind = "Dir"
    BY <2>2, <2>3
  <2> QED BY <2>1, <2>4
<1> QED BY <1>1, <1>2

(* The list goes on being right if it is right in the new state.           *)
LEMMA ListingKept ==
  ASSUME IndexInv, ListingInv, phase = "serve", UNCHANGED <<phase, index>>,
         NEW dir \in DOMAIN index, index[dir].kind = "Dir",
         listing'.dir = dir, Lists(listing', Whole(dir), index[dir].child_len + 2)
  PROVE  ListingInv'
<1>1. phase' = "serve" /\ index' = index
  OBVIOUS
<1>2. Whole(listing.dir)' = Whole(dir)
  BY <1>1 DEF Whole
<1> DEFINE n == index[dir].child_len + 2
           l == listing'
           w == Whole(listing.dir)'
<1>3. index'[l.dir].child_len + 2 = n /\ w = Whole(dir)
  BY <1>1, <1>2
<1>4. Lists(l, Whole(dir), n)
  OBVIOUS
<1> HIDE DEF n, w, l
<1>5. Lists(l, w, index'[l.dir].child_len + 2)
  BY <1>3, <1>4
<1> USE DEF l, w
<1> QED BY <1>1, <1>5 DEF ListingInv

(* A listing is right up to its cursor, always.                            *)
LEMMA ListingInvariant ==
  Spec => []ListingInv
<1>1. Init => ListingInv
  BY DEF Init, ListingInv
<1>2. IndexInv /\ ListingInv /\ [Next]_vars => ListingInv'
  <2>1. SUFFICES ASSUME IndexInv, ListingInv, [Next]_vars PROVE ListingInv'
    OBVIOUS
  <2>2. ASSUME phase = "scan", listing' = listing PROVE ListingInv'
    <3>1. phase # "serve"
      BY <2>2
    <3> QED BY <2>1, <2>2, <3>1 DEF ListingInv
  <2>3. ASSUME NEW e \in Records,
               RejectPath(e) \/ RejectSize(e) \/ Duplicate(e) \/ Attach(e)
        PROVE  ListingInv'
    BY <2>2, <2>3 DEF RejectPath, RejectSize, Duplicate, Attach, NextRecord
  <2>4. CASE Finish
    BY <2>2, <2>4 DEF Finish
  <2>5. ASSUME NEW ino \in DOMAIN index, opendir(ino) PROVE ListingInv'
    <3> DEFINE n == index[ino].child_len + 2
    <3>1. /\ phase = "serve" /\ index[ino].kind = "Dir" /\ UNCHANGED <<phase, index>>
          /\ listing' = [NoListing EXCEPT !.dir = ino]
      BY <2>5 DEF opendir
    <3>2. Ready
      BY <2>1, <3>1, IndexReady
    <3>3. ino \in Nat /\ index[ino].child_len \in Nat
      BY <3>2 DEF Ready
    <3>4. n \in Nat
      BY <3>3, SMT
    <3> HIDE DEF n
    <3>5. listing'.dir = ino /\ Lists(listing', Whole(ino), n)
      BY <3>1, <3>3, <3>4, ListsNone
    <3> QED BY <2>1, <3>1, <3>5, ListingKept DEF n
  <2>6. ASSUME readdir \/ readdirplus PROVE ListingInv'
    <3> DEFINE dir == listing.dir
               n == index[dir].child_len + 2
               w == Whole(dir)
               items == Listed(dir, listing.cursor, <<"Dir", "Dir">>)
    <3>1. phase = "serve" /\ dir # None
      BY <2>6 DEF readdir, readdirplus, Listing
    <3>2. listing # NoListing
      <4>1. NoListing.dir = None
        BY DEF NoListing
      <4> QED BY <3>1, <4>1
    <3>3. dir \in DOMAIN index /\ index[dir].kind = "Dir" /\ Lists(listing, w, n)
      BY <2>1, <3>2 DEF ListingInv
    <3>4. Ready
      BY <2>1, <3>1, IndexReady
    <3>5. Replied(items)
      BY <2>6, <3>3, <3>4, RepliesTheSame
    <3>6. UNCHANGED <<phase, index>>
      BY <3>5 DEF Replied
    <3>7. n \in Nat
      <4>1. index[dir].child_len \in Nat
        BY <3>3, <3>4 DEF Ready
      <4> QED BY <4>1, SMT
    <3>8. \A i \in 1 .. n : w[i].cursor = i
      <4> HIDE DEF dir
      <4> QED BY WholeCursors
    <3>9. After(w, n, listing.cursor, items)
      <4>1. listing.cursor \in 0 .. n
        BY <3>3 DEF Lists
      <4>2. PICK X : index \in Seq(X)
        BY <3>4 DEF Ready
      <4>3. Laid(index)
        BY <3>4 DEF Ready
      <4> HIDE DEF dir
      <4> QED BY <3>3, <4>1, <4>2, <4>3, ListedRight
    <3> HIDE DEF items, w, n
    <3>10. listing'.dir = dir /\ Lists(listing', w, n)
      BY <3>3, <3>5, <3>7, <3>8, <3>9, RepliesOn
    <3> HIDE DEF dir
    <3> QED BY <2>1, <3>1, <3>3, <3>6, <3>10, ListingKept DEF w, n
  <2>7. CASE UNCHANGED vars
    <3>1. phase' = phase /\ index' = index /\ listing' = listing
      BY <2>7 DEF vars
    <3>2. CASE listing = NoListing
      BY <3>1, <3>2 DEF ListingInv
    <3>3. CASE listing # NoListing
      BY <2>1, <3>1, <3>3, ListingKept DEF ListingInv
    <3> QED BY <3>2, <3>3
  <2> QED BY <2>1, <2>3, <2>4, <2>5, <2>6, <2>7 DEF Next
<1> QED BY <1>1, <1>2, IndexInvariant, PTL DEF Spec

(* fs.rs 460-559: for any names and records, for archives of any length    *)
(* and replies of any size, readdir and readdirplus mixed, a listing gives *)
(* ".", ".." and every name that lookup finds, once, in order, with the    *)
(* inode and the kind that lookup gives; and ".." leads up.  The invariant *)
(* is that what came is the row of the directory, up to the cursor.        *)
THEOREM ListingIsRight ==
  Spec => []ListingRight
<1>1. IndexInv /\ ListingInv => ListingRight
  <2>1. SUFFICES ASSUME IndexInv, ListingInv, Listing \/ listing.done PROVE ListingRight
    BY DEF ListingRight
  <2> DEFINE dir == listing.dir
             n == index[dir].child_len + 2
             w == Whole(dir)
             W == {w[i] : i \in 1 .. n}
             c == listing.cursor
             got == listing.got
             whole == Sorted({x \in Names : lookup(dir, x) # None}, [x \in Names |-> x])
             right == <<Item(dir, 1, "Dir", Dot), Item(index[dir].parent, 2, "Dir", DotDot)>>
                        \o [i \in DOMAIN whole |->
                              Item(lookup(dir, whole[i]), 2 + i,
                                   index[lookup(dir, whole[i])].kind, whole[i])]
  <2>2. listing # NoListing
    <3>1. NoListing.dir = None /\ NoListing.done = FALSE
      BY DEF NoListing
    <3> QED BY <2>1, <3>1 DEF Listing
  <2>3. phase = "serve" /\ dir \in DOMAIN index /\ Lists(listing, w, n)
    BY <2>1, <2>2 DEF ListingInv
  <2>4. Ready
    BY <2>1, <2>3, IndexReady
  <2>5. Laid(index) /\ None \notin DOMAIN index /\ index[dir].child_len \in Nat
    BY <2>3, <2>4 DEF Ready
  <2>6. right = w
    <3> HIDE DEF dir
    <3> QED BY <2>3, <2>5, WholeRight DEF FoundNames
  <2>7. n \in Nat
    BY <2>5, SMT
  <2>8. w \in [1 .. n -> W]
    <3>1. w = [i \in 1 .. n |-> w[i]]
      BY DEF Whole
    <3> HIDE DEF w, n
    <3> QED BY <3>1
  <2>9. c \in 0 .. n /\ Given(w, n, c, got) /\ (listing.done => c = n)
    BY <2>3 DEF Lists
  <2>10. got \in Seq(W) /\ Len(got) = c /\ \A i \in 1 .. c : got[i] = w[i]
    BY <2>9 DEF Given
  <2>11. dir # Root => lookup(index[dir].parent, index[dir].name) = dir
    <3> HIDE DEF dir
    <3> QED BY <2>3, <2>5, FoundAgain
  <2> HIDE DEF w, n, W, c, got
  <2>12. w \in Seq(W) /\ Len(w) = n /\ c \in Nat /\ c <= n /\ got \in [1 .. c -> W]
    BY <2>7, <2>8, <2>9, <2>10, SMT
  <2>13. SubSeq(w, 1, c) = got
    <3>1. 1 + c - 1 = c /\ 1 \in Nat \ {0} /\ (c = 0 \/ 1 + c - 1 <= Len(w))
      BY <2>12, SMT
    <3> DEFINE s == SubSeq(w, 1, c)
    <3>2. s \in Seq(W) /\ Slice(w, 1, c, s)
      <4>1. SubSeq(w, 1, 1 + c - 1) \in Seq(W) /\ Slice(w, 1, c, SubSeq(w, 1, 1 + c - 1))
        BY <2>12, <3>1, SliceOf
      <4> QED BY <3>1, <4>1
    <3> HIDE DEF s
    <3>3. s \in [1 .. c -> W]
      BY <2>12, <3>2, SMT DEF Slice
    <3>4. \A i \in 1 .. c : 1 + i - 1 = i
      BY SMT
    <3>5. \A i \in 1 .. c : s[i] = got[i]
      BY <2>10, <3>2, <3>4 DEF Slice
    <3>6. Same(s, got)
      BY <2>12, <3>3, <3>5, SameFunction
    <3> QED BY <3>6 DEF Same, s
  <2>14. Begins(got, w)
    BY <2>10, <2>12, <2>13 DEF Begins
  <2>15. listing.done => got = w
    <3>1. SUFFICES ASSUME listing.done PROVE got = w
      OBVIOUS
    <3>2. c = n
      BY <2>9, <3>1
    <3>3. Same(got, w)
      BY <2>8, <2>10, <2>12, <3>2, SameFunction
    <3> QED BY <3>3 DEF Same
  <2> HIDE DEF right
  <2>16. Begins(got, right) /\ (listing.done => got = right)
    BY <2>6, <2>14, <2>15
  <2> HIDE DEF dir
  <2> QED BY <2>11, <2>16 DEF ListingRight, right, got, dir
<1> QED BY <1>1, IndexInvariant, ListingInvariant, PTL

=============================================================================
