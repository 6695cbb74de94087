----------------------------- MODULE IndexBuild -----------------------------
(***************************************************************************)
(* The directory tree: how src/index/build.rs makes it from the records of *)
(* the central directory, one at a time and in any order, and how lookup   *)
(* (src/index.rs) and readdir (src/fs.rs) find their way in it.            *)
(*                                                                         *)
(* A path is the sequence of the pieces between its separators.  A piece   *)
(* is a name, and names are numbers in the order of their bytes, or one of *)
(* the special pieces below.                                               *)
(***************************************************************************)
EXTENDS Integers, FiniteSets, Sequences, Functions

CONSTANTS
  Names,       \* the names of files and directories
  Records,     \* the records that a central directory may hold
  MaxRecords,  \* bound: how many it holds
  MaxDepth,    \* MAX_DEPTH
  FileMode, DirMode,   \* Config::file_mode and dir_mode, as sets of bits
  MaxReply     \* bound: how many names one readdir reply has room for

Empty == 0     \* nothing between two separators, or at an end
Dot == -1      \* "."
DotDot == -2   \* ".."
Long == -3     \* more than MAX_COMPONENT bytes

Pieces == Names \cup {Empty, Dot, DotDot, Long}
Methods == {"store", "deflate", "other"}

ASSUME BuildAssumption ==
  /\ Names \subseteq Nat \ {0}
  /\ \A e \in Records :
       /\ e.pieces \in Seq(Pieces) /\ e.pieces # <<>>
       /\ e.barred \in BOOLEAN     \* a NUL byte, a drive prefix or a leading \
       /\ e.link \in BOOLEAN       \* the mode is a symbolic link's
       /\ e.mode \in SUBSET (0 .. 11)   \* its other bits
       /\ e.encrypted \in BOOLEAN /\ e.method \in Methods
       /\ e.csize \in Nat /\ e.usize \in Nat
  /\ MaxRecords \in Nat /\ MaxDepth \in Nat /\ MaxReply \in Nat \ {0}
  /\ FileMode \in SUBSET (0 .. 15) /\ DirMode \in SUBSET (0 .. 15)

Kinds == {"Dir", "File", "Symlink"}
Root == 1
None == 0      \* NO_META, or no inode

VARIABLES
  phase,    \* "scan" while the central directory is read, then "serve"
  seen,     \* the records read so far
  builder,  \* the Builder
  index,    \* Index::nodes, without the sentinel
  listing   \* a directory being listed: the inode, the cursor, what came

vars == <<phase, seen, builder, index, listing>>

Stats == {"entries", "rejected_paths", "rejected_sizes", "duplicates",
          "encrypted", "unsupported", "synthetic_dirs", "symlinks"}

(* Node ids count from 1 here, and the root is its own parent.             *)
NewNode(parent, name) ==
  [name |-> name, kind |-> "Dir", synthetic |-> TRUE, parent |-> parent,
   meta |-> None]

NewBuilder ==
  [nodes |-> <<NewNode(Root, Empty)>>, metas |-> <<>>,
   memo_path |-> <<>>, memo_id |-> Root, symlink_count |-> 0,
   stats |-> [s \in Stats |-> 0]]

NoListing == [dir |-> None, cursor |-> 0, got |-> <<>>, done |-> FALSE]

Init ==
  /\ phase = "scan" /\ seen = <<>> /\ builder = NewBuilder
  /\ index = <<>> /\ listing = NoListing

Count(b, s) == [b EXCEPT !.stats[s] = @ + 1]

-----------------------------------------------------------------------------
(* Paths.                                                                  *)

components(path) ==
  LET kept[i \in 0 .. Len(path)] ==
        IF i = 0 THEN <<>>
        ELSE IF path[i] \in {Empty, Dot} THEN kept[i - 1]
        ELSE Append(kept[i - 1], path[i])
  IN kept[Len(path)]

(* One canonical path, which the separators do not tell apart any more.    *)
normalize_path(path) == components(path)

(* The last component, and the path before it.                             *)
split_parent(path) ==
  [parent |-> SubSeq(path, 1, Len(path) - 1), leaf |-> path[Len(path)]]

reject_reason(e) ==
  LET comps == components(e.pieces)
  IN \/ Head(e.pieces) = Empty    \* nothing at all, or absolute
     \/ e.barred
     \/ \E i \in DOMAIN comps : comps[i] \in {DotDot, Long}
     \/ Len(comps) > MaxDepth
     \/ comps = <<>>

SizesDiffer(e) == ~e.encrypted /\ e.method = "store" /\ e.csize # e.usize

NoLength(e) == e.usize > 0 /\ e.csize = 0

Accepted(e) == ~reject_reason(e) /\ ~SizesDiffer(e) /\ ~NoLength(e)

(* ZipFileHeaderRecord::is_dir: the path ends with a separator.            *)
is_dir(e) == e.pieces[Len(e.pieces)] = Empty

Kind(e) == IF is_dir(e) THEN "Dir" ELSE IF e.link THEN "Symlink" ELSE "File"

-----------------------------------------------------------------------------
(* The tree while it is discovered.                                        *)

(* The interner: the nodes with this parent and name, at most one.         *)
Find(nodes, parent, name) ==
  {i \in DOMAIN nodes \ {Root} : nodes[i].parent = parent /\ nodes[i].name = name}

intern(b, parent, name) ==
  LET found == Find(b.nodes, parent, name)
  IN IF found # {}
     THEN [b |-> b, id |-> CHOOSE i \in found : TRUE, fresh |-> FALSE]
     ELSE [b |-> [b EXCEPT !.nodes = Append(@, NewNode(parent, name))],
           id |-> Len(b.nodes) + 1, fresh |-> TRUE]

take_over_as_dir_Uncounted(b, id) ==
  Count([b EXCEPT !.nodes[id] = [@ EXCEPT !.kind = "Dir", !.synthetic = TRUE,
                                          !.meta = None]], "duplicates")

take_over_as_dir_KeepsMeta(b, id) ==
  Count(Count([b EXCEPT !.nodes[id] = [@ EXCEPT !.kind = "Dir",
                                                !.synthetic = TRUE]],
              "duplicates"), "synthetic_dirs")

(* A node that was indexed as a file becomes a directory.                  *)
take_over_as_dir(b, id) ==
  Count(Count([b EXCEPT !.nodes[id] = [@ EXCEPT !.kind = "Dir",
                                                !.synthetic = TRUE,
                                                !.meta = None]],
              "duplicates"), "synthetic_dirs")

(* One component of a parent's path, from the directory s.cur.             *)
Descend(s, name) ==
  LET i == intern(s.b, s.cur, name)
  IN [cur |-> i.id,
      b |-> IF i.fresh THEN Count(i.b, "synthetic_dirs")
            ELSE IF i.b.nodes[i.id].kind # "Dir" THEN take_over_as_dir(i.b, i.id)
            ELSE i.b]

(* All of them, from the root.                                             *)
Walk(b, path) ==
  LET at[n \in 0 .. Len(path)] ==
        IF n = 0 THEN [b |-> b, cur |-> Root] ELSE Descend(at[n - 1], path[n])
  IN at[Len(path)]

resolve_parent_KeepsId(b, path) ==
  IF path = b.memo_path THEN [b |-> b, cur |-> b.memo_id]
  ELSE LET s == Walk(b, path)
       IN [s EXCEPT !.b.memo_path = path]

(* The directory of the previous entry is remembered.                      *)
resolve_parent(b, path) ==
  IF path = b.memo_path THEN [b |-> b, cur |-> b.memo_id]
  ELSE LET s == Walk(b, path)
       IN [s EXCEPT !.b.memo_path = path, !.b.memo_id = s.cur]

(* The node of an accepted entry, once its parent is resolved.             *)
Interned(b, e) ==
  LET path == split_parent(normalize_path(e.pieces))
      parent == resolve_parent(b, path.parent)
  IN intern(parent.b, parent.cur, path.leaf)

(* A directory wins over a file, and the first entry over a later one.     *)
Loses(i, kind) ==
  LET existing == i.b.nodes[i.id]
  IN ~i.fresh /\ \/ existing.kind = "Dir" /\ kind # "Dir"
                 \/ ~existing.synthetic
                 \/ kind # "Dir"

Readability(b, e) ==
  IF e.encrypted THEN Count(b, "encrypted")
  ELSE IF e.method = "other" THEN Count(b, "unsupported") ELSE b

Linked(b, e) ==
  IF Kind(e) = "Symlink"
  THEN Count([b EXCEPT !.symlink_count = @ + 1], "symlinks") ELSE b

(* An EntryMeta, as which record it is and its slot in Index::symlinks.    *)
NewMeta(b, e) ==
  [record |-> Len(seen) + 1,
   slot |-> IF Kind(e) = "Symlink" THEN b.symlink_count ELSE 0]

(* The entry becomes the node's own.                                       *)
Attached(i, e) ==
  LET b == Linked(Readability(Count(i.b, "entries"), e), e)
  IN [b EXCEPT
        !.stats["synthetic_dirs"] = IF i.fresh THEN @ ELSE @ - 1,
        !.metas = Append(@, NewMeta(i.b, e)),
        !.nodes[i.id] = [@ EXCEPT !.kind = Kind(e), !.synthetic = FALSE,
                                  !.meta = Len(i.b.metas) + 1]]

-----------------------------------------------------------------------------
(* Builder::add, by its outcomes.                                          *)

NextRecord(e) ==
  /\ phase = "scan" /\ Len(seen) < MaxRecords
  /\ seen' = Append(seen, e)
  /\ UNCHANGED <<phase, index, listing>>

RejectPath(e) ==
  /\ NextRecord(e) /\ reject_reason(e)
  /\ builder' = Count(builder, "rejected_paths")

RejectSize(e) ==
  /\ NextRecord(e) /\ ~reject_reason(e) /\ (SizesDiffer(e) \/ NoLength(e))
  /\ builder' = Count(builder, "rejected_sizes")

Duplicate(e) ==
  /\ NextRecord(e) /\ Accepted(e)
  /\ LET i == Interned(builder, e)
     IN Loses(i, Kind(e)) /\ builder' = Count(i.b, "duplicates")

Attach(e) ==
  /\ NextRecord(e) /\ Accepted(e)
  /\ LET i == Interned(builder, e)
     IN ~Loses(i, Kind(e)) /\ builder' = Attached(i, e)

-----------------------------------------------------------------------------
(* finish: siblings are sorted, and the nodes numbered breadth first.      *)

(* A set in the order of what key gives its members.                       *)
Sorted(set, key) ==
  CHOOSE s \in [1 .. Cardinality(set) -> set] :
    \A i, j \in DOMAIN s : i < j => key[s[i]] < key[s[j]]

Kids(nodes, t) == {k \in DOMAIN nodes \ {Root} : nodes[k].parent = t}

group_children_Unsorted(nodes) ==
  [t \in DOMAIN nodes |-> Sorted(Kids(nodes, t), [k \in DOMAIN nodes |-> k])]

(* The children of each node in the order of their names.                  *)
group_children(nodes) ==
  [t \in DOMAIN nodes |->
     Sorted(Kids(nodes, t), [k \in DOMAIN nodes |-> nodes[k].name])]

(* The nodes breadth first, and the number that the first child gets.      *)
breadth_first_order(kids) ==
  LET after[i \in 0 .. Len(kids)] ==
        IF i = 0 THEN [order |-> <<Root>>, first |-> [t \in DOMAIN kids |-> 0]]
        ELSE LET o == after[i - 1]
                 t == o.order[i]
             IN IF i > Len(o.order) THEN o
                ELSE [order |-> o.order \o kids[t],
                      first |-> [o.first EXCEPT ![t] = Len(o.order) + 1]]
  IN after[Len(kids)]

Finished(nodes) ==
  LET kids == group_children(nodes)
      bfs == breadth_first_order(kids)
      final_of(t) == CHOOSE i \in DOMAIN bfs.order : bfs.order[i] = t
  IN [i \in DOMAIN bfs.order |->
        LET t == bfs.order[i]
        IN [name |-> nodes[t].name, kind |-> nodes[t].kind,
            synthetic |-> nodes[t].synthetic, meta |-> nodes[t].meta,
            parent |-> final_of(nodes[t].parent),
            first_child |-> bfs.first[t], child_len |-> Len(kids[t]),
            subdir_count |->
              Cardinality({j \in DOMAIN kids[t] : nodes[kids[t][j]].kind = "Dir"})]]

(* The counter of synthetic directories is replaced by a count of them.    *)
Finish ==
  /\ phase = "scan"
  /\ index' = Finished(builder.nodes)
  /\ phase' = "serve"
  /\ builder' = [builder EXCEPT !.stats["synthetic_dirs"] =
                   Cardinality({i \in DOMAIN index' \ {Root} : index'[i].synthetic})]
  /\ UNCHANGED <<seen, listing>>

-----------------------------------------------------------------------------
(* The tree in use.                                                        *)

children(n) ==
  IF n.kind # "Dir" THEN <<>>
  ELSE SubSeq(index, n.first_child, n.first_child + n.child_len - 1)

(* A binary search for the name among the children.                        *)
lookup(parent, name) ==
  LET dir == index[parent]
      after[i \in 0 .. dir.child_len] ==
        IF i = 0
        THEN [lo |-> dir.first_child, hi |-> dir.first_child + dir.child_len,
              found |-> None]
        ELSE LET s == after[i - 1]
                 mid == (s.lo + s.hi) \div 2
             IN IF s.found # None \/ s.lo >= s.hi THEN s
                ELSE IF index[mid].name = name THEN [s EXCEPT !.found = mid]
                ELSE IF index[mid].name < name THEN [s EXCEPT !.lo = mid + 1]
                ELSE [s EXCEPT !.hi = mid]
  IN IF dir.kind # "Dir" THEN None ELSE after[dir.child_len].found

(* The record that Index::meta gives for a node, if it gives one.          *)
Recorded(ino) ==
  IF index[ino].meta = None THEN <<>>
  ELSE <<seen[builder.metas[index[ino].meta].record]>>

(* The bits of 0o777: a record's, or the configured ones if it has none.   *)
permissions(ino) ==
  LET recorded == (UNION {e.mode : e \in Range(Recorded(ino))}) \cap 0 .. 8
      fallback == IF index[ino].kind = "Dir" THEN DirMode ELSE FileMode
  IN (IF recorded # {} THEN recorded ELSE fallback) \cap 0 .. 8

file_attr(ino) ==
  LET dir == index[ino].kind = "Dir"
  IN [kind |-> index[ino].kind, perm |-> permissions(ino),
      size |-> IF dir \/ Recorded(ino) = <<>> THEN 0 ELSE Recorded(ino)[1].usize,
      nlink |-> IF dir THEN 2 + index[ino].subdir_count ELSE 1]

opendir(ino) ==
  /\ phase = "serve" /\ index[ino].kind = "Dir"
  /\ listing' = [NoListing EXCEPT !.dir = ino]
  /\ UNCHANGED <<phase, seen, builder, index>>

Item(ino, cursor, kind, name) ==
  [ino |-> ino, cursor |-> cursor, kind |-> kind, name |-> name]

Start_Cursor(offset) == IF offset > 1 THEN offset - 1 ELSE 0

(* How many children come before a cursor.                                 *)
Start(offset) == IF offset > 2 THEN offset - 2 ELSE 0

(* The names from a cursor on; dots are the kinds given for "." and "..".  *)
Listed(ino, offset, dots) ==
  LET n == index[ino]
      rest == SubSeq(children(n), Start(offset) + 1, n.child_len)
      at(i) == n.first_child + Start(offset) + i - 1
  IN (IF offset < 1 THEN <<Item(ino, 1, dots[1], Dot)>> ELSE <<>>)
     \o (IF offset < 2 THEN <<Item(n.parent, 2, dots[2], DotDot)>>
         ELSE <<>>)
     \o [i \in DOMAIN rest |->
           Item(at(i), 2 + Start(offset) + i, rest[i].kind, rest[i].name)]

(* The reply has room for some of them; an empty one ends the listing.     *)
Replied(items) ==
  /\ \E room \in 1 .. MaxReply :
       LET fit == SubSeq(items, 1, IF room < Len(items) THEN room ELSE Len(items))
       IN listing' =
            [listing EXCEPT
               !.cursor = IF fit = <<>> THEN @ ELSE fit[Len(fit)].cursor,
               !.got = @ \o fit, !.done = (fit = <<>>)]
  /\ UNCHANGED <<phase, seen, builder, index>>

Listing == phase = "serve" /\ listing.dir # None /\ ~listing.done

readdir ==
  Listing /\ Replied(Listed(listing.dir, listing.cursor, <<"Dir", "Dir">>))

readdirplus ==
  /\ Listing
  /\ LET dots == <<file_attr(listing.dir).kind,
                   file_attr(index[listing.dir].parent).kind>>
     IN Replied(Listed(listing.dir, listing.cursor, dots))

-----------------------------------------------------------------------------
Next ==
  \/ \E e \in Records : RejectPath(e) \/ RejectSize(e) \/ Duplicate(e) \/ Attach(e)
  \/ Finish
  \/ \E ino \in DOMAIN index : opendir(ino)
  \/ readdir \/ readdirplus

Spec == Init /\ [][Next]_vars

-----------------------------------------------------------------------------
(* Properties.                                                             *)

TypeOK ==
  /\ phase \in {"scan", "serve"}
  /\ seen \in Seq(Records) /\ Len(seen) <= MaxRecords
  /\ builder.stats \in [Stats -> Nat]
  /\ builder.symlink_count \in 0 .. MaxRecords
  /\ \A i \in DOMAIN builder.nodes :
       LET n == builder.nodes[i]
       IN /\ n.kind \in Kinds /\ n.synthetic \in BOOLEAN
          /\ n.name \in Names \cup {Empty}
          /\ n.parent \in DOMAIN builder.nodes
          /\ n.meta \in 0 .. Len(builder.metas)
  /\ builder.memo_id \in DOMAIN builder.nodes
  /\ builder.memo_path \in Seq(Names)
  /\ listing.dir \in 0 .. Len(index) /\ listing.cursor \in Nat

(* The path of a node of the builder.                                      *)
PathOf(nodes, id) ==
  LET path[i \in DOMAIN nodes] ==
        IF i = Root THEN <<>> ELSE Append(path[nodes[i].parent], nodes[i].name)
  IN path[id]

(* build.rs 213-234: however files turn into directories in between, the   *)
(* remembered parent is the directory that the remembered path leads to.   *)
MemoRight ==
  /\ PathOf(builder.nodes, builder.memo_id) = builder.memo_path
  /\ builder.nodes[builder.memo_id].kind = "Dir"

(* build.rs 221, 249, 327: the counter of synthetic directories is exact   *)
(* after every entry, so taking one off never wraps it around.             *)
SyntheticExact ==
  builder.stats["synthetic_dirs"] =
    Cardinality({i \in DOMAIN builder.nodes \ {Root} : builder.nodes[i].synthetic})

(* The names on a path that is accepted.                                   *)
Meaning(e) ==
  LET named[i \in 0 .. Len(e.pieces)] ==
        IF i = 0 THEN <<>>
        ELSE IF e.pieces[i] \notin Names THEN named[i - 1]
        ELSE Append(named[i - 1], e.pieces[i])
  IN named[Len(e.pieces)]

(* The path p is the beginning of q.                                       *)
Begins(p, q) == Len(p) <= Len(q) /\ SubSeq(q, 1, Len(p)) = p

(* The accepted records with path p, and those below it.                   *)
At(p) == {i \in DOMAIN seen : Meaning(seen[i]) = p /\ Accepted(seen[i])}

Below(p) ==
  {i \in DOMAIN seen :
     LET q == Meaning(seen[i])
     IN Len(p) < Len(q) /\ Begins(p, q) /\ Accepted(seen[i])}

First(set) == CHOOSE i \in set : \A j \in set : i <= j

(* The tree is made; nothing changes it any more.                          *)
Built == phase = "serve" /\ listing = NoListing

(* Where lookups, name by name, lead from the root.                        *)
Resolve(p) ==
  LET ino[n \in 0 .. Len(p)] ==
        IF n = 0 THEN Root
        ELSE IF ino[n - 1] = None THEN None ELSE lookup(ino[n - 1], p[n])
  IN ino[Len(p)]

Paths == UNION {[1 .. n -> Names] : n \in 1 .. MaxDepth}

(* build.rs 259-497, index.rs 189-202: in whatever order the entries come, *)
(* lookups find a path exactly if an accepted entry has it or lies below   *)
(* it.  It is a directory if one lies below it, and else what the first    *)
(* entry with that path is; its link count tells its subdirectories.       *)
TreeRight ==
  Built =>
    /\ \A p \in Paths :
         LET i == Resolve(p)
         IN /\ (i # None) = (At(p) \cup Below(p) # {})
            /\ i # None => index[i].kind = IF Below(p) # {} THEN "Dir"
                                          ELSE Kind(seen[First(At(p))])
    /\ \A p \in Paths \cup {<<>>} :
         LET i == Resolve(p)
         IN i # None /\ index[i].kind = "Dir" =>
              file_attr(i).nlink =
                2 + Cardinality({c \in Names :
                                   LET k == Resolve(Append(p, c))
                                   IN k # None /\ index[k].kind = "Dir"})

(* The record a path should give: a file's is the first; a directory's is  *)
(* the first directory record that no file held the path against.          *)
Owner(p) ==
  LET files == {i \in At(p) : ~is_dir(seen[i])}
      free == {i \in At(p) \ files :
                 ~\E k \in files : k < i /\ \A d \in Below(p) : i < d}
  IN IF Below(p) # {} THEN free ELSE At(p)

(* build.rs 293-355, attr.rs 27-82: every path gives the entry that should *)
(* win it, with its own slot for a link's target; a directory without one  *)
(* is synthetic.  The size and the permissions that the kernel gets are    *)
(* those of that entry and of no other that had the path once, and the     *)
(* configured permissions only if it has none.                             *)
EntriesRight ==
  Built =>
    LET meta(i) == builder.metas[index[i].meta]
        links == {i \in DOMAIN index : index[i].kind = "Symlink"}
    IN /\ \A p \in Paths :
            LET i == Resolve(p)
                owner == Owner(p)
                bits == IF owner = {} THEN {} ELSE seen[First(owner)].mode \cap 0 .. 8
                a == file_attr(i)
            IN i # None =>
                 /\ index[i].meta = None <=> owner = {}
                 /\ index[i].meta = None <=> index[i].synthetic
                 /\ owner # {} => meta(i).record = First(owner)
                 /\ a.size = IF a.kind = "Dir" THEN 0 ELSE seen[First(owner)].usize
                 /\ a.perm = IF bits # {} THEN bits
                             ELSE IF a.kind = "Dir" THEN DirMode \cap 0 .. 8
                             ELSE FileMode \cap 0 .. 8
       /\ \A i, k \in links :
            /\ meta(i).slot < builder.symlink_count
            /\ meta(i).slot = meta(k).slot => i = k

(* fs.rs 460-559: however the replies are cut, and readdir and readdirplus *)
(* mixed, a listing gives ".", ".." and then every name of the directory   *)
(* once, in order, with the inode and the kind that lookup gives.          *)
ListingRight ==
  Listing \/ listing.done =>
    LET dir == listing.dir
        whole == Sorted({c \in Names : lookup(dir, c) # None}, [c \in Names |-> c])
        right == <<Item(dir, 1, "Dir", Dot), Item(index[dir].parent, 2, "Dir", DotDot)>>
                 \o [i \in DOMAIN whole |->
                       Item(lookup(dir, whole[i]), 2 + i,
                            index[lookup(dir, whole[i])].kind, whole[i])]
    IN /\ Begins(listing.got, right)
       /\ listing.done => listing.got = right
       /\ dir # Root => lookup(index[dir].parent, index[dir].name) = dir

(* README.md 57-58: "Where one path is a file and another makes it a       *)
(* directory, the directory is kept."                                      *)
DirectoryKept ==
  Built =>
    \A p \in Paths :
      (\E i \in At(p) : is_dir(seen[i])) => index[Resolve(p)].kind = "Dir"
=============================================================================
