---------------------------- MODULE MCIndexBuild ----------------------------
(* IndexBuild for TLC: names a = 1 and b = 2, and records that collide.    *)
EXTENDS IndexBuild

Plain(pieces) ==
  [pieces |-> pieces, barred |-> FALSE, link |-> FALSE, mode |-> {},
   encrypted |-> FALSE, method |-> "deflate", csize |-> 1, usize |-> 1]

MCFileMode == {2, 5, 8, 9}
MCDirMode == {0, 2, 3, 5, 6, 8}

MCRecords ==
  {[Plain(<<1>>) EXCEPT !.mode = {7, 8, 11}, !.usize = 3],
   Plain(<<2>>), [Plain(<<1, 2>>) EXCEPT !.mode = {8}],
   [Plain(<<1, 2, 1>>) EXCEPT !.method = "other"],
   [Plain(<<1, Empty>>) EXCEPT !.mode = {6, 8, 9}],
   [Plain(<<1, 2, Empty>>) EXCEPT !.mode = {10}],
   [Plain(<<2>>) EXCEPT !.link = TRUE, !.mode = 0 .. 8, !.usize = 2],
   [Plain(<<Dot, 1, Empty, 2, Dot>>) EXCEPT !.link = TRUE],
   [Plain(<<1, 1>>) EXCEPT !.encrypted = TRUE, !.method = "store", !.csize = 2]}
  \cup
  {Plain(<<Empty, 1>>), Plain(<<1, DotDot>>), Plain(<<1, 1, 1, 1>>),
   [Plain(<<1>>) EXCEPT !.barred = TRUE],
   [Plain(<<1>>) EXCEPT !.method = "store", !.usize = 2],
   [Plain(<<2, Empty>>) EXCEPT !.csize = 0]}
=============================================================================
