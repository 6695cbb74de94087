----------------------------- MODULE MCDecoder -----------------------------
(* Decoder for TLC: sound entries and one of each kind of bad one.         *)
EXTENDS Decoder

Good(c, n) == [clen |-> c, inFile |-> c, cend |-> c, bad |-> c + 1,
               slen |-> n, total |-> n, sumOk |-> TRUE]

MCEntries ==
  { Good(3, 3), Good(1, 3), Good(2, 0),
    [Good(3, 3) EXCEPT !.sumOk = FALSE],
    [Good(3, 3) EXCEPT !.total = 2],               \* goes on past its size
    [Good(3, 2) EXCEPT !.total = 3],               \* stops early
    [Good(3, 3) EXCEPT !.cend = 4, !.bad = 5],     \* the end marker is cut
    [Good(3, 2) EXCEPT !.bad = 2],                 \* rejected after the data
    [Good(3, 1) EXCEPT !.bad = 1, !.total = 3],    \* rejected within it
    [Good(3, 3) EXCEPT !.clen = 4, !.inFile = 4],  \* bytes after the end
    [Good(3, 2) EXCEPT !.inFile = 2],              \* beyond the archive
    [Good(1, 2) EXCEPT !.total = 0],               \* an empty one that is not
    [Good(2, 0) EXCEPT !.bad = 1] }                \* an empty one, rejected
=============================================================================
