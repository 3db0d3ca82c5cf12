--------------------------- MODULE MCCDoc1Reader ---------------------------
(* Small containers for CDoc1Reader.                                       *)
EXTENDS CDoc1Reader

Doc(units, ddoc, zlib) ==
  [files |-> units, ddoc |-> ddoc, zlib |-> zlib, broken |-> FALSE, cut |-> Len(units),
   intact |-> TRUE, value |-> "full"]
Damaged(c)       == [c EXCEPT !.intact = FALSE]
BrokenAfter(c, n) == [c EXCEPT !.broken = TRUE, !.cut = n]

Single  == Doc(<<2>>, FALSE, FALSE)
Zipped  == Doc(<<2>>, FALSE, TRUE)
Several == Doc(<<2, 0, 1>>, TRUE, FALSE)
EmptyDdoc   == Doc(<<>>, TRUE, FALSE)
Good    == {Single, Zipped, Several, EmptyDdoc}

All ==
  Good \cup {Damaged(c) : c \in Good}
  \cup {BrokenAfter(Zipped, 0), BrokenAfter(Several, 1), Damaged(BrokenAfter(Several, 2)),
        [Single EXCEPT !.value = "none"], [Single EXCEPT !.value = "short"]}
=============================================================================
