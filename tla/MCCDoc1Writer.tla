--------------------------- MODULE MCCDoc1Writer ---------------------------
(* Small instances of CDoc1Writer: sources with no file, one file, and two *)
(* files, the empty one of unknown size.                                   *)
EXTENDS CDoc1Writer

Units(size, data) == [size |-> size, data |-> data]
SmallSources == {<<>>, <<Units(1, 1)>>, <<Units(-1, 0), Units(1, 1)>>}
=============================================================================
