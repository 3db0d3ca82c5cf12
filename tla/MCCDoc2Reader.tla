--------------------------- MODULE MCCDoc2Reader ---------------------------
(* Payloads of one and two files, as a writer leaves them and damaged in   *)
(* every way inflate and the tar parser tell apart.  Blocks have two units.*)
EXTENDS CDoc2Reader, SequencesExt

Units(k, f, n) == [i \in 1 .. n |-> [k |-> k, f |-> f, i |-> i]]
Zeros(n)       == [i \in 1 .. n |-> [k |-> "zero", f |-> 0, i |-> 0]]
Header(f)      == Units("head", f, Block)
End            == Zeros(2 * Block)

(* A sealed payload of these units, its cells inflating to these numbers.  *)
Seal(units, cells, sizes) ==
  LET sum[c \in 0 .. Len(cells)] == IF c = 0 THEN 0 ELSE sum[c - 1] + cells[c]
  IN  [units |-> units, upto |-> [c \in 1 .. Len(cells) |-> sum[c]], stop |-> Len(cells),
       broken |-> FALSE, sizes |-> sizes, intact |-> TRUE, memory |-> FALSE]

(* A file that ends within a block and an empty one; the data inflate unit *)
(* by unit, the zeros at the end are a single cell.                        *)
TwoUnits == Header(1) \o Units("data", 1, 3) \o Zeros(1) \o Header(2) \o End
Two      == Seal(TwoUnits, <<2, 1, 1, 1, 1, 2, 4, 0>>, <<3, 0>>)
Dense    == Seal(TwoUnits, <<6, 6, 0>>, <<3, 0>>)
(* A file of two whole blocks with a pax header.                           *)
PaxUnits == Units("pax", 1, Block) \o Units("record", 1, 1) \o Zeros(1) \o Header(1)
              \o Units("data", 1, 4) \o End
Pax      == Seal(PaxUnits, <<2, 2, 2, 1, 1, 1, 1, 4, 0>>, <<4>>)
(* A file that does not compress.                                          *)
Large    == Seal(Header(1) \o Units("data", 1, 4) \o End, <<2, 0, 1, 0, 1, 0, 1, 0, 1, 4, 0>>, <<4>>)
(* Another header, with three units to skip, as other writers produce it.  *)
Aux      == Seal([i \in 1 .. Block |-> [k |-> "aux", f |-> 3, i |-> i]] \o Zeros(4)
                   \o Header(1) \o Units("data", 1, 1) \o Zeros(1) \o End,
                 <<2, 4, 2, 2, 4, 0>>, <<1>>)
Good == {Two, Dense, Pax, Large, Aux}

(* Sealed, but not finished: the file is shorter than it declares.         *)
ShortFile == Seal(Header(1) \o Units("data", 1, 1), <<2, 1, 0>>, <<3>>)
(* A header whose size is too large.                                       *)
Huge == Seal(TwoUnits, <<2, 1, 1, 1, 1, 2, 4, 0>>, <<-1, 0>>)
(* Sealed by writers whose archive this reader does not take.              *)
Malformed == {Seal([TwoUnits EXCEPT ![7].k = "junk"], <<6, 6, 0>>, <<3, 0>>),
              Seal([PaxUnits EXCEPT ![3].k = "junk"], <<6, 4, 4, 0>>, <<4>>),
              Seal(TwoUnits \o Zeros(10), <<6, 6, 10, 0>>, <<3, 0>>),
              Seal(Header(1) \o Units("data", 1, 13), <<6, 6, 3, 0>>, <<13>>),
              Huge}
(* Data behind the end of the deflate stream.                              *)
Trailing == [Dense EXCEPT !.upto = @ \o <<12, 12>>]

Cut(p, c)    == [p EXCEPT !.upto = SubSeq(@, 1, c), !.stop = c + 1, !.broken = TRUE,
                          !.units = SubSeq(@, 1, Upto(p, c)), !.intact = FALSE]
Break(p, c)  == [p EXCEPT !.upto = [i \in DOMAIN @ |-> Upto(p, IF i < c THEN i ELSE c - 1)],
                          !.stop = c, !.broken = TRUE, !.intact = FALSE]
Alter(p, i)  == [p EXCEPT !.units[i].k = "junk", !.intact = FALSE]
Damaged == {Cut(Two, c) : c \in 1 .. 7} \cup {Break(Two, c) : c \in 1 .. 8}
             \cup {Alter(Two, i) : i \in {2, 4, 8}} \cup {Cut(Pax, 2), Cut(Aux, 2)}

FewGood == {Two, Pax, Large, Aux}
Few == FewGood \cup {ShortFile, Huge, Trailing, Cut(Two, 6), Break(Two, 4), Alter(Two, 8)}
All == Good \cup {ShortFile, Trailing} \cup Malformed \cup Damaged

InMemory(S)  == {[p EXCEPT !.memory = TRUE] : p \in S}
Containers   == Few \cup InMemory(All)
WellFormed   == FewGood \cup InMemory(Good)
=============================================================================
