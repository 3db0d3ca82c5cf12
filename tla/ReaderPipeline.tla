--------------------------- MODULE ReaderPipeline ---------------------------
(***************************************************************************)
(* The chain source -> DecryptionSource -> ZSource -> TarSource that       *)
(* CDoc2Reader builds in beginDecryption and pulls files out of            *)
(* (Crypto.cpp, ZStream.h, Tar.cpp).                                       *)
(*                                                                         *)
(* The filters call down synchronously, so the chain is a value r and a    *)
(* call the set of its outcomes [n, r]: n is the number of units returned, *)
(* or ERR.  DecryptionSource occurs as what the module of that name shows  *)
(* of it: reads are short only at the end, and the payload is accepted     *)
(* when it was read to its end and nothing was lost.                       *)
(***************************************************************************)
EXTENDS Integers, Sequences

CONSTANTS
  Block,        \* tar block size, in units (512 bytes in the code)
  CHUNK,        \* what ZSource reads at once, in cells (16 KiB in the code)
  MaxInflated   \* max_decompressed_size in units, 0 for no limit
                \* (VectorSource does, IStreamSource does not)

ASSUME BlockAssumption  == Block \in Nat \ {0}
ASSUME ChunkAssumption  == CHUNK \in Nat \ {0}
ASSUME LimitAssumption == MaxInflated \in Nat

ERR == -1

(* What the archive consists of: the units of header blocks (a file's, a   *)
(* pax header, any other type), of the data behind them, zeros (paddings   *)
(* and null headers), and anything else.  i counts the units of a block or *)
(* a file's data, f is the file, or the size that an "aux" block declares. *)
Unit == [k : {"head", "pax", "aux", "data", "record", "zero", "junk"}, f : Nat, i : Nat]

(* A payload: the units it inflates to; for each cell of the deflate       *)
(* stream, how many units it and the cells before it inflate to; the cell  *)
(* where inflate stops, which is the end of the stream, broken data, or    *)
(* one past the last cell when the stream was cut; the sizes that the file *)
(* headers declare; whether it is what was sealed; and whether it is in    *)
(* memory, where the source knows its end before a read meets it.          *)
Payload == [units : Seq(Unit), upto : Seq(Nat), stop : Nat, broken : BOOLEAN,
            sizes : Seq(Int), intact : BOOLEAN, memory : BOOLEAN]

Cells(p)   == Len(p.upto)
Upto(p, c) == IF c = 0 THEN 0 ELSE p.upto[c]

(* DecryptionSource: cells decrypted; bytes were lost in a failed read;    *)
(* error is set.  The source below has reached its end (eof) and, as a     *)
(* history, has failed once.  ZSource: units emitted; _error is set;       *)
(* avail_in > 0.  TarSource: _pos, _data_size, _block_size, _error, _eof.  *)
(*                                                                         *)
(* The chain as beginDecryption builds it; failed is DecryptionSource's    *)
(* error after its constructor.                                            *)
NewChain(failed) ==
  [at |-> 0, lost |-> FALSE, derr |-> failed, srcEof |-> FALSE, fault |-> failed,
   out |-> 0, zerr |-> FALSE, avail |-> FALSE,
   pos |-> 0, data |-> 0, block |-> 0, terr |-> FALSE, eof |-> FALSE]

(* DecryptionSource::close accepts the payload.                            *)
Accepted(p, r) == p.intact /\ ~r.derr /\ ~r.lost /\ r.at = Cells(p)

----------------------------------------------------------------------------
(* ZSource::read.  Every round of its inner loop reads another CHUNK, then *)
(* calls inflate, until n units are out or inflate stops.                  *)

(* Cells decrypted after i more rounds.                                    *)
At(p, r, i) == IF r.at + i * CHUNK < Cells(p) THEN r.at + i * CHUNK ELSE Cells(p)

Enough(p, r, n, i) == r.out + n <= Upto(p, At(p, r, i))

(* inflate has met the cell where it stops.  A stream that was cut is      *)
(* noticed by a round that reads nothing.                                  *)
Stopped(p, r, i) ==
  IF p.stop <= Cells(p) THEN p.stop <= At(p, r, i) ELSE r.at + (i - 1) * CHUNK >= Cells(p)

(* Mutant: another CHUNK is read only when inflate has nothing left.       *)
RoundsLazy(p, r, n) ==
  IF r.avail /\ Enough(p, r, n, 0) THEN 0
  ELSE CHOOSE i \in 1 .. Cells(p) + 1 :
         /\ Enough(p, r, n, i) \/ Stopped(p, r, i)
         /\ \A j \in 1 .. i - 1 : ~Enough(p, r, n, j) /\ ~Stopped(p, r, j)

(* How many rounds a read of n units takes.                                *)
Rounds(p, r, n) ==
  CHOOSE i \in 1 .. Cells(p) + 1 :
    /\ Enough(p, r, n, i) \/ Stopped(p, r, i)
    /\ \A j \in 1 .. i - 1 : ~Enough(p, r, n, j) /\ ~Stopped(p, r, j)

(* A read of n units when nothing fails below.  When the deflate stream    *)
(* ends, a round that emits nothing follows one that did.  Exceeding the   *)
(* size limit, like broken data, loses what the call has emitted.          *)
Inflate(p, r, n) ==
  LET i     == Rounds(p, r, n)
      full  == Enough(p, r, n, i)
      k     == IF full THEN n ELSE Upto(p, Cells(p)) - r.out
      over  == MaxInflated > 0 /\ r.out + k > MaxInflated
      fails == over \/ (~full /\ p.broken)
      last  == IF ~full /\ k > 0 /\ ~fails THEN i + 1 ELSE i
      at    == At(p, r, last)
      since == IF p.stop > At(p, r, last - 1) THEN p.stop ELSE At(p, r, last - 1)
      v     == [r EXCEPT !.at = at, !.out = @ + k,
                         !.srcEof = r.at + last * CHUNK > Cells(p) \/ (p.memory /\ at = Cells(p))]
  IN  IF fails THEN [n |-> ERR, r |-> [v EXCEPT !.zerr = TRUE, !.avail = ~full]]
      ELSE [n |-> k, r |-> [v EXCEPT !.avail = IF v.out = Upto(p, Cells(p)) /\ Stopped(p, r, i)
                                               THEN at > since ELSE Upto(p, at) > v.out]]

(* inflate may meet broken data right behind the last unit asked for.      *)
BrokenAhead(p, r, n) ==
  LET o == Inflate(p, r, n)
  IN  IF o.n = n /\ p.broken /\ o.r.out = Upto(p, Cells(p)) /\ p.stop <= o.r.at
      THEN {[n |-> ERR, r |-> [o.r EXCEPT !.zerr = TRUE]]} ELSE {}

(* The source or the cipher fails in round j.  Only the cipher's error is  *)
(* remembered by DecryptionSource, but ZSource remembers both.             *)
FailsIn(p, r, j, lost, derr) ==
  [n |-> ERR, r |-> [r EXCEPT !.at = At(p, r, j), !.zerr = TRUE, !.fault = TRUE,
                              !.lost = lost, !.derr = derr]]

ReadFails(p, r, n) ==
  {FailsIn(p, r, j, l, d) :
     j \in 0 .. Rounds(p, r, n) - 1, l \in {r.lost, TRUE}, d \in {r.derr, TRUE}}

(* ZSource::read of n units; faults says whether something may fail.       *)
ZRead(p, r, n, faults) ==
  IF r.zerr \/ r.derr THEN {[n |-> ERR, r |-> [r EXCEPT !.zerr = TRUE]]}
  ELSE {Inflate(p, r, n)} \cup BrokenAhead(p, r, n)
         \cup (IF faults THEN ReadFails(p, r, n) ELSE {})

(* Mutant: what inflate has not used yet is forgotten.                     *)
ZEofSource(r) == r.srcEof

ZEof(r) == ~r.avail /\ r.srcEof

----------------------------------------------------------------------------
Padding(n) == Block * ((n + Block - 1) \div Block) - n

(* Mutant: the end of the data is reported but not remembered.             *)
TarReadForgets(p, r, n, faults) ==
  IF r.terr THEN {[n |-> ERR, r |-> r]}
  ELSE IF r.pos >= r.data THEN {[n |-> 0, r |-> [r EXCEPT !.eof = TRUE]]}
  ELSE {IF o.n > 0 THEN [o EXCEPT !.r.pos = @ + o.n] ELSE o
          : o \in ZRead(p, r, IF n < r.data - r.pos THEN n ELSE r.data - r.pos, faults)}

(* Mutant: a read does not stop where the file ends.                       *)
TarReadPast(p, r, n, faults) ==
  IF r.terr THEN {[n |-> ERR, r |-> r]}
  ELSE IF r.pos >= r.data THEN {[n |-> 0, r |-> [r EXCEPT !.eof = TRUE]]}
  ELSE {CASE o.n > 0 -> [o EXCEPT !.r.pos = @ + o.n]
          [] o.n = 0 -> [o EXCEPT !.r.eof = TRUE]
          [] OTHER   -> o
          : o \in ZRead(p, r, n, faults)}

(* TarSource::read of n units of the current file.                         *)
TarRead(p, r, n, faults) ==
  IF r.terr THEN {[n |-> ERR, r |-> r]}
  ELSE IF r.pos >= r.data THEN {[n |-> 0, r |-> [r EXCEPT !.eof = TRUE]]}
  ELSE {CASE o.n > 0 -> [o EXCEPT !.r.pos = @ + o.n]
          [] o.n = 0 -> [o EXCEPT !.r.eof = TRUE]
          [] OTHER   -> o
          : o \in ZRead(p, r, IF n < r.data - r.pos THEN n ELSE r.data - r.pos, faults)}

(* The block behind position q, as TarSource::next sees it: "null", the    *)
(* type of a header whose checksum is right, or "junk".                    *)
BlockAt(p, q) ==
  LET u(i) == p.units[q + i]
  IN  IF \A i \in 1 .. Block : u(i).k = "zero" THEN "null"
      ELSE IF /\ u(1).k \in {"head", "pax", "aux"}
              /\ \A i \in 1 .. Block : u(i) = [u(1) EXCEPT !.i = i]
           THEN u(1).k ELSE "junk"

(* What next finds in one round of its loop: no archive any more ("end"),  *)
(* a file ("file", f), a header to skip ("aux"), or an error ("fail").     *)
Found(what, f, r) == [what |-> what, f |-> f, r |-> r]
Fail(r) == Found("fail", 0, [r EXCEPT !.terr = TRUE])

(* A block is read and Then decides on it; a short one is an error.        *)
ReadBlock(p, r, faults, Then(_, _)) ==
  UNION {IF o.n = Block THEN Then(BlockAt(p, r.out), o.r) ELSE {Fail(o.r)}
           : o \in ZRead(p, r, Block, faults)}

(* Mutant: the padding behind the data is not counted.                     *)
OpenFileUnpadded(p, r) ==
  LET f    == p.units[r.out].f
      size == p.sizes[f]
      data == IF size < 0 THEN Len(p.units) + 1 ELSE size
  IN  {Found("file", f, [r EXCEPT !.pos = 0, !.data = data, !.block = size, !.eof = FALSE])}

(* The file behind a header that ends at position r.out.  A size that is   *)
(* too large is -1, which the unsigned _data_size takes for a huge one.    *)
OpenFile(p, r) ==
  LET f    == p.units[r.out].f
      size == p.sizes[f]
      data == IF size < 0 THEN Len(p.units) + 1 ELSE size
  IN  {Found("file", f, [r EXCEPT !.pos = 0, !.data = data, !.block = size + Padding(size),
                                  !.eof = FALSE])}

NoError(r) == [r EXCEPT !.terr = FALSE]

(* readPaxHeader, with a record of one unit, and the header behind it.     *)
(* _error is what readPaxHeader returns, whatever it was before.           *)
ReadPax(p, r, faults) ==
  LET Header(b, v) == IF b = "head" THEN OpenFile(p, NoError(v)) ELSE {Fail(v)}
      Parse(v, q) == IF p.units[q].k = "record" THEN ReadBlock(p, v, faults, Header) ELSE {Fail(v)}
      Pad(v) == IF Padding(1) = 0 THEN {v} ELSE {o.r : o \in ZRead(p, v, Padding(1), faults)}
  IN  UNION {IF o.n = 1 THEN UNION {Parse(v, o.r.out) : v \in Pad(o.r)} ELSE {Fail(o.r)}
               : o \in ZRead(p, r, 1, faults)}

(* One round of the loop of TarSource::next.                               *)
NextHeader(p, r, faults) ==
  LET SecondNull(b, v) == {Found("end", 0, [v EXCEPT !.eof = TRUE])}
      First(b, v) ==
        CASE b = "null" -> ReadBlock(p, v, faults, SecondNull)
          [] b = "head" -> OpenFile(p, v)
          [] b = "pax"  -> ReadPax(p, v, faults)
          [] b = "aux"  -> {Found("aux", p.units[v.out].f, v)}
          [] b = "junk" -> {Fail(v)}
  IN  IF ZEof(r) THEN {Found("end", 0, r)} ELSE ReadBlock(p, r, faults, First)
=============================================================================
