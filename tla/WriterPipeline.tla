--------------------------- MODULE WriterPipeline ---------------------------
(***************************************************************************)
(* The chain TarConsumer -> ZConsumer -> EncryptionConsumer -> dst that    *)
(* CDoc2Writer builds in writeHeader and pushes files through              *)
(* (Tar.cpp, ZStream.h, Crypto.cpp).                                       *)
(*                                                                         *)
(* The three filters are synchronous and have no control flow between      *)
(* them but calls and returned results, so the chain is a value w and      *)
(* every call is the set of its outcomes [rv, w].  The unit of data is a   *)
(* chunk: a tar header, a data unit, a padding, a null header or the       *)
(* deflate trailer.                                                        *)
(***************************************************************************)
EXTENDS Integers, Sequences, DataSink

CONSTANT
  Block         \* tar block size, in data units (512 bytes in the code)

ASSUME BlockAssumption == Block \in Nat \ {0}

Kinds == {"pax", "head", "data", "pad", "null", "zend"}

(* file: number of the file in the archive; n: its declared size (head),   *)
(* the position of a unit (data), the length of a padding (pad).           *)
Chunk == [k : Kinds, file : Nat, n : Int]

(* What reaches dst: header fields, the encrypted chunks and the           *)
(* authentication tag, which is determined by the chunks it covers.        *)
HeaderPart == [part : {"label", "len", "header", "hmac", "nonce"},
               attempt : Nat, caps : SUBSET (Nat \X Nat)]
TagItem    == [tag : Seq(Chunk)]
Item       == Chunk \cup HeaderPart \cup TagItem

Tag(chunks) == [tag |-> chunks]

(* size, written: TarConsumer's _current_size and _current_written;        *)
(* file: files opened so far; zbuf: input deflate holds back; cerr:        *)
(* EncryptionConsumer::error is set; sealed: what the cipher has           *)
(* processed, i.e. what its tag covers.                                    *)
PipeType == [size : Int, written : Nat, file : Nat, zbuf : Seq(Chunk),
             cerr : BOOLEAN, sealed : Seq(Chunk), sink : SinkType(Item)]

(* Mutant: the constructor does not look at the result of the nonce write. *)
NewPipeUnchecked(o) ==
  [size |-> 0, written |-> 0, file |-> 0, zbuf |-> <<>>,
   cerr |-> FALSE, sealed |-> <<>>, sink |-> o.sink]

(* The chain as writeHeader leaves it when the nonce write ended in o:     *)
(* EncryptionConsumer's constructor keeps the result in error.             *)
NewPipe(o) ==
  [size |-> 0, written |-> 0, file |-> 0, zbuf |-> <<>>,
   cerr |-> o.rv # OK, sealed |-> <<>>, sink |-> o.sink]

(* No chain: only dst matters.                                             *)
NoPipe(s) == NewPipe([rv |-> OK, sink |-> s])

Done(w) == [rv |-> OK, w |-> w]

(* Sequencing of calls whose results are checked: F continues only after   *)
(* an outcome OK, any other outcome is final.                              *)
Bind(S, F(_)) == UNION {IF o.rv = OK THEN F(o.w) ELSE {o} : o \in S}

----------------------------------------------------------------------------
(* The chain after data has moved: deflate holds z, the cipher has         *)
(* processed q, and dst is s.                                              *)
Put(w, z, q, s) == [w EXCEPT !.zbuf = z, !.sealed = q, !.sink = s]

(* EncryptionConsumer::write: the cipher state advances before dst.write   *)
(* is tried, and only an error of the constructor is remembered.           *)
CipherWrite(w, chunks) ==
  IF w.cerr THEN {[rv |-> ERR, w |-> w]}
  ELSE {[rv |-> o.rv, w |-> Put(w, w.zbuf, w.sealed \o chunks, o.sink)]
          : o \in SinkWrite(w.sink, chunks)}

(* EncryptionConsumer::close: an empty final block, then the tag.          *)
CipherBlock(w, items) ==
  {[rv |-> o.rv, w |-> Put(w, w.zbuf, w.sealed, o.sink)] : o \in SinkWrite(w.sink, items)}

(* Mutant: the result of writing the tag is ignored.                       *)
CipherTagIgnored(w) == {Done(o.w) : o \in CipherBlock(w, <<Tag(w.sealed)>>)}

CipherTag(w)   == CipherBlock(w, <<Tag(w.sealed)>>)
CipherClose(w) == Bind(CipherBlock(w, <<>>), CipherTag)

(* ZConsumer::write without Z_FINISH: deflate takes the input and emits    *)
(* any part of what it holds.  When the emitted part is refused, write     *)
(* returns at once: that part is lost and the rest of the input may not    *)
(* have been taken.                                                        *)
DeflateWrite(w, chunks) ==
  LET held == w.zbuf \o chunks
      Kept(o) == IF o.rv = OK THEN {Len(held)} ELSE 0 .. Len(held)
      Out(o, n, m) == [rv |-> o.rv,
                       w |-> Put(w, SubSeq(held, n + 1, m), o.w.sealed, o.w.sink)]
      Emit(n) == UNION {{Out(o, n, m) : m \in Kept(o)}
                          : o \in CipherWrite(w, SubSeq(held, 1, n))}
  IN  {Done(Put(w, held, w.sealed, w.sink))} \cup UNION {Emit(n) : n \in 1 .. Len(held)}

Trailer == [k |-> "zend", file |-> 0, n |-> 0]

(* Mutant: the input deflate still holds is not flushed.                   *)
DeflateCloseUnflushed(w) == Bind(CipherWrite(Put(w, <<>>, w.sealed, w.sink), <<Trailer>>), CipherClose)

(* ZConsumer::close: everything held and the trailer are emitted, then     *)
(* the owned EncryptionConsumer is closed.                                 *)
DeflateClose(w) ==
  Bind(CipherWrite(Put(w, <<>>, w.sealed, w.sink), Append(w.zbuf, Trailer)), CipherClose)

----------------------------------------------------------------------------
(* Mutant: a whole block after a file that ends on a block boundary.       *)
PaddingWhole(n) == Block - (n % Block)

(* padding() of Tar.cpp.                                                   *)
Padding(n) == Block * ((n + Block - 1) \div Block) - n

(* The chunks each step of TarConsumer writes.                             *)
PadChunks(w) ==
  IF Padding(w.written) = 0 THEN <<>>
  ELSE <<[k |-> "pad", file |-> w.file, n |-> Padding(w.written)]>>
PaxChunks(w, pax)  == IF pax THEN <<[k |-> "pax", file |-> w.file, n |-> w.size]>> ELSE <<>>
HeadChunks(w)      == <<[k |-> "head", file |-> w.file, n |-> w.size]>>
DataChunks(w, n)   == [i \in 1 .. n |-> [k |-> "data", file |-> w.file, n |-> w.written + i]]
NullChunk          == [k |-> "null", file |-> 0, n |-> 0]

(* The file being written is shorter than it was declared.                 *)
Short(w) == w.size >= 0 /\ w.written < w.size

(* TarConsumer accounts for a new file.                                    *)
NewFile(w, size) == [w EXCEPT !.size = size, !.written = 0, !.file = @ + 1]

(* TarConsumer::writePadding, if anything was written to the last file.    *)
WritePadding(w) == IF w.written > 0 THEN DeflateWrite(w, PadChunks(w)) ELSE {Done(w)}

(* TarConsumer::open: pad the previous file, account for the new one, then *)
(* its pax header (when the name or the size needs one) and its header.    *)
TarOpen(w, size, pax) ==
  LET Header(v) == DeflateWrite(v, HeadChunks(v))
      Pax(v)    == IF pax THEN DeflateWrite(v, PaxChunks(v, pax)) ELSE {Done(v)}
      New(v)    == Bind(Pax(NewFile(v, size)), Header)
  IN  IF Short(w) THEN {[rv |-> ERR, w |-> w]} ELSE Bind(WritePadding(w), New)

(* TarConsumer::write: the position advances whether or not the data is    *)
(* accepted below.                                                         *)
TarWrite(w, n) ==
  IF w.size >= 0 /\ w.written + n > w.size THEN {[rv |-> ERR, w |-> w]}
  ELSE DeflateWrite([w EXCEPT !.written = @ + n], DataChunks(w, n))

(* TarConsumer::close: a short last file skips the end of archive, but the *)
(* chain below is closed all the same and the error reported afterwards.   *)
TarClose(w) ==
  LET Null(v) == DeflateWrite(v, <<NullChunk>>)
  IN  IF Short(w) THEN {[rv |-> ERR, w |-> o.w] : o \in DeflateClose(w)}
      ELSE Bind(Bind(Bind(WritePadding(w), Null), Null), DeflateClose)

(* What open and close add to the archive when they succeed.               *)
OpenChunks(w, size, pax) ==
  LET v == NewFile(w, size) IN PadChunks(w) \o PaxChunks(v, pax) \o HeadChunks(v)
CloseChunks(w) == PadChunks(w) \o <<NullChunk>> \o <<NullChunk>> \o <<Trailer>>
=============================================================================
