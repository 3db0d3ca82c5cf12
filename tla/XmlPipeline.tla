---------------------------- MODULE XmlPipeline -----------------------------
(***************************************************************************)
(* The chain a CDOC 1 document is written through (XmlWriter.cpp,          *)
(* DDocWriter.cpp, Crypto.cpp):                                            *)
(*                                                                         *)
(*   [DDOCWriter ->] EncryptionConsumer -> Base64Consumer -> XMLWriter     *)
(*     -> dst                                                              *)
(*                                                                         *)
(* XMLWriter and DDOCWriter are libxml2 text writers: they buffer, flush   *)
(* when they like, fail for good once a flush was refused, and flush the   *)
(* rest in their destructors, which report nothing.                        *)
(*                                                                         *)
(* As in WriterPipeline the chain is a value w and a call the set of its   *)
(* outcomes [rv, w].  The unit of data is an item of the document.         *)
(***************************************************************************)
EXTENDS Integers, Sequences, DataSink

(* k: what the item is; f: the number of the recipient or the file; n: a   *)
(* size where the item states one.                                         *)
Item(k, f, n) == [k |-> k, f |-> f, n |-> n]
Part(k)       == Item(k, 0, 0)

(* text, terr: XMLWriter's buffer, and its error; open: elements           *)
(* EncryptedData begun and not ended; held: the item of which              *)
(* Base64Consumer holds back the last one or two bytes; cerr:              *)
(* EncryptionConsumer::error is set; ddoc, derr: DDOCWriter's buffer and   *)
(* its error.                                                              *)
NewDocument(s) ==
  [text |-> <<>>, terr |-> FALSE, open |-> 0, held |-> <<>>, cerr |-> FALSE,
   ddoc |-> <<>>, derr |-> FALSE, sink |-> s]

Done(w) == [rv |-> OK, w |-> w]
Bind(S, F(_)) == UNION {IF o.rv = OK THEN F(o.w) ELSE {o} : o \in S}

(* How much of n buffered items a flush may write: none, all, or all but   *)
(* the last, which did not fit the block that was written.                 *)
Flushes(n) == {0, n} \cup (IF n > 0 THEN {n - 1} ELSE {})

----------------------------------------------------------------------------
(* Mutant: a refused flush is forgotten by the next call.                  *)
TextWriteForgets(w, items) ==
  LET all == w.text \o items
      Flushed(n, o) == [rv |-> o.rv, w |-> [w EXCEPT !.text = SubSeq(all, n + 1, Len(all)),
                                                     !.sink = o.sink]]
  IN  UNION {{Flushed(n, o) : o \in SinkWrite(w.sink, SubSeq(all, 1, n))} : n \in Flushes(Len(all))}

(* A call of libxml2's text writer: it fails at once after an error.       *)
TextWrite(w, items) ==
  LET all == w.text \o items
      Flushed(n, o) == [rv |-> o.rv, w |-> [w EXCEPT !.text = SubSeq(all, n + 1, Len(all)),
                                                     !.terr = o.rv # OK, !.sink = o.sink]]
      Flush(n) == IF n = 0 THEN {Done([w EXCEPT !.text = all])}
                  ELSE {Flushed(n, o) : o \in SinkWrite(w.sink, SubSeq(all, 1, n))}
  IN  IF w.terr THEN {[rv |-> ERR, w |-> w]}
      ELSE UNION {Flush(n) : n \in Flushes(Len(all))}

(* Base64Consumer::write: whole triples are written, the rest is held.     *)
Base64Write(w, items) ==
  LET all  == w.held \o items
      n    == Len(all)
      Hold(h) == TextWrite([w EXCEPT !.held = SubSeq(all, n - h + 1, n)], SubSeq(all, 1, n - h))
  IN  IF items = <<>> THEN {Done(w)} ELSE Hold(0) \cup Hold(1)

(* Mutant: what is held back is not written.                               *)
Base64CloseDrops(w) == {Done([w EXCEPT !.held = <<>>])}

Base64Close(w) ==
  IF w.held = <<>> THEN {Done(w)} ELSE TextWrite([w EXCEPT !.held = <<>>], w.held)

(* EncryptionConsumer: the constructor keeps a refused nonce in error,     *)
(* close writes the tag without looking at it.                             *)
CipherOpen(w) ==
  {Done([o.w EXCEPT !.cerr = o.rv # OK]) : o \in Base64Write([w EXCEPT !.held = <<>>], <<Part("nonce")>>)}

CipherWrite(w, items) == IF w.cerr /\ items # <<>> THEN {[rv |-> ERR, w |-> w]} ELSE Base64Write(w, items)

CipherClose(w) == Bind(Base64Write(w, <<Part("tag")>>), Base64Close)

(* A call of DDOCWriter's text writer.                                     *)
DdocWrite(w, items) ==
  LET all == w.ddoc \o items
      Flushed(n, o) == [rv |-> o.rv, w |-> [o.w EXCEPT !.ddoc = SubSeq(all, n + 1, Len(all)),
                                                       !.derr = o.rv # OK]]
      Flush(n) == IF n = 0 THEN {Done([w EXCEPT !.ddoc = all])}
                  ELSE {Flushed(n, o) : o \in CipherWrite(w, SubSeq(all, 1, n))}
  IN  IF w.derr THEN {[rv |-> ERR, w |-> w]}
      ELSE UNION {Flush(n) : n \in Flushes(Len(all))}

(* DDOCWriter's constructor; it keeps its result in state.                 *)
DdocOpen(w) == {Done(o.w) : o \in DdocWrite([w EXCEPT !.ddoc = <<>>, !.derr = FALSE], <<Part("ddoc")>>)}

(* Mutant: the destructor leaves what is buffered.                         *)
DdocCloseDrops(w) == {Done(w)}

(* DDOCWriter's destructor: end element and flush, results ignored.        *)
DdocClose(w) ==
  LET all == Append(w.ddoc, Part("endddoc"))
  IN  IF w.derr THEN {Done(w)}
      ELSE {Done([o.w EXCEPT !.ddoc = <<>>, !.derr = o.rv # OK]) : o \in CipherWrite(w, all)}

(* XMLWriter's destructor: EndDocument ends the open elements, then the    *)
(* buffer is flushed; results ignored.                                     *)
TextClose(w) ==
  LET all == w.text \o [i \in 1 .. w.open |-> Part("end")]
  IN  IF w.terr \/ all = <<>> THEN {Done(w)}
      ELSE {Done([w EXCEPT !.text = <<>>, !.open = 0, !.terr = o.rv # OK, !.sink = o.sink])
              : o \in SinkWrite(w.sink, all)}
=============================================================================
