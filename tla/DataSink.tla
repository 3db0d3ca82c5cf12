------------------------------ MODULE DataSink ------------------------------
(***************************************************************************)
(* The DataConsumer a writer sends its container to (Io.h), seen from the  *)
(* writer: a value and the possible outcomes of the calls write and close. *)
(*                                                                         *)
(* An outcome is a record [rv, sink]: rv is OK or ERR (any negative        *)
(* result), sink the consumer afterwards.  Operators return the set of     *)
(* outcomes a call may have, because whether an output stream accepts a    *)
(* block is not up to the library.                                         *)
(***************************************************************************)
EXTENDS Naturals, Sequences

(* "stream": an OStreamConsumer, whose badbit is never cleared once set;   *)
(* "unopened": one whose file could not be opened, which sets failbit but  *)
(* not badbit; "consumer": an application's consumer that may recover.     *)
SinkKind == {"stream", "unopened", "consumer"}

OK  == "ok"
ERR == "err"

(* data: the items accepted, in order; bad: a write or a flush has failed; *)
(* refused: a write has failed since the writer last started a container;  *)
(* flushed: close has returned OK.                                         *)
NewSink(kind) ==
  [kind |-> kind, data |-> <<>>, bad |-> FALSE, refused |-> FALSE, flushed |-> FALSE]

SinkType(S) == [kind : SinkKind, data : Seq(S), bad : BOOLEAN,
                refused : BOOLEAN, flushed : BOOLEAN]

Unopened(s) == s.kind = "unopened"

(* The stream remembers an error, and takes nothing any more.              *)
Stuck(s) == s.kind = "stream" /\ s.bad

Failed(s) == [s EXCEPT !.bad = TRUE, !.refused = TRUE]

(* s after the first n of items have reached it.                           *)
Taken(s, items, n) == [s EXCEPT !.data = @ \o SubSeq(items, 1, n)]

(* OStreamConsumer::write: the block is accepted, or an error is reported  *)
(* after any part of it has reached the stream.  A stream that is already  *)
(* bad takes nothing; one that could not be opened takes nothing either,   *)
(* but only badbit makes write report it.                                  *)
SinkWrite(s, items) ==
  IF Unopened(s) THEN {[rv |-> OK, sink |-> s]}
  ELSE IF Stuck(s) THEN {[rv |-> ERR, sink |-> Failed(s)]}
  ELSE {[rv |-> OK, sink |-> [s EXCEPT !.data = @ \o items]],
        [rv |-> ERR, sink |-> Failed(s)]} \cup
       {[rv |-> ERR, sink |-> Failed(Taken(s, items, n))] : n \in 1 .. Len(items) - 1}

(* OStreamConsumer::close: flushes what the stream has buffered.           *)
SinkClose(s) ==
  (IF Stuck(s) THEN {}
   ELSE {[rv |-> OK, sink |-> [s EXCEPT !.flushed = ~Unopened(s)]]})
  \cup (IF Unopened(s) THEN {} ELSE {[rv |-> ERR, sink |-> [s EXCEPT !.bad = TRUE]]})
=============================================================================
