--------------------------- MODULE MCCDoc2Writer ---------------------------
(* Small instances of CDoc2Writer.  On a stream, two files: empty, shorter *)
(* than a block, of one and of more than one block, declared or not.  With *)
(* a consumer that recovers, retries with recipients that are refused and  *)
(* an empty file: its header is written as data is.                        *)
EXTENDS CDoc2Writer

StreamLoad ==
  [kinds |-> {"server"}, sizes |-> {-1, 0, 3}, amounts |-> {1, 2}, pax |-> {TRUE},
   recipients |-> 1, attempts |-> 1, files |-> 2, data |-> 3, errors |-> 1]

RetryLoad ==
  [kinds |-> {"server", "invalid"}, sizes |-> {0}, amounts |-> {1}, pax |-> {FALSE},
   recipients |-> 2, attempts |-> 2, files |-> 1, data |-> 1, errors |-> 1]

Loads   == [k \in SinkKind |-> IF k = "consumer" THEN RetryLoad ELSE StreamLoad]
OneFile == [k \in SinkKind |-> [StreamLoad EXCEPT !.sizes = {1}, !.files = 1]]
=============================================================================
