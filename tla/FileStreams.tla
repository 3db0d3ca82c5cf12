---------------------------- MODULE FileStreams -----------------------------
(***************************************************************************)
(* std::ifstream and std::ofstream as Io.h, Io.cpp and CDocCipher.cpp use  *)
(* them: which calls set and clear eofbit, failbit and badbit.  The unit   *)
(* of data is one of the units a file has.                                 *)
(***************************************************************************)
EXTENDS Integers, Sequences

(* INPUT                                                                   *)
(* A file on the disk: size: its units of data; stat: what file_size says  *)
(* of it, by when it may have changed; state: "ok", "missing",             *)
(* "unreadable" or "breaks", which cannot be read to its end.              *)
DiskFile == [size : Nat, stat : Nat, state : {"ok", "missing", "unreadable", "breaks"}]

NewInput == [open |-> FALSE, eof |-> FALSE, fail |-> FALSE, bad |-> FALSE, at |-> 0]

(* Closing leaves the flags; a stream that is not open fails.              *)
InputClosed(s) == [s EXCEPT !.open = FALSE, !.fail = @ \/ ~s.open]

(* Only an open that succeeds clears them.                                 *)
InputOpened(s, f) ==
  IF f.state \in {"missing", "unreadable"} THEN [s EXCEPT !.fail = TRUE]
  ELSE [NewInput EXCEPT !.open = TRUE]

(* read(n): [n |-> gcount(), s |-> the stream].                            *)
InputRead(s, f, n) ==
  IF s.eof \/ s.fail \/ s.bad THEN [n |-> 0, s |-> [s EXCEPT !.fail = TRUE]]
  ELSE IF s.at + n <= f.size THEN [n |-> n, s |-> [s EXCEPT !.at = @ + n]]
  ELSE IF f.state = "breaks" THEN [n |-> 0, s |-> [s EXCEPT !.bad = TRUE]]
  ELSE [n |-> f.size - s.at, s |-> [s EXCEPT !.at = f.size, !.eof = TRUE, !.fail = TRUE]]

----------------------------------------------------------------------------
(* OUTPUT                                                                  *)
(* disk: units that have reached the file; buffer: units that have not.    *)
NewOutput == [open |-> FALSE, fail |-> FALSE, bad |-> FALSE, disk |-> 0, buffer |-> 0]

(* A stream that is open cannot be opened again.                           *)
OutputOpened(s) ==
  IF s.open THEN {[s EXCEPT !.fail = TRUE]}
  ELSE {[NewOutput EXCEPT !.open = TRUE], [s EXCEPT !.fail = TRUE]}

(* write(n) buffers; it may flush, and that may fail.                      *)
OutputWrite(s, n) ==
  IF s.fail \/ s.bad THEN {[s EXCEPT !.fail = TRUE]}
  ELSE {[s EXCEPT !.buffer = @ + n],
        [s EXCEPT !.disk = @ + s.buffer + n, !.buffer = 0],
        [s EXCEPT !.bad = TRUE]}

(* close flushes; when that fails it sets failbit, not badbit.             *)
OutputClosed(s) ==
  IF ~s.open THEN {[s EXCEPT !.fail = TRUE]}
  ELSE {[s EXCEPT !.open = FALSE, !.disk = @ + s.buffer, !.buffer = 0]}
       \cup (IF s.buffer > 0 THEN {[s EXCEPT !.open = FALSE, !.buffer = 0, !.fail = TRUE]} ELSE {})
=============================================================================
