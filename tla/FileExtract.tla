----------------------------- MODULE FileExtract ----------------------------
(***************************************************************************)
(* How decrypted files reach the disk: FileListConsumer (Io.h, Io.cpp)     *)
(* driven by CDoc2Reader::decrypt, which opens and writes each file, or by *)
(* DDOCReader::parse, which closes each one as well; and the loop of       *)
(* CDocCipher::Decrypt, with an ofstream for each file.                    *)
(*                                                                         *)
(* The reader is seen from here: it may fail at any call.                  *)
(***************************************************************************)
EXTENDS FileStreams

CONSTANTS
  Sizes,    \* sizes the files may have
  NFiles,   \* how many there are
  Block,    \* units written at a time
  Clients,  \* "cdoc2", "ddoc" and "tool"
  MayFail   \* what may fail on the disk: "open", "write", "close"

OK == "ok"  ERR == "err"

VARIABLES
  size,    \* the files of the container
  client,
  ofs,     \* ofs
  cur,     \* the file that is written; 0 before the first
  n,       \* how much of it was written
  pc,      \* "next", "write", "close" or "done"
  kept,    \* what is on the disk of the files before it
  failed,  \* history: what has failed: the reader, or the disk in one of three ways
  ret

vars == <<size, client, ofs, cur, n, pc, kept, failed, ret>>

Init ==
  /\ size \in [1 .. NFiles -> Sizes] /\ client \in Clients
  /\ ofs = NewOutput /\ cur = 0 /\ n = 0 /\ pc = "next" /\ ret = OK
  /\ kept = [i \in 1 .. NFiles |-> 0] /\ failed = {}

(* What went wrong in a call, and what the disk allows to.                 *)
Failure(before, after) ==
  CASE after.bad /\ ~before.bad                                 -> "write"
    [] after.fail /\ ~before.fail /\ before.open /\ ~after.open -> "close"
    [] after.fail /\ ~before.fail /\ ~before.open               -> "open"
    [] OTHER                                                    -> "none"
Allowed(before, S) == {s \in S : Failure(before, s) \in MayFail \cup {"none"}}
Failures(before, after) == {Failure(before, after)} \ {"none"}

ClosedIfOpen(s) == IF s.open THEN Allowed(s, OutputClosed(s)) ELSE {s}
Keep(s) == IF cur = 0 THEN kept ELSE [kept EXCEPT ![cur] = s.disk]

(* A client returns, having seen what has failed: the stream it has left   *)
(* open is closed, and nothing is reported of that.                        *)
Return(r, s, seen) ==
  /\ pc' = "done" /\ ret' = r
  /\ \E c \in ClosedIfOpen(s) : ofs' = c /\ kept' = Keep(c) /\ failed' = seen \cup Failures(s, c)
  /\ UNCHANGED <<cur, n>>

(* Mutant: open does not close the stream of the file before it.           *)
BeforeOpenLeft(s) == {s}

(* open closes the stream of the file before it, as the end of the loop's  *)
(* body does.                                                              *)
BeforeOpen(s) == ClosedIfOpen(s)

(* Mutant: bad() is asked, which a failed open does not set.               *)
OpenFailedBad(s) == s.bad

(* CDocCipher asks bad(), FileListConsumer fail().                         *)
OpenFailed(s) == IF client = "tool" THEN s.bad ELSE s.fail

(* The next file.  The loop of CDocCipher has a new stream for each.       *)
OpenNext ==
  /\ pc = "next" /\ cur < NFiles
  /\ \E c \in BeforeOpen(ofs) :
     LET s == IF client = "tool" THEN NewOutput ELSE c
     IN  \E o \in Allowed(s, OutputOpened(s)) :
           /\ kept' = Keep(c) /\ ofs' = o
           /\ failed' = failed \cup Failures(ofs, c) \cup Failures(s, o)
           /\ IF OpenFailed(o)
              THEN pc' = "done" /\ ret' = ERR /\ UNCHANGED <<cur, n>>
              ELSE pc' = "write" /\ cur' = cur + 1 /\ n' = 0 /\ UNCHANGED ret
  /\ UNCHANGED <<size, client>>

(* The container ends.                                                     *)
Finish ==
  /\ pc = "next" /\ cur = NFiles /\ Return(OK, ofs, failed)
  /\ UNCHANGED <<size, client>>

WriteFailed(s) == s.bad

(* What is read and written at a time.                                     *)
ToRead == IF size[cur] - n < Block THEN size[cur] - n ELSE Block

WriteBlock ==
  /\ pc = "write" /\ n < size[cur]
  /\ \E s \in Allowed(ofs, OutputWrite(ofs, ToRead)) :
       LET seen == failed \cup Failures(ofs, s)
       IN  IF WriteFailed(s) THEN Return(ERR, s, seen)
           ELSE failed' = seen /\ ofs' = s /\ n' = n + ToRead /\ UNCHANGED <<cur, pc, kept, ret>>
  /\ UNCHANGED <<size, client>>

FileWritten ==
  /\ pc = "write" /\ n >= size[cur]
  /\ pc' = IF client = "ddoc" THEN "close" ELSE "next"
  /\ UNCHANGED <<size, client, ofs, cur, n, kept, failed, ret>>

(* FileListConsumer::close.                                                *)
CloseFile ==
  /\ pc = "close"
  /\ \E s \in Allowed(ofs, OutputClosed(ofs)) :
       LET seen == failed \cup Failures(ofs, s)
       IN  IF s.bad THEN Return(ERR, s, seen)
           ELSE failed' = seen /\ ofs' = s /\ pc' = "next" /\ UNCHANGED <<cur, n, kept, ret>>
  /\ UNCHANGED <<size, client>>

(* The container cannot be read any further.                               *)
ReaderError ==
  /\ pc \in {"next", "write"} /\ Return(ERR, ofs, failed \cup {"reader"})
  /\ UNCHANGED <<size, client>>

Done == pc = "done" /\ UNCHANGED vars

Next == OpenNext \/ Finish \/ WriteBlock \/ FileWritten \/ CloseFile \/ ReaderError \/ Done
=============================================================================
