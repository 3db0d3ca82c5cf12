---------------------------- MODULE CDoc2Reader ----------------------------
(***************************************************************************)
(* CDoc2Reader (CDoc2Reader.cpp): beginDecryption, nextFile, readData,     *)
(* finishDecryption, which the application calls in any order, and decrypt *)
(* over a source that may fail at any read.                                *)
(*                                                                         *)
(* TarSource::next and DataConsumer::writeAll are loops over the chain;    *)
(* each of their rounds is a step, and pc says which loop is running.      *)
(***************************************************************************)
EXTENDS Integers, Sequences, ReaderPipeline

CONSTANTS
  Streams,    \* the payloads a container may hold
  Written,    \* those of them that a writer has finished
  Keys,       \* what the application passes as fmk: "right", "wrong", "short"
  Amounts,    \* sizes of the reads
  BUFFER,     \* what skip and writeAll read at once, in units (64 KiB)
  Seekable,   \* can the source be read again
  Faulty,     \* may the source and the cipher fail (once in each chain)
  MaxBegins   \* bound of the exploration

----------------------------------------------------------------------------
(* The archive a writer leaves (ArchiveWellFormed of CDoc2Writer), unit by *)
(* unit.                                                                   *)

Member(f, i) == [k |-> "data", f |-> f, i |-> i]

(* A header block of kind k behind position q.                             *)
HeaderAt(p, q, k, f) ==
  q + Block <= Len(p.units) /\ \A j \in 1 .. Block : p.units[q + j] = [k |-> k, f |-> f, i |-> j]

(* The head of file i, at q, is what stands at a, or it follows a pax      *)
(* header, or another header as other writers produce it.                  *)
LeadsTo(p, a, q, i) ==
  \/ q = a
  \/ /\ q = a + Block + 1 + Padding(1)
     /\ HeaderAt(p, a, "pax", i) /\ p.units[a + Block + 1].k = "record"
  \/ \E s \in 0 .. Len(p.units) : q = a + Block + s + Padding(s) /\ HeaderAt(p, a, "aux", s)

(* File i with its head at q, its data and its padding, which ends at e.   *)
FileAt(p, i, q, e) ==
  /\ p.sizes[i] >= 0 /\ e = q + Block + p.sizes[i] + Padding(p.sizes[i])
  /\ HeaderAt(p, q, "head", i)
  /\ \A j \in 1 .. p.sizes[i] : p.units[q + Block + j] = Member(i, j)

(* The files end one after the other where ends says, and two null blocks  *)
(* follow the last.                                                        *)
Laid(p, ends) ==
  /\ ends[0] = 0 /\ ends[Len(p.sizes)] + 2 * Block = Len(p.units)
  /\ \A j \in 1 .. 2 * Block : p.units[ends[Len(p.sizes)] + j].k = "zero"
  /\ \A i \in 1 .. Len(p.sizes) :
       \E q \in 0 .. Len(p.units) : LeadsTo(p, ends[i - 1], q, i) /\ FileAt(p, i, q, ends[i])

WellLaid(p) == \E ends \in [0 .. Len(p.sizes) -> 0 .. Len(p.units)] : Laid(p, ends)

(* Its deflate stream, complete and with its trailer: from the second null *)
(* block on all is less than a CHUNK, and the limit allows its size.       *)
Deflated(p) ==
  /\ ~p.broken /\ p.stop = Cells(p) /\ Upto(p, Cells(p)) = Len(p.units)
  /\ \A c \in 1 .. Cells(p) :
       /\ Upto(p, c - 1) <= Upto(p, c)
       /\ Len(p.units) - Block <= Upto(p, c) => Cells(p) < c + CHUNK
  /\ MaxInflated > 0 => Len(p.units) <= MaxInflated

(* What inflate puts out grows with the cells, does not after the cell     *)
(* where it stops, and is made of the units; a file's header has a size.   *)
Inflates(p) ==
  /\ \A b, c \in 0 .. Cells(p) : b <= c => Upto(p, b) <= Upto(p, c)
  /\ \A c \in 0 .. Cells(p) : p.stop <= c => Upto(p, c) = Upto(p, Cells(p))
  /\ Upto(p, Cells(p)) <= Len(p.units)
  /\ \A i \in DOMAIN p.units : p.units[i].k = "head" => p.units[i].f \in DOMAIN p.sizes

ASSUME StreamAssumption == Streams \subseteq Payload /\ \A p \in Streams : Cells(p) > 0
ASSUME InflateAssumption == \A p \in Streams : Inflates(p)
ASSUME WrittenAssumption ==
  Written \subseteq Streams /\ \A p \in Written : p.intact /\ WellLaid(p) /\ Deflated(p)
ASSUME InputAssumption ==
  /\ Keys \subseteq {"right", "wrong", "short"} /\ Amounts \subseteq Nat \ {0}
  /\ BUFFER \in Nat \ {0} /\ Seekable \in BOOLEAN /\ Faulty \in BOOLEAN
ASSUME BoundAssumption == MaxBegins \in Nat

VARIABLES
  stream,    \* the payload in the container
  view,      \* what decryption with the key in use makes of it
  atNonce,   \* _at_nonce: the source has not been read yet
  open,      \* zsrc and tar are set
  dangling,  \* zsrc refers to a DecryptionSource that has been replaced
  chain,     \* dec, zsrc and tar
  pc,        \* the loop that is running, "idle" or "crashed"
  todo,      \* what skip has still to skip
  op, rv,    \* the call that is running or was the last one, and its result
  (* History, for the properties.                                          *)
  served,    \* files opened, with the units delivered
  begins     \* chains built

vars == <<stream, view, atNonce, open, dangling, chain, pc, todo, op, rv, served, begins>>

Running == {"skip", "skipAux", "header", "copy"}

Init ==
  /\ stream \in Streams /\ view = stream
  /\ atNonce = TRUE /\ open = FALSE /\ dangling = FALSE
  /\ chain = NewChain(FALSE)
  /\ pc = "idle" /\ todo = 0 /\ op = "create" /\ rv = "ok"
  /\ served = <<>> /\ begins = 0

(* A container in memory can be read.                                      *)
Unreliable == Faulty /\ ~stream.memory
MayFail    == Unreliable /\ ~chain.fault

(* The running call, o, returns.                                           *)
Return(o, result) == pc' = "idle" /\ op' = o /\ rv' = result

(* A call that returns an error and changes nothing.                       *)
Reject(o, result) ==
  /\ Return(o, result)
  /\ UNCHANGED <<stream, view, atNonce, open, dangling, chain, todo, served, begins>>

(* A call uses what does not exist any more, and nothing is said of what   *)
(* follows.                                                                *)
Crash(o) ==
  /\ pc' = "crashed" /\ op' = o /\ rv' = "none"
  /\ UNCHANGED <<stream, atNonce, dangling, todo, served, begins>>

(* A read of zsrc, and its isEof, would go to a source that was freed.     *)
ReadsFreed == dangling /\ ~chain.zerr
EofFreed   == dangling /\ ~chain.avail
UseFreed(o) == Crash(o) /\ UNCHANGED <<view, open, chain>>

----------------------------------------------------------------------------
(* A wrong key makes noise of the payload, which inflate does not take.    *)
Garbled(p) == [p EXCEPT !.units = <<>>, !.upto = [c \in DOMAIN p.upto |-> 0],
                        !.stop = 1, !.broken = TRUE, !.intact = FALSE]

(* DecryptionSource's constructor fails: updateAAD returns its error, with *)
(* dec replaced and zsrc and tar, if they are set, as they were.           *)
BeginFails(o) ==
  /\ Unreliable
  /\ chain' = IF open THEN [chain EXCEPT !.derr = TRUE, !.fault = TRUE] ELSE NewChain(TRUE)
  /\ dangling' = open
  /\ Return(o, "error")
  /\ UNCHANGED <<open, todo>>

(* The chain is built, and decrypt goes on to the first file.              *)
BeginSucceeds(o) ==
  /\ chain' = NewChain(FALSE)
  /\ open' = TRUE
  /\ dangling' = FALSE
  /\ todo' = 0
  /\ IF o = "decrypt" THEN pc' = "header" /\ op' = o /\ rv' = "none" ELSE Return(o, "ok")

Begin(o, key) ==
  /\ pc = "idle" /\ begins < MaxBegins
  /\ \/ key = "short" /\ Reject(o, "refused")
     \/ key # "short" /\ ~atNonce /\ (Unreliable \/ ~Seekable) /\ Reject(o, "error")
     \/ /\ key # "short" /\ (atNonce \/ Seekable)
        /\ atNonce' = FALSE
        /\ view' = IF key = "right" THEN stream ELSE Garbled(stream)
        /\ served' = <<>>
        /\ begins' = begins + 1
        /\ BeginFails(o) \/ BeginSucceeds(o)
        /\ UNCHANGED stream

BeginDecryption(key) == Begin("beginDecryption", key)
Decrypt(key)         == Begin("decrypt", key)

----------------------------------------------------------------------------
(* What zsrc finds when the cells behind c are kept from it.               *)
Missing(p, c) ==
  IF p.stop <= c THEN p
  ELSE [p EXCEPT !.upto = [i \in DOMAIN @ |-> Upto(p, IF i < c THEN i ELSE c)],
                 !.stop = c + 1, !.broken = TRUE]

(* decryptAllAndClose after an error of the chain, now r, and what the     *)
(* call returns.  When reading the rest of the payload fails, the chain    *)
(* stays, and zsrc misses what was read or lost.  Otherwise zsrc and tar   *)
(* are dropped; if the payload then turns out to be authentic, the call    *)
(* asks the dropped tar for the text of its error.                         *)
CheckIntegrity(o, r) ==
  LET all == [r EXCEPT !.at = Cells(view)]
  IN  \/ /\ r.derr
         /\ chain' = r
         /\ Return(o, "mismatch") /\ todo' = 0
         /\ UNCHANGED <<stream, view, atNonce, open, dangling, served, begins>>
      \/ /\ ~r.derr /\ Unreliable /\ ~r.fault
         /\ \E at \in r.at .. Cells(view), lost \in {r.lost, TRUE}, derr \in BOOLEAN :
              /\ chain' = [r EXCEPT !.at = at, !.lost = lost, !.derr = derr, !.fault = TRUE]
              /\ view' = IF at = r.at /\ ~lost THEN view ELSE Missing(view, r.at)
         /\ Return(o, "mismatch") /\ todo' = 0
         /\ UNCHANGED <<stream, atNonce, open, dangling, served, begins>>
      \/ /\ ~r.derr /\ chain' = all /\ open' = FALSE
         /\ UNCHANGED view
         /\ IF Accepted(view, all) THEN Crash(o)
            ELSE /\ Return(o, "mismatch") /\ todo' = 0
                 /\ UNCHANGED <<stream, atNonce, dangling, served, begins>>

(* dec->close and its result, with the chain dropped.                      *)
Finish(o, r) ==
  /\ open' = FALSE
  /\ chain' = r
  /\ Return(o, IF Accepted(view, r) THEN "ok" ELSE "mismatch")
  /\ todo' = 0
  /\ UNCHANGED <<stream, view, atNonce, dangling, served, begins>>

(* TarSource::next up to its loop: the rest of the file is skipped.        *)
EnterNext ==
  IF chain.pos < chain.block THEN pc' = "skip" /\ todo' = chain.block - chain.pos
  ELSE pc' = "header" /\ todo' = 0

(* A call, o, that needs the chain.                                        *)
NeedsChain(o, Call) ==
  /\ pc = "idle"
  /\ IF open THEN Call ELSE Reject(o, "refused")

NextFile ==
  NeedsChain("nextFile",
    /\ EnterNext /\ op' = "nextFile" /\ rv' = "none"
    /\ UNCHANGED <<stream, view, atNonce, open, dangling, chain, served, begins>>)

(* Units that the current file delivers in o.                              *)
Delivered(o) ==
  IF o.n = 0 THEN served
  ELSE [served EXCEPT ![Len(served)].got = @ \o SubSeq(view.units, chain.out + 1, o.r.out)]

ReadData(n) ==
  NeedsChain("readData",
    IF ReadsFreed /\ ~chain.terr /\ chain.pos < chain.data THEN UseFreed("readData")
    ELSE \E o \in TarRead(view, chain, n, MayFail) :
           IF o.n = ERR THEN CheckIntegrity("readData", o.r)
           ELSE /\ chain' = o.r /\ served' = Delivered(o)
                /\ Return("readData", "ok")
                /\ UNCHANGED <<stream, view, atNonce, open, dangling, todo, begins>>)

FinishDecryption ==
  NeedsChain("finishDecryption",
    IF EofFreed THEN UseFreed("finishDecryption") ELSE Finish("finishDecryption", chain))

----------------------------------------------------------------------------
(* The loops, run by nextFile and by decrypt.                              *)

(* The position is reset when the skip of a file ends.                     *)
AtBlock(r) == [r EXCEPT !.pos = 0, !.data = 0, !.block = 0]

SkipEnds(o, asked) == o.n < asked \/ o.n = todo

(* The loop finds that its source was freed.                               *)
LoopCrashes ==
  /\ \/ pc = "skip" /\ ReadsFreed
     \/ pc = "header" /\ (EofFreed \/ ReadsFreed)
  /\ UseFreed(op)

(* A round of skip to the end of the file.                                 *)
SkipRound ==
  LET asked == IF todo < BUFFER THEN todo ELSE BUFFER
  IN  /\ pc = "skip" /\ ~ReadsFreed
      /\ \E o \in ZRead(view, chain, asked, MayFail) :
           IF o.n = ERR THEN CheckIntegrity(op, [AtBlock(o.r) EXCEPT !.terr = TRUE])
           ELSE /\ pc'    = IF SkipEnds(o, asked) THEN "header" ELSE pc
                /\ chain' = IF SkipEnds(o, asked) THEN AtBlock(o.r) ELSE o.r
                /\ todo'  = IF SkipEnds(o, asked) THEN 0 ELSE todo - o.n
                /\ UNCHANGED <<stream, view, atNonce, open, dangling, op, rv, served, begins>>

(* A round of skip over what follows another header.  Its result, an error *)
(* too, is ignored.                                                        *)
SkipAuxRound ==
  LET asked == IF todo < BUFFER THEN todo ELSE BUFFER
  IN  /\ pc = "skipAux"
      /\ \E o \in ZRead(view, chain, asked, MayFail) :
           /\ pc'    = IF SkipEnds(o, asked) THEN "header" ELSE pc
           /\ chain' = o.r
           /\ todo'  = IF SkipEnds(o, asked) THEN 0 ELSE todo - o.n
           /\ UNCHANGED <<stream, view, atNonce, open, dangling, op, rv, served, begins>>

(* A file was found: nextFile returns, decrypt opens it in the consumer.   *)
Opens(f, r) ==
  /\ chain' = r /\ todo' = 0
  /\ served' = Append(served, [f |-> f, size |-> view.sizes[f], got |-> <<>>])
  /\ IF op = "decrypt" THEN (pc' = "copy" /\ UNCHANGED <<op, rv>>) \/ Return(op, "error")
     ELSE Return(op, "ok")
  /\ UNCHANGED <<stream, view, atNonce, open, dangling, begins>>

(* A round of the loop of TarSource::next.                                 *)
HeaderRound ==
  /\ pc = "header" /\ ~EofFreed /\ ~ReadsFreed
  /\ \E h \in NextHeader(view, chain, MayFail) :
       \/ h.what = "file" /\ Opens(h.f, h.r)
       \/ h.what = "fail" /\ CheckIntegrity(op, h.r)
       \/ h.what = "end" /\ op = "decrypt" /\ Finish(op, h.r)
       \/ /\ h.what = "end" /\ op = "nextFile"
          /\ chain' = h.r /\ Return(op, "end")
          /\ UNCHANGED <<stream, view, atNonce, open, dangling, todo, served, begins>>
       \/ /\ h.what = "aux"
          /\ chain' = h.r /\ todo' = h.f + Padding(h.f)
          /\ pc' = IF todo' > 0 THEN "skipAux" ELSE "header"
          /\ UNCHANGED <<stream, view, atNonce, open, dangling, op, rv, served, begins>>

(* A round of writeAll: it ends when tar says so.  Otherwise it reads, and *)
(* hands what it got to the consumer, which may refuse it.  decrypt        *)
(* returns an error of either at once.                                     *)
CopyRound ==
  /\ pc = "copy"
  /\ \/ /\ chain.eof
        /\ EnterNext
        /\ UNCHANGED <<stream, view, atNonce, open, dangling, chain, op, rv, served, begins>>
     \/ /\ ~chain.eof
        /\ \E o \in TarRead(view, chain, BUFFER, MayFail) :
             /\ chain' = o.r
             /\ \/ o.n = ERR /\ served' = served /\ Return(op, "error")
                \/ o.n # ERR /\ served' = Delivered(o) /\ UNCHANGED <<pc, op, rv>>
                \/ o.n > 0 /\ served' = Delivered(o) /\ Return(op, "error")
             /\ UNCHANGED <<stream, view, atNonce, open, dangling, todo, begins>>

Calls ==
  \/ \E key \in Keys : BeginDecryption(key) \/ Decrypt(key)
  \/ NextFile
  \/ \E n \in Amounts : ReadData(n)
  \/ FinishDecryption

Loop == LoopCrashes \/ SkipRound \/ SkipAuxRound \/ HeaderRound \/ CopyRound

Next == Calls \/ Loop

(* The library runs on the caller's thread: a call that has begun goes on, *)
(* but nothing below is obliged to fail.                                   *)
Spec == Init /\ [][Next]_vars /\ WF_vars(Loop /\ chain'.fault = chain.fault)

----------------------------------------------------------------------------
(* PROPERTIES                                                              *)

(* Of a payload that a writer finished, the application is given the files *)
(* in order under their declared sizes, and of each a gapless prefix of    *)
(* its data, whether it reads the files to their end, in pieces, or skips  *)
(* them: no padding, header or part of another file.                       *)
ServedExact ==
  view \in Written =>
    \A i \in DOMAIN served :
      /\ served[i].f = i /\ served[i].size = view.sizes[i]
      /\ Len(served[i].got) <= view.sizes[i]
      /\ \A j \in DOMAIN served[i].got : served[i].got[j] = Member(i, j)

AllOpened == Len(served) = Len(view.sizes)
AllRead   == AllOpened /\ \A i \in DOMAIN served : Len(served[i].got) = served[i].size

(* END_OF_STREAM means that every file has been offered, and OK from       *)
(* decrypt that every file has been delivered whole.                       *)
EndMeansAll ==
  view \in Written =>
    /\ rv = "end" => AllOpened
    /\ op = "decrypt" /\ rv = "ok" => AllRead

(* A payload that a writer finished is read without a complaint about it   *)
(* as long as the source and the cipher work, in whatever order files are  *)
(* read, skipped or started again.                                         *)
NoFalseAlarm ==
  view \in Written /\ ~chain.fault =>
    pc # "crashed" /\ (rv = "mismatch" => op = "finishDecryption")

(* At END_OF_STREAM the tag of such a payload has been reached and can be  *)
(* checked: finishDecryption reads nothing itself, but ZSource has read so *)
(* far ahead that the trailer of the deflate stream was decrypted as well. *)
EndIsVerifiable == view \in Written /\ rv = "end" => Accepted(view, chain)

(* Every call returns: the loops over the archive and the copying of a     *)
(* file end for every payload, cut, broken or shorter than it declares.    *)
CallsReturn == pc \in Running ~> pc \notin Running
=============================================================================
