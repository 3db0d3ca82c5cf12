------------------------------ MODULE FileCopy ------------------------------
(***************************************************************************)
(* How the files of a list are read into a container: FileListSource and   *)
(* DataConsumer::writeAll (Io.cpp) from the pull interface of a writer,    *)
(* and IStreamSource from writer_push (CDocCipher.cpp).                    *)
(***************************************************************************)
EXTENDS FileStreams

CONSTANTS
  DiskFiles,  \* the files that may be on the disk
  NFiles,     \* how many are copied
  Block,      \* units read at a time
  Clients,    \* "pull" and "push"
  Strict      \* the writer compares sizes, as TarConsumer does and DDOCWriter does not

OK == "ok"  ERR == "err"  ONE == "one"  REFUSED == "refused"

VARIABLES
  disk,    \* the files of the list
  client,  \* which of the two copies them
  ifs,     \* _ifs
  current, \* _current, counted from 1; 0 before the first next
  pc,      \* "next", "copy" or "done"
  got,     \* the units of each file the writer was given
  ret      \* what the client returns

vars == <<disk, client, ifs, current, pc, got, ret>>

Init ==
  /\ disk \in [1 .. NFiles -> DiskFiles] /\ client \in Clients
  /\ ifs = NewInput /\ current = 0 /\ pc = "next" /\ ret = OK
  /\ got = [i \in 1 .. NFiles |-> 0]

Return(r) == pc' = "done" /\ ret' = r

(* Mutant: the writer only looks for too much data.                        *)
CompleteEnough == current = 0 \/ ~Strict \/ got[current] <= disk[current].stat

(* The writer accepts the next file, or its end: the size of the file      *)
(* before it is the one that was declared.                                 *)
Complete == current = 0 \/ ~Strict \/ got[current] = disk[current].stat

(* FileListSource::next, and addFile of the writer; at the end of the list *)
(* the writer closes the archive.                                          *)
PullNext ==
  /\ pc = "next" /\ client = "pull"
  /\ current' = current + 1
  /\ LET closed == InputClosed(ifs)
     IN  IF current' > NFiles THEN ifs' = closed /\ Return(IF Complete THEN OK ELSE ERR)
         ELSE IF disk[current'].state = "missing" THEN ifs' = closed /\ Return(ERR)
         ELSE /\ ifs' = InputOpened(closed, disk[current'])
              /\ IF ifs'.bad \/ ~Complete THEN Return(ERR) ELSE pc' = "copy" /\ UNCHANGED ret
  /\ UNCHANGED <<disk, client, got>>

(* writer_push: a new IStreamSource for each file.                         *)
PushNext ==
  /\ pc = "next" /\ client = "push"
  /\ current' = current + 1
  /\ IF current' > NFiles THEN Return(IF Complete THEN OK ELSE ERR) /\ UNCHANGED ifs
     ELSE IF disk[current'].state = "missing" THEN Return(ONE) /\ UNCHANGED ifs
     ELSE /\ ifs' = InputOpened(NewInput, disk[current'])
          /\ IF ~Complete THEN Return(ERR) ELSE pc' = "copy" /\ UNCHANGED ret
  /\ UNCHANGED <<disk, client, got>>

IsEof == ifs.eof

(* Mutant: a read of nothing is an error.                                  *)
ReadFailedEmpty(r) == r.s.bad \/ r.n = 0

(* Mutant: the result of the read is not looked at.                        *)
ReadFailedNever(r) == FALSE

(* read returns an error.                                                  *)
ReadFailed(r) == r.s.bad

(* What is written of the buffer.                                          *)
Units(r) == r.n

(* A round of writeAll, or of the loop of writer_push: the source is at    *)
(* its end, or cannot be read, or the writer takes what was read or not.   *)
CopyRound ==
  /\ pc = "copy"
  /\ LET r == InputRead(ifs, disk[current], Block)
     IN  IF IsEof THEN pc' = "next" /\ UNCHANGED <<ifs, got, ret>>
         ELSE /\ ifs' = r.s
              /\ IF ReadFailed(r) THEN Return(IF client = "push" THEN ONE ELSE ERR) /\ UNCHANGED got
                 ELSE \/ got' = [got EXCEPT ![current] = @ + Units(r)] /\ UNCHANGED <<pc, ret>>
                      \/ Units(r) > 0 /\ Return(REFUSED) /\ UNCHANGED got
  /\ UNCHANGED <<disk, client, current>>

Finished == pc = "done" /\ UNCHANGED vars

Next == PullNext \/ PushNext \/ CopyRound \/ Finished
=============================================================================
