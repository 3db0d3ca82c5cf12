------------------------- MODULE FileTransferProofs -------------------------
(***************************************************************************)
(* Proofs about FileTransfer, for all disks, lists of files and blocks.    *)
(*                                                                         *)
(* The invariant has three parts, one for each of the modules composed,    *)
(* and what connects them: nothing is extracted or moved before the        *)
(* container is stored, and from then on it is what the copy has given.    *)
(***************************************************************************)
EXTENDS FileTransfer, FiniteSetTheorems, TLAPS

USE TransferAssumption

Files == 1 .. NFiles

----------------------------------------------------------------------------
(* COPYING                                                                 *)

Input == [open : BOOLEAN, eof : BOOLEAN, fail : BOOLEAN, bad : BOOLEAN, at : Nat]

Readable(f) == f.state \in {"ok", "breaks"}

(* How a stream on a file that was opened stands: only the end of the file *)
(* sets a flag.                                                            *)
Reading(s, f) ==
  /\ ~s.bad /\ s.at <= f.size
  /\ s.eof => s.at = f.size
  /\ s.fail => s.eof

(* A file that was copied.                                                 *)
Whole(i) == got[i] = IF Readable(disk[i]) THEN disk[i].size ELSE 0
Checked(i) == Whole(i) /\ (Strict => got[i] = disk[i].stat)

CopyTypes ==
  /\ disk \in [Files -> DiskFiles] /\ ifs \in Input /\ got \in [Files -> Nat]
  /\ current \in 0 .. NFiles + 1 /\ copying \in {"next", "copy", "done"}

Between ==
  copying = "next" =>
    /\ current <= NFiles
    /\ current > 0 => Whole(current)
Copying ==
  copying = "copy" =>
    /\ current \in Files
    /\ IF Readable(disk[current]) THEN Reading(ifs, disk[current]) /\ got[current] = ifs.at
       ELSE ifs.fail /\ got[current] = 0
Behind == copying # "done" => \A i \in Files : i < current => Checked(i)
Ahead  == copying # "done" => \A i \in Files : i > current => got[i] = 0
AllGiven == copying = "done" /\ copied = Copy!OK => \A i \in Files : Checked(i)

CopyInv == CopyTypes /\ Between /\ Copying /\ Behind /\ Ahead /\ AllGiven /\ CopyNoFalseAlarm

LEMMA NewInputType == NewInput \in Input
BY DEF NewInput, Input

(* Closing and opening: the flags are those of a stream, and an open that  *)
(* succeeds has none.                                                      *)
LEMMA InputClosedType ==
  ASSUME NEW s \in Input
  PROVE  InputClosed(s) \in Input
BY DEF Input, InputClosed

LEMMA InputOpenedOutcome ==
  ASSUME NEW s \in Input, NEW f \in DiskFile
  PROVE  /\ InputOpened(s, f) \in Input
         /\ Readable(f) => InputOpened(s, f).at = 0 /\ Reading(InputOpened(s, f), f)
         /\ ~Readable(f) => InputOpened(s, f).fail
<1>1. CASE f.state \in {"missing", "unreadable"}
  <2>1. InputOpened(s, f) = [s EXCEPT !.fail = TRUE] /\ ~Readable(f)
    BY <1>1 DEF InputOpened, Readable
  <2> QED
    BY <2>1 DEF Input
<1>2. CASE f.state \notin {"missing", "unreadable"}
  <2>1. InputOpened(s, f) = [open |-> TRUE, eof |-> FALSE, fail |-> FALSE, bad |-> FALSE, at |-> 0]
    BY <1>2 DEF InputOpened, NewInput
  <2>2. Readable(f) /\ f.size \in Nat
    BY <1>2 DEF DiskFile, Readable
  <2> QED
    BY <2>1, <2>2 DEF Input, Reading
<1> QED
  BY <1>1, <1>2

(* A read keeps the stream and what was read in step.                      *)
ReadWell(s, f, r) ==
  /\ r.s.bad => f.state = "breaks"
  /\ ~r.s.bad => Reading(r.s, f) /\ r.s.at = s.at + r.n
LEMMA InputReadOutcome ==
  ASSUME NEW s \in Input, NEW f \in DiskFile, NEW k \in Nat
  PROVE  /\ InputRead(s, f, k).s \in Input
         /\ s.fail => InputRead(s, f, k).n = 0 /\ InputRead(s, f, k).s.fail
         /\ Reading(s, f) => InputRead(s, f, k).n \in Nat /\ ReadWell(s, f, InputRead(s, f, k))
<1> DEFINE r == InputRead(s, f, k)
<1>0. f.size \in Nat /\ s.at \in Nat
  BY DEF DiskFile, Input
<1>1. CASE s.eof \/ s.fail \/ s.bad
  <2>1. r.s = [s EXCEPT !.fail = TRUE] /\ r.n = 0
    BY <1>1 DEF InputRead
  <2>2. r.s \in Input /\ r.s.fail
    BY <2>1 DEF Input
  <2>3. Reading(s, f) => ReadWell(s, f, r)
    BY <1>0, <1>1, <2>1 DEF Input, Reading, ReadWell
  <2> QED
    BY <2>1, <2>2, <2>3
<1>2. CASE ~(s.eof \/ s.fail \/ s.bad) /\ s.at + k <= f.size
  <2>1. r.s = [s EXCEPT !.at = @ + k] /\ r.n = k
    BY <1>2 DEF InputRead
  <2>2. r.s \in Input
    BY <1>0, <2>1 DEF Input
  <2>3. ReadWell(s, f, r)
    BY <1>0, <1>2, <2>1 DEF Input, Reading, ReadWell
  <2> QED
    BY <1>2, <2>1, <2>2, <2>3
<1>3. CASE ~(s.eof \/ s.fail \/ s.bad) /\ ~(s.at + k <= f.size) /\ f.state = "breaks"
  <2>1. r.s = [s EXCEPT !.bad = TRUE] /\ r.n = 0
    BY <1>3 DEF InputRead
  <2>2. r.s \in Input /\ r.s.bad
    BY <2>1 DEF Input
  <2> QED
    BY <1>3, <2>1, <2>2 DEF ReadWell
<1>4. CASE ~(s.eof \/ s.fail \/ s.bad) /\ ~(s.at + k <= f.size) /\ f.state # "breaks"
  <2>1. r = [n |-> f.size - s.at, s |-> [s EXCEPT !.at = f.size, !.eof = TRUE, !.fail = TRUE]]
    BY <1>4, Zenon DEF InputRead
  <2>2. r.s = [s EXCEPT !.at = f.size, !.eof = TRUE, !.fail = TRUE] /\ r.n = f.size - s.at
    BY <2>1
  <2>3. r.s \in Input
    BY <1>0, <2>2 DEF Input
  <2>4. Reading(s, f) => r.n \in Nat /\ ReadWell(s, f, r)
    BY <1>0, <1>4, <2>2 DEF Input, Reading, ReadWell
  <2> QED
    BY <1>4, <2>3, <2>4
<1> QED
  BY <1>1, <1>2, <1>3, <1>4

LEMMA DiskTypes ==
  ASSUME CopyTypes, NEW i \in Files
  PROVE  disk[i] \in DiskFile /\ disk[i].size \in Nat /\ disk[i].stat \in Nat /\ got[i] \in Nat
<1>1. disk[i] \in DiskFile /\ got[i] \in Nat
  BY DEF CopyTypes
<1> QED
  BY <1>1 DEF DiskFile

(* The modules composed speak of the same streams.                         *)
LEMMA SameStreams ==
  /\ Copy!NewInput = NewInput
  /\ \A s : Copy!InputClosed(s) = InputClosed(s)
  /\ \A s, f : Copy!InputOpened(s, f) = InputOpened(s, f)
  /\ \A s, f, k : Copy!InputRead(s, f, k) = InputRead(s, f, k)
BY DEF NewInput, InputClosed, InputOpened, InputRead,
       Copy!NewInput, Copy!InputClosed, Copy!InputOpened, Copy!InputRead

LEMMA CopyInit == Init => CopyInv
<1> SUFFICES ASSUME Init PROVE CopyInv
  OBVIOUS
<1>1. /\ disk \in [Files -> DiskFiles] /\ ifs = NewInput /\ current = 0
      /\ copying = "next" /\ got = [i \in Files |-> 0]
  BY SameStreams DEF Init, Copy!Init, Files
<1>2. CopyTypes
  BY <1>1, NewInputType DEF CopyTypes, Files
<1> QED
  BY <1>1, <1>2 DEF CopyInv, Between, Copying, Behind, Ahead, AllGiven, CopyNoFalseAlarm, Files

(* What next and addFile come to: the list is at its end, or something was *)
(* wrong with a file, or the next one is being read.                       *)
Unsound == \E i \in Files : ~Sound(disk[i])
Turned ==
  /\ copying = "next" /\ current' = current + 1 /\ disk' = disk /\ got' = got /\ ifs' \in Input
  /\ \/ copying' = "done" /\ copied' = Copy!OK /\ current' > NFiles /\ Copy!Complete
     \/ copying' = "done" /\ copied' # Copy!OK /\ Unsound
     \/ /\ copying' = "copy" /\ current' <= NFiles /\ Copy!Complete
        /\ \E s \in Input : ifs' = InputOpened(s, disk[current'])

(* The writer only refuses a file that has changed.                        *)
LEMMA IncompleteUnsound ==
  ASSUME CopyInv, copying = "next", ~Copy!Complete
  PROVE  Unsound
<1>1. current \in Files /\ Whole(current) /\ got[current] # disk[current].stat
  BY DEF CopyInv, CopyTypes, Between, Copy!Complete, Files
<1>2. ~Sound(disk[current])
  BY <1>1, DiskTypes DEF CopyInv, Whole, Sound, Readable
<1> QED
  BY <1>1, <1>2 DEF Unsound

LEMMA PullEffect ==
  ASSUME CopyInv, Copy!PullNext
  PROVE  Turned
<1> USE DEF CopyInv, CopyTypes
<1>1. copying = "next" /\ current' = current + 1 /\ disk' = disk /\ got' = got /\ current \in 0 .. NFiles
  BY DEF Copy!PullNext, Between
<1>2. InputClosed(ifs) \in Input
  BY InputClosedType
<1>3. CASE current' > NFiles
  <2>1. ifs' = InputClosed(ifs) /\ copying' = "done" /\ copied' = IF Copy!Complete THEN Copy!OK ELSE Copy!ERR
    BY <1>3, SameStreams DEF Copy!PullNext, Copy!Return
  <2> QED
    BY <1>1, <1>2, <1>3, <2>1, IncompleteUnsound DEF Turned, Copy!OK, Copy!ERR
<1>4. CASE ~(current' > NFiles)
  <2>0. current' \in Files
    BY <1>1, <1>4 DEF Files
  <2>f. disk[current'] \in DiskFile
    BY <2>0, DiskTypes
  <2>1. CASE disk[current'].state = "missing"
    <3>1. ifs' = InputClosed(ifs) /\ copying' = "done" /\ copied' = Copy!ERR
      BY <1>4, <2>1, SameStreams DEF Copy!PullNext, Copy!Return
    <3>2. Unsound
      BY <2>0, <2>1 DEF Unsound, Sound
    <3> QED
      BY <1>1, <1>2, <3>1, <3>2 DEF Turned, Copy!OK, Copy!ERR
  <2>2. CASE disk[current'].state # "missing"
    <3>1. /\ ifs' = InputOpened(InputClosed(ifs), disk[current'])
          /\ IF ifs'.bad \/ ~Copy!Complete THEN copying' = "done" /\ copied' = Copy!ERR ELSE copying' = "copy"
      BY <1>4, <2>2, SameStreams DEF Copy!PullNext, Copy!Return
    <3>2. ifs' \in Input /\ (ifs'.bad => ~Readable(disk[current']))
      BY <1>2, <2>f, <3>1, InputOpenedOutcome DEF Reading
    <3>3. ifs'.bad => Unsound
      BY <2>0, <3>2 DEF Unsound, Sound, Readable
    <3>4. CASE ifs'.bad \/ ~Copy!Complete
      BY <1>1, <3>1, <3>2, <3>3, <3>4, IncompleteUnsound DEF Turned, Copy!OK, Copy!ERR
    <3>5. CASE ~(ifs'.bad \/ ~Copy!Complete)
      BY <1>1, <1>2, <1>4, <3>1, <3>2, <3>5, <2>0 DEF Turned, Files
    <3> QED
      BY <3>4, <3>5
  <2> QED
    BY <2>1, <2>2
<1> QED
  BY <1>3, <1>4

LEMMA PushEffect ==
  ASSUME CopyInv, Copy!PushNext
  PROVE  Turned
<1> USE DEF CopyInv, CopyTypes
<1>1. copying = "next" /\ current' = current + 1 /\ disk' = disk /\ got' = got /\ current \in 0 .. NFiles
  BY DEF Copy!PushNext, Between
<1>3. CASE current' > NFiles
  <2>1. ifs' = ifs /\ copying' = "done" /\ copied' = IF Copy!Complete THEN Copy!OK ELSE Copy!ERR
    BY <1>3, SameStreams DEF Copy!PushNext, Copy!Return
  <2> QED
    BY <1>1, <1>3, <2>1, IncompleteUnsound DEF Turned, Copy!OK, Copy!ERR
<1>4. CASE ~(current' > NFiles)
  <2>0. current' \in Files
    BY <1>1, <1>4 DEF Files
  <2>f. disk[current'] \in DiskFile
    BY <2>0, DiskTypes
  <2>1. CASE disk[current'].state = "missing"
    <3>1. ifs' = ifs /\ copying' = "done" /\ copied' = Copy!ONE
      BY <1>4, <2>1, SameStreams DEF Copy!PushNext, Copy!Return
    <3>2. Unsound
      BY <2>0, <2>1 DEF Unsound, Sound
    <3> QED
      BY <1>1, <3>1, <3>2 DEF Turned, Copy!OK, Copy!ONE
  <2>2. CASE disk[current'].state # "missing"
    <3>1. /\ ifs' = InputOpened(NewInput, disk[current'])
          /\ IF ~Copy!Complete THEN copying' = "done" /\ copied' = Copy!ERR ELSE copying' = "copy"
      BY <1>4, <2>2, SameStreams DEF Copy!PushNext, Copy!Return
    <3>2. ifs' \in Input
      BY <2>f, <3>1, NewInputType, InputOpenedOutcome
    <3>4. CASE ~Copy!Complete
      BY <1>1, <3>1, <3>2, <3>4, IncompleteUnsound DEF Turned, Copy!OK, Copy!ERR
    <3>5. CASE Copy!Complete
      BY <1>1, <1>4, <3>1, <3>2, <3>5, <2>0, NewInputType DEF Turned, Files
    <3> QED
      BY <3>4, <3>5
  <2> QED
    BY <2>1, <2>2
<1> QED
  BY <1>3, <1>4

LEMMA TurnedInv ==
  ASSUME CopyInv, Turned
  PROVE  CopyInv'
<1> USE DEF CopyInv, CopyTypes
<1>1. /\ current' = current + 1 /\ disk' = disk /\ got' = got /\ ifs' \in Input
      /\ copying = "next" /\ current \in 0 .. NFiles /\ copying' \in {"copy", "done"}
  BY DEF Turned, Between
<1>2. CopyTypes'
  BY <1>1 DEF CopyTypes
<1>3. ASSUME Copy!Complete, NEW i \in Files, i < current' PROVE Checked(i)
  <2>1. CASE i < current
    BY <1>1, <2>1 DEF Behind
  <2>2. CASE i = current
    BY <1>1, <1>3, <2>2 DEF Between, Checked, Copy!Complete, Files
  <2> QED
    BY <1>1, <1>3, <2>1, <2>2 DEF Files
<1>4. \A i \in Files : Whole(i)' = Whole(i) /\ Checked(i)' = Checked(i)
  BY <1>1 DEF Whole, Checked
<1>5. \A i \in Files : i > current => got[i] = 0
  BY <1>1 DEF Ahead
<1>6. CASE copying' = "done" /\ copied' = Copy!OK /\ current' > NFiles /\ Copy!Complete
  <2>1. \A i \in Files : i < current'
    BY <1>1, <1>6 DEF Files
  <2>2. AllGiven'
    BY <1>3, <1>4, <1>6, <2>1 DEF AllGiven
  <2> QED
    BY <1>2, <1>6, <2>2 DEF Between, Copying, Behind, Ahead, CopyNoFalseAlarm, Copy!OK, Copy!ERR, Copy!ONE
<1>7. CASE copying' = "done" /\ copied' # Copy!OK /\ Unsound
  BY <1>1, <1>2, <1>7 DEF Between, Copying, Behind, Ahead, AllGiven, CopyNoFalseAlarm, Unsound, Sound, Files
<1>8. CASE /\ copying' = "copy" /\ current' <= NFiles /\ Copy!Complete
           /\ \E s \in Input : ifs' = InputOpened(s, disk[current'])
  <2>1. current' \in Files /\ got[current'] = 0
    BY <1>1, <1>5, <1>8 DEF Files
  <2>2. disk[current'] \in DiskFile
    BY <2>1, DiskTypes
  <2>3. IF Readable(disk[current']) THEN Reading(ifs', disk[current']) /\ ifs'.at = 0 ELSE ifs'.fail
    BY <1>8, <2>2, InputOpenedOutcome
  <2>4. Copying'
    BY <1>1, <2>1, <2>3 DEF Copying
  <2>5. Behind'
    BY <1>3, <1>4, <1>8 DEF Behind
  <2>6. Ahead'
    BY <1>1, <1>5 DEF Ahead, Files
  <2> QED
    BY <1>2, <1>8, <2>4, <2>5, <2>6 DEF Between, AllGiven, CopyNoFalseAlarm
<1> QED
  BY <1>6, <1>7, <1>8 DEF Turned

LEMMA RoundInv ==
  ASSUME CopyInv, Copy!CopyRound
  PROVE  CopyInv'
<1> USE DEF CopyInv, CopyTypes
<1> DEFINE f == disk[current]
<1> DEFINE r == InputRead(ifs, f, Block)
<1>1. /\ copying = "copy" /\ disk' = disk /\ current' = current /\ current \in Files
  BY DEF Copy!CopyRound, Copying
<1>2. f \in DiskFile /\ f.size \in Nat /\ f.stat \in Nat /\ got[current] \in Nat
  BY <1>1, DiskTypes
<1>3. \/ /\ ifs.eof /\ copying' = "next" /\ ifs' = ifs /\ got' = got
      \/ /\ ifs' = r.s /\ r.s.bad /\ got' = got /\ copying' = "done" /\ copied' # Copy!OK
      \/ /\ ifs' = r.s /\ ~r.s.bad /\ got' = [got EXCEPT ![current] = @ + r.n] /\ copying' = "copy"
      \/ /\ ifs' = r.s /\ ~r.s.bad /\ got' = got /\ copying' = "done" /\ copied' = Copy!REFUSED
  BY SameStreams DEF Copy!CopyRound, Copy!IsEof, Copy!ReadFailed, Copy!Units, Copy!Return,
                     Copy!OK, Copy!ERR, Copy!ONE
<1>4. /\ r.s \in Input
      /\ ifs.fail => r.n = 0 /\ r.s.fail
      /\ Reading(ifs, f) => r.n \in Nat /\ ReadWell(ifs, f, r)
  BY <1>2, InputReadOutcome
<1>5. CASE ifs.eof /\ copying' = "next" /\ ifs' = ifs /\ got' = got
  <2>1. Whole(current)
    BY <1>1, <1>5 DEF Copying, Whole, Reading
  <2>2. CopyTypes'
    BY <1>1, <1>5 DEF CopyTypes
  <2>3. \A i \in Files : Whole(i)' = Whole(i) /\ Checked(i)' = Checked(i)
    BY <1>1, <1>5 DEF Whole, Checked
  <2>4. Between'
    BY <1>1, <2>1, <2>3 DEF Between, Files
  <2> QED
    BY <1>1, <1>5, <2>2, <2>3, <2>4 DEF Copying, Behind, Ahead, AllGiven, CopyNoFalseAlarm
<1>6. CASE ifs' = r.s /\ r.s.bad /\ got' = got /\ copying' = "done" /\ copied' # Copy!OK
  <2>1. ~Sound(f)
    BY <1>1, <1>4, <1>6 DEF Copying, Readable, Sound, ReadWell
  <2> QED
    BY <1>1, <1>4, <1>6, <2>1 DEF Between, Copying, Behind, Ahead, AllGiven, CopyNoFalseAlarm, Sound, Files
<1>7. CASE ifs' = r.s /\ ~r.s.bad /\ got' = got /\ copying' = "done" /\ copied' = Copy!REFUSED
  BY <1>1, <1>4, <1>7 DEF Between, Copying, Behind, Ahead, AllGiven, CopyNoFalseAlarm,
                          Copy!REFUSED, Copy!OK, Copy!ERR, Copy!ONE
<1>8. CASE ifs' = r.s /\ ~r.s.bad /\ got' = [got EXCEPT ![current] = @ + r.n] /\ copying' = "copy"
  <2>1. /\ r.n \in Nat
        /\ IF Readable(f) THEN Reading(r.s, f) /\ got[current] + r.n = r.s.at
           ELSE r.s.fail /\ got[current] + r.n = 0
    <3>1. CASE Readable(f)
      <4>1. Reading(ifs, f) /\ got[current] = ifs.at
        BY <1>1, <3>1 DEF Copying
      <4> QED
        BY <1>4, <1>8, <3>1, <4>1 DEF ReadWell
    <3>2. CASE ~Readable(f)
      <4>1. ifs.fail /\ got[current] = 0
        BY <1>1, <3>2 DEF Copying
      <4>2. r.s.fail /\ r.n = 0
        BY <1>4, <4>1
      <4> QED
        BY <3>2, <4>1, <4>2
    <3> QED
      BY <3>1, <3>2
  <2>2. CopyTypes'
    BY <1>1, <1>4, <1>8, <2>1 DEF CopyTypes
  <2>3. Copying'
    BY <1>1, <1>2, <1>8, <2>1 DEF Copying
  <2>4. \A i \in Files : i # current => got'[i] = got[i]
    BY <1>8
  <2>5. Behind'
    BY <1>1, <2>4 DEF Behind, Checked, Whole, Files
  <2>6. Ahead'
    BY <1>1, <2>4 DEF Ahead, Files
  <2> QED
    BY <1>8, <2>2, <2>3, <2>5, <2>6 DEF Between, AllGiven, CopyNoFalseAlarm
<1> QED
  BY <1>3, <1>5, <1>6, <1>7, <1>8

LEMMA CopyNextInv ==
  ASSUME CopyInv, Copy!Next
  PROVE  CopyInv'
<1>1. CASE Copy!PullNext
  BY <1>1, PullEffect, TurnedInv
<1>2. CASE Copy!PushNext
  BY <1>2, PushEffect, TurnedInv
<1>3. CASE Copy!CopyRound
  BY <1>3, RoundInv
<1>4. CASE Copy!Finished
  BY <1>4 DEF Copy!Finished, Copy!vars, CopyInv, CopyTypes, Between, Copying, Behind, Ahead, AllGiven,
              CopyNoFalseAlarm, Checked, Whole
<1> QED
  BY <1>1, <1>2, <1>3, <1>4 DEF Copy!Next

LEMMA CopyKept == CopyInv /\ UNCHANGED copyVars => CopyInv'
BY DEF copyVars, CopyInv, CopyTypes, Between, Copying, Behind, Ahead, AllGiven, CopyNoFalseAlarm,
       Checked, Whole

----------------------------------------------------------------------------
(* EXTRACTING                                                              *)

Output == [open : BOOLEAN, fail : BOOLEAN, bad : BOOLEAN, disk : Nat, buffer : Nat]

(* The failures RoundTrip excepts.                                         *)
Spoiled == "close" \in failed \/ (extractor = "tool" /\ "open" \in failed)

ExtractTypes ==
  /\ size \in [Files -> Nat] /\ kept \in [Files -> Nat] /\ ofs \in Output
  /\ cur \in 0 .. NFiles /\ n \in Nat

Underway ==
  pc # "done" =>
    /\ ~ofs.bad
    /\ pc \in {"write", "close"} => cur \in Files
    /\ cur = 0 => ofs = NewOutput
Noted == ofs.fail \/ ofs.bad => failed # {}
OnDisk ==
  pc # "done" /\ ~Spoiled =>
    /\ ~ofs.fail
    /\ \A i \in Files : i < cur => kept[i] = size[i]
    /\ pc = "write" => ofs.open /\ n <= size[cur] /\ ofs.disk + ofs.buffer = n
    /\ pc = "close" => ofs.open /\ ofs.disk + ofs.buffer = size[cur]
    /\ pc = "next" /\ cur > 0 => ofs.disk + ofs.buffer = size[cur] /\ (ofs.open \/ ofs.buffer = 0)
AllKept == pc = "done" /\ ret = Extract!OK /\ ~Spoiled => kept = size

ExtractInv == ExtractTypes /\ Underway /\ Noted /\ OnDisk /\ AllKept /\ ExtractNoFalseAlarm

LEMMA SameOutput ==
  /\ Extract!NewOutput = NewOutput
  /\ \A s : Extract!OutputOpened(s) = OutputOpened(s)
  /\ \A s, k : Extract!OutputWrite(s, k) = OutputWrite(s, k)
  /\ \A s : Extract!OutputClosed(s) = OutputClosed(s)
BY DEF NewOutput, OutputOpened, OutputWrite, OutputClosed,
       Extract!NewOutput, Extract!OutputOpened, Extract!OutputWrite, Extract!OutputClosed

LEMMA NewOutputType == NewOutput \in Output /\ ~NewOutput.open /\ ~NewOutput.fail /\ ~NewOutput.bad
                       /\ NewOutput.disk = 0 /\ NewOutput.buffer = 0
BY DEF NewOutput, Output

(* Closing: what was buffered is on the disk, or its loss is noted.        *)
ClosedWell(s, c) ==
  /\ c \in Output /\ c.bad = s.bad /\ ~c.open
  /\ Extract!Failures(s, c) \subseteq {"close"}
  /\ c.fail => s.fail \/ "close" \in Extract!Failures(s, c)
  /\ ~c.fail => c.disk = IF s.open THEN s.disk + s.buffer ELSE s.disk
LEMMA ClosedOutcome ==
  ASSUME NEW s \in Output, NEW c \in Extract!ClosedIfOpen(s)
  PROVE  ClosedWell(s, c)
<1>1. CASE ~s.open
  <2>1. c = s
    BY <1>1 DEF Extract!ClosedIfOpen
  <2>2. Extract!Failures(s, c) = {}
    BY <2>1 DEF Extract!Failures, Extract!Failure, Output
  <2> QED
    BY <1>1, <2>1, <2>2 DEF ClosedWell
<1>2. CASE s.open
  <2>1. c \in OutputClosed(s)
    BY <1>2, SameOutput DEF Extract!ClosedIfOpen, Extract!Allowed
  <2>2. CASE c = [s EXCEPT !.open = FALSE, !.disk = @ + s.buffer, !.buffer = 0]
    <3>0. s.disk + s.buffer \in Nat
      BY DEF Output
    <3>1. c = [open |-> FALSE, fail |-> s.fail, bad |-> s.bad, disk |-> s.disk + s.buffer, buffer |-> 0]
      BY <2>2 DEF Output
    <3>3. c \in Output /\ c.bad = s.bad /\ ~c.open /\ c.fail = s.fail /\ c.disk = s.disk + s.buffer
      BY <3>0, <3>1 DEF Output
    <3>2. Extract!Failures(s, c) = {}
      BY <3>3 DEF Extract!Failures, Extract!Failure, Output
    <3> QED
      BY <1>2, <3>3, <3>2 DEF ClosedWell
  <2>3. CASE c = [s EXCEPT !.open = FALSE, !.buffer = 0, !.fail = TRUE]
    <3>1. c \in Output /\ c.bad = s.bad /\ ~c.open /\ c.fail
      BY <2>3 DEF Output
    <3>2. Extract!Failures(s, c) = IF s.fail THEN {} ELSE {"close"}
      BY <1>2, <3>1 DEF Extract!Failures, Extract!Failure, Output
    <3> QED
      BY <3>1, <3>2 DEF ClosedWell
  <2> QED
    BY <1>2, <2>1, <2>2, <2>3 DEF OutputClosed
<1> QED
  BY <1>1, <1>2

(* Opening a stream that is not open.                                      *)
OpenedWell(s, o) ==
  /\ o \in Output /\ (o.bad => s.bad)
  /\ Extract!Failures(s, o) \subseteq {"open"}
  /\ o.fail => s.fail \/ "open" \in Extract!Failures(s, o)
  /\ ~o.fail => o.open /\ o.disk = 0 /\ o.buffer = 0
LEMMA OpenedOutcome ==
  ASSUME NEW s \in Output, ~s.open, NEW o \in OutputOpened(s)
  PROVE  OpenedWell(s, o)
<1>1. CASE o = [NewOutput EXCEPT !.open = TRUE]
  <2>1. o \in Output /\ ~o.bad /\ ~o.fail /\ o.open /\ o.disk = 0 /\ o.buffer = 0
    BY <1>1 DEF Output, NewOutput
  <2>2. Extract!Failures(s, o) = {}
    BY <2>1 DEF Extract!Failures, Extract!Failure
  <2> QED
    BY <2>1, <2>2 DEF OpenedWell
<1>2. CASE o = [s EXCEPT !.fail = TRUE]
  <2>1. o \in Output /\ o.bad = s.bad /\ o.fail /\ ~o.open
    BY <1>2 DEF Output
  <2>2. Extract!Failures(s, o) = IF s.fail THEN {} ELSE {"open"}
    BY <2>1 DEF Extract!Failures, Extract!Failure, Output
  <2> QED
    BY <2>1, <2>2 DEF OpenedWell
<1> QED
  BY <1>1, <1>2 DEF OutputOpened

(* Writing: the data are in the buffer or on the disk, unless the failure  *)
(* is noted.                                                               *)
WrittenWell(s, o, k) ==
  /\ o \in Output /\ o.open = s.open /\ o.fail = s.fail
  /\ Extract!Failures(s, o) \subseteq {"write"}
  /\ o.bad => "write" \in Extract!Failures(s, o)
  /\ ~s.fail /\ ~o.bad => o.disk + o.buffer = s.disk + s.buffer + k
LEMMA WrittenOutcome ==
  ASSUME NEW s \in Output, ~s.bad, NEW k \in Nat, NEW o \in OutputWrite(s, k)
  PROVE  WrittenWell(s, o, k)
<1>1. CASE s.fail
  <2>1. o = s
    BY <1>1 DEF OutputWrite, Output
  <2>2. Extract!Failures(s, o) = {}
    BY <2>1 DEF Extract!Failures, Extract!Failure, Output
  <2> QED
    BY <1>1, <2>1, <2>2 DEF WrittenWell
<1>2. CASE ~s.fail
  <2>0. s.disk \in Nat /\ s.buffer \in Nat
    BY DEF Output
  <2>1. CASE o = [s EXCEPT !.bad = TRUE]
    <3>1. o \in Output /\ o.open = s.open /\ o.fail = s.fail /\ o.bad
      BY <2>1 DEF Output
    <3>2. Extract!Failures(s, o) = {"write"}
      BY <3>1 DEF Extract!Failures, Extract!Failure
    <3> QED
      BY <3>1, <3>2 DEF WrittenWell
  <2>2. CASE o = [s EXCEPT !.buffer = @ + k]
    <3>1. o = [open |-> s.open, fail |-> s.fail, bad |-> s.bad, disk |-> s.disk, buffer |-> s.buffer + k]
      BY <2>2 DEF Output
    <3>2. /\ o \in Output /\ o.open = s.open /\ o.fail = s.fail /\ ~o.bad
          /\ o.disk + o.buffer = s.disk + s.buffer + k
      BY <2>0, <3>1 DEF Output
    <3>3. Extract!Failures(s, o) = {}
      BY <1>2, <3>2 DEF Extract!Failures, Extract!Failure
    <3> QED
      BY <3>2, <3>3 DEF WrittenWell
  <2>3. CASE o = [s EXCEPT !.disk = @ + s.buffer + k, !.buffer = 0]
    <3>1. o = [open |-> s.open, fail |-> s.fail, bad |-> s.bad, disk |-> s.disk + s.buffer + k, buffer |-> 0]
      BY <2>3 DEF Output
    <3>2. /\ o \in Output /\ o.open = s.open /\ o.fail = s.fail /\ ~o.bad
          /\ o.disk + o.buffer = s.disk + s.buffer + k
      BY <2>0, <3>1 DEF Output
    <3>3. Extract!Failures(s, o) = {}
      BY <1>2, <3>2 DEF Extract!Failures, Extract!Failure
    <3> QED
      BY <3>2, <3>3 DEF WrittenWell
  <2> QED
    BY <1>2, <2>1, <2>2, <2>3 DEF OutputWrite
<1> QED
  BY <1>1, <1>2

(* A client returns: it has a reason to report an error, or has written    *)
(* everything, the file it leaves open included.                           *)
SpoiledBy(F) == "close" \in F \/ (extractor = "tool" /\ "open" \in F)
MayReturn(r, s, seen) ==
  /\ s \in Output /\ failed \subseteq seen
  /\ s.fail \/ s.bad \/ r = Extract!ERR => seen # {}
  /\ r = Extract!OK /\ ~SpoiledBy(seen) =>
       /\ ~s.fail /\ cur = NFiles
       /\ \A i \in Files : i < cur => kept[i] = size[i]
       /\ cur > 0 => size[cur] = IF s.open THEN s.disk + s.buffer ELSE s.disk
LEMMA ReturnInv ==
  ASSUME ExtractInv, NEW r, NEW s, NEW seen, MayReturn(r, s, seen),
         Extract!Return(r, s, seen), size' = size, extractor' = extractor
  PROVE  ExtractInv'
<1> USE DEF ExtractInv, ExtractTypes, MayReturn
<1>1. PICK c \in Extract!ClosedIfOpen(s) :
        ofs' = c /\ kept' = Extract!Keep(c) /\ failed' = seen \cup Extract!Failures(s, c)
  BY DEF Extract!Return
<1>2. pc' = "done" /\ ret' = r /\ cur' = cur /\ n' = n
  BY DEF Extract!Return
<1>3. ClosedWell(s, c)
  BY ClosedOutcome
<1>4. kept' \in [Files -> Nat]
  <2>1. c.disk \in Nat
    BY <1>3 DEF ClosedWell, Output
  <2> QED
    BY <1>1, <2>1 DEF Extract!Keep
<1>5. ExtractTypes'
  BY <1>1, <1>2, <1>3, <1>4 DEF ExtractTypes, ClosedWell
<1>6. Noted'
  BY <1>1, <1>3 DEF Noted, ClosedWell
<1>7. ExtractNoFalseAlarm'
  BY <1>1, <1>2 DEF ExtractNoFalseAlarm
<1>8. ASSUME r = Extract!OK, ~Spoiled' PROVE kept' = size
  <2>1. ~SpoiledBy(seen) /\ "close" \notin Extract!Failures(s, c)
    BY <1>1, <1>8 DEF Spoiled, SpoiledBy
  <2>2. ~c.fail /\ c.disk = IF s.open THEN s.disk + s.buffer ELSE s.disk
    BY <1>3, <1>8, <2>1 DEF ClosedWell
  <2>3. ASSUME NEW i \in Files PROVE kept'[i] = size[i]
    <3>1. CASE i < cur
      BY <1>1, <1>8, <2>1, <3>1 DEF Extract!Keep
    <3>2. CASE i = cur
      BY <1>1, <1>8, <2>1, <2>2, <3>2 DEF Extract!Keep, Files
    <3> QED
      BY <1>8, <2>1, <3>1, <3>2 DEF Files
  <2> QED
    BY <1>4, <2>3
<1> QED
  BY <1>2, <1>5, <1>6, <1>7, <1>8 DEF Underway, OnDisk, AllKept

LEMMA OpenNextInv ==
  ASSUME ExtractInv, Extract!OpenNext
  PROVE  ExtractInv'
<1> USE DEF ExtractInv, ExtractTypes
<1>1. pc = "next" /\ cur < NFiles /\ size' = size /\ extractor' = extractor
  BY DEF Extract!OpenNext
<1> DEFINE from(c) == IF extractor = "tool" THEN NewOutput ELSE c
<1> DEFINE opened(c, o) ==
        /\ kept' = Extract!Keep(c) /\ ofs' = o
        /\ failed' = failed \cup Extract!Failures(ofs, c) \cup Extract!Failures(from(c), o)
        /\ IF Extract!OpenFailed(o)
           THEN pc' = "done" /\ ret' = Extract!ERR /\ cur' = cur /\ n' = n
           ELSE pc' = "write" /\ cur' = cur + 1 /\ n' = 0 /\ ret' = ret
<1>a. PICK c \in Extract!ClosedIfOpen(ofs) : \E o \in OutputOpened(from(c)) : opened(c, o)
  BY SameOutput DEF Extract!OpenNext, Extract!BeforeOpen, Extract!Allowed
<1>2. PICK o \in OutputOpened(from(c)) : opened(c, o)
  BY <1>a
<1>3. ClosedWell(ofs, c) /\ ~ofs.bad
  BY <1>1, ClosedOutcome DEF Underway
<1>4. from(c) \in Output /\ ~from(c).open /\ ~from(c).bad
  BY <1>3, NewOutputType DEF ClosedWell
<1>5. OpenedWell(from(c), o)
  BY <1>4, OpenedOutcome
<1>6. ~o.bad /\ o \in Output
  BY <1>4, <1>5 DEF OpenedWell
<1>7. o.fail => failed' # {}
  <2>1. o.fail => from(c).fail \/ "open" \in Extract!Failures(from(c), o)
    BY <1>5 DEF OpenedWell
  <2>2. from(c).fail => ofs.fail \/ "close" \in Extract!Failures(ofs, c)
    BY <1>3, NewOutputType DEF ClosedWell
  <2> QED
    BY <1>2, <2>1, <2>2 DEF Noted
<1>8. kept' \in [Files -> Nat]
  <2>1. c.disk \in Nat
    BY <1>3 DEF ClosedWell, Output
  <2> QED
    BY <1>2, <2>1 DEF Extract!Keep
<1>9. Noted'
  BY <1>2, <1>6, <1>7 DEF Noted
<1>10. CASE Extract!OpenFailed(o)
  <2>1. pc' = "done" /\ ret' = Extract!ERR /\ cur' = cur /\ n' = n
    BY <1>2, <1>10, Zenon
  <2>2. o.fail
    BY <1>6, <1>10 DEF Extract!OpenFailed
  <2> QED
    BY <1>1, <1>2, <1>6, <1>7, <1>8, <1>9, <2>1, <2>2
       DEF Underway, OnDisk, AllKept, ExtractNoFalseAlarm, Extract!OK, Extract!ERR
<1>11. CASE ~Extract!OpenFailed(o)
  <2>1. pc' = "write" /\ cur' = cur + 1 /\ n' = 0 /\ ret' = ret
    BY <1>2, <1>11, Zenon
  <2>2. cur' \in Files /\ cur' # 0
    BY <1>1, <2>1 DEF Files
  <2>3. ASSUME ~Spoiled'
        PROVE  /\ ~o.fail /\ o.open /\ o.disk + o.buffer = 0
               /\ \A i \in Files : i < cur' => kept'[i] = size[i]
    <3>1. ~Spoiled /\ "close" \notin Extract!Failures(ofs, c)
          /\ (extractor = "tool" => "open" \notin Extract!Failures(from(c), o))
      BY <1>1, <1>2, <2>3 DEF Spoiled
    <3>2. ~ofs.fail /\ ~c.fail /\ c.disk = IF ofs.open THEN ofs.disk + ofs.buffer ELSE ofs.disk
      BY <1>1, <1>3, <3>1 DEF OnDisk, ClosedWell
    <3>3. ~o.fail
      BY <1>5, <1>11, <3>1, NewOutputType DEF OpenedWell, Extract!OpenFailed
    <3>4. cur > 0 => c.disk = size[cur]
      BY <1>1, <3>1, <3>2 DEF OnDisk, Output
    <3>5. ASSUME NEW i \in Files, i < cur' PROVE kept'[i] = size[i]
      <4>1. CASE i < cur
        BY <1>1, <1>2, <3>1, <4>1 DEF OnDisk, Extract!Keep
      <4>2. CASE i = cur
        BY <1>2, <3>4, <4>2 DEF Extract!Keep, Files
      <4> QED
        BY <2>1, <3>5, <4>1, <4>2 DEF Files
    <3> QED
      BY <1>5, <3>3, <3>5 DEF OpenedWell
  <2>4. OnDisk'
    <3>1. ofs' = o /\ size' = size /\ size[cur'] \in Nat
      BY <1>1, <1>2, <2>2
    <3>2. ~Spoiled' => /\ ~ofs'.fail /\ ofs'.open /\ ofs'.disk + ofs'.buffer = n' /\ n' <= size'[cur']
                       /\ \A i \in Files : i < cur' => kept'[i] = size'[i]
      BY <2>1, <2>3, <3>1
    <3> QED
      BY <2>1, <3>2 DEF OnDisk
  <2>5. ExtractTypes'
    BY <1>1, <1>2, <1>6, <1>8, <2>1, <2>2 DEF ExtractTypes, Files
  <2>6. Underway'
    BY <1>2, <1>6, <2>2 DEF Underway
  <2>7. AllKept' /\ ExtractNoFalseAlarm'
    BY <1>2, <2>1 DEF AllKept, ExtractNoFalseAlarm
  <2> QED
    BY <1>9, <2>4, <2>5, <2>6, <2>7
<1> QED
  BY <1>10, <1>11

LEMMA FinishInv ==
  ASSUME ExtractInv, Extract!Finish
  PROVE  ExtractInv'
<1> USE DEF ExtractInv, ExtractTypes
<1>1. /\ pc = "next" /\ cur = NFiles /\ Extract!Return(Extract!OK, ofs, failed)
      /\ size' = size /\ extractor' = extractor
  BY DEF Extract!Finish
<1>2. MayReturn(Extract!OK, ofs, failed)
  BY <1>1 DEF MayReturn, Noted, OnDisk, Spoiled, SpoiledBy, Underway, Extract!OK, Extract!ERR, Output
<1> QED
  BY <1>1, <1>2, ReturnInv

LEMMA ReaderErrorInv ==
  ASSUME ExtractInv, Extract!ReaderError
  PROVE  ExtractInv'
<1> USE DEF ExtractInv, ExtractTypes
<1>1. /\ Extract!Return(Extract!ERR, ofs, failed \cup {"reader"})
      /\ size' = size /\ extractor' = extractor
  BY DEF Extract!ReaderError
<1>2. MayReturn(Extract!ERR, ofs, failed \cup {"reader"})
  BY DEF MayReturn, Extract!OK, Extract!ERR
<1> QED
  BY <1>1, <1>2, ReturnInv

LEMMA WriteBlockInv ==
  ASSUME ExtractInv, Extract!WriteBlock
  PROVE  ExtractInv'
<1> USE DEF ExtractInv, ExtractTypes
<1>1. pc = "write" /\ n < size[cur] /\ size' = size /\ extractor' = extractor /\ cur \in Files /\ ~ofs.bad
  BY DEF Extract!WriteBlock, Underway
<1>2. Extract!ToRead \in Nat /\ n + Extract!ToRead <= size[cur]
  BY <1>1 DEF Extract!ToRead
<1>3. PICK s \in OutputWrite(ofs, Extract!ToRead) :
        IF Extract!WriteFailed(s)
        THEN Extract!Return(Extract!ERR, s, failed \cup Extract!Failures(ofs, s))
        ELSE /\ failed' = failed \cup Extract!Failures(ofs, s) /\ ofs' = s /\ n' = n + Extract!ToRead
             /\ cur' = cur /\ pc' = pc /\ kept' = kept /\ ret' = ret
  BY SameOutput DEF Extract!WriteBlock, Extract!Allowed
<1>4. WrittenWell(ofs, s, Extract!ToRead)
  BY <1>1, <1>2, WrittenOutcome
<1>5. CASE s.bad
  <2>1. MayReturn(Extract!ERR, s, failed \cup Extract!Failures(ofs, s))
    BY <1>4, <1>5 DEF MayReturn, WrittenWell, Extract!OK, Extract!ERR
  <2>2. Extract!Return(Extract!ERR, s, failed \cup Extract!Failures(ofs, s))
    BY <1>3, <1>5 DEF Extract!WriteFailed
  <2> QED
    BY <1>1, <2>1, <2>2, ReturnInv
<1>6. CASE ~s.bad
  <2>1. /\ failed' = failed \cup Extract!Failures(ofs, s) /\ ofs' = s /\ n' = n + Extract!ToRead
        /\ cur' = cur /\ pc' = pc /\ kept' = kept /\ ret' = ret
    BY <1>3, <1>6 DEF Extract!WriteFailed
  <2>2. Spoiled' = Spoiled
    BY <1>1, <1>4, <2>1 DEF Spoiled, WrittenWell
  <2>3. Noted'
    BY <1>4, <1>6, <2>1 DEF Noted, WrittenWell
  <2>4. OnDisk'
    BY <1>1, <1>2, <1>4, <1>6, <2>1, <2>2 DEF OnDisk, WrittenWell, Output
  <2>5. ExtractTypes'
    BY <1>1, <1>2, <1>4, <2>1 DEF ExtractTypes, WrittenWell
  <2>6. Underway'
    BY <1>1, <1>6, <2>1 DEF Underway, Files
  <2> QED
    BY <1>1, <2>1, <2>3, <2>4, <2>5, <2>6 DEF AllKept, ExtractNoFalseAlarm
<1> QED
  BY <1>5, <1>6

LEMMA FileWrittenInv ==
  ASSUME ExtractInv, Extract!FileWritten
  PROVE  ExtractInv'
<1> USE DEF ExtractInv, ExtractTypes
<1>1. /\ pc = "write" /\ n >= size[cur] /\ pc' \in {"close", "next"} /\ cur \in Files
      /\ UNCHANGED <<size, extractor, ofs, cur, n, kept, failed, ret>>
  BY DEF Extract!FileWritten, Underway
<1>2. OnDisk'
  BY <1>1 DEF OnDisk, Spoiled
<1>3. ExtractTypes' /\ Noted'
  BY <1>1 DEF ExtractTypes, Noted
<1>4. Underway'
  BY <1>1 DEF Underway, Files
<1> QED
  BY <1>1, <1>2, <1>3, <1>4 DEF AllKept, ExtractNoFalseAlarm

LEMMA CloseFileInv ==
  ASSUME ExtractInv, Extract!CloseFile
  PROVE  ExtractInv'
<1> USE DEF ExtractInv, ExtractTypes
<1>1. pc = "close" /\ size' = size /\ extractor' = extractor /\ cur \in Files /\ ~ofs.bad
  BY DEF Extract!CloseFile, Underway
<1>2. PICK s \in Extract!Allowed(ofs, OutputClosed(ofs)) :
        IF s.bad
        THEN Extract!Return(Extract!ERR, s, failed \cup Extract!Failures(ofs, s))
        ELSE /\ failed' = failed \cup Extract!Failures(ofs, s) /\ ofs' = s /\ pc' = "next"
             /\ cur' = cur /\ n' = n /\ kept' = kept /\ ret' = ret
  BY SameOutput DEF Extract!CloseFile
<1>3. ofs.open => ClosedWell(ofs, s)
  <2>1. ofs.open => s \in Extract!ClosedIfOpen(ofs)
    BY SameOutput DEF Extract!ClosedIfOpen
  <2> QED
    BY <2>1, ClosedOutcome
<1>4. ~ofs.open => /\ s \in Output /\ s.bad = ofs.bad /\ ~s.open
                   /\ (ofs.fail \/ "open" \in Extract!Failures(ofs, s))
  <2>1. SUFFICES ASSUME ~ofs.open
                 PROVE  /\ s \in Output /\ s.bad = ofs.bad /\ ~s.open
                        /\ (ofs.fail \/ "open" \in Extract!Failures(ofs, s))
    OBVIOUS
  <2>2. s = [ofs EXCEPT !.fail = TRUE]
    BY <2>1 DEF Extract!Allowed, OutputClosed
  <2>3. s \in Output /\ s.bad = ofs.bad /\ ~s.open /\ s.fail
    BY <2>1, <2>2 DEF Output
  <2>4. Extract!Failures(ofs, s) = IF ofs.fail THEN {} ELSE {"open"}
    BY <2>1, <2>3 DEF Extract!Failures, Extract!Failure, Output
  <2> QED
    BY <2>3, <2>4
<1>5. s \in Output /\ ~s.bad /\ ~s.open
  BY <1>1, <1>3, <1>4 DEF ClosedWell
<1>6. /\ failed' = failed \cup Extract!Failures(ofs, s) /\ ofs' = s /\ pc' = "next"
      /\ cur' = cur /\ n' = n /\ kept' = kept /\ ret' = ret
  BY <1>2, <1>5
<1>7. Noted'
  BY <1>3, <1>4, <1>5, <1>6 DEF Noted, ClosedWell
<1>8. ASSUME ~Spoiled'
      PROVE  /\ ~s.fail /\ s.disk + s.buffer = size[cur] /\ s.buffer = 0
             /\ \A i \in Files : i < cur => kept[i] = size[i]
  <2>1. ~Spoiled /\ "close" \notin Extract!Failures(ofs, s)
    BY <1>1, <1>6, <1>8 DEF Spoiled
  <2>2. ofs.open /\ ~ofs.fail /\ ofs.disk + ofs.buffer = size[cur]
    BY <1>1, <2>1 DEF OnDisk
  <2>3. ~s.fail /\ s.disk = size[cur]
    BY <1>3, <2>1, <2>2 DEF ClosedWell
  <2>4. s.buffer = 0
    BY <1>2, <2>2 DEF Extract!Allowed, OutputClosed, Output
  <2> QED
    BY <1>1, <2>1, <2>3, <2>4 DEF OnDisk
<1>9. OnDisk'
  BY <1>1, <1>6, <1>8 DEF OnDisk
<1>10. ExtractTypes'
  BY <1>1, <1>5, <1>6 DEF ExtractTypes
<1>11. Underway'
  BY <1>1, <1>5, <1>6 DEF Underway, Files
<1> QED
  BY <1>6, <1>7, <1>9, <1>10, <1>11 DEF AllKept, ExtractNoFalseAlarm

LEMMA ExtractKept == ExtractInv /\ UNCHANGED extractVars => ExtractInv'
BY DEF extractVars, ExtractInv, ExtractTypes, Underway, Noted, OnDisk, AllKept, ExtractNoFalseAlarm, Spoiled

LEMMA ExtractNextInv ==
  ASSUME ExtractInv, Extract!Next
  PROVE  ExtractInv'
<1>1. CASE Extract!OpenNext
  BY <1>1, OpenNextInv
<1>2. CASE Extract!Finish
  BY <1>2, FinishInv
<1>3. CASE Extract!WriteBlock
  BY <1>3, WriteBlockInv
<1>4. CASE Extract!FileWritten
  BY <1>4, FileWrittenInv
<1>5. CASE Extract!CloseFile
  BY <1>5, CloseFileInv
<1>6. CASE Extract!ReaderError
  BY <1>6, ReaderErrorInv
<1>7. CASE Extract!Done
  BY <1>7, ExtractKept DEF Extract!Done, Extract!vars, extractVars
<1> QED
  BY <1>1, <1>2, <1>3, <1>4, <1>5, <1>6, <1>7 DEF Extract!Next

----------------------------------------------------------------------------
(* MOVING TO ANOTHER CONTAINER                                             *)

ToolTypes ==
  /\ size \in [Files -> Nat] /\ moved \in [Files -> Nat]
  /\ file \in 0 .. NFiles /\ announced \in Int /\ count \in Nat

Early == stage \notin {"next", "copy", "verify", "seal", "done"}
Whence == (verified => payload = "intact") /\ (Early => ~verified) /\ (stage = "seal" => verified)
Unsealed == stage # "done" => ~sealed
Untouched == Early => trouble = {} /\ file = 0 /\ \A i \in Files : moved[i] = 0

(* The file the tool is at is as it was announced, and was announced as it *)
(* is.                                                                     *)
Whole2(i) == moved[i] = size[i] /\ announced = size[i]
Moving ==
  payload = "intact" /\ stage # "done" =>
    /\ \A i \in Files : (i < file => moved[i] = size[i]) /\ (i > file => moved[i] = 0)
    /\ stage = "copy" => /\ file \in Files /\ announced = size[file] /\ count = moved[file]
                         /\ count <= announced
    /\ stage \in {"next", "verify", "seal"} /\ file > 0 => Whole2(file)
    /\ stage \in {"verify", "seal"} => file = NFiles

ToolInv == ToolTypes /\ Whence /\ Unsealed /\ Untouched /\ Moving /\ ReEncryptExact

(* A step that only looks for keys.                                        *)
LEMMA KeyStepInv ==
  ASSUME ToolInv, Early, Early' \/ stage' \in {"next", "done"},
         UNCHANGED <<size, file, announced, count, moved, sealed, verified>>,
         payload' = payload \/ (stage = "idle" /\ stage' = "lock" /\ trouble' = trouble),
         \/ trouble' = trouble
         \/ /\ stage' = "done"
            /\ \E why \in {"lock", "recipients", "lookup", "reader", "writer"} : trouble' = trouble \cup {why}
  PROVE  ToolInv'
<1> USE DEF ToolInv, ToolTypes
<1>1. file = 0 /\ ~sealed /\ ~verified /\ stage # "done" /\ trouble = {} /\ \A i \in Files : moved[i] = 0
  BY DEF Early, Unsealed, Untouched, Whence
<1>2. ToolTypes' /\ file' = 0 /\ ~sealed' /\ ~verified' /\ \A i \in Files : moved'[i] = 0
  BY <1>1 DEF ToolTypes
<1>3. Whence' /\ Unsealed'
  BY <1>2 DEF Whence, Unsealed, Early
<1>4. trouble' \cap {"short", "incomplete"} = {}
  BY <1>1
<1>5. ReEncryptExact'
  BY <1>2, <1>4 DEF ReEncryptExact, Tool!ReEncryptExact
<1>6. Moving'
  <2>1. stage' \notin {"copy", "verify", "seal"}
    BY DEF Early
  <2> QED
    BY <1>2, <2>1 DEF Moving, Files
<1>7. Untouched'
  BY <1>1, <1>2 DEF Untouched, Early
<1> QED
  BY <1>2, <1>3, <1>5, <1>6, <1>7

LEMMA KeysInv ==
  ASSUME ToolInv,
         Tool!Start \/ Tool!FindLock \/ Tool!FillRecipients \/ Tool!OpenOld \/ Tool!NowEncrypt
           \/ Tool!BeginEncryption
  PROVE  ToolInv'
<1> USE DEF Tool!fileVars, Tool!endVars, Tool!keyVars, Tool!Go, Tool!Fail, Early
<1>1. CASE Tool!Start
  BY <1>1, KeyStepInv DEF Tool!Start
<1>2. CASE Tool!FindLock
  BY <1>2, KeyStepInv DEF Tool!FindLock
<1>3. CASE Tool!FillRecipients
  BY <1>3, KeyStepInv DEF Tool!FillRecipients
<1>4. CASE Tool!OpenOld
  BY <1>4, KeyStepInv DEF Tool!OpenOld
<1>5. CASE Tool!NowEncrypt
  BY <1>5, KeyStepInv DEF Tool!NowEncrypt
<1>6. CASE Tool!BeginEncryption
  <2>1. /\ stage = "begin"
        /\ UNCHANGED <<size, file, announced, count, moved, sealed, verified, payload>>
    BY <1>6 DEF Tool!BeginEncryption
  <2>2. \/ Tool!Go("next")
        \/ Tool!Fail("lookup")
        \/ Tool!Fail("writer")
    BY <1>6, Zenon DEF Tool!BeginEncryption
  <2> QED
    BY <2>1, <2>2, KeyStepInv
<1> QED
  BY <1>1, <1>2, <1>3, <1>4, <1>5, <1>6

(* A call that fails for a reason that is not found in the container.      *)
LEMMA FailInv ==
  ASSUME ToolInv, stage # "done", Tool!Fail("reader") \/ Tool!Fail("writer"),
         UNCHANGED <<size, payload, file, announced, count, moved, verified>>, ~sealed'
  PROVE  ToolInv'
<1> USE DEF ToolInv, ToolTypes
<1>1. stage' = "done" /\ (payload' = "intact" => trouble' \cap {"short", "incomplete"} = {})
  BY DEF Tool!Fail, ReEncryptExact, Tool!ReEncryptExact
<1> QED
  BY <1>1 DEF Whence, Unsealed, Untouched, Moving, Early, ReEncryptExact, Tool!ReEncryptExact

LEMMA NextFileInv ==
  ASSUME ToolInv, Tool!NextFile
  PROVE  ToolInv'
<1> USE DEF ToolInv, ToolTypes
<1>1. /\ stage = "next" /\ file < NFiles /\ UNCHANGED <<size, payload, moved, sealed, verified>> /\ ~sealed
  BY DEF Tool!NextFile, Tool!endVars, Unsealed
<1>2. CASE (Tool!Fail("reader") \/ Tool!Fail("writer")) /\ UNCHANGED <<file, announced, count>>
  BY <1>1, <1>2, FailInv
<1>3. CASE /\ file' = file + 1 /\ announced' \in Tool!SizeRead(file') /\ count' = 0
           /\ IF Tool!Complete THEN Tool!Go("copy") ELSE Tool!Fail("incomplete")
  <2>1. file' \in Files /\ size[file'] \in Nat
    BY <1>1, <1>3 DEF Files
  <2>2. announced' \in Int /\ (payload = "intact" => announced' = size[file'])
    BY <1>3, <2>1 DEF Tool!SizeRead
  <2>3. payload = "intact" => Tool!Complete
    BY <1>1 DEF Moving, Whole2, Tool!Complete
  <2>4. ToolTypes'
    BY <1>1, <1>3, <2>1, <2>2 DEF ToolTypes, Files
  <2>5. stage' \in {"copy", "done"} /\ (payload = "intact" => stage' = "copy" /\ trouble' = trouble)
    BY <1>3, <2>3 DEF Tool!Go, Tool!Fail
  <2>6. ASSUME payload = "intact"
        PROVE  \A i \in Files : (i < file' => moved[i] = size[i]) /\ (i > file' => moved[i] = 0)
    <3>1. ASSUME NEW i \in Files, i < file' PROVE moved[i] = size[i]
      <4>1. CASE i < file
        BY <1>1, <2>6, <4>1 DEF Moving
      <4>2. CASE i = file
        BY <1>1, <2>6, <4>2 DEF Moving, Whole2, Files
      <4> QED
        BY <1>3, <3>1, <4>1, <4>2 DEF Files
    <3>2. ASSUME NEW i \in Files, i > file' PROVE moved[i] = 0
      BY <1>1, <1>3, <2>6, <3>2 DEF Moving, Files
    <3> QED
      BY <3>1, <3>2
  <2>7. payload = "intact" => moved[file'] = 0 /\ announced' = size[file'] /\ size[file'] \in Nat
    BY <1>1, <1>3, <2>1, <2>2 DEF Moving, Files
  <2>8. Moving'
    BY <1>1, <1>3, <2>1, <2>5, <2>6, <2>7 DEF Moving
  <2> QED
    BY <1>1, <2>4, <2>5, <2>8 DEF Whence, Unsealed, Untouched, Early, ReEncryptExact, Tool!ReEncryptExact
<1> QED
  BY <1>2, <1>3, Zenon DEF Tool!NextFile

LEMMA EndOfFilesInv ==
  ASSUME ToolInv, Tool!EndOfFiles
  PROVE  ToolInv'
<1> USE DEF ToolInv, ToolTypes
<1>1. /\ stage = "next" /\ stage' = "verify" /\ (file = NFiles \/ payload # "intact") /\ trouble' = trouble
      /\ UNCHANGED <<size, payload, file, announced, count, moved, sealed, verified>>
  BY DEF Tool!EndOfFiles, Tool!Go, Tool!fileVars, Tool!endVars
<1>2. Moving'
  BY <1>1 DEF Moving, Whole2
<1> QED
  BY <1>1, <1>2 DEF Whence, Unsealed, Untouched, Early, ReEncryptExact, Tool!ReEncryptExact

LEMMA CopyBlockInv ==
  ASSUME ToolInv, Tool!CopyBlock
  PROVE  ToolInv'
<1> USE DEF ToolInv, ToolTypes
<1>1. /\ stage = "copy" /\ count < announced /\ ~sealed
      /\ UNCHANGED <<size, payload, file, announced, sealed, verified>>
  BY DEF Tool!CopyBlock, Tool!endVars, Unsealed
<1>2. CASE (Tool!Fail("reader") \/ Tool!Fail("writer")) /\ UNCHANGED <<count, moved>>
  BY <1>1, <1>2, FailInv
<1>3. ASSUME NEW k \in {Tool!ToCopy} \cup (IF payload = "intact" THEN {} ELSE 1 .. Tool!ToCopy),
             count' = count + k, moved' = [moved EXCEPT ![file] = @ + k], Tool!Go("copy")
      PROVE  ToolInv'
  <2>1. Tool!ToCopy \in Nat /\ Tool!ToCopy <= announced - count
    BY <1>1 DEF Tool!ToCopy
  <2>2. k \in Nat /\ k <= announced - count
    BY <2>1
  <2>3. moved' \in [Files -> Nat]
    <3>1. CASE file \in Files
      <4>1. moved[file] + k \in Nat
        BY <2>2, <3>1
      <4> QED
        BY <1>3, <4>1
    <3>2. CASE file \notin Files
      BY <1>3, <3>2
    <3> QED
      BY <3>1, <3>2
  <2>4. ToolTypes'
    BY <1>1, <1>3, <2>2, <2>3 DEF ToolTypes
  <2>5. stage' = "copy" /\ trouble' = trouble
    BY <1>3 DEF Tool!Go
  <2>6. ASSUME payload = "intact"
        PROVE  /\ file \in Files /\ count' = moved'[file] /\ count' <= announced
               /\ \A i \in Files : i # file => moved'[i] = moved[i]
    <3>1. file \in Files /\ count = moved[file]
      BY <1>1, <2>6 DEF Moving
    <3> QED
      BY <1>3, <2>2, <3>1
  <2>7. Moving'
    BY <1>1, <2>5, <2>6 DEF Moving, Files
  <2> QED
    BY <1>1, <2>4, <2>5, <2>7 DEF Whence, Unsealed, Untouched, Early, ReEncryptExact, Tool!ReEncryptExact
<1> QED
  BY <1>2, <1>3, Zenon DEF Tool!CopyBlock

LEMMA FileCopiedInv ==
  ASSUME ToolInv, Tool!FileCopied
  PROVE  ToolInv'
<1> USE DEF ToolInv, ToolTypes
<1>1. /\ stage = "copy" /\ (count >= announced \/ payload # "intact") /\ ~sealed
      /\ UNCHANGED <<size, payload, file, announced, count, moved, sealed, verified>>
      /\ IF count = announced THEN Tool!Go("next") ELSE Tool!Fail("short")
  BY DEF Tool!FileCopied, Tool!CopiedWhole, Tool!fileVars, Tool!endVars, Unsealed
<1>2. stage' \in {"next", "done"}
  BY <1>1 DEF Tool!Go, Tool!Fail
<1>3. payload = "intact" => Whole2(file) /\ stage' = "next" /\ trouble' = trouble
  BY <1>1 DEF Moving, Whole2, Tool!Go
<1>4. Moving'
  BY <1>1, <1>2, <1>3 DEF Moving, Whole2
<1> QED
  BY <1>1, <1>2, <1>3, <1>4 DEF Whence, Unsealed, Untouched, Early, ReEncryptExact, Tool!ReEncryptExact

LEMMA FinishDecryptionInv ==
  ASSUME ToolInv, Tool!FinishDecryption
  PROVE  ToolInv'
<1> USE DEF ToolInv, ToolTypes
<1>1. stage = "verify" /\ ~sealed /\ UNCHANGED <<size, payload, file, announced, count, moved, sealed>>
  BY DEF Tool!FinishDecryption, Tool!fileVars, Unsealed
<1>2. CASE Tool!Fail("reader") /\ verified' = verified
  BY <1>1, <1>2, FailInv
<1>3. CASE payload = "intact" /\ verified' = TRUE /\ Tool!Go("seal")
  <2>1. stage' = "seal" /\ trouble' = trouble
    BY <1>3 DEF Tool!Go
  <2>2. Moving'
    BY <1>1, <1>3, <2>1 DEF Moving, Whole2
  <2> QED
    BY <1>1, <1>3, <2>1, <2>2 DEF Whence, Unsealed, Untouched, Early, ReEncryptExact, Tool!ReEncryptExact
<1> QED
  BY <1>2, <1>3, Zenon DEF Tool!FinishDecryption

(* The last step: everything has been moved, and verified.                 *)
LEMMA FinishEncryptionInv ==
  ASSUME ToolInv, Tool!FinishEncryption
  PROVE  ToolInv'
<1> USE DEF ToolInv, ToolTypes
<1>1. /\ stage = "seal" /\ stage' = "done" /\ UNCHANGED <<size, payload, file, announced, count, moved, verified>>
      /\ ~sealed
  BY DEF Tool!FinishEncryption, Tool!Fail, Tool!fileVars, Unsealed
<1>2. payload = "intact" /\ verified
  BY <1>1 DEF Whence
<1>3. file = NFiles /\ (\A i \in Files : i < file => moved[i] = size[i])
      /\ (file > 0 => moved[file] = size[file] /\ announced = size[file])
  BY <1>1, <1>2 DEF Moving, Whole2
<1>4. moved = size
  <2>1. \A i \in Files : moved[i] = size[i]
    BY <1>3 DEF Files
  <2> QED
    BY <2>1
<1>5. Tool!Complete
  BY <1>3 DEF Tool!Complete
<1>6. trouble' = trouble \/ trouble' = trouble \cup {"writer"}
  BY <1>5 DEF Tool!FinishEncryption, Tool!Fail
<1> QED
  BY <1>1, <1>2, <1>4, <1>6 DEF Whence, Unsealed, Untouched, Moving, Early, ReEncryptExact, Tool!ReEncryptExact

LEMMA ToolNextInv ==
  ASSUME ToolInv, Tool!Next
  PROVE  ToolInv'
BY KeysInv, NextFileInv, EndOfFilesInv, CopyBlockInv, FileCopiedInv, FinishDecryptionInv,
   FinishEncryptionInv DEF Tool!Next

LEMMA ToolKept == ToolInv /\ UNCHANGED <<size, toolVars>> => ToolInv'
BY DEF toolVars, ToolInv, ToolTypes, Whence, Unsealed, Untouched, Moving, Whole2, Early,
       ReEncryptExact, Tool!ReEncryptExact

----------------------------------------------------------------------------
(* THE COMPOSITION                                                         *)

(* Nothing follows before the container is stored; then it is what was     *)
(* given, and the copy is over.                                            *)
Connected ==
  /\ ~stored => cur = 0 /\ pc = "next" /\ stage = "idle"
  /\ stored => copying = "done" /\ copied = Copy!OK /\ size = got

Inv == CopyInv /\ ExtractInv /\ ToolInv /\ Connected

LEMMA InitInv == Init => Inv
<1> SUFFICES ASSUME Init PROVE Inv
  OBVIOUS
<1>1. CopyInv
  BY CopyInit
<1>2. /\ ofs = NewOutput /\ cur = 0 /\ n = 0 /\ pc = "next" /\ ret = Extract!OK
      /\ kept = [i \in Files |-> 0] /\ failed = {} /\ size = [i \in Files |-> 0]
  BY SameOutput DEF Init, Extract!Init, Files
<1>3. ExtractInv
  BY <1>2, NewOutputType DEF ExtractInv, ExtractTypes, Underway, Noted, OnDisk, AllKept, ExtractNoFalseAlarm,
                             Extract!OK, Extract!ERR, Files
<1>4. /\ payload = "intact" /\ stage = "idle" /\ file = 0 /\ announced = 0 /\ count = 0
      /\ moved = [i \in Files |-> 0] /\ sealed = FALSE /\ verified = FALSE /\ trouble = {}
  BY DEF Init, Tool!Init, Files
<1>5. ToolInv
  BY <1>2, <1>4 DEF ToolInv, ToolTypes, Whence, Unsealed, Untouched, Moving, Early,
                    ReEncryptExact, Tool!ReEncryptExact, Files
<1> QED
  BY <1>1, <1>2, <1>3, <1>4, <1>5 DEF Inv, Connected, Init

LEMMA NextInv ==
  ASSUME Inv, [Next]_vars
  PROVE  Inv'
<1> USE DEF Inv
<1>1. CASE CopyStep
  <2>1. CopyInv' /\ ExtractInv' /\ ToolInv'
    BY <1>1, CopyNextInv, ExtractKept, ToolKept DEF CopyStep, extractVars
  <2>2. ASSUME stored PROVE UNCHANGED <<copying, copied, got>>
    BY <1>1, <2>2 DEF CopyStep, Connected, Copy!Next, Copy!PullNext, Copy!PushNext, Copy!CopyRound,
                      Copy!Finished, Copy!vars
  <2> QED
    BY <1>1, <2>1, <2>2 DEF CopyStep, Connected, extractVars, toolVars
<1>2. CASE Store
  <2>1. /\ ~stored /\ stored' /\ size' = got /\ copying = "done" /\ copied = Copy!OK
        /\ UNCHANGED <<copyVars, extractor, ofs, cur, n, pc, kept, failed, ret, toolVars>>
    BY <1>2 DEF Store
  <2>2. CopyInv'
    BY <2>1, CopyKept
  <2>3. cur = 0 /\ pc = "next" /\ stage = "idle" /\ got \in [Files -> Nat]
    BY <2>1 DEF Connected, CopyInv, CopyTypes
  <2>4. ExtractInv'
    BY <2>1, <2>3 DEF ExtractInv, ExtractTypes, Underway, Noted, OnDisk, AllKept, ExtractNoFalseAlarm,
                      Spoiled, Files
  <2>5. ToolInv'
    BY <2>1, <2>3 DEF ToolInv, ToolTypes, Whence, Unsealed, Untouched, Moving, Early, toolVars,
                      ReEncryptExact, Tool!ReEncryptExact, Files
  <2> QED
    BY <2>1, <2>2, <2>4, <2>5 DEF Connected, copyVars
<1>3. CASE ExtractStep
  <2>1. stored /\ UNCHANGED <<copyVars, stored, toolVars>> /\ size' = size
    BY <1>3 DEF ExtractStep, Extract!Next, Extract!OpenNext, Extract!Finish, Extract!WriteBlock,
                Extract!FileWritten, Extract!CloseFile, Extract!ReaderError, Extract!Done, Extract!vars
  <2>2. CopyInv' /\ ToolInv'
    BY <2>1, CopyKept, ToolKept
  <2>3. ExtractInv'
    BY <1>3, ExtractNextInv DEF ExtractStep
  <2> QED
    BY <2>1, <2>2, <2>3 DEF Connected, copyVars
<1>4. CASE ReEncryptStep
  <2>1. stored /\ UNCHANGED <<copyVars, extractVars, stored>> /\ Tool!Next
    BY <1>4 DEF ReEncryptStep
  <2>2. CopyInv' /\ ExtractInv' /\ ToolInv'
    BY <2>1, CopyKept, ExtractKept, ToolNextInv
  <2> QED
    BY <2>1, <2>2 DEF Connected, copyVars, extractVars
<1>5. CASE UNCHANGED vars
  <2>1. UNCHANGED copyVars /\ UNCHANGED extractVars /\ UNCHANGED toolVars /\ UNCHANGED size /\ stored' = stored
    BY <1>5 DEF vars, extractVars
  <2>2. CopyInv' /\ ExtractInv' /\ ToolInv'
    BY <2>1, CopyKept, ExtractKept, ToolKept
  <2> QED
    BY <2>1, <2>2 DEF Connected, copyVars, extractVars, toolVars
<1> QED
  BY <1>1, <1>2, <1>3, <1>4, <1>5 DEF Next

LEMMA TransferInvariant == Spec => []Inv
<1>1. Init => Inv
  BY InitInv
<1>2. Inv /\ [Next]_vars => Inv'
  BY NextInv
<1> QED
  BY <1>1, <1>2, PTL DEF Spec

----------------------------------------------------------------------------
(* THE RECIPIENTS OF THE NEW CONTAINER                                     *)

(* Who asks by index asks for the old recipient as long as the old         *)
(* container is opened, and for a new one when the new one is begun.       *)
BeforeSwitch == stage \in {"idle", "lock", "fill", "fmk", "add", "open", "mode"}
Chosen       == stage \in {"fmk", "add", "open", "mode", "begin"}
AllFound     == \A i \in DOMAIN infos : infos[i] # "lost"

SecretsInv ==
  /\ infos \in Seq(Tool!Kinds)
  /\ BeforeSwitch => mode = "decrypt"
  /\ stage = "begin" => mode = "encrypt"
  /\ BeforeSwitch \/ stage = "begin" => keys = <<>>
  /\ stage = "idle" => trouble = {}
  /\ Chosen /\ AllFound => rcpts = [i \in DOMAIN infos |-> i]
  /\ OwnSecrets

LEMMA SameCardinality == \A S : Tool!Cardinality(S) = Cardinality(S)
BY DEF Tool!Cardinality, Cardinality

(* With nobody left out the recipients are numbered as they are listed.    *)
LEMMA InOrderAll ==
  ASSUME NEW m \in Nat
  PROVE  Tool!InOrder(1 .. m) = [i \in 1 .. m |-> i]
<1> DEFINE nth(k) == CHOOSE i \in 1 .. m : Tool!Cardinality({j \in 1 .. m : j <= i}) = k
<1>1. Tool!Cardinality(1 .. m) = m
  BY FS_Interval, SameCardinality
<1>2. ASSUME NEW k \in 1 .. m
      PROVE  nth(k) = k
  <2>1. ASSUME NEW i \in 1 .. m
        PROVE  Tool!Cardinality({j \in 1 .. m : j <= i}) = i
    <3>1. {j \in 1 .. m : j <= i} = 1 .. i
      OBVIOUS
    <3>2. Cardinality(1 .. i) = i
      BY FS_Interval
    <3> QED BY <3>1, <3>2, SameCardinality
  <2> QED BY <2>1
<1>3. Tool!InOrder(1 .. m) = [k \in 1 .. Tool!Cardinality(1 .. m) |-> nth(k)]
  BY DEF Tool!InOrder
<1> HIDE DEF nth
<1> QED BY <1>1, <1>2, <1>3

LEMMA SecretsBegin ==
  ASSUME SecretsInv, Tool!BeginEncryption
  PROVE  SecretsInv'
<1>1. /\ stage = "begin" /\ mode = "encrypt" /\ keys = <<>> /\ stage' \in {"next", "done"}
      /\ UNCHANGED <<infos, mode, rcpts>>
  BY DEF SecretsInv, Tool!BeginEncryption, Tool!Go, Tool!Fail
<1>2. ASSUME AllFound
      PROVE  /\ "lookup" \notin trouble'
             /\ \A k \in DOMAIN keys' : keys'[k] \in {rcpts'[k], Tool!Public}
  <2>1. rcpts = [i \in DOMAIN infos |-> i] /\ "lookup" \notin trouble
    BY <1>1, <1>2 DEF SecretsInv, Chosen, AllFound, OwnSecrets, Tool!OwnSecrets
  <2>2. \A k \in DOMAIN rcpts : Tool!getRcpt(k) = k /\ rcpts[k] = k
    BY <1>1, <2>1 DEF Tool!getRcpt
  <2>3. \A k \in DOMAIN rcpts : Tool!Symmetric(infos[rcpts[k]]) =>
                                   Tool!HasSecret(infos[rcpts[k]], Tool!getRcpt(k))
    BY <2>1, <2>2 DEF Tool!Symmetric, Tool!HasSecret
  <2>4. CASE keys' = [k \in DOMAIN rcpts |-> IF Tool!Symmetric(infos[rcpts[k]]) THEN Tool!getRcpt(k)
                                             ELSE Tool!Public] /\ Tool!Go("next")
    BY <1>1, <2>1, <2>2, <2>4 DEF Tool!Go
  <2>5. CASE Tool!Fail("writer") /\ UNCHANGED keys
    BY <1>1, <2>1, <2>5 DEF Tool!Fail
  <2> QED BY <2>3, <2>4, <2>5 DEF Tool!BeginEncryption
<1> QED BY <1>1, <1>2 DEF SecretsInv, BeforeSwitch, Chosen, AllFound, OwnSecrets, Tool!OwnSecrets

LEMMA SecretsOpening ==
  ASSUME SecretsInv,
         Tool!Start \/ Tool!FindLock \/ Tool!FillRecipients \/ Tool!OpenOld \/ Tool!NowEncrypt
  PROVE  SecretsInv'
<1> USE DEF Tool!Go, Tool!Fail, BeforeSwitch, Chosen, AllFound, OwnSecrets, Tool!OwnSecrets
<1>1. CASE Tool!Start
  BY <1>1, ToolAssumption DEF Tool!Start, SecretsInv
<1>2. CASE Tool!FindLock
  BY <1>2 DEF Tool!FindLock, SecretsInv
<1>3. CASE Tool!FillRecipients
  <2>1. AllFound => rcpts' = [i \in DOMAIN infos |-> i]
    <3>1. infos \in Seq(Tool!Kinds)
      BY DEF SecretsInv
    <3>2. Len(infos) \in Nat /\ DOMAIN infos = 1 .. Len(infos)
      BY <3>1
    <3>3. ASSUME AllFound PROVE {i \in DOMAIN infos : infos[i] # "lost"} = 1 .. Len(infos)
      BY <3>2, <3>3
    <3> QED BY <1>3, <3>2, <3>3, InOrderAll DEF Tool!FillRecipients
  <2> QED BY <1>3, <2>1 DEF Tool!FillRecipients, SecretsInv
<1>4. CASE Tool!OpenOld
  <2>1. stage \in {"fmk", "add", "open"} /\ mode = "decrypt" /\ UNCHANGED Tool!keyVars
    BY <1>4 DEF Tool!OpenOld, SecretsInv
  <2>2. Tool!getRcpt(lock) = Tool!Old
    BY <2>1 DEF Tool!getRcpt
  <2>3. stage' \in {"add", "open", "mode", "done"}
        /\ \/ trouble' = trouble
           \/ trouble' \in {trouble \cup {"reader"}, trouble \cup {"writer"}}
    BY <1>4, <2>2 DEF Tool!OpenOld
  <2> QED BY <2>1, <2>3 DEF SecretsInv, Tool!keyVars
<1>5. CASE Tool!NowEncrypt
  BY <1>5 DEF Tool!NowEncrypt, Tool!SwitchMode, SecretsInv
<1> QED BY <1>1, <1>2, <1>3, <1>4, <1>5

LEMMA SecretsStep ==
  ASSUME SecretsInv, Tool!Next
  PROVE  SecretsInv'
<1> USE DEF Tool!Go, Tool!Fail, Tool!keyVars
<1>1. CASE \/ Tool!NextFile \/ Tool!EndOfFiles \/ Tool!CopyBlock \/ Tool!FileCopied
           \/ Tool!FinishDecryption \/ Tool!FinishEncryption
  <2>1. /\ stage \in {"next", "copy", "verify", "seal"}
        /\ stage' \in {"next", "copy", "verify", "seal", "done"}
        /\ UNCHANGED <<infos, mode, rcpts, keys>>
    BY <1>1 DEF Tool!NextFile, Tool!EndOfFiles, Tool!CopyBlock, Tool!FileCopied,
       Tool!FinishDecryption, Tool!FinishEncryption
  <2>2. \/ trouble' = trouble
        \/ \E why \in {"reader", "writer", "incomplete", "short"} : trouble' = trouble \cup {why}
    BY <1>1 DEF Tool!NextFile, Tool!EndOfFiles, Tool!CopyBlock, Tool!FileCopied,
       Tool!FinishDecryption, Tool!FinishEncryption
  <2> QED BY <2>1, <2>2 DEF SecretsInv, BeforeSwitch, Chosen, AllFound, OwnSecrets, Tool!OwnSecrets
<1> QED BY <1>1, SecretsBegin, SecretsOpening DEF Tool!Next

LEMMA SecretsInvariant == Spec => []SecretsInv
<1>1. Init => SecretsInv
  BY DEF Init, Tool!Init, SecretsInv, BeforeSwitch, Chosen, AllFound, OwnSecrets, Tool!OwnSecrets
<1>2. ASSUME SecretsInv, [Next]_vars
      PROVE  SecretsInv'
  <2>1. CASE UNCHANGED toolVars
    BY <1>2, <2>1 DEF toolVars, SecretsInv, BeforeSwitch, Chosen, AllFound, OwnSecrets, Tool!OwnSecrets
  <2> QED BY <1>2, <2>1, SecretsStep DEF Next, CopyStep, Store, ExtractStep, ReEncryptStep, vars
<1> QED BY <1>1, <1>2, PTL DEF Spec

----------------------------------------------------------------------------
(* THEOREMS                                                                *)

(* What file_size says of a file that cannot be read is its size.          *)
UnreadableMeasured == \A f \in DiskFiles : ~Readable(f) => f.stat = f.size

LEMMA CheckedGiven ==
  ASSUME CopyTypes, Strict, UnreadableMeasured, NEW i \in Files, Checked(i)
  PROVE  got[i] = disk[i].size
<1>1. disk[i] \in DiskFiles
  BY DEF CopyTypes
<1> QED
  BY <1>1 DEF UnreadableMeasured, Checked, Whole

(* A client of a writer that compares sizes has, when it returns OK, given *)
(* it every file whole.                                                    *)
THEOREM CopiesExact ==
  ASSUME Strict, UnreadableMeasured
  PROVE  Spec => []CopyExact
<1>1. Inv => CopyExact
  BY CheckedGiven DEF Inv, CopyInv, AllGiven, CopyExact, Files
<1> QED
  BY <1>1, TransferInvariant, PTL

(* It reports an error only if a file is missing, unreadable, breaks or    *)
(* has changed, and the writer's refusals.                                 *)
THEOREM CopiesNoFalseAlarm == Spec => []CopyNoFalseAlarm
<1>1. Inv => CopyNoFalseAlarm
  BY DEF Inv, CopyInv
<1> QED
  BY <1>1, TransferInvariant, PTL

(* An extraction reports an error only after a failure.                    *)
THEOREM ExtractsNoFalseAlarm == Spec => []ExtractNoFalseAlarm
<1>1. Inv => ExtractNoFalseAlarm
  BY DEF Inv, ExtractInv
<1> QED
  BY <1>1, TransferInvariant, PTL

(* From the disk through a container to the disk: both returned OK, and    *)
(* the files are the same, but for the failures that are not reported.     *)
THEOREM TransferRoundTrip ==
  ASSUME Strict, UnreadableMeasured
  PROVE  Spec => []RoundTrip
<1>1. ASSUME Inv, pc = "done", ret = Extract!OK, "close" \notin failed,
             extractor = "tool" => "open" \notin failed
      PROVE  kept = [i \in 1 .. NFiles |-> disk[i].size]
  <2>1. kept = size /\ stored /\ kept \in [Files -> Nat]
    BY <1>1 DEF Inv, ExtractInv, ExtractTypes, AllKept, Spoiled, Connected
  <2>2. size = got /\ \A i \in Files : Checked(i)
    BY <1>1, <2>1 DEF Inv, Connected, CopyInv, AllGiven
  <2>3. \A i \in Files : got[i] = disk[i].size
    BY <1>1, <2>2, CheckedGiven DEF Inv, CopyInv
  <2> QED
    BY <2>1, <2>2, <2>3 DEF Files
<1>2. Inv => RoundTrip
  BY <1>1 DEF RoundTrip
<1> QED
  BY <1>2, TransferInvariant, PTL

(* A container made by ReEncrypt is only finished with the files of an     *)
(* intact, verified one, whole.                                            *)
THEOREM ReEncryptsExact == Spec => []ReEncryptExact
<1>1. Inv => ReEncryptExact
  BY DEF Inv, ToolInv
<1> QED
  BY <1>1, TransferInvariant, PTL

(* And its locks are each derived from the secret of its own recipient,    *)
(* if none of the list was left out.                                       *)
THEOREM ReEncryptsOwnSecrets == Spec => []OwnSecrets
<1>1. SecretsInv => OwnSecrets
  BY DEF SecretsInv
<1> QED
  BY <1>1, SecretsInvariant, PTL

----------------------------------------------------------------------------
(* THE LOOPS END                                                           *)

(* How many calls of next are left, and how much of the current file the   *)
(* loop has still to see: its data, the read that meets the end, the round *)
(* that notices.                                                           *)
FilesLeft == IF copying = "done" THEN 0 ELSE NFiles + 2 - current
UnitsLeft ==
  IF copying # "copy" THEN 0 ELSE IF ifs.eof THEN 1 ELSE 2 + disk[current].size - ifs.at

AllReadable == \A i \in Files : disk[i].state # "unreadable"

(* Both are numbers, so no list of files and no file lets them fall for    *)
(* ever.                                                                   *)
Counted == AllReadable => FilesLeft \in Nat /\ UnitsLeft \in Nat

(* Each round of a loop lowers the first, or the second with the first     *)
(* unchanged.                                                              *)
Lowers == FilesLeft' < FilesLeft \/ (FilesLeft' = FilesLeft /\ UnitsLeft' < UnitsLeft)
RoundsLower == CopyStep /\ copying # "done" /\ AllReadable => Lowers

(* A file that is missing is never read.                                   *)
Present == copying = "copy" => disk[current].state # "missing"

LEMMA PresentStep ==
  ASSUME Present, [Next]_vars
  PROVE  Present'
<1>1. CASE Copy!PullNext
  <2>1. disk' = disk /\ (copying' = "copy" => disk[current'].state # "missing")
    BY <1>1 DEF Copy!PullNext, Copy!Return
  <2> QED BY <2>1 DEF Present
<1>2. CASE Copy!PushNext
  <2>1. disk' = disk /\ (copying' = "copy" => disk[current'].state # "missing")
    BY <1>2 DEF Copy!PushNext, Copy!Return
  <2> QED BY <2>1 DEF Present
<1>3. CASE Copy!CopyRound
  <2>1. disk' = disk /\ current' = current /\ copying = "copy"
    BY <1>3 DEF Copy!CopyRound
  <2> QED BY <2>1 DEF Present
<1>4. CASE UNCHANGED copyVars
  BY <1>4 DEF Present, copyVars
<1>5. CASE CopyStep
  <2>1. Copy!Finished => UNCHANGED copyVars
    BY DEF Copy!Finished, Copy!vars, copyVars
  <2> QED BY <1>1, <1>2, <1>3, <1>4, <1>5, <2>1 DEF CopyStep, Copy!Next
<1>6. CASE Store \/ ExtractStep \/ ReEncryptStep \/ UNCHANGED vars
  <2>1. UNCHANGED copyVars
    BY <1>6 DEF Store, ExtractStep, ReEncryptStep, vars
  <2> QED BY <1>4, <2>1
<1> QED BY <1>5, <1>6 DEF Next

LEMMA CountedHolds ==
  ASSUME CopyInv, Present
  PROVE  Counted
<1> SUFFICES ASSUME AllReadable PROVE FilesLeft \in Nat /\ UnitsLeft \in Nat
  BY DEF Counted
<1>1. current \in 0 .. NFiles + 1 /\ ifs.at \in Nat
  BY DEF CopyInv, CopyTypes, Input
<1>2. FilesLeft \in Nat
  BY <1>1 DEF FilesLeft
<1>3. CASE copying = "copy"
  <2>1. current \in Files /\ disk[current] \in DiskFile /\ disk[current].size \in Nat
    BY <1>3, DiskTypes DEF CopyInv, Copying
  <2>2. Readable(disk[current])
    BY <1>3, <2>1 DEF AllReadable, Present, Readable, DiskFile
  <2>3. ifs.at <= disk[current].size
    BY <1>3, <2>2 DEF CopyInv, Copying, Reading
  <2> QED BY <1>1, <1>2, <2>1, <2>3 DEF UnitsLeft
<1> QED BY <1>2, <1>3 DEF UnitsLeft

(* A call of next, whatever comes of it.                                   *)
LEMMA NextLowers ==
  ASSUME CopyInv, Copy!PullNext \/ Copy!PushNext
  PROVE  FilesLeft' < FilesLeft
<1>1. Turned
  BY PullEffect, PushEffect
<1>2. /\ copying = "next" /\ current' = current + 1 /\ current \in 0 .. NFiles
      /\ copying' \in {"copy", "done"}
  BY <1>1 DEF Turned, CopyInv, CopyTypes, Between
<1> QED BY <1>2 DEF FilesLeft

(* A read of a file that was opened moves on or meets its end.             *)
LEMMA ReadMovesOn ==
  ASSUME NEW s \in Input, NEW f \in DiskFile, Reading(s, f), ~s.eof,
         NEW r, r = InputRead(s, f, Block), ~r.s.bad
  PROVE  r.s.eof \/ (~r.s.eof /\ r.s.at = s.at + Block)
<1>1. ~(s.eof \/ s.fail \/ s.bad)
  BY DEF Reading
<1>2. CASE s.at + Block <= f.size
  <2>1. r.s = [s EXCEPT !.at = @ + Block]
    BY <1>1, <1>2 DEF InputRead
  <2> QED BY <1>1, <2>1 DEF Input
<1>3. CASE ~(s.at + Block <= f.size) /\ f.state = "breaks"
  <2>1. r.s = [s EXCEPT !.bad = TRUE]
    BY <1>1, <1>3 DEF InputRead
  <2> QED BY <2>1 DEF Input
<1>4. CASE ~(s.at + Block <= f.size) /\ f.state # "breaks"
  <2>1. r.s = [s EXCEPT !.at = f.size, !.eof = TRUE, !.fail = TRUE]
    BY <1>1, <1>4 DEF InputRead
  <2> QED BY <2>1 DEF Input
<1> QED BY <1>2, <1>3, <1>4

LEMMA RoundLowers ==
  ASSUME CopyInv, Present, AllReadable, Copy!CopyRound
  PROVE  Lowers
<1>1. /\ copying = "copy" /\ disk' = disk /\ current' = current /\ current \in Files
  BY DEF CopyInv, Copy!CopyRound, Copying
<1>2. PICK f, r : f = disk[current] /\ r = InputRead(ifs, f, Block)
  OBVIOUS
<1>3. f \in DiskFile /\ f.size \in Nat /\ ifs \in Input /\ ifs.at \in Nat /\ current \in 0 .. NFiles + 1
  BY <1>1, <1>2, DiskTypes DEF CopyInv, CopyTypes, Input
<1>4. Readable(f)
  BY <1>1, <1>2, <1>3 DEF AllReadable, Present, Readable, DiskFile
<1>5. Reading(ifs, f)
  BY <1>1, <1>2, <1>4 DEF CopyInv, Copying
<1>6. \/ ifs.eof /\ copying' = "next"
      \/ copying' = "done"
      \/ ~ifs.eof /\ ifs' = r.s /\ ~r.s.bad /\ copying' = "copy"
  BY <1>1, <1>2, SameStreams DEF Copy!CopyRound, Copy!IsEof, Copy!ReadFailed, Copy!Return
<1>7. CASE ifs.eof /\ copying' = "next"
  BY <1>1, <1>7 DEF Lowers, FilesLeft, UnitsLeft
<1>8. CASE copying' = "done"
  BY <1>1, <1>3, <1>8 DEF Lowers, FilesLeft
<1>9. CASE ~ifs.eof /\ ifs' = r.s /\ ~r.s.bad /\ copying' = "copy"
  <2>1. FilesLeft' = FilesLeft
    BY <1>1, <1>9 DEF FilesLeft
  <2>2. UnitsLeft = 2 + f.size - ifs.at /\ ifs.at <= f.size
    BY <1>1, <1>2, <1>5, <1>9 DEF UnitsLeft, Reading
  <2>3. r.s.eof \/ (~r.s.eof /\ r.s.at = ifs.at + Block)
    BY <1>2, <1>3, <1>5, <1>9, ReadMovesOn
  <2>4. UnitsLeft' = IF r.s.eof THEN 1 ELSE 2 + f.size - r.s.at
    BY <1>1, <1>2, <1>9 DEF UnitsLeft
  <2>5. UnitsLeft' < UnitsLeft
    BY <1>3, <2>2, <2>3, <2>4
  <2> QED BY <2>1, <2>5 DEF Lowers
<1> QED BY <1>6, <1>7, <1>8, <1>9

(* The loops of writeAll and writer_push end for any list of files of any  *)
(* size, if every file that exists can be opened: each round lowers a pair *)
(* of numbers, of which the second may rise only when the first falls.     *)
THEOREM CopyRoundsEnd == Spec => []Counted /\ [][RoundsLower]_vars
<1>1. Init => Present
  BY DEF Init, Copy!Init, Present
<1>2. Present /\ [Next]_vars => Present'
  BY PresentStep
<1>3. Inv /\ Present => Counted
  BY CountedHolds DEF Inv
<1>4. Inv /\ Present /\ [Next]_vars => [RoundsLower]_vars
  <2> SUFFICES ASSUME Inv, Present, CopyStep, copying # "done", AllReadable
               PROVE  Lowers
    BY DEF RoundsLower
  <2>1. \/ Copy!PullNext \/ Copy!PushNext
        \/ Copy!CopyRound
    BY DEF CopyStep, Copy!Next, Copy!Finished
  <2> QED BY <2>1, NextLowers, RoundLowers DEF Inv, Lowers
<1> QED BY <1>1, <1>2, <1>3, <1>4, TransferInvariant, PTL DEF Spec
=============================================================================
