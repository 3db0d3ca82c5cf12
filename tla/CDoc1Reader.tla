----------------------------- MODULE CDoc1Reader ----------------------------
(***************************************************************************)
(* CDoc1Reader (CDoc1Reader.cpp), with DDOCReader and XMLReader: the       *)
(* payload of a CDOC 1 container is one file, or a DDOC document with      *)
(* several, possibly compressed.                                           *)
(*                                                                         *)
(* beginDecryption decrypts everything into memory, nextFile and readData  *)
(* serve it from there; decrypt hands each file to the application's       *)
(* consumer as it is found.  Both verify the tag after the whole payload   *)
(* was parsed.                                                             *)
(***************************************************************************)
EXTENDS Integers, Sequences, SequencesExt

CONSTANTS
  Containers,   \* the containers that may be read, see Container
  MaxAttempts,  \* bound: calls of beginDecryption and decrypt that try a key
  MaxCalls      \* bound: calls of nextFile after the last file

(* files: the units of data of each file; ddoc, zlib: how they are stored; *)
(* broken: after cut files the XML is malformed, or the compressed data    *)
(* is, or it exceeds the limit; intact: the payload is the one that was    *)
(* sealed; value: CipherValue is missing, shorter than nonce and tag, or   *)
(* there.                                                                  *)
Container ==
  [files : Seq(Nat), ddoc : BOOLEAN, zlib : BOOLEAN, broken : BOOLEAN, cut : Nat,
   intact : BOOLEAN, value : {"none", "short", "full"}]

ASSUME ContainersAssumption ==
  /\ \A c \in Containers :
       /\ c \in Container /\ c.cut <= Len(c.files)
       /\ ~c.ddoc => Len(c.files) = 1
       /\ c.broken => c.ddoc \/ c.zlib
  /\ MaxAttempts \in Nat /\ MaxCalls \in Nat

OK == "ok"  ERR == "err"  END == "end"

VARIABLES
  doc,    \* the container
  rsa,    \* is_rsa: the last key came from an RSA lock
  files,  \* files
  fpos,   \* f_pos
  src,    \* src: the file it refers to, and its position; 0 is none
  pc,     \* "idle", or the step of the call that is running
  view,   \* what that call finds in the payload
  ret,    \* what the last call returned
  out,    \* the consumer of decrypt: the files it was given
  delays,   \* history: calls of rsaOracleThrottle
  attempts, \* history: calls that tried a key
  last,     \* history: the last call that tried a key, and whether it was the right one
  fault,    \* history: that call met an error of the consumer
  served    \* history: what nextFile and readData have returned since then

vars == <<doc, rsa, files, fpos, src, pc, view, ret, out, delays, attempts, last, fault, served>>

(* A file as it was found: its number in the container, the units of data  *)
(* found, and whether they are those of the container.                     *)
Found(n, got, exact) == [n |-> n, got |-> got, exact |-> exact]
NoView == [files |-> <<>>, error |-> FALSE, read |-> FALSE]
None   == [file |-> 0, pos |-> 0]

Init ==
  /\ doc \in Containers /\ rsa = FALSE
  /\ files = <<>> /\ fpos = -1 /\ src = None
  /\ pc = "idle" /\ view = NoView /\ ret = OK /\ out = <<>>
  /\ delays = 0 /\ attempts = 0 /\ last = [call |-> "none", key |-> FALSE] /\ fault = FALSE
  /\ served = <<>>

----------------------------------------------------------------------------
(* WHAT IS FOUND IN A PAYLOAD                                              *)
(* files: what the parser finds; error: then the source reports an error;  *)
(* read: it has read the payload to its end.                               *)

Exact(c, n) == [i \in 1 .. n |-> Found(i, c.files[i], TRUE)]

(* Mutant: the parser stops at the last file.                              *)
DdocViewsLazy(c, authentic) ==
  IF authentic THEN {[files |-> Exact(c, c.cut), error |-> FALSE, read |-> r] : r \in BOOLEAN}
  ELSE {[files |-> <<>>, error |-> FALSE, read |-> FALSE]}

(* XMLReader::read returns false at the end as well as at an error, and    *)
(* DDOCReader::parse does not ask which it was.  The file in which the     *)
(* error falls may be found with no data.                                  *)
DdocViews(c, authentic) ==
  LET n == Len(c.files)
  IN  IF ~authentic THEN
        {[files |-> [i \in 1 .. k |-> Found(i, c.files[i], i <= e)], error |-> FALSE, read |-> r]
           : k \in 0 .. n, e \in 0 .. n, r \in BOOLEAN}
      ELSE IF ~c.broken THEN {[files |-> Exact(c, n), error |-> FALSE, read |-> TRUE]}
      ELSE {[files |-> fs, error |-> FALSE, read |-> r]
              : r \in BOOLEAN,
                fs \in {Exact(c, c.cut)} \cup
                       (IF c.cut < n THEN {Append(Exact(c, c.cut), Found(c.cut + 1, 0, FALSE))} ELSE {})}

(* writeAll ends at the end of the source or with its error.               *)
FileViews(c, authentic) ==
  LET Parts == {[files |-> <<Found(1, k, FALSE)>>, error |-> TRUE, read |-> r]
                  : k \in 0 .. c.files[1], r \in BOOLEAN}
      Whole(exact) == [files |-> <<Found(1, c.files[1], exact)>>, error |-> FALSE, read |-> TRUE]
  IN  IF ~authentic THEN {Whole(TRUE), Whole(FALSE)} \cup (IF c.zlib THEN Parts ELSE {})
      ELSE IF c.broken THEN Parts ELSE {Whole(TRUE)}

Authentic(key) == key /\ doc.intact
Views(key) == IF doc.ddoc THEN DdocViews(doc, Authentic(key)) ELSE FileViews(doc, Authentic(key))

----------------------------------------------------------------------------
Reader == <<files, fpos, src>>

Refuse == ret' = ERR /\ UNCHANGED <<doc, rsa, Reader, pc, view, out, delays, attempts, last, fault, served>>

(* A failure sets nothing, unless deriving the key of another lock than an *)
(* RSA one fails: is_rsa is FALSE before that.                             *)
GetFMK(isRSA, ok) ==
  /\ pc = "idle"
  /\ \/ (ok \/ ~isRSA) /\ rsa' = isRSA
     \/ ~ok /\ UNCHANGED rsa
  /\ ret' = IF ok THEN OK ELSE ERR
  /\ UNCHANGED <<doc, Reader, pc, view, out, delays, attempts, last, fault, served>>

(* Mutant: f_pos is not looked at.                                         *)
ParsedFilesOnly == files # <<>>

(* Container is already parsed.                                            *)
Parsed == files # <<>> \/ fpos # -1

(* report_failure.                                                         *)
ReportFailure == delays' = IF rsa THEN delays + 1 ELSE delays

(* decryptData up to where f is called: call is beginDecryption or         *)
(* decrypt, and then is its first step.  The source may fail to seek.      *)
DecryptData(call, key, then) ==
  /\ pc = "idle"
  /\ \/ Refuse
     \/ /\ ~Parsed /\ doc.value # "none" /\ attempts < MaxAttempts
        /\ attempts' = attempts + 1 /\ last' = [call |-> call, key |-> key]
        /\ fault' = FALSE /\ served' = <<>>
        /\ IF doc.value = "short"
           THEN /\ ret' = ERR /\ ReportFailure
                /\ UNCHANGED <<pc, view, out>>
           ELSE /\ pc' = then /\ view' \in Views(key)
                /\ out' = IF call = "decrypt" THEN <<>> ELSE out
                /\ UNCHANGED <<ret, delays>>
        /\ UNCHANGED <<doc, rsa, Reader>>

BeginDecryption(key) == DecryptData("begin", key, "begin")
Decrypt(key)         == DecryptData("decrypt", key, IF doc.ddoc THEN "end" ELSE "open")

(* Mutant: a failure is only reported when nothing was decrypted.          *)
ReturnUndelayed(r) == pc' = "idle" /\ view' = NoView /\ ret' = r /\ UNCHANGED delays

Return(r) ==
  /\ pc' = "idle" /\ view' = NoView /\ ret' = r
  /\ IF r = OK THEN UNCHANGED delays ELSE ReportFailure

(* Mutant: the tag is not verified.                                        *)
VerifiesUnchecked == TRUE

(* dec.close().                                                            *)
Verifies == view.read /\ Authentic(last.key)

(* beginDecryption: everything is parsed into files, then verified; files  *)
(* stay when that fails.                                                   *)
Collect ==
  /\ pc = "begin"
  /\ files' = IF view.error THEN files ELSE view.files
  /\ Return(IF ~view.error /\ Verifies THEN OK ELSE ERR)
  /\ UNCHANGED <<doc, rsa, fpos, src, out, attempts, last, fault, served>>

----------------------------------------------------------------------------
(* DECRYPT, WITH THE CALLS OF THE CONSUMER                                 *)

Rest == UNCHANGED <<doc, rsa, Reader, attempts, last, served>>

(* The consumer returns an error.                                          *)
Fault == fault' = TRUE /\ Return(ERR) /\ UNCHANGED out

Goto(label) == pc' = label /\ UNCHANGED <<view, ret, delays, fault>>

(* The next file of a DDOC, if there is one.                               *)
NextDataFile ==
  /\ pc = "end" /\ doc.ddoc /\ Len(out) < Len(view.files)
  /\ Goto("open") /\ UNCHANGED out /\ Rest

Open ==
  /\ pc = "open"
  /\ \/ /\ out' = Append(out, Found(view.files[Len(out) + 1].n, 0, FALSE))
        /\ Goto("write")
     \/ Fault
  /\ Rest

Current == view.files[Len(out)]

(* A DDOC's file is written at once, the only file block by block.         *)
Write ==
  /\ pc = "write"
  /\ LET f == Current
         g == out[Len(out)].got
         n == IF doc.ddoc THEN f.got ELSE g + 1
     IN  IF doc.ddoc \/ g < f.got
         THEN \/ /\ out' = [out EXCEPT ![Len(out)].got = n]
                 /\ Goto(IF doc.ddoc THEN "close" ELSE "write")
              \/ Fault
         ELSE /\ IF view.error THEN Return(ERR) /\ UNCHANGED fault ELSE Goto("close")
              /\ UNCHANGED out
  /\ Rest

(* The file is complete only when the consumer was told so.                *)
Close ==
  /\ pc = "close"
  /\ \/ out' = [out EXCEPT ![Len(out)].exact = Current.exact] /\ Goto("end")
     \/ Fault
  /\ Rest

(* The end of the payload: for a DDOC the consumer is asked for errors.    *)
Verify ==
  /\ pc = "end" /\ Len(out) = Len(view.files)
  /\ \/ Return(IF Verifies THEN OK ELSE ERR) /\ UNCHANGED <<out, fault>>
     \/ doc.ddoc /\ Fault
  /\ Rest

----------------------------------------------------------------------------
(* PULL INTERFACE                                                          *)

FinishDecryption ==
  /\ pc = "idle"
  /\ src' = None /\ files' = <<>> /\ ret' = OK /\ last' = [last EXCEPT !.call = "finish"]
  /\ UNCHANGED <<doc, rsa, fpos, pc, view, out, delays, attempts, fault, served>>

NextFile ==
  /\ pc = "idle"
  /\ IF files = <<>> THEN Refuse
     ELSE LET i == fpos + 2
          IN  /\ fpos < Len(files) + MaxCalls
              /\ fpos' = fpos + 1
              /\ IF i \in DOMAIN files
                 THEN /\ src' = [file |-> i, pos |-> 0] /\ ret' = OK
                      /\ served' = Append(served, [files[i] EXCEPT !.got = 0])
                 ELSE ret' = END /\ UNCHANGED <<src, served>>
              /\ UNCHANGED <<doc, rsa, files, pc, view, out, delays, attempts, last, fault>>

ReadData(n) ==
  /\ pc = "idle"
  /\ IF src = None THEN Refuse
     ELSE LET left == files[src.file].got - src.pos
              k == IF n < left THEN n ELSE left
          IN  /\ src' = [src EXCEPT !.pos = @ + k]
              /\ served' = [served EXCEPT ![Len(served)].got = @ + k] /\ ret' = OK
              /\ UNCHANGED <<doc, rsa, files, fpos, pc, view, out, delays, attempts, last, fault>>

Next ==
  \/ \E isRSA, ok \in BOOLEAN : GetFMK(isRSA, ok)
  \/ \E key \in BOOLEAN : BeginDecryption(key) \/ Decrypt(key)
  \/ Collect \/ NextDataFile \/ Open \/ Write \/ Close \/ Verify
  \/ FinishDecryption \/ NextFile \/ \E n \in 1 .. 2 : ReadData(n)

Spec == Init /\ [][Next]_vars

----------------------------------------------------------------------------
(* PROPERTIES                                                              *)

(* What decrypt has handed over and beginDecryption has kept when they     *)
(* return OK is the container: all files of it, whole, in order, although  *)
(* the parser takes any error for the end of the document.                 *)
AcceptedExact ==
  [][pc # "idle" /\ pc' = "idle" /\ ret' = OK /\ ~doc.broken =>
       (IF last.call = "begin" THEN files' ELSE out') = Exact(doc, Len(doc.files))]_vars

(* The right key opens an intact container, unless a call to the consumer  *)
(* failed: the tag is verified with the payload read to its end, whatever  *)
(* parser has read it.                                                     *)
NoFalseAlarm ==
  [][pc # "idle" /\ pc' = "idle" /\ ~doc.broken /\ doc.intact /\ last.key /\ ~fault' => ret' = OK]_vars

(* After whatever calls, failed attempts and second containers that were   *)
(* refused among them, the files of an accepted container are served in    *)
(* order, and the end comes after the last one.                            *)
Accepted == last.call = "begin" /\ Authentic(last.key) /\ ~doc.broken
ServedExact ==
  Accepted =>
    /\ \A i \in DOMAIN served : served[i].n = i /\ served[i].exact /\ served[i].got <= doc.files[i]
    /\ pc = "idle" /\ ret = END => Len(served) = Len(doc.files)

(* A call that has tried a key from an RSA lock is delayed once if it      *)
(* fails, on whichever of its paths it does, and no other call is.         *)
FailuresDelayed ==
  [][delays' - delays =
       IF rsa /\ ret' = ERR /\ pc' = "idle" /\ (pc # "idle" \/ attempts' # attempts) THEN 1 ELSE 0]_vars
=============================================================================
