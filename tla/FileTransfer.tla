---------------------------- MODULE FileTransfer ----------------------------
(***************************************************************************)
(* Files on their way through a container: a client copies a list of files *)
(* into it (FileCopy), and when that returned OK another one, later,       *)
(* writes the files of the container to a disk (FileExtract), or the tool  *)
(* moves them to another container (ReEncrypt).  What is between them, the *)
(* container itself, is the subject of the writers' and readers' modules:  *)
(* here it holds what the writer was given.                                *)
(***************************************************************************)
EXTENDS FileStreams

CONSTANTS
  DiskFiles,   \* the files that may be on the disk
  NFiles,      \* how many are copied
  Block,       \* units read and written at a time
  Copiers,     \* who may copy: "pull", "push"
  Extractors,  \* who may extract: "cdoc2", "ddoc", "tool"
  Strict,      \* the writer compares sizes
  MayFail,     \* what may fail on the output disk: "open", "write", "close"
  Payloads, Listed, Locks  \* of ReEncrypt

ASSUME TransferAssumption ==
  DiskFiles \subseteq DiskFile /\ (\E f \in DiskFiles : f.size = 0) /\ NFiles \in Nat /\ Block \in Nat \ {0}

VARIABLES
  disk, copier, ifs, current, copying, got, copied,      \* FileCopy
  size, extractor, ofs, cur, n, pc, kept, failed, ret,   \* FileExtract
  stored,                                                \* the container is complete
  payload, infos, mode, lock, rcpts, keys, stage, file, announced, count, moved,
  sealed, verified, trouble, result                      \* ReEncrypt

copyVars    == <<disk, copier, ifs, current, copying, got, copied>>
extractVars == <<size, extractor, ofs, cur, n, pc, kept, failed, ret>>
toolVars    == <<payload, infos, mode, lock, rcpts, keys, stage, file, announced, count, moved,
                 sealed, verified, trouble, result>>
vars        == <<copyVars, extractVars, stored, toolVars>>

Copy    == INSTANCE FileCopy WITH client <- copier, pc <- copying, ret <- copied, Clients <- Copiers
Extract == INSTANCE FileExtract WITH client <- extractor, Clients <- Extractors,
                                     Sizes <- {f.size : f \in DiskFiles}
Tool    == INSTANCE ReEncrypt WITH files <- size, cur <- file, size <- announced, copied <- count

ASSUME ToolAssumption == Locks \subseteq Nat \ {0} /\ Listed \subseteq Seq(Tool!Kinds)

(* The container is empty until it is stored.                              *)
Init ==
  /\ Copy!Init /\ stored = FALSE
  /\ Extract!Init /\ size = [i \in 1 .. NFiles |-> 0]
  /\ Tool!Init

CopyStep == Copy!Next /\ UNCHANGED <<extractVars, stored, toolVars>>

(* The writer has succeeded, and the container holds what it was given.    *)
Store ==
  /\ copying = "done" /\ copied = Copy!OK /\ ~stored
  /\ stored' = TRUE /\ size' = got
  /\ UNCHANGED <<copyVars, extractor, ofs, cur, n, pc, kept, failed, ret, toolVars>>

ExtractStep == stored /\ stage = "idle" /\ Extract!Next /\ UNCHANGED <<copyVars, stored, toolVars>>

(* A container is followed in one of two ways, to the disk or on.          *)
ReEncryptStep ==
  /\ stored /\ extractor = "tool" /\ cur = 0 /\ pc = "next"
  /\ Tool!Next /\ UNCHANGED <<copyVars, extractVars, stored>>

Next == CopyStep \/ Store \/ ExtractStep \/ ReEncryptStep

(* Both loops of the copy run in one thread that is scheduled again and    *)
(* again.                                                                  *)
Spec == Init /\ [][Next]_vars /\ WF_vars(CopyStep)

----------------------------------------------------------------------------
(* PROPERTIES                                                              *)

(* A client that returns OK has given the writer every file whole, also    *)
(* when flags of the stream survive from one file to the next.             *)
CopyExact == copying = "done" /\ copied = Copy!OK => \A i \in 1 .. NFiles : got[i] = disk[i].size

(* A copy only reports a failure of a file that is missing, has changed,   *)
(* cannot be opened or breaks: all others are copied, of whatever size, or *)
(* refused by the writer.                                                  *)
Sound(f) == f.state = "ok" /\ f.size = f.stat
CopyNoFalseAlarm ==
  copying = "done" /\ copied \in {Copy!ERR, Copy!ONE} => \E i \in 1 .. NFiles : ~Sound(disk[i])

(* "Copies all bytes from input source (until EOF or error) to the         *)
(* consumer" (Io.h:92): both loops end, if every file that exists can be   *)
(* opened.                                                                 *)
CopyEnds == (\A i \in 1 .. NFiles : disk[i].state # "unreadable") => <>(copying = "done")

(* An extraction only reports a failure of the reader or of the disk: that *)
(* a file could not be closed does not make the next one fail.             *)
ExtractNoFalseAlarm == ret = Extract!ERR => failed # {}

(* From end to end: when both clients returned OK, the files on the disk   *)
(* are the files that were copied, unless a file could not be closed, or   *)
(* the tool could not open one.                                            *)
RoundTrip ==
  /\ pc = "done" /\ ret = Extract!OK
  /\ "close" \notin failed /\ (extractor = "tool" => "open" \notin failed)
  => kept = [i \in 1 .. NFiles |-> disk[i].size]

(* What becomes of files, and of the keys to them, on their way into       *)
(* another container.                                                      *)
ReEncryptExact == Tool!ReEncryptExact
OwnSecrets     == Tool!OwnSecrets

(* "Check fail() instead so extraction reports the error instead of        *)
(* 'succeeding' with nothing written" (Io.cpp:147-149): an extraction that *)
(* returns OK has written every file whole.                                *)
OkMeansKept == pc = "done" /\ ret = Extract!OK => kept = size
=============================================================================
