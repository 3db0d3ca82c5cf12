----------------------------- MODULE ReEncrypt ------------------------------
(***************************************************************************)
(* CDocCipher::ReEncrypt: the files of one container go into another one,  *)
(* for other recipients, without touching the disk.  The reader and the    *)
(* writer are seen as their modules show them to behave: a reader serves a *)
(* prefix of the files, and accepts an intact payload that was read to its *)
(* end; a writer compares sizes.  Any call of either may fail.             *)
(*                                                                         *)
(* The keys of the locks come from CryptoBackend, which is asked by index; *)
(* CipherInfo::getRcpt says whose secret that is.                          *)
(***************************************************************************)
EXTENDS Integers, Sequences, FiniteSets

CONSTANTS
  NFiles,    \* files of the container
  Block,     \* units copied at a time
  Payloads,  \* what may have become of its payload: "intact", "altered", "cut"
  Listed,    \* the lists of recipients, each a sequence of kinds
  Locks      \* indices of locks, from 1, of the old container

(* "token": a symmetric key of the token; "lost": a public key the token   *)
(* does not have.                                                          *)
Kinds == {"cert", "pkey", "password", "skey", "token", "lost"}

VARIABLES
  files,    \* sizes of the files of the old container
  payload,
  infos,    \* enc_rcpts: the recipients asked for
  mode,     \* CipherInfo::mode
  lock,     \* lock_idx, which dec_rcpt carries too; 0: not found yet
  rcpts,    \* the recipients of the writer, as indices of infos
  keys,     \* of each lock written whose secret it was derived from; Public if nobody's
  stage,    \* where ReEncrypt is
  cur,      \* the file it copies
  size,     \* the size nextFile said it has
  copied,   \* n_copied
  moved,    \* what the writer has of each file
  sealed,   \* the writer has finished the new container
  verified, \* the reader has finished with OK
  trouble,  \* history: what has failed
  result

vars == <<files, payload, infos, mode, lock, rcpts, keys, stage, cur, size, copied, moved,
          sealed, verified, trouble, result>>

keyVars  == <<infos, mode, lock, rcpts, keys>>
fileVars == <<cur, size, copied, moved>>
endVars  == <<sealed, verified>>

Old    == 0      \* dec_rcpt
Public == -1     \* the key of the recipient itself, no secret
None   == -2     \* nobody

Init ==
  /\ payload = "intact" /\ infos = <<>>
  /\ mode = "decrypt" /\ lock = 0 /\ rcpts = <<>> /\ keys = <<>>
  /\ stage = "idle" /\ cur = 0 /\ size = 0 /\ copied = 0 /\ moved = [i \in 1 .. NFiles |-> 0]
  /\ sealed = FALSE /\ verified = FALSE /\ trouble = {} /\ result = -1

Go(s) == stage' = s /\ UNCHANGED <<trouble, result>>
Fail(why) == stage' = "done" /\ result' = 1 /\ trouble' = trouble \cup {why}

----------------------------------------------------------------------------
(* RECIPIENTS                                                              *)

(* The tool is called for some recipients, for a container that may not be *)
(* what was stored.                                                        *)
Start ==
  /\ stage = "idle"
  /\ payload' \in Payloads /\ infos' \in Listed /\ Go("lock")
  /\ UNCHANGED <<files, mode, lock, rcpts, keys, fileVars, endVars>>

(* The lock is found by label, index or certificate, or not at all; the    *)
(* backends will ask for the old recipient by its index.                   *)
FindLock ==
  /\ stage = "lock"
  /\ \/ lock' \in Locks /\ Go("fill")
     \/ Fail("lock") /\ UNCHANGED lock
  /\ UNCHANGED <<files, payload, infos, mode, rcpts, keys, fileVars, endVars>>

(* The numbers of a set, in order.                                         *)
InOrder(S) == [k \in 1 .. Cardinality(S) |-> CHOOSE i \in S : Cardinality({j \in S : j <= i}) = k]

(* fill_recipients_from_rcpt_info leaves out the public keys that the      *)
(* token does not have.                                                    *)
FillRecipients ==
  /\ stage = "fill"
  /\ rcpts' = InOrder({i \in DOMAIN infos : infos[i] # "lost"})
  /\ IF rcpts' = <<>> THEN Fail("recipients") ELSE Go("fmk")
  /\ UNCHANGED <<files, payload, infos, mode, lock, keys, fileVars, endVars>>

(* Whose secret the backends use for index k.                              *)
getRcpt(k) ==
  IF mode = "encrypt" THEN IF k \in DOMAIN infos THEN k ELSE None
  ELSE IF k = lock THEN Old ELSE None

(* The key of the old container; the recipients are given to the writer;   *)
(* beginDecryption.                                                        *)
OpenOld ==
  /\ \/ stage = "fmk" /\ getRcpt(lock) = Old /\ Go("add")
     \/ stage = "add" /\ Go("open")
     \/ stage = "open" /\ Go("mode")
     \/ stage = "fmk" /\ getRcpt(lock) # Old /\ Fail("lookup")
     \/ stage \in {"fmk", "open"} /\ Fail("reader")
     \/ stage = "add" /\ Fail("writer")
  /\ UNCHANGED <<files, payload, keyVars, fileVars, endVars>>

(* Mutant: the backends go on answering for the old recipient.             *)
SwitchModeNot == UNCHANGED mode

SwitchMode == mode' = "encrypt"

NowEncrypt ==
  /\ stage = "mode" /\ SwitchMode /\ Go("begin")
  /\ UNCHANGED <<files, payload, infos, lock, rcpts, keys, fileVars, endVars>>

(* extractHKDF of the backend.  A certificate has no secret, and a public  *)
(* key the token does not have is no secret key there either.  For the     *)
(* lock of a password a secret of any length will do, but not the token.   *)
Symmetric(kind) == kind \in {"password", "skey", "token"}
HasSecret(kind, who) ==
  \/ who = Old
  \/ /\ who \in DOMAIN infos
     /\ infos[who] \in IF kind = "password" THEN {"password", "skey", "pkey"} ELSE {"skey", "token"}

(* CDoc2Writer::buildHeader asks for the secret by the recipient's index   *)
(* in its own list.                                                        *)
BeginEncryption ==
  /\ stage = "begin"
  /\ LET kind(k) == infos[rcpts[k]]
     IN  \/ /\ \A k \in DOMAIN rcpts : Symmetric(kind(k)) => HasSecret(kind(k), getRcpt(k))
            /\ keys' = [k \in DOMAIN rcpts |-> IF Symmetric(kind(k)) THEN getRcpt(k) ELSE Public]
            /\ Go("next")
         \/ /\ \E k \in DOMAIN rcpts : Symmetric(kind(k)) /\ ~HasSecret(kind(k), getRcpt(k))
            /\ Fail("lookup") /\ UNCHANGED keys
         \/ Fail("writer") /\ UNCHANGED keys
  /\ UNCHANGED <<files, payload, infos, mode, lock, rcpts, fileVars, endVars>>

----------------------------------------------------------------------------
(* FILES                                                                   *)

(* The size in a header that was altered may be too large.                 *)
SizeRead(i) == {files[i]} \cup (IF payload = "altered" THEN {-1, files[i] + 1} ELSE {})

(* TarConsumer::open, and close: the file before it is complete.           *)
Complete == cur > 0 => moved[cur] = size

(* nextFile, and addFile for what it found.                                *)
NextFile ==
  /\ stage = "next" /\ cur < NFiles
  /\ \/ /\ cur' = cur + 1 /\ size' \in SizeRead(cur') /\ copied' = 0
        /\ IF Complete THEN Go("copy") ELSE Fail("incomplete")
     \/ Fail("reader") /\ UNCHANGED <<cur, size, copied>>
     \/ Fail("writer") /\ UNCHANGED <<cur, size, copied>>
  /\ UNCHANGED <<files, payload, keyVars, moved, endVars>>

(* A payload that was cut may look like one that ends.                     *)
EndOfFiles ==
  /\ stage = "next" /\ (cur = NFiles \/ payload # "intact")
  /\ Go("verify")
  /\ UNCHANGED <<files, payload, keyVars, fileVars, endVars>>

(* readData and writeData, while there is something to copy.               *)
ToCopy == IF size - copied < Block THEN size - copied ELSE Block
CopyBlock ==
  /\ stage = "copy" /\ copied < size
  /\ \/ \E n \in {ToCopy} \cup (IF payload = "intact" THEN {} ELSE 1 .. ToCopy) :
          copied' = copied + n /\ moved' = [moved EXCEPT ![cur] = @ + n] /\ Go("copy")
     \/ Fail("reader") /\ UNCHANGED <<copied, moved>>
     \/ Fail("writer") /\ UNCHANGED <<copied, moved>>
  /\ UNCHANGED <<files, payload, keyVars, cur, size, endVars>>

CopiedWhole == copied = size

(* The loop ends, with the file or because nothing could be read.          *)
FileCopied ==
  /\ stage = "copy" /\ (copied >= size \/ payload # "intact")
  /\ IF CopiedWhole THEN Go("next") ELSE Fail("short")
  /\ UNCHANGED <<files, payload, keyVars, fileVars, endVars>>

(* Mutant: its result is not looked at.                                    *)
FinishDecryptionUnchecked ==
  /\ stage = "verify" /\ verified' = (payload = "intact") /\ Go("seal")
  /\ UNCHANGED <<files, payload, keyVars, fileVars, sealed>>

(* finishDecryption: it accepts an intact payload that was read to the end *)
(* of the files, and no other.                                             *)
FinishDecryption ==
  /\ stage = "verify"
  /\ \/ payload = "intact" /\ verified' = TRUE /\ Go("seal")
     \/ Fail("reader") /\ UNCHANGED verified
  /\ UNCHANGED <<files, payload, keyVars, fileVars, sealed>>

(* finishEncryption; its last steps may fail when the container is whole.  *)
FinishEncryption ==
  /\ stage = "seal"
  /\ \/ Complete /\ sealed' = TRUE /\ stage' = "done" /\ result' = 0 /\ UNCHANGED trouble
     \/ ~Complete /\ Fail("incomplete") /\ UNCHANGED sealed
     \/ sealed' \in {FALSE, Complete} /\ Fail("writer")
  /\ UNCHANGED <<files, payload, keyVars, fileVars, verified>>

Next == Start \/ FindLock \/ FillRecipients \/ OpenOld \/ NowEncrypt \/ BeginEncryption
        \/ NextFile \/ EndOfFiles \/ CopyBlock \/ FileCopied \/ FinishDecryption \/ FinishEncryption

----------------------------------------------------------------------------
(* PROPERTIES                                                              *)

(* The new container is only finished when the old one was verified, and   *)
(* then it has its files whole: what was altered or cut is not given a     *)
(* fresh tag.  No file of an intact container is found to be short.        *)
ReEncryptExact ==
  /\ sealed => payload = "intact" /\ verified /\ moved = files
  /\ payload = "intact" => trouble \cap {"short", "incomplete"} = {}

(* The locks of the new container are derived each from the secret of its  *)
(* own recipient, and none is refused for want of a secret, if no          *)
(* recipient was left out: the index of a lock is that of a recipient.     *)
OwnSecrets ==
  (\A i \in DOMAIN infos : infos[i] # "lost") =>
    /\ "lookup" \notin trouble
    /\ \A k \in DOMAIN keys : keys[k] \in {rcpts[k], Public}
=============================================================================
