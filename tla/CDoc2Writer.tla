---------------------------- MODULE CDoc2Writer ----------------------------
(***************************************************************************)
(* CDoc2Writer (CDoc2Writer.cpp): the push interface addRecipient,         *)
(* beginEncryption, addFile, writeData, finishEncryption and the pull      *)
(* interface encrypt, over a DataConsumer that may refuse any block and a  *)
(* key server that may fail at any request.                                *)
(*                                                                         *)
(* A call of the push interface is one step.  encrypt calls back into the  *)
(* application's MultiDataSource, so each round of its loop is a step.     *)
(***************************************************************************)
EXTENDS Integers, Sequences, SequencesExt, WriterPipeline

CONSTANTS
  DstKinds,  \* what dst may be
  Owned,     \* the kinds of dst that the writer owns (and closes)
  Load       \* for each kind of dst, what an application sends through the
             \* writer, and the bounds of the exploration:
             \*   kinds: what it passes to addRecipient
             \*   sizes: declared file sizes, -1 when indeterminate
             \*   amounts: sizes of the blocks of data it writes
             \*   pax: may names need a pax header (long or not ASCII)
             \*   recipients, attempts, files: how many
             \*   data: units of data in a file
             \*   errors: steps that may fail before it stops writing

RecipientKind == {"pki", "server", "symmetric", "invalid"}

ASSUME DstAssumption == DstKinds \subseteq SinkKind /\ Owned \subseteq SinkKind
ASSUME LoadAssumption ==
  Load \in [SinkKind ->
    [kinds : SUBSET RecipientKind, sizes : SUBSET Int, amounts : SUBSET (Nat \ {0}),
     pax : SUBSET BOOLEAN, recipients : Nat, attempts : Nat, files : Nat,
     data : Nat, errors : Nat]]

VARIABLES
  recipients,  \* recipients added and not yet consumed
  tar,         \* the chain is open (the pointer tar is set)
  pipe,        \* the chain and dst
  finished,    \* finishEncryption has run
  pulling,     \* where encrypt is in its loop: "no", "next" or "copy"
  attempt,     \* number of headers built so far
  server,      \* capsules stored on the key server
  ret,         \* the last call that returned, and its result
  (* History, for the properties: what was asked since the header was      *)
  (* written, and what the application was told.                           *)
  files,       \* files opened, with the amount of data accepted
  archive,     \* chunks of the steps that returned OK
  base,        \* what dst held before the header
  errors,      \* steps of the chain that returned an error
  hdrLost,     \* dst refused a field of the header
  failed       \* attempts that wrote to dst and returned an error

history == <<files, archive, base, errors, hdrLost, failed>>
vars == <<recipients, tar, pipe, finished, pulling, attempt, server, ret, history>>

Capsule == Nat \X Nat
Ops     == {"create", "addRecipient", "beginEncryption", "addFile", "writeData",
            "finishEncryption", "encrypt"}
File    == [size : Int, len : Nat, pax : BOOLEAN]

TypeOK ==
  /\ recipients \in Seq(RecipientKind \ {"invalid"})
  /\ tar \in BOOLEAN
  /\ pipe \in PipeType
  /\ finished \in BOOLEAN
  /\ pulling \in {"no", "next", "copy"}
  /\ attempt \in Nat
  /\ server \in SUBSET Capsule
  /\ ret \in [op : Ops, rv : {OK, ERR}]
  /\ files \in Seq(File)
  /\ archive \in Seq(Chunk)
  /\ base \in Seq(Item)
  /\ errors \in Nat
  /\ hdrLost \in BOOLEAN
  /\ failed \in SUBSET Nat

Init ==
  /\ recipients = <<>>
  /\ tar = FALSE
  /\ \E kind \in DstKinds : pipe = NoPipe(NewSink(kind))
  /\ finished = FALSE
  /\ pulling = "no"
  /\ attempt = 0
  /\ server = {}
  /\ ret = [op |-> "create", rv |-> OK]
  /\ files = <<>> /\ archive = <<>> /\ base = <<>>
  /\ errors = 0 /\ hdrLost = FALSE /\ failed = {}

Given == Load[pipe.sink.kind]

Return(op, rv) == ret' = [op |-> op, rv |-> rv]

(* A call that returns an error and changes nothing.                       *)
Refuse(op) ==
  /\ Return(op, ERR)
  /\ UNCHANGED <<recipients, tar, pipe, finished, pulling, attempt, server, history>>

----------------------------------------------------------------------------
Added(kind) ==
  /\ recipients' = Append(recipients, kind)
  /\ Return("addRecipient", OK)
  /\ UNCHANGED <<tar, pipe, finished, pulling, attempt, server, history>>

(* Mutant: a recipient may be added after the header was written.          *)
AddRecipientLate(kind) ==
  /\ pulling = "no"
  /\ Len(recipients) < Given.recipients
  /\ IF finished \/ kind = "invalid" THEN Refuse("addRecipient") ELSE Added(kind)

AddRecipient(kind) ==
  /\ pulling = "no"
  /\ Len(recipients) < Given.recipients
  /\ IF finished \/ tar \/ kind = "invalid" THEN Refuse("addRecipient")
     ELSE Added(kind)

(* The keys that the first n recipients of rcpts store on the server: one  *)
(* per key-server recipient, for this attempt's file master key.           *)
Capsules(rcpts, a, n) == {<<a, i>> : i \in {j \in 1 .. n : rcpts[j] = "server"}}

(* buildHeader handles the recipients in order.  When one fails, the keys  *)
(* of those before it are stored, and its own when only the answer was     *)
(* lost.                                                                   *)
BuildHeader(rcpts, a) ==
  {[rv |-> OK, caps |-> Capsules(rcpts, a, Len(rcpts))]} \cup
  {[rv |-> ERR, caps |-> Capsules(rcpts, a, n)] : n \in 0 .. Len(rcpts)}

Field(part, a, caps) == [part |-> part, attempt |-> a, caps |-> caps]
Nonce(a) == Field("nonce", a, {})

HeaderFields(a, caps) ==
  <<Field("label", a, {})>> \o <<Field("len", a, {})>>
    \o <<Field("header", a, caps)>> \o <<Field("hmac", a, {})>>

(* A write whose result is ignored, and the four of the header.            *)
Ignored(S, item) == UNION {{o.sink : o \in SinkWrite(s, <<item>>)} : s \in S}

WriteFields(s, a, caps) ==
  Ignored(Ignored(Ignored(Ignored({s}, Field("label", a, {})), Field("len", a, {})),
                  Field("header", a, caps)), Field("hmac", a, {}))

(* dst as the writer finds it at the start of a container.                 *)
Fresh(s) == [s EXCEPT !.refused = FALSE]

(* beginEncryption and the common part of encrypt: writeHeader for rcpts.  *)
(* It fails in buildHeader, with dst untouched; or, when the random        *)
(* generator or the AAD fails, with a header in dst and no chain; or it    *)
(* opens the chain, whatever the writes to dst returned.                   *)
WriteHeader(op, rcpts, loop) ==
  /\ attempt < Given.attempts
  /\ attempt' = attempt + 1
  /\ recipients' = rcpts
  /\ UNCHANGED finished
  /\ \E b \in BuildHeader(rcpts, attempt + 1) :
       /\ server' = server \cup b.caps
       /\ IF b.rv # OK
          THEN /\ Return(op, ERR)
               /\ UNCHANGED <<tar, pipe, pulling, history>>
          ELSE \E s \in WriteFields(Fresh(pipe.sink), attempt + 1, b.caps) :
               \E o \in SinkWrite(s, <<Nonce(attempt + 1)>>) :
                 /\ base' = pipe.sink.data
                 /\ hdrLost' = s.refused
                 /\ files' = <<>> /\ archive' = <<>>
                 /\ \/ /\ tar' = TRUE
                       /\ pipe' = NewPipe(o)
                       /\ errors' = 0
                       /\ pulling' = loop
                       /\ IF loop = "no" THEN Return(op, OK) ELSE UNCHANGED ret
                       /\ UNCHANGED failed
                    \/ /\ \E v \in {s, o.sink} : pipe' = NoPipe(v)
                       /\ errors' = errors + 1
                       /\ failed' = failed \cup {attempt + 1}
                       /\ Return(op, ERR)
                       /\ UNCHANGED <<tar, pulling>>

(* Mutant: a container may be begun inside another.                        *)
BeginEncryptionAgain ==
  /\ pulling = "no"
  /\ IF finished \/ recipients = <<>> THEN Refuse("beginEncryption")
     ELSE WriteHeader("beginEncryption", recipients, "no")

BeginEncryption ==
  /\ pulling = "no"
  /\ IF finished \/ recipients = <<>> \/ tar THEN Refuse("beginEncryption")
     ELSE WriteHeader("beginEncryption", recipients, "no")

----------------------------------------------------------------------------
(* A step of the chain that returned o; fs and chunks are what it added    *)
(* when it succeeded.                                                      *)
Chain(o, fs, chunks) ==
  /\ pipe' = o.w
  /\ errors' = IF o.rv = OK THEN errors ELSE errors + 1
  /\ files' = IF o.rv = OK THEN fs ELSE files
  /\ archive' = IF o.rv = OK THEN archive \o chunks ELSE archive
  /\ UNCHANGED <<attempt, server, base, hdrLost>>

Opened(size, pax) == Append(files, [size |-> size, len |-> 0, pax |-> pax])
Grown(n) == IF files = <<>> THEN files ELSE [files EXCEPT ![Len(files)].len = @ + n]

AddFile(size, pax) ==
  /\ pulling = "no"
  /\ IF finished \/ ~tar \/ size < 0 THEN Refuse("addFile")
     ELSE \E o \in TarOpen(pipe, size, pax) :
            /\ Chain(o, Opened(size, pax), OpenChunks(pipe, size, pax))
            /\ Return("addFile", o.rv)
            /\ UNCHANGED <<recipients, tar, finished, pulling, failed>>

WriteData(n) ==
  /\ pulling = "no"
  /\ IF finished \/ ~tar THEN Refuse("writeData")
     ELSE \E o \in TarWrite(pipe, n) :
            /\ Chain(o, Grown(n), DataChunks(pipe, n))
            /\ Return("writeData", o.rv)
            /\ UNCHANGED <<recipients, tar, finished, pulling, failed>>

(* An owned dst is closed, its result ignored.                             *)
CloseOwned(s) == IF s.kind \in Owned THEN {c.sink : c \in SinkClose(s)} ELSE {s}

(* finishEncryption once the chain is known to be open: the chain is       *)
(* closed and dropped, then dst.                                           *)
Finish(op) ==
  \E o \in TarClose(pipe) :
    \E s \in CloseOwned(o.w.sink) :
      /\ Chain([rv |-> o.rv, w |-> NoPipe(s)], files, CloseChunks(pipe))
      /\ Return(op, o.rv)
      /\ tar' = FALSE
      /\ recipients' = <<>>
      /\ finished' = TRUE
      /\ pulling' = "no"
      /\ UNCHANGED failed

FinishEncryption ==
  /\ pulling = "no"
  /\ IF finished \/ ~tar THEN Refuse("finishEncryption") ELSE Finish("finishEncryption")

----------------------------------------------------------------------------
(* encrypt leaves its loop with an error: the chain is dropped, the        *)
(* recipients and a possible second attempt remain.                        *)
Abort(w) ==
  /\ pipe' = NoPipe(w.sink)
  /\ tar' = FALSE
  /\ pulling' = "no"
  /\ errors' = errors + 1
  /\ failed' = failed \cup {attempt}
  /\ Return("encrypt", ERR)
  /\ UNCHANGED <<recipients, finished, attempt, server, files, archive, base, hdrLost>>

(* addRecipient accepts the first n keys and refuses the next, if any.     *)
Accepts(keys, n) ==
  /\ \A i \in 1 .. n : keys[i] # "invalid"
  /\ n < Len(keys) => keys[n + 1] = "invalid"

(* The recipients of encrypt.  Keys added before a failure stay added.     *)
EncryptKeys(keys) ==
  \E n \in 0 .. Len(keys) :
    /\ Accepts(keys, n)
    /\ LET rcpts == recipients \o SubSeq(keys, 1, n)
       IN  IF n < Len(keys) \/ rcpts = <<>>
           THEN /\ recipients' = rcpts
                /\ Return("encrypt", ERR)
                /\ UNCHANGED <<tar, pipe, finished, pulling, attempt, server, history>>
           ELSE WriteHeader("encrypt", rcpts, "next")

(* Mutant: a finished writer may be used again.                            *)
EncryptBeginAgain(keys) ==
  /\ pulling = "no"
  /\ Len(recipients) + Len(keys) <= Given.recipients
  /\ IF tar THEN Refuse("encrypt") ELSE EncryptKeys(keys)

(* encrypt up to its loop.                                                 *)
EncryptBegin(keys) ==
  /\ pulling = "no"
  /\ Len(recipients) + Len(keys) <= Given.recipients
  /\ IF finished \/ tar THEN Refuse("encrypt") ELSE EncryptKeys(keys)

(* The source has another file, which is opened without addFile's checks.  *)
PullFile(size, pax) ==
  /\ pulling = "next"
  /\ \E o \in TarOpen(pipe, size, pax) :
       IF o.rv # OK THEN Abort(o.w)
       ELSE /\ Chain(o, Opened(size, pax), OpenChunks(pipe, size, pax))
            /\ pulling' = "copy"
            /\ UNCHANGED <<recipients, tar, finished, ret, failed>>

(* A round of writeAll: the source delivers n units of the file.           *)
PullData(n) ==
  /\ pulling = "copy"
  /\ \E o \in TarWrite(pipe, n) :
       IF o.rv # OK THEN Abort(o.w)
       ELSE /\ Chain(o, Grown(n), DataChunks(pipe, n))
            /\ UNCHANGED <<recipients, tar, finished, pulling, ret, failed>>

(* The source is at the end of the file: writeAll returns.                 *)
PullEof ==
  /\ pulling = "copy"
  /\ pulling' = "next"
  /\ UNCHANGED <<recipients, tar, pipe, finished, attempt, server, ret, history>>

(* next or read of the source fails.                                       *)
PullError == pulling # "no" /\ Abort(pipe)

(* The source has no more files.                                           *)
PullEnd == pulling = "next" /\ Finish("encrypt")

----------------------------------------------------------------------------
(* Bounds: recipients and attempts in the guards above; here the files,    *)
(* their data, and how many steps an application that ignores errors lets  *)
(* fail before it stops writing.                                           *)
MoreFiles   == pipe.file < Given.files /\ errors < Given.errors
MoreData(n) == pipe.written + n <= Given.data /\ errors < Given.errors

Next ==
  \/ \E kind \in Given.kinds : AddRecipient(kind)
  \/ BeginEncryption
  \/ \E size \in Given.sizes, pax \in Given.pax :
       MoreFiles /\ (AddFile(size, pax) \/ PullFile(size, pax))
  \/ \E n \in Given.amounts : MoreData(n) /\ (WriteData(n) \/ PullData(n))
  \/ FinishEncryption
  \/ \E keys \in SeqOf(Given.kinds, Given.recipients) : EncryptBegin(keys)
  \/ PullEof
  \/ PullError
  \/ PullEnd

Spec == Init /\ [][Next]_vars

----------------------------------------------------------------------------
(* PROPERTIES                                                              *)

FinishedOK == finished /\ ret.op \in {"finishEncryption", "encrypt"} /\ ret.rv = OK

Stored(a) == {c \in server : c[1] = a}

(* What precedes the payload of the current container in dst.              *)
Preamble == base \o HeaderFields(attempt, Stored(attempt)) \o <<Nonce(attempt)>>

(* When finishEncryption or encrypt returns OK and dst refused nothing,    *)
(* dst holds a complete container: the header, with exactly the capsules   *)
(* this attempt has on the key server, every chunk handed to the chain in  *)
(* order, whatever deflate held back in between, and the tag over them.    *)
FinishExact ==
  FinishedOK /\ ~Unopened(pipe.sink) /\ ~pipe.sink.refused =>
    pipe.sink.data = Preamble \o archive \o <<Tag(archive)>>

(* The distance from n to the next multiple of the block size.             *)
ToBlock(n) == (-n) % Block

FileChunks(i) ==
  LET w   == [size |-> files[i].size, written |-> 0, file |-> i]
      gap == ToBlock(files[i].len)
  IN  PaxChunks(w, files[i].pax) \o HeadChunks(w) \o DataChunks(w, files[i].len)
        \o (IF gap = 0 THEN <<>> ELSE <<[k |-> "pad", file |-> i, n |-> gap]>>)

(* The archive is the tar of the files as the application wrote them: for  *)
(* each its headers, all its data in order and the padding of its real     *)
(* length, which is the declared one if there was one; then the end of     *)
(* archive.  (Tar.cpp pads a file only when the next one is opened.)       *)
ArchiveWellFormed ==
  FinishedOK /\ ~pipe.sink.refused =>
    /\ archive = FlattenSeq([i \in DOMAIN files |-> FileChunks(i)])
                   \o <<NullChunk, NullChunk, Trailer>>
    /\ \A i \in DOMAIN files : files[i].size >= 0 => files[i].len = files[i].size

(* A block that dst refused was a header field, or some call reported it:  *)
(* a refused nonce is remembered by the cipher, lost deflate output by the *)
(* call that emitted it, even when the application goes on after the error *)
(* and finishEncryption itself returns OK.                                 *)
NoSilentLoss == FinishedOK /\ pipe.sink.refused => errors > 0 \/ hdrLost

(* On an output stream the sticky badbit makes the last write report what  *)
(* writeHeader ignored: OK means that nothing was refused.                 *)
StickyFinish == FinishedOK /\ pipe.sink.refused => pipe.sink.kind = "consumer"

(* While the chain is open, the key server has a key of this attempt for   *)
(* exactly the key-server recipients: none was added after the header was  *)
(* built, and none of their keys is missing.                               *)
OpenCapsules == tar => Stored(attempt) = Capsules(recipients, attempt, Len(recipients))

(* A header in dst belongs to the last attempt or to one whose error the   *)
(* application has seen: only retries leave more than one header in dst.   *)
OneContainer ==
  \A i \in DOMAIN pipe.sink.data :
    pipe.sink.data[i] \in HeaderPart => pipe.sink.data[i].attempt \in failed \cup {attempt}

(* Once the tag has reached dst the container is final: no call, in any    *)
(* order and whatever it returned, writes anything after it.               *)
HasTag(s) == \E i \in DOMAIN s.data : s.data[i] \in TagItem
TagIsLast == [][HasTag(pipe.sink) => pipe'.sink.data = pipe.sink.data]_vars

----------------------------------------------------------------------------
(* What the documentation says and the code does not do.                   *)

(* CDocWriter.h: finishEncryption may involve closing the stream, and      *)
(* returns an error code or OK.                                            *)
FinishOkFlushed ==
  FinishedOK /\ pipe.sink.kind \in Owned /\ ~Unopened(pipe.sink) => pipe.sink.flushed
=============================================================================
