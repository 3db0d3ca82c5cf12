----------------------------- MODULE CDoc1Writer ----------------------------
(***************************************************************************)
(* CDoc1Writer (CDoc1Writer.cpp): a CDOC 1 container is one XML document   *)
(* with the locks of its recipients, the encrypted payload (the file       *)
(* itself, or a DDOC document when there are several) and properties that  *)
(* name the files and their sizes.                                         *)
(*                                                                         *)
(* The push interface keeps the files in memory and writes the document in *)
(* finishEncryption; encrypt writes it while it reads its source.  Both    *)
(* run writeDocument, whose elements are the steps of this specification,  *)
(* because encrypt calls back into the application at each file and block. *)
(***************************************************************************)
EXTENDS XmlPipeline, SequencesExt

CONSTANTS
  DstKind,         \* what dst is; its file could be opened
  Owned,           \* dst is closed at the end
  RecipientKinds,  \* "cert"; "broken": a certificate that cannot be used;
                   \* "other": not a certificate
  Sizes,           \* declared sizes, -1 for unknown
  SizeModulus,     \* size_t is counted modulo this (2^64 in the code)
  Sources,         \* what encrypt's sources may hold: the number of units of each file
  Counts,          \* whether a source knows its number of components
  MaxRecipients, MaxFiles, MaxData,  \* bounds on what the application adds
  MaxDocuments,    \* bound: documents begun
  MaxErrors        \* bound: calls that failed while writing

File == [size : Int, data : Nat]

ASSUME InputAssumption ==
  /\ DstKind \in SinkKind \ {"unopened"} /\ Owned \in BOOLEAN
  /\ RecipientKinds \subseteq {"cert", "broken", "other"}
  /\ Sizes \subseteq Int /\ SizeModulus \in Nat \ {0}
  /\ Sources \subseteq Seq(File) /\ Counts \subseteq BOOLEAN
ASSUME BoundAssumption ==
  /\ MaxRecipients \in Nat /\ MaxFiles \in Nat /\ MaxData \in Nat
  /\ MaxDocuments \in Nat /\ MaxErrors \in Nat

VARIABLES
  rcpts,   \* rcpts: the kinds of the recipients
  d,       \* d is set
  files,   \* d->files: declared size, units of data
  w,       \* the chain
  pc,      \* the next step of writeDocument, "idle" outside, "crashed"
  op,      \* which call is running: "finish" or "encrypt"
  next,    \* the recipient or file the next step writes
  src,     \* encrypt: the source's files, and whether it counts them
  ret,     \* what the last call returned
  docs,     \* history: the items of the documents finished with OK
  accepted, \* history: the recipients of the open document, as accepted
  given,    \* history: the files of the open document, as given
  begun,    \* history: documents begun
  errors,   \* history: calls that failed while writing
  replaced  \* history: a refused encrypt has replaced the recipients of an open document

vars == <<rcpts, d, files, w, pc, op, next, src, ret, docs, accepted, given, begun, errors, replaced>>
call == <<pc, op, next, src>>
history == <<docs, accepted, given, begun, errors, replaced>>

Nameless == [size |-> 0, data |-> 0]
NoSource == [files |-> <<>>, counts |-> TRUE, got |-> 0]

Init ==
  /\ rcpts = <<>> /\ d = FALSE /\ files = <<>> /\ w = NewDocument(NewSink(DstKind))
  /\ pc = "idle" /\ op = "finish" /\ next = 0 /\ src = NoSource /\ ret = OK
  /\ docs = <<>> /\ accepted = <<>> /\ given = <<>> /\ begun = 0 /\ errors = 0 /\ replaced = FALSE

----------------------------------------------------------------------------
(* PUSH INTERFACE                                                          *)

Refuse == ret' = ERR /\ UNCHANGED <<rcpts, d, files, w, call, history>>

AddRecipient(kind) ==
  /\ pc = "idle"
  /\ IF d \/ kind = "other" THEN Refuse
     ELSE /\ Len(rcpts) < MaxRecipients
          /\ rcpts' = Append(rcpts, kind) /\ accepted' = rcpts' /\ ret' = OK
          /\ UNCHANGED <<d, files, w, call, docs, given, begun, errors, replaced>>

(* A new Private: an empty buffer over the same dst.                       *)
NewPrivate(keys, fs) ==
  /\ d' = TRUE /\ files' = <<>> /\ w' = NewDocument(w.sink)
  /\ begun' = begun + 1 /\ accepted' = keys /\ given' = fs

BeginEncryption ==
  /\ pc = "idle"
  /\ IF rcpts = <<>> \/ d THEN Refuse
     ELSE /\ begun < MaxDocuments
          /\ NewPrivate(rcpts, <<>>) /\ ret' = OK
          /\ UNCHANGED <<rcpts, call, docs, errors, replaced>>

AddFile(size) ==
  /\ pc = "idle"
  /\ IF ~d THEN Refuse
     ELSE /\ Len(files) < MaxFiles
          /\ files' = Append(files, [size |-> size, data |-> 0]) /\ given' = files' /\ ret' = OK
          /\ UNCHANGED <<rcpts, d, w, call, docs, accepted, begun, errors, replaced>>

(* writeData uses files.back(), which does not exist before addFile.       *)
WriteData(n) ==
  /\ pc = "idle"
  /\ IF ~d THEN Refuse
     ELSE IF files = <<>> THEN
       pc' = "crashed" /\ UNCHANGED <<rcpts, d, files, w, op, next, src, ret, history>>
     ELSE /\ files[Len(files)].data + n <= MaxData
          /\ files' = [files EXCEPT ![Len(files)].data = @ + n] /\ given' = files' /\ ret' = OK
          /\ UNCHANGED <<rcpts, d, w, call, docs, accepted, begun, errors, replaced>>

----------------------------------------------------------------------------
(* THE CALLS THAT WRITE                                                    *)

FinishEncryption ==
  /\ pc = "idle"
  /\ IF ~d \/ files = <<>> THEN Refuse
     ELSE /\ pc' = "head" /\ op' = "finish" /\ next' = 1
          /\ UNCHANGED <<rcpts, d, files, w, src, ret, history>>

(* encrypt takes its recipients before it looks whether it may begin.      *)
Encrypt(keys, s) ==
  /\ pc = "idle"
  /\ IF keys = <<>> THEN Refuse
     ELSE /\ rcpts' = keys
          /\ IF d THEN /\ ret' = ERR /\ replaced' = (replaced \/ keys # accepted)
                       /\ UNCHANGED <<d, files, w, call, docs, accepted, given, begun, errors>>
             ELSE /\ begun < MaxDocuments
                  /\ NewPrivate(keys, IF s.files = <<>> /\ s.counts THEN <<Nameless>> ELSE s.files)
                  /\ pc' = "head" /\ op' = "encrypt" /\ next' = 1 /\ src' = s
                  /\ UNCHANGED <<ret, docs, errors, replaced>>

(* use_ddoc: an encrypt whose source does not count its files assumes many. *)
UseDdoc ==
  IF op = "finish" THEN Len(files) > 1 ELSE ~src.counts \/ Len(src.files) > 1

Idle == pc' = "idle" /\ op' = "finish" /\ next' = 0 /\ src' = NoSource

(* writeDocument returns an error: d stays as it is, and so does what is   *)
(* in its buffer.                                                          *)
FailWith(outcomes) ==
  /\ errors < MaxErrors
  /\ \E o \in outcomes : w' = o.w
  /\ Idle /\ ret' = ERR /\ errors' = errors + 1
  /\ UNCHANGED <<rcpts, d, files, docs, accepted, given, begun, replaced>>

(* A part of writeDocument succeeds and the chain is v, or it returns.     *)
Rest == UNCHANGED <<rcpts, d, op, ret, docs, accepted, given, begun, errors, replaced>>
Step(outcomes, then, i) ==
  \/ /\ \E o \in outcomes : o.rv = OK /\ w' = o.w
     /\ pc' = then /\ next' = i /\ UNCHANGED <<files, src>> /\ Rest
  \/ FailWith({o \in outcomes : o.rv # OK})

(* EncryptedData, EncryptionMethod, KeyInfo.                               *)
WriteHead ==
  /\ pc = "head"
  /\ Step({[o EXCEPT !.w.open = @ + 1] : o \in TextWrite(w, <<Part("begin")>>)}, "keys", 1)

(* A recipient's EncryptedKey; a broken certificate is noticed at once or  *)
(* after its element was begun.                                            *)
WriteRecipient ==
  /\ pc = "keys" /\ next <= Len(rcpts)
  /\ CASE rcpts[next] = "cert"   -> Step(TextWrite(w, <<Item("key", next, 0)>>), "keys", next + 1)
       [] rcpts[next] = "broken" -> FailWith({Done(w)} \cup TextWrite(w, <<Part("badkey")>>))
       [] rcpts[next] = "other"  -> FailWith({Done(w)})

(* CipherData, CipherValue, and the chain inside it.                       *)
OpenPayload ==
  /\ pc = "keys" /\ next > Len(rcpts)
  /\ Step(Bind(Bind(TextWrite(w, <<Part("cipher")>>), CipherOpen),
               LAMBDA v : IF UseDdoc THEN DdocOpen(v) ELSE {Done(v)}), "files", 1)

(* What is written inside the payload.  When an error is returned from     *)
(* there, DDOCWriter's destructor runs.                                    *)
PayloadWrite(items) ==
  IF ~UseDdoc THEN CipherWrite(w, items)
  ELSE UNION {IF o.rv = OK THEN {o} ELSE {[q EXCEPT !.rv = ERR] : q \in DdocClose(o.w)}
                : o \in DdocWrite(w, items)}

(* size_t.                                                                 *)
Unsigned(n) == n % SizeModulus

(* The start of a file's element, which only a DDOC has, its data, and the *)
(* end of the element.  There the file passes a base64 filter of the       *)
(* DDOCWriter's own (XmlWriter.cpp:98-145): the two bytes it may hold back *)
(* until the end are those of an item its text writer has not flushed yet. *)
FileItems(i, size) == IF UseDdoc THEN <<Item("file", i, Unsigned(size))>> ELSE <<>>
DataItem(i, j)     == Item("data", i, j)
FileEnd(i)         == IF UseDdoc THEN <<Item("endfile", i, 0)>> ELSE <<>>

(* finishEncryption: a file from memory, with the size it has.             *)
WriteFile ==
  /\ pc = "files" /\ op = "finish" /\ next <= Len(files)
  /\ LET n == files[next].data
         data == [j \in 1 .. n |-> DataItem(next, j)]
     IN  Step(PayloadWrite(FileItems(next, n) \o data \o FileEnd(next)), "files", next + 1)

LastFile ==
  /\ pc = "files" /\ op = "finish" /\ next > Len(files)
  /\ Step({Done(w)}, "tail", 0)

(* encrypt: the source is asked for the next file.                         *)
NextFile ==
  /\ pc = "files" /\ op = "encrypt" /\ next <= Len(src.files) /\ (UseDdoc \/ next = 1)
  /\ Step(PayloadWrite(FileItems(next, src.files[next].size)), "data", next)

(* A block of the file is read and written.                                *)
CopyBlock ==
  /\ pc = "data" /\ src.got < src.files[next].data
  /\ LET outcomes == PayloadWrite(<<DataItem(next, src.got + 1)>>)
     IN  \/ /\ \E o \in outcomes : o.rv = OK /\ w' = o.w
            /\ src' = [src EXCEPT !.got = @ + 1]
            /\ UNCHANGED <<pc, next, files>> /\ Rest
         \/ FailWith({o \in outcomes : o.rv # OK})

(* The end of the file: a single file is recorded with the size it had, a  *)
(* file of several, once its element has ended, with the size the source   *)
(* declared, and without data.                                             *)
FileRecord == [size |-> IF UseDdoc THEN src.files[next].size ELSE src.got, data |-> 0]

FileDone ==
  /\ pc = "data" /\ src.got = src.files[next].data
  /\ LET outcomes == PayloadWrite(FileEnd(next))
     IN  \/ /\ \E o \in outcomes : o.rv = OK /\ w' = o.w
            /\ files' = Append(files, FileRecord) /\ src' = [src EXCEPT !.got = 0]
            /\ pc' = (IF UseDdoc THEN "files" ELSE "tail")
            /\ next' = (IF UseDdoc THEN next + 1 ELSE 0)
            /\ Rest
         \/ FailWith({o \in outcomes : o.rv # OK})

(* END_OF_STREAM.  It is positive, so for a single file it is no error:    *)
(* a nameless empty file is written.                                       *)
SourceEnd ==
  /\ pc = "files" /\ op = "encrypt" /\ next > Len(src.files)
  /\ files' = IF UseDdoc THEN files ELSE <<Nameless>>
  /\ pc' = "tail" /\ next' = 0 /\ UNCHANGED <<w, src>> /\ Rest

(* The source fails, at a file or within it.                               *)
SourceError ==
  /\ pc \in {"files", "data"} /\ op = "encrypt"
  /\ FailWith(IF UseDdoc THEN DdocClose(w) ELSE {Done(w)})

(* The payload ends: DDOCWriter's destructor, then close of the cipher and *)
(* of Base64Consumer, and the end elements.                                *)
ClosePayload ==
  /\ pc = "tail"
  /\ Step(Bind(Bind(IF UseDdoc THEN DdocClose(w) ELSE {Done(w)}, CipherClose),
               LAMBDA v : TextWrite(v, <<Part("endcipher")>>)), "props", 0)

(* EncryptionProperties with the files' names and sizes, and the end of    *)
(* EncryptedData.                                                          *)
WriteProperties ==
  /\ pc = "props"
  /\ LET orig == [i \in DOMAIN files |-> Item("orig", i, Unsigned(files[i].size))]
     IN  Step({[o EXCEPT !.w.open = IF o.rv = OK THEN @ - 1 ELSE @]
                 : o \in TextWrite(w, Append(orig, Part("end")))}, "done", 0)

Document == [keys |-> accepted, files |-> given, ddoc |-> UseDdoc]

(* Mutant: the result of closing dst is ignored.                           *)
CloseUnchecked ==
  /\ pc = "done"
  /\ \E o \in TextClose(w) : w' = o.w
  /\ d' = FALSE /\ files' = <<>> /\ Idle /\ ret' = OK
  /\ docs' = Append(docs, Document)
  /\ UNCHANGED <<rcpts, accepted, given, begun, errors, replaced>>

(* d.reset(), and dst->close() if it is owned.                             *)
Close ==
  /\ pc = "done"
  /\ \E o \in TextClose(w) :
       \E c \in IF Owned THEN SinkClose(o.w.sink) ELSE {[rv |-> OK, sink |-> o.w.sink]} :
         /\ w' = [o.w EXCEPT !.sink = c.sink]
         /\ ret' = c.rv
         /\ docs' = IF c.rv = OK THEN Append(docs, Document) ELSE docs
         /\ errors' = IF c.rv = OK THEN errors ELSE errors + 1
  /\ d' = FALSE /\ files' = <<>> /\ Idle
  /\ UNCHANGED <<rcpts, accepted, given, begun, replaced>>

Next ==
  \/ \E kind \in RecipientKinds : AddRecipient(kind)
  \/ BeginEncryption
  \/ \E size \in Sizes : AddFile(size)
  \/ \E n \in 1 .. MaxData : WriteData(n)
  \/ FinishEncryption
  \/ \E keys \in BoundedSeq(RecipientKinds, MaxRecipients), fs \in Sources, counts \in Counts :
       Encrypt(keys, [files |-> fs, counts |-> counts, got |-> 0])
  \/ WriteHead \/ WriteRecipient \/ OpenPayload \/ WriteFile \/ LastFile
  \/ NextFile \/ CopyBlock \/ FileDone \/ SourceEnd \/ SourceError
  \/ ClosePayload \/ WriteProperties \/ Close

Spec == Init /\ [][Next]_vars

----------------------------------------------------------------------------
(* PROPERTIES                                                              *)

(* The items of a document but for the sizes: one lock for each recipient, *)
(* the payload, which is the file itself or a DDOC, with every unit of     *)
(* every file, once and in order, and the properties.                      *)
Bare(items) ==
  [i \in DOMAIN items |-> IF items[i].k = "data" THEN items[i] ELSE [items[i] EXCEPT !.n = 0]]

Expected(doc) ==
  LET If(item)   == IF doc.ddoc THEN <<item>> ELSE <<>>
      Of(k, s)   == [i \in DOMAIN s |-> Item(k, i, 0)]
      FileOf(i)  == If(Item("file", i, 0)) \o [j \in 1 .. doc.files[i].data |-> DataItem(i, j)]
                      \o If(Item("endfile", i, 0))
      payload    == If(Part("ddoc")) \o FlattenSeq([i \in DOMAIN doc.files |-> FileOf(i)]) \o If(Part("endddoc"))
  IN  <<Part("begin")>> \o Of("key", doc.keys) \o <<Part("cipher"), Part("nonce")>> \o payload
      \o <<Part("tag"), Part("endcipher")>> \o Of("orig", doc.files) \o <<Part("end")>>

(* Successful calls leave in an owned file exactly the documents they were *)
(* asked for, one after the other: two text writers that flush late, one   *)
(* inside the other's cipher, hold nothing back and their destructors hide *)
(* no refusal, because dst->close() reports what the stream remembers.     *)
FinishExact ==
  pc = "idle" /\ ~d /\ errors = 0 /\ ~replaced =>
    Bare(w.sink.data) = FlattenSeq([i \in DOMAIN docs |-> Expected(docs[i])])

(* Whatever the failures and retries, OK from a call that writes to an     *)
(* owned file means that the file has taken everything it was ever given.  *)
OkMeansTaken == [][docs' # docs => ~w'.sink.refused]_vars
=============================================================================
