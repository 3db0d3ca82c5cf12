# Verification of libcdoc

libcdoc writes and reads CDOC 1 and CDOC 2 containers: encrypted archives of
files that one of several recipients can open. This directory holds TLA+ models
of the library, TLC configurations that check them on small instances, and
proofs, checked by TLAPS, that the main invariants hold for all values of the
constants. The code modelled is under `src/cdoc/`; the lines each definition
stands for are listed in `PROJECT.json` ("map").

    tlc -config MCCDoc2Writer.cfg MCCDoc2Writer.tla           # one run
    tlapm CDoc2WriterProofs.tla                               # one proof module

## 1. The system

The library has no threads of its own, though an application may call it from
several. What makes it hard is that everything is
a *stream*: a container is produced and consumed through chains of filters that
hold data back, over sources and consumers that belong to the application and
may fail at any call, and the application decides which call comes next, also
after an error. The key server, the RIA DigiDoc services and the smart card are
remote partners that may fail between any two requests.

| component | state | operations | interacts with |
|---|---|---|---|
| `CDoc2Writer` | recipients, the open chain (`tar`), `finished` | `addRecipient`, `beginEncryption`, `addFile`, `writeData`, `finishEncryption`, `encrypt` | the writer pipeline, `NetworkBackend::sendKey`, `CryptoBackend` |
| writer pipeline: `TarConsumer` → `ZConsumer` → `EncryptionConsumer` → dst | declared and written size of the file, what deflate holds, the cipher state and its `error` | `open`, `write`, `close` | each calls the next |
| `DataConsumer`, `OStreamConsumer` | stream state (`failbit`, `badbit`), buffer | `write`, `close` | called by the pipeline and by the writer directly |
| `DecryptionSource` | the held back tag, `error`, the cipher state | constructor, `read`, `close` | the source of the container |
| reader pipeline: source → `DecryptionSource` → `ZSource` → `TarSource` | inflate's state and `error`; position and size of the file, `eof` | `read`, `next`, `close` | each calls the one before |
| `CDoc2Reader` | the header's locks, the open chain | `getLocks`, `getLockForCert`, `getFMK`, `beginDecryption`, `nextFile`, `readData`, `finishDecryption`, `decrypt` | reader pipeline, `NetworkBackend::fetchKey`, `CryptoBackend`, key shares |
| `CDoc1Writer`, `DDOCWriter`, `XMLWriter` | recipients, the files kept in memory, the open XML elements | as `CDoc2Writer` | dst |
| `CDoc1Reader`, `DDOCReader`, `XMLReader` | locks, the decrypted files | as `CDoc2Reader` | source |
| file copying: `writeAll`, `skip`, `FileListSource`, `FileListConsumer`, `IStreamSource` | the current file and its stream | `open`, `next`, `read`, `write`, `close` | the pull interface of the writers and readers |
| `CDocCipher` (cdoc-tool) | none between calls | `Encrypt`, `Decrypt`, `ReEncrypt`, `Locks` | a writer and a reader |
| key shares, `NetworkBackend` | nonces and tickets of one request, the polling loop | `fetchShare`, `fetchNonce`, `signSID`, `signMID`, `sendKey`, `fetchKey` | remote services |
| `PKCS11Backend` | session, slot, key handle | `login`, `logout`, `usePrivateKey`, `useSecretKey`, `decryptRSA`, ... | the token |
| RSA failure throttle | a process-wide map of failure counts, behind a mutex | `rsaOracleThrottle` | `CryptoBackend::decryptRSA`, concurrent callers |
| factories | none | `createReader`, `createWriter`, `getCDocFileVersion` | streams |
| `Recipient`, `Lock`, `Certificate`, `CryptoBackend`, `Crypto` | values | pure functions | OpenSSL |
| `Configuration`, `Utils`, `Logger` | - | lookups, strings, logging | - |

### Hard behaviours, and what makes each component correct

* **CDoc2Writer and its pipeline.** Each filter holds data back: the tar
  padding of a file is written when the *next* file is opened, deflate emits
  what it took in an earlier call, the cipher's tag covers everything emitted.
  So a refused block belongs to a call that has already returned OK, and a call
  fails for data it was not given. `EncryptionConsumer` writes its nonce in its
  constructor, which cannot return an error; `writeHeader` ignores four results.
  Correct is: OK from `finishEncryption` means that dst holds the whole
  container, for the files as they were written; every loss has been reported;
  the header names the keys that are on the server; nothing follows the tag.
* **Failure and retry.** `encrypt` leaves `finished` unset and the recipients in
  place when it fails in its loop; `writeHeader` may fail after it has written
  the header. A second attempt appends to the first one's output. Correct is
  that the application was told.
* **DecryptionSource.** The length of the payload is not known in advance, and
  its last bytes are the tag. Reads of any size must move the window of held
  back bytes by exactly what was read, at the end of the stream too, and the
  tag must be checked against exactly what was decrypted.
* **CDoc2Reader.** It serves files before the tag was verified, drops its chain
  on the first error, and relies on `ZSource` reading ahead so that the tag is
  reached before `finishDecryption` closes the chain.
* **CDoc1Writer.** The document goes through two libxml2 text writers, one inside
  the other's cipher. Both buffer, and their destructors flush the rest and report
  nothing. Correct is: OK means that dst took the whole document.
* **CDoc1Reader.** The parser takes any error for the end of the document, and files
  are kept although the payload's verification fails afterwards. Correct is: what
  is accepted is the container, and every failure of an RSA key is delayed, once,
  on whichever path it happens.
* **File copying.** One stream object reads all files of a list and one writes
  all files of a container, so that flags of one file survive into the next;
  `writeAll` loops until the source says it is at its end. Correct is: files arrive
  whole, a failure is of the file it is reported for, and the loops end.
* **Re-encryption.** The new container is filled before the tag of the old one was
  checked; the backends answer by index, for the old recipient first and for the
  new ones later. Correct is: only a verified container is finished again, and each
  lock gets the secret of its own recipient.
* **Key shares.** The user signs the nonces of all servers at once in an
  authentication that is polled for, may be refused or come too late, and may belong
  to an earlier call. Correct is: shares are asked for with nonces the user has
  confirmed, and all of them give the key or no key is given.
* **The token.** One session and one key handle serve all operations, and a session
  left open decides the slot of the next one.
* **The throttle.** Threads read the clock, wait for a mutex and sleep, in any order
  of these steps. Correct is: failures of a key are spaced, other keys never wait.

`PROJECT.json` ("hazards") lists these at their lines, each with the properties
that cover it or the reason why none does.

## 2. The plan

In the order of importance: what is written and read must be the same, and what
was lost must be reported.

1. *Done.* `DataSink`, `WriterPipeline`, `CDoc2Writer`: the push and pull
   interface of the writer over a failing dst; proofs of its invariants.
2. *Done.* `DecryptionSource`: reading an authenticated stream of unknown
   length; proofs of its invariants. `DataSource`, the abstract source that the
   filters above rely on, and the proof that `DecryptionSource` implements it.
3. *Done.* `ReaderPipeline` (`ZSource`, `TarSource`) and
   `CDoc2Reader`: the operations of the pull interface and `decrypt`; what is
   served, when the end is reported, when an intact container verifies; liveness of
   the loops; proofs, of their termination too.
4. *Done.* `Throttle`: threads, a mutex and the clock; proofs.
5. *Done.* `XmlPipeline`, `CDoc1Writer`, `CDoc1Reader`; proofs.
6. *Done.* `FileStreams`, `FileCopy`, `FileExtract`, `ReEncrypt` and `FileTransfer`,
   which composes them: files from a disk into a container and from there to
   another disk or into another container; liveness of the copy loops; proofs, of
   their termination too.
7. *Done.* `TokenSession`, `KeyShares` and `FmkAccess`, which composes them into
   `getFMK`; liveness; proofs, of the termination of a call too.
8. Open: a `ReaderPipeline` over `DataSource` by INSTANCE instead of by the same
   statements in other words.

All modules avoid RECURSIVE operators, so that each can be proved about.

## 3. The modules

    DataSink <- WriterPipeline <- CDoc2Writer <- MCCDoc2Writer, CDoc2WriterProofs
    DataSource <- DecryptionSource <- MCDecryptionSource, DecryptionSourceProofs
    ReaderPipeline <- CDoc2Reader <- MCCDoc2Reader, CDoc2ReaderProofs
    DataSink <- XmlPipeline <- CDoc1Writer <- MCCDoc1Writer, CDoc1WriterProofs
    CDoc1Reader <- MCCDoc1Reader, CDoc1ReaderProofs
    Throttle <- MCThrottle, ThrottleProofs
    FileStreams, FileCopy, FileExtract, ReEncrypt
         <- FileTransfer <- MCFileTransfer, FileTransferProofs
    TokenSession <- MCTokenSession
    KeyShares, TokenSession <- FmkAccess <- MCFmkAccess, FmkAccessProofs

**DataSink** is dst as the writer sees it: a record of what it has accepted and
of its stream state, and for `write` and `close` the set of *outcomes*
`[rv, sink]`. Its `kind` says which it is. A "stream" may refuse any block after taking
any part of it and stays bad then (`Stuck`), while a "consumer" of the application may
recover. An "unopened" file, one that could not be opened, has `failbit` but not
`badbit`: `write` returns success and stores nothing (`Io.h`:250-253).

**WriterPipeline** is the chain. The filters are synchronous: the state of a call
is on the stack, so the chain is a value and a call the set of its outcomes,
combined by `Bind` as the code combines results with `if (rv != OK) return rv`.

| TLA+ | code |
|---|---|
| `size`, `written` | `TarConsumer::_current_size`, `_current_written` |
| `zbuf` | input that deflate has taken and not yet emitted |
| `cerr` | `EncryptionConsumer::error` |
| `sealed` | what went through the cipher; `Tag(sealed)` is the tag over it |
| `TarOpen`, `TarWrite`, `TarClose` | `TarConsumer::open`, `write`, `close` |
| `DeflateWrite`, `DeflateClose` | `ZConsumer::write`, `close` |
| `NewPipe`, `CipherWrite`, `CipherClose` | `EncryptionConsumer`'s constructor, `write`, `close` |

The unit of data is a *chunk* (a tar header, a data unit, a padding, a null
header, the deflate trailer), because the properties tell apart what was lost,
reordered or doubled but not how it is encoded. A data unit stands for any
number of bytes and `Block` units for a tar block of 512. deflate may emit any
prefix of what it holds at any call; when the emitted block is refused the rest
of the input may or may not have been taken, as `write` returns in its loop.

**CDoc2Writer** has a variable for every member of the class and a step for
every call of the push interface. `encrypt` calls back into the application's
`MultiDataSource`, so a round of its loop is a step (`EncryptBegin`, `PullFile`,
`PullData`, `PullEof`, `PullError`, `PullEnd`); meanwhile the application, being
inside the call, makes no other. `server` is the key server: `BuildHeader` stores
one key for each key-server recipient, in order, and may fail at each, before
or after the key was stored. Every guard is the code's early return: a refused
call returns an error and changes nothing (`Refuse`). The variables after
"History" exist for the properties and never occur in a guard, but for the bounds.

**DecryptionSource** reads a `stream` whose bytes are all that is modelled of it:
decryption is byte by byte, so a byte stands for its ciphertext and plaintext,
and `close` accepts exactly the sealed payload. `pos` is the position of the
source below, `tag` the member of that name, `out` what went through the
cipher, `state` summarises `error` and the result of `close`. `read` has the
branches of the code: within the tag, beyond it with a short read, beyond it
with a refill by a second read. At each the source below may fail, after it
has advanced or before, and the cipher may fail.

**DataSource** is what `Io.h`'s `DataSource` promises when it decrypts and
authenticates: each `Read` delivers the next bytes of the content, fewer than
asked for only at its end, and `Close` succeeds for an intact content that was
delivered to the end and for nothing else. It knows nothing of a tag, of reading
ahead or of a cipher. `DecryptionSource` contains it as
`Promised == INSTANCE DataSource WITH ...`: the content is the stream without its last
`TagLen` bytes, and whether it is intact is whether the stream is the sealed one.

**ReaderPipeline** is the chain that `beginDecryption` builds. As in the writer's
pipeline the filters are synchronous, so the chain is a value `r` (its fields
are the members of `DecryptionSource`, `ZSource` and `TarSource` that later
calls depend on) and a call the set of its outcomes `[n, r]`. A payload is the
sequence of units the archive consists of, and for each *cell* of the deflate
stream the number of units that can be inflated up to there: this is all that
decides how far ahead `ZSource` has read. `Inflate` counts the rounds of
`ZSource::read`, every one of which reads a `CHUNK` whether or not inflate still has
input (`Rounds`). inflate stops at the end of its stream, at broken data, or
when a stream that was cut gives no more. `TarRead` is `TarSource::read`, and
`NextHeader` a round of the loop of `TarSource::next`, `ReadPax` included.
`DecryptionSource` occurs as `DecryptionSourceProofs` shows it to behave: a read
is short only at the end, and `close` accepts (`Accepted`) what is intact, read to
its end and without a loss.

**CDoc2Reader** has a step for every call and one for each round of the loops
inside a call: `skip` (`SkipRound`, `SkipAuxRound`), `TarSource::next`
(`HeaderRound`) and `writeAll` (`CopyRound`); `pc` says which is running.
`decrypt` is `Begin` followed by the same loops. `CheckIntegrity` is what `nextFile`
and `readData` do after an error: decrypt the rest (`decryptAllAndClose`), drop the
chain, and use the dropped `tar` if the payload was authentic, which is the state
"crashed". `dangling` is the state after a second `beginDecryption` that replaced
`dec` and then failed: `zsrc` refers to an object that was freed. The wrong key turns
the payload into one that inflate does not take (`Garbled`).

**XmlPipeline** is the chain of CDOC 1: an outer text writer to dst, and for the
payload a base64 filter, the cipher and, when there are several files, an inner text
writer (`DDOCWriter`). A text writer buffers items, flushes when it likes and fails for
good after a refused flush; its destructor flushes the rest without a result. As in
`WriterPipeline` the chain is a value and a call the set of its outcomes.

**CDoc1Writer** has the push interface, which keeps the files in memory, and
`encrypt`; both run `writeDocument`, whose elements (locks, payload, files, blocks,
properties) are steps because `encrypt` calls back into the application. A failure
may happen in every step, and the calls after it are the application's choice. Of a
file in a DDOC, the end (`FileEnd`: what its own base64 filter held back, and the end
of its element) is a write like the blocks before it.

**CDoc1Reader** has `getFMK` as far as the throttle needs it, `beginDecryption`, which
parses the payload into memory, `decrypt`, which hands files over as they are found,
and `nextFile`, `readData`, `finishDecryption`. A container is a record of what its
payload holds and of what is wrong with it. `delays` counts the calls of
`rsaOracleThrottle`.

**Throttle** has for each thread the steps of `rsaOracleThrottle`: read the clock
(`now`), enter the section under the mutex (prune the map, look up and store the
failure, compute the delay), sleep, return. `log` is the history of the calls in the
order of the mutex. Time is in ticks, of which `Ms` make a millisecond, since the delay is
rounded down to milliseconds.

**FileStreams** says of `std::ifstream` and `std::ofstream` which calls set and
clear `eofbit`, `failbit` and `badbit`: opening clears all flags when it succeeds and sets
`failbit` when it does not; a read that meets the end sets two; closing never clears.
**FileCopy** is the way in: `FileListSource` under `writeAll`, with one stream for all
files, and `writer_push` of the tool, with a stream for each. **FileExtract** is the
way out: `FileListConsumer` driven by `CDoc2Reader::decrypt` and by `DDOCReader`, which
also closes each file, and the loop of `CDocCipher::Decrypt`. What is on the disk and
what is in the stream's buffer are separate.

**ReEncrypt** is `CDocCipher::ReEncrypt`, a stage for each call it makes of reader and
writer. The reader is what `CDoc2Reader`'s properties say: it serves a prefix of the
files; a payload that was cut may look like one that ends; one that was altered may
claim other sizes; only an intact one that was read to its end is accepted.
`getRcpt` is `CipherInfo::getRcpt`, which the backends ask by index for a secret, and
`keys` records whose secret each lock was derived from.

**FileTransfer** composes the three: the container holds what the copy gave the writer
(`Store`), and is extracted or moved on. The modules share the sizes of the
stored files.

**TokenSession** has the session, the slot it is of and the key handle of
`PKCS11Backend`, and one operator for an operation: log in unless a session is open, find
the object, use it, log out, failing anywhere. **KeyShares** has the request for the
shares of a key: nonces, certificate, signature of all nonces by Smart-ID or Mobile-ID,
polling, shares. The servers and the signing service are external, and so are the
container and the shares it names: the library has code that splits a key, but its
writer accepts no recipient that would reach it (see the findings). A 32-byte value is the
set of random values it is the XOR of, so that combining shares is symmetric difference. **FmkAccess** is
`getFMK` for every type of lock over both, with the application's own use of the token
between two calls.

## 4. What is checked

| run | what it shows |
|---|---|
| `writer` | A file as dst, opened or not, two files with any declared size, deflate cutting anywhere, one failure; and a dst that recovers, with two attempts, recipients that are refused, a key server that fails and an application that goes on after errors. `FinishExact`: a finished container has its header, all chunks in order and the tag over them. `ArchiveWellFormed`: the archive is the tar of the files as written, paddings included. `StickyFinish`: on a stream OK means that nothing was refused, though the header's results are ignored. `OpenCapsules`: the open container's keys are on the server, no more and no fewer. `OneContainer`: a second header only follows an error. `NoSilentLoss`: whatever was refused after the header fields was reported by some call. `TagIsLast`: nothing is written after the tag. |
| `decryption_source` | All sequences of reads of 1, 2, 3, 4, 5 and 9 bytes over the intact payload, all truncations of it, every single altered byte, and two extensions, over a source that may fail at every read. `Window`, `ShortOnlyAtEnd`, `AcceptsAuthentic`, `VerifiedComplete`, and `KeepsPromise`: it implements `DataSource`. |
| `reader` | Payloads in files, with one failure below in each chain, and all payloads in memory, each truncation and break of one of them included; read, skipped and started again in any order, with the right and wrong key. `ServedExact`: the files in order, of each a gapless prefix of its data. `EndMeansAll`: END_OF_STREAM after all files only, OK from `decrypt` with all data only. `NoFalseAlarm`: no error on an intact payload while nothing below fails. `EndIsVerifiable`: at END_OF_STREAM the tag has been reached. `CallsReturn`: the loops end. |
| `cdoc1_writer` | Documents of every shape, pushed and pulled, over an owned file that may fail. `FinishExact`: the file has exactly the documents asked for. `OkMeansTaken`: OK means that the file took everything, so no text writer held anything back and no destructor hid a refusal. |
| `cdoc1_reader` | Intact, tampered, malformed and oversized payloads, either key, two attempts, consumers that fail. `AcceptedExact`: what `decrypt` handed over and `beginDecryption` kept with OK is the container. `ServedExact`: what is served is in order and exact, the end comes last. `NoFalseAlarm`. `FailuresDelayed`: each failure of an RSA key is delayed once and nothing else is. |
| `throttle` | Two threads, two keys, calls that enter out of the order in which they read the clock. `SpacedFromPredecessor`: a failure is returned an interval after the clock reading of the one before it, but for the rounding. `OnlyRepeatsWait`: keys do not delay each other. `RateBound`: n threads see at most n + 1 failures of a key within an interval, which is what is left of the documented rate of one. |
| `file_transfer` | Lists of three files, each empty or not, missing, changed, unreadable or breaking, copied by either interface; then extracted by any of three clients on a disk where anything may fail, or moved to another container from a payload that may have been cut or altered. `CopyExact`, `CopyNoFalseAlarm`, `CopyEnds`, `ExtractNoFalseAlarm`, `RoundTrip`: a file that both clients called OK is on the disk as it was. `ReEncryptExact`: a new container is finished only when the old one was verified and all of it was moved. `OwnSecrets`: each lock is derived from its own recipient's secret. |
| `get_fmk` | Every type of lock, three share servers, a token with two slots, three calls, each with up to two failures. `SharesConfirmed`: shares are asked for only with nonces that the user confirmed in this call. `FmkExact`: OK comes with the container's key and an error with none. `NoFalseAlarm`, `SlotRespected` and `HandleInSession` (the token uses the slot that was asked for, unless an earlier call leaked a session; no handle outlives its session), `CallsReturn`. |
| `writer_flush`, `files_kept`, `token_slot`, `throttle_interval` | Findings, see below. |

A type invariant is stated for every module whose types are proved, and checked by
the proof; no run repeats it.

### Bounds, and why they are enough

* The writer. `Load` gives the bounds for each kind of dst. On a file (`StreamLoad`), two
  files: the padding of a file depends on the file before it, and with two there is a first,
  a next and a last one. `Block = 2`, sizes -1, 0, 3, writes of 1 or 2 units and 3 units
  of data at most: files that are empty, shorter than a block, at a block boundary and
  beyond it, declared or not, complete or short, written in one call or several. One attempt,
  since an attempt starts with a new chain. On a consumer that recovers (`RetryLoad`), two
  attempts with two recipients: a retry after each kind of failure, with a recipient before
  and after the one that fails. One empty file, whose header is held back and lost as data
  would be. One error bounds the refusals while writing only: finishing and
  retrying are always possible. The theorems have none of these bounds.
* The source. `TagLen = 2` with a payload of seven bytes: reads below, at and above the
  tag's length, several windows long. The theorems are for every length and stream.
* The reader. The payloads: a file that ends within a block and an empty one, once
  compressed unit by unit and once densely; a file of whole blocks with a pax header;
  a file that does not compress; a header of another type. `CHUNK = 2` cells
  and reads of 1 and 4 units make `ZSource` fall behind and run ahead.
  `BUFFER = 2` gives the loops of `skip` and `writeAll` several rounds.
  `MaxBegins = 2`: a chain that replaces one in every state it can be in.
  `WrittenAssumption` says of the payloads a writer finished that from the second
  null block on the deflate stream is shorter than `CHUNK`: 512 zeros and a trailer,
  a few bytes of deflate, against 16 KiB. `EndIsVerifiable` needs it, and `NoFalseAlarm`
  needs it for a further `nextFile` after END_OF_STREAM. `MaxInflated = 14` is the
  size of the largest intact payload in a file, so that the limit is met exactly.
* CDOC 1. One recipient, two files (one file is written as itself, two as a DDOC), one
  unit of data each, one document and one error for the writer, which after an error
  only ends or is used again. Two attempts and one failed call for the reader, so that
  each attempt follows each other one.
* The throttle. An interval of 3/2 milliseconds of two ticks shows the rounding; four
  failures over two threads and two keys make a predecessor, its successor, and a
  failure of the other key that prunes the map between them. One thread, one key and three
  failures are enough for `throttle_interval`.
* Files. Three files in a list, so that a flag meets two further ones, sizes 0 to a
  block and more, blocks of two units. The proofs are for any.
* `get_fmk`. Three servers (a first, a middle and a last one), up to two faults in each call,
  two polling rounds, so that the answer comes at once, later, or too late; three calls,
  so that one can meet the sessions, nonces and signatures of two earlier ones.

A writer's run checks for deadlock (a refused call is a step, so there is
always one), and so does `file_transfer`'s, up to the end of the copy, which is a step
of its own (`Finished`). The other systems may stop: a source that is
closed, a reader that has crashed, attempts or calls that are used up.

### Fairness

* `CDoc2Reader` has `WF_vars(Loop /\ chain'.fault = chain.fault)`: the library runs on
  the thread of its caller, so a call that has begun takes its next step. The
  restriction leaves out the steps in which something below fails, since a
  failure would end a loop that does not end by itself, and nothing obliges it to
  happen.
* `FileTransfer` has `WF_vars(CopyStep)`: both loops of a copy run in one thread. `CopyEnds`
  holds for lists whose existing files can be opened; a stream that could not be
  opened is never at its end, and `writeAll` stays with it.
* `FmkAccess` has `WF_vars(CallStep)`: the steps of a running call. Each request
  has a timeout of its own and the polling loop counts its time, so a step does
  not wait for the user.

The application's calls have no fairness: it may stop at any time. The other
specifications assume none, having only safety properties.

### Findings

* `finishEncryption` returns OK although the final flush failed: the result of
  `dst->close()` is ignored at `CDoc2Writer.cpp`:544 (`writer_flush`).
* The tool reports success for files that could not be created: `CDocCipher::Decrypt`
  looks at `bad()` only (`CDocCipher.cpp`:579), which the comment at `Io.cpp`:147-149
  names as the error that was corrected in `FileListConsumer` (`files_kept`).
* `getPublicKey` returns without `logout` for a key that is not of an elliptic curve
  (`PKCS11Backend.cpp`:380-381); the next operation, for another slot, finds the session
  open and uses the first slot's object (`token_slot`).
* The throttle does not keep "a 1-second minimum interval between consecutive failures for a
  given key" (`Crypto.h`:143-145; `Crypto.cpp`:771-773 rely on "one query per second per RSA
  key"). The entry of a delayed failure is the clock reading from before its delay
  (`Crypto.cpp`:507), so the next failure is measured from there: one thread whose calls read
  the clock at 0, 1 and 1000 ms is answered at 0, 1000 and 1001 ms (`throttle_interval`).
  What holds is `SpacedFromPredecessor`, from clock reading to answer, and `RateBound`.

Met while modelling, present in the models and in the exceptions of the properties,
and without a run of their own:

* The tool takes recipients of the form `[label]:share:ID` (`doc/tool.md`:58,
  `cdoc-tool.cpp`:70 and 330), but `CDoc2Writer::addRecipient` (463-487, which `encrypt`
  calls too, at 555) accepts symmetric and public keys only and fails for the rest. What
  `buildHeader` does for key shares (`CDoc2Writer.cpp`:343-446) is out of reach. All of the
  key-share code, the request's side modelled in `KeyShares` included, is that of a build with
  `HAS_KEYSHARES`, which no build file defines (`cdoc/CMakeLists.txt`:53 leaves `KeyShares.cpp`
  out).
* A recipient whose public key is not on the token is left out
  (`CDocCipher.cpp`:384-387) and shifts the indices of all later ones: the writer asks
  `CryptoBackend` for the secret of its recipient k and `CipherInfo` answers for the k-th that
  was asked for. For the list (such a key, a public key, a password) the password's lock
  is derived from the public key's bytes. `OwnSecrets` holds for all other lists;
  `CryptoBackend.h`:147 calls the index the "lock or recipient index (0-based) in container".
* `beginEncryption` returns OK although a header field was refused, because
  `CDoc2Writer.cpp`:77-80 ignore four results. On a stream `finishEncryption` reports it
  in the end (`StickyFinish`, proved); with a consumer that recovers nothing may.
* `OStreamConsumer` looks at `bad()` only, so writing to a path that could not be
  opened returns OK (`Io.h`:250-253), and closing a stream reports a failed flush by
  `failbit`, which nothing looks at (`Io.h`:315).
* An authentic container can crash the reader: `decryptAllAndClose` resets `tar`, and
  `CDoc2Reader.cpp`:473 and 496 then ask it for its error text (the state "crashed").
* `finishDecryption` may reject an intact container all of whose files were read but
  whose end was not met (`CDoc2Reader.cpp`:518-520); after END_OF_STREAM it never does
  (`EndIsVerifiable`). `decrypt` returns an error of `writeAll` without checking the
  payload (`CDoc2Reader.cpp`:400).
* A file that cannot be opened keeps `writeAll` in its loop when the stream was at no
  end before, and is otherwise read as an empty one.
* `CDoc2Reader::decrypt` does not close the last file, so a failed flush of it is not seen.
* `decryptRSA` for an empty result leaves the session open, and `waitForResult` takes
  COMPLETE without a signature for success; the call fails later.

## 5. What is proved

For every value of the constants that satisfies the named assumptions, by TLAPS:

| module | theorems |
|---|---|
| `CDoc2WriterProofs` | `WriterTypes`, `WriterFinishExact`, `WriterStickyFinish`, `WriterNoSilentLoss`, `WriterOpenCapsules`, `WriterOneContainer`, `WriterTagIsLast`, `WriterArchive` |
| `DecryptionSourceProofs` | `SourceTypes`, `SourceWindow`, `SourceShortOnlyAtEnd`, `SourceAcceptsAuthentic`, `SourceVerifiedComplete`; `SourceKeepsPromise` (`Spec => KeepsPromise`, the refinement) |
| `CDoc2ReaderProofs` | `ReaderInvariant`, `ReaderServedExact`, `ReaderEndMeansAll`, `ReaderNoFalseAlarm`, `ReaderEndIsVerifiable`; `ReaderRoundsEnd` (the loops end) |
| `CDoc1WriterProofs` | `Cdoc1WriterInvariant`, `Cdoc1FinishExact`, `Cdoc1OkMeansTaken` |
| `CDoc1ReaderProofs` | `Cdoc1Invariant`, `Cdoc1ServedExact`, `Cdoc1AcceptedExact`, `Cdoc1NoFalseAlarm`, `Cdoc1FailuresDelayed` |
| `ThrottleProofs` | `ThrottleTypes`, `ThrottleSpaced`, `ThrottleIndependent`, `ThrottleRate` |
| `FmkAccessProofs` | `TokenSlotRespected`, `TokenHandleInSession`, `FmkAlwaysExact`, `FmkSharesConfirmed`, `FmkNoFalseAlarm`; `CallStepsEnd` (a call ends) |
| `FileTransferProofs` | `CopiesExact`, `CopiesNoFalseAlarm`, `ExtractsNoFalseAlarm`, `TransferRoundTrip`, `ReEncryptsExact`, `ReEncryptsOwnSecrets`; `CopyRoundsEnd` (the loops end) |

The assumptions are that lengths are positive, that inputs have their types, that
there are finitely many threads, that some file is empty, what makes a container well-formed
(`ContainersAssumption`, `WrittenAssumption`, below), and what inflate does with any payload
(`InflateAssumption`: its output grows with its input, not beyond the point where it stops).

**The writer.** `FinishExact` speaks about finished writers only and is not
inductive. The inductive invariant `Inv` adds what holds while the chain is open
(`Holds`): as long as nothing was refused and no error returned, what is in dst
after the preamble, followed by what deflate holds back, is the archive so far, and
the cipher has processed exactly what is in dst. `Noted` says where a refusal is
until it is reported: in the error count, among the ignored fields, or in
`EncryptionConsumer::error`. `Shape` has the facts about which states the guards
leave. The argument has two layers. The first half of `CDoc2WriterProofs` shows for each filter, from
the bottom up, that an outcome OK moves the chunks it was given into the
concatenation "dst, then deflate" and that any other outcome is noted (`SinkWriteOutcome`
up to the lemmas on `TarOpen`, `TarWrite`, `TarClose`). The second half has one
lemma for each kind of step (`HeaderStep`, `ChainStep`, `AbortStep`, `FinishStep`,
`EncryptStep`) and combines them action by action in `NextInv`. `TraceInv`, on top of it,
says which attempts the headers in dst are of, and that a tag in dst means a finished
writer: `OneContainer`, and `TagIsLast` because nothing is written by a writer that has
finished. `ArchiveInv` relates the chunks that were accepted to the files: what
the chain has taken is the archive of the files behind, and of the current one its
header and data (`Follows`). That a file is as long as its header says holds because the next
`open`, or `close`, fails when it is not.

**The source.** `Inv` is the conjunction of the type invariant, `Window`,
`ShortOnlyAtEnd`, and two strengthenings: `Counted`, that the lengths of what was
decrypted and held back never exceed what was read and fall short of it once
something was lost (needed because `Window` says nothing after a loss), and `Verified`, that
a verified source has the sealed payload in `out` and `tag`. `AcceptsAuthentic` and
`VerifiedComplete` follow from them. For the refinement, each branch of `read` maps to
`Deliver` or `Fail` of `DataSource` (what was delivered is the next part of the content,
by `Window`; a short delivery is the rest of it, by `ShortOnlyAtEnd`), the constructor's
read-ahead to a stutter or a failure, and `close` to `Close`, by `AcceptsAuthentic`.

**The reader.** A chain on which nothing has failed is `Healthy`: what it has delivered
(`out`) says where in the archive it stands, and `ZSource` has met its end exactly when
nothing is left; one that has failed is `Dead` and stays so. For a healthy chain `InflateAdvances` shows that a read gets all
that was asked for, so that `next`, which reads a block at a time, meets a file's header
where one is or the two null blocks at the end (`NextGood`). That there is something to
meet is `WellLaid` of `WrittenAssumption`: headers, data and paddings follow one another as `TarConsumer`
writes them, which is what `WriterArchive` proves of the writer. A step
of a dead chain only returns errors, and never END_OF_STREAM. `ReaderInv` joins the two
with where the chain stands (`Place`: between files or in one), what was served, and what the
caller was told (`Told`). `EndIsVerifiable` is the second null block, after which by `Deflated`
less than a `CHUNK` remains, so the round that delivered it has read the rest.

**CDoc1Writer.** The theorems assume `DstKind = "stream"` (dst is an `OStreamConsumer`, whose
badbit stays) and `Owned` (it is closed at the end): without the close, what libxml2's
destructor failed to flush is never heard of, and `OkMeansTaken` is false. What the chain
holds is the concatenation `All`: the file, then the outer text writer's buffer, then what
`Base64Consumer` holds back, then `DDOCWriter`'s own text writer. A write moves bytes from
one part to the next, and each layer has a lemma that it adds to `All` exactly what it was
given, or the file has refused something (`Grows`; `TextWriteOutcome` up to
`DdocCloseOutcome`). A layer that writes *behind* another may do so only while that one
holds nothing, which is what `Plain` says at the steps where XMLWriter itself writes. `Inv` is
`Typed`, `Shape` (where writeDocument is with its recipients and files) and `Faithful`: while
no call has failed and no refused `encrypt` has replaced the recipients of an open document,
the files recorded so far are those given (`Recorded`), and `All` is the finished documents followed by as much of the current one as the step has reached
(`Written`, in terms of `Keys`, `Opened`, `Filled`, `Closed`, `Whole`). `FinishExact` is
`Written` between calls; `OkMeansTaken` needs only the chain (`Sane`: an error kept anywhere in
it has a refusal to show for it, and a refusal leaves the badbit) and holds after failures too.

**CDoc1Reader.** `ViewSealed`: both parsers find in a payload that was sealed and is
well-formed exactly what is in it, and read it to its end. `Handed` follows it through
`decrypt` (some files whole, a part of the next), `Serving` through `files` and the calls
of `nextFile` and `readData`. `Calling` says that a call that decrypts has found nothing
parsed: the two conditions of `Parsed` are both needed, since `finishDecryption` clears the files but not
the position. `AcceptedExact` and `NoFalseAlarm` follow from how a call can return (`Returning`);
`FailuresDelayed` counts, action by action, what each adds to `delays`.

**The throttle.** `SpacedFromPredecessor` is about calls that have returned. `Mapped`
relates the map to the log (an entry is the last failure of its key; a key without one
failed an interval ago), `Sleeping` says that a call under way sleeps until its
predecessor is far enough in the past, `Past` that nobody's clock reading is ahead. For
`RateBound`, `OrderInv` says that a call returns after every clock reading that was logged
before it, and that the calls of one thread do not overlap. Between two failures of a
key that are returned within an interval there is then a call of that key which was under way
when the interval began (`CrossingCall`). A thread has only one such call, so
that the failures but the first are no more than the threads. The bound is what the code
gives in place of the documented one, which `throttle_interval` refutes; it is reached, with one
thread already.

**getFMK.** The invariants are layered: `TokenInv` (the session, its slot and its
handle), `FmkInv` (what a running call has collected is the container's: shares of exactly
the servers asked, the key only from them; what it has returned is nothing, or the key) and `ConfirmInv` (the nonces a call has, and the session
it polls, against what the user confirmed). Each step of the composition is first
reduced to its effect on the variables one of them speaks about (`CallEffect`).
The shares of the container are random values, one for each server, but for one that is chosen
so that the XOR of all is the key; `Hidden(n)` is what n of them give, which is the key for all
of them only. `AlarmInv` says that a call in which nothing has failed goes
`Smoothly`: it is in the stages of its type of lock, with everything it has asked for so far.

**Files.** `Inv` has a part for each module composed, `CopyInv`, `ExtractInv`,
`ToolInv`, and `Connected`: nothing is extracted or moved before the container is
stored, and from then on its sizes are what the copy gave. `CopyInv` says which flags
of the one input stream can stand between files (`Between`) and within one (`Copying`),
and that the files behind are whole; `ExtractInv` that a flag of the output stream was
noted as a failure (`Noted`) and where the units are that were written (`OnDisk`);
`ToolInv` that everything behind the current file was moved whole (`Moving`) and
what each stage knows of the payload (`Whence`). Each stream operation has a lemma about its outcomes.
`SecretsInv` relates the index the writer asks with to the recipient it stands for: `CipherInfo`
counts the recipients it was asked about, which are the writer's when none was left out (`InOrder`).
`CopiesExact` and `TransferRoundTrip` assume `Strict` (the writer compares sizes, as
`TarConsumer` does and `CDoc1Writer` does not) and `UnreadableMeasured` (the size that is
found for a file that cannot be opened is its size), without which such a file may be
copied as an empty one and nobody notices.

**Loops.** Three theorems say that no call goes on for ever, each by a pair of
numbers of which every step of the call lowers the first, or the second with the first
unchanged. That both remain numbers needs an invariant of its own.

* `ReaderRoundsEnd`: what inflate has not put out yet, and an order of the loops
  in which each hands over to the next without taking any of it (from `writeAll` to
  skipping to the header). It holds for every payload, also one that was altered or cut, and
  whatever fails: `LoopInv` knows of the chain only that it has put out no more than it
  has read (`Fits`), and a read that makes no progress ends the call. A header that gives a
  negative or a huge size is among the cases (`OpenFileGoes`).
* `CopyRoundsEnd`: the files that are left, and what is left of the current one. A round that
  goes on to another file lowers the first, one that reads the second, the round that
  meets the end of the file and the one that notices it included. It assumes, as `CopyEnds`
  does, that the files that exist can be opened.
* `CallStepsEnd`: the stages of `getFMK` that are left, and within one the
  requests left: servers to ask, or polls until the timeout. The user, the servers and
  the token may do anything between two steps.

Since the pairs are well-founded, a call that is always taken further ends. What is left
for the runs is that it can always be taken further, and is.

**Sums and lists.** Induction over data is out of the prover's reach, since the theorems of
the library take an operator. Where a proof needs it (how many rounds a read takes,
how the concatenation of a list grows with it) it takes the least number that has a
property, or fails to have it, and the contradiction one below (`LeastNumber`), which follows
from the well-foundedness of < by a theorem without an operator.

**Only model-checked**: the liveness properties (`CallsReturn` of the reader and of `getFMK`, `CopyEnds`), of which the
theorems on the loops are the part that does not rest on fairness: that a call which is running has a
next step is a matter of ENABLED, which the prover does not know. And, that the cases which
the properties speak about are reached within the runs' bounds.

## 6. What is not modelled

* Cryptography: a tag is determined by what it covers and accepted only for it;
  keys, signatures and encodings are values. The header's flatbuffer is the set
  of capsules it names.
* Out of memory, exceptions of the standard library, and destructors other than
  the closing of the chain and of libxml2's text writers.
* Of `CDoc2Reader`, the parsing of the header, `getLocks` and `getLockForCert`, which keep
  nothing. Of `TarSource`, names, and a pax header of more than one record.
* Of the network: TLS, proxies and certificates, the wording of requests and tickets,
  the text of the last error of a thread, and configurations that lack a server. `sendShare`
  and the key-share branch of `buildHeader`, which the writer cannot reach (above): the
  container and the shares are given. The
  servers and the signing service are honest but for faults; the key server asks for a
  client certificate. `sendKey` is modelled from `CDoc2Writer`: it stores a key or fails, and
  may fail after it has stored it.
* Of the token: id and label of an object are one name, and a `C_OpenSession` that
  fails leaves no session. `findCertificates` and `findSecretKeys` open sessions of
  their own and keep no state.
* Of the tool: option parsing, the choice of a lock by label, index or certificate
  (any lock, or none), failures of `createReader` and `createWriter` (nothing has happened
  yet), `Locks`, `network.rcpt_idx` during re-encryption, which `sendKey` does not use. A
  password is taken to be of another length than a symmetric key.
* `seek` of a file or stream, which the readers call once before they start to decrypt (they
  see a source that can be rewound, or cannot), and whether a file name is safe.
* Without behaviour of their own: `WinBackend` (a wrapper of CNG), the factories (they
  look at the first bytes), `Recipient`, `Lock`, `Certificate`, `CryptoBackend` and `Crypto`
  (pure values and conversions), configuration, logging, vendored libraries and generated
  bindings. The vendored headers (httplib, fmt, jwt, picojson, pkcs11.h) are two
  thirds of the lines under `src/cdoc/`, which is why the map covers a small share of
  all of them and a large one of the modules above.
