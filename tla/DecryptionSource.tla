-------------------------- MODULE DecryptionSource --------------------------
(***************************************************************************)
(* DecryptionSource (Crypto.cpp): the DataSource that decrypts a payload   *)
(* while it is read.  The last TagLen bytes of the stream are the          *)
(* authentication tag and must never be decrypted, but the length of the   *)
(* stream is not known in advance: the source always holds back the last   *)
(* TagLen bytes it has read, in its member tag.                            *)
(*                                                                         *)
(* Decryption is byte by byte, so a decrypted byte is written like the     *)
(* byte it comes from.                                                     *)
(***************************************************************************)
EXTENDS Integers, Sequences

CONSTANTS
  Byte,
  TagLen,     \* 16 in the code
  Sealed,     \* the payload the writer produced, tag included
  Streams,    \* what the underlying source may hold after the nonce
  Requests    \* sizes of the reads

ASSUME TagAssumption == TagLen \in Nat \ {0}
ASSUME StreamAssumption == Sealed \in Seq(Byte) /\ Streams \subseteq Seq(Byte)
ASSUME RequestAssumption == Requests \subseteq Nat \ {0}

VARIABLES
  stream,  \* what the underlying source holds
  pos,     \* how much of it has been read
  tag,     \* the bytes held back
  out,     \* the bytes decrypted, which the tag will be checked against
  state,   \* "open", "failed" (error is set), "verified" or "rejected" (closed)
  ret,     \* the last read: the size asked for and the result, -1 for an error
  lost     \* history: the underlying source failed after it had advanced

vars == <<stream, pos, tag, out, state, ret, lost>>

TypeOK ==
  /\ stream \in Streams
  /\ pos \in 0 .. Len(stream)
  /\ tag \in Seq(Byte) /\ Len(tag) <= TagLen
  /\ out \in Seq(Byte)
  /\ state \in {"open", "failed", "verified", "rejected"}
  /\ ret \in [want : Nat, got : Int]
  /\ lost \in BOOLEAN

(* The constructor reads the first TagLen bytes ahead.  It fails when      *)
(* there are not as many, when the nonce is short, or when the source or   *)
(* the cipher fails.                                                       *)
Init ==
  /\ stream \in Streams
  /\ out = <<>> /\ lost = FALSE
  /\ ret = [want |-> 0, got |-> 0]
  /\ \/ /\ Len(stream) >= TagLen
        /\ pos = TagLen /\ tag = SubSeq(stream, 1, TagLen) /\ state = "open"
     \/ pos = 0 /\ tag = <<>> /\ state = "failed"

----------------------------------------------------------------------------
(* n bytes of the stream after position p, and how many a read of n bytes  *)
(* at p returns: fewer only at the end of the stream.                      *)
Bytes(p, n)     == SubSeq(stream, p + 1, p + n)
Available(p, n) == IF n <= Len(stream) - p THEN n ELSE Len(stream) - p

Result(n, got) == ret' = [want |-> n, got |-> got]

(* Mutant: at the end of the stream the bytes held back are given too.     *)
AtEndFlushes(n) ==
  /\ out' = out \o tag /\ tag' = <<>>
  /\ Result(n, Len(tag))
  /\ UNCHANGED <<stream, pos, state, lost>>

(* The end of the stream: nothing changes.                                 *)
AtEnd(n) == Result(n, 0) /\ UNCHANGED <<stream, pos, tag, out, state, lost>>

(* The underlying source fails, possibly after it has advanced by some of  *)
(* n bytes.  Its error is returned but not remembered.                     *)
FirstReadFails(n, asked) ==
  \E k \in 0 .. Available(pos, asked) :
    /\ pos' = pos + k
    /\ lost' = (lost \/ k > 0)
    /\ Result(n, -1)
    /\ UNCHANGED <<stream, tag, out, state>>

(* The bytes d are decrypted and returned, unless the cipher fails, which  *)
(* is remembered; t is held back from now on and the source is at p.       *)
Deliver(n, d, t, p) ==
  /\ pos' = p /\ tag' = t
  /\ UNCHANGED <<stream, lost>>
  /\ \/ out' = out \o d /\ Result(n, Len(d)) /\ UNCHANGED state
     \/ state' = "failed" /\ Result(n, -1) /\ UNCHANGED out

(* Mutant: what was read goes to the start of tag instead of its end.      *)
ReadWithinTagSwapped(n) ==
  LET m == Available(pos, n)
  IN  \/ FirstReadFails(n, n)
      \/ m = 0 /\ AtEnd(n)
      \/ /\ m > 0
         /\ Deliver(n, SubSeq(tag, 1, m), Bytes(pos, m) \o SubSeq(tag, m + 1, TagLen), pos + m)

(* read of at most TagLen bytes: what is read replaces as much of tag.     *)
ReadWithinTag(n) ==
  LET m == Available(pos, n)
  IN  \/ FirstReadFails(n, n)
      \/ m = 0 /\ AtEnd(n)
      \/ /\ m > 0
         /\ Deliver(n, SubSeq(tag, 1, m), SubSeq(tag, m + 1, TagLen) \o Bytes(pos, m), pos + m)

(* Mutant: a short refill leaves the rest of tag as it was.                *)
RefillStale(n, buf, m) ==
  LET k == Available(pos + m, TagLen)
  IN  Deliver(n, buf, SubSeq(tag, 1, TagLen - k) \o Bytes(pos + m, k), pos + m + k)

(* Mutant: there is no second read.                                        *)
RefillNone(n, buf, m) == Deliver(n, SubSeq(buf, 1, m), SubSeq(buf, m + 1, n), pos + m)

(* The second read of a large read, after m bytes and with buf in dst: it  *)
(* refills tag, the end of buf making up for what it lacks.                *)
Refill(n, buf, m) ==
  LET k    == Available(pos + m, TagLen)
      kept == n - (TagLen - k)
  IN  Deliver(n, SubSeq(buf, 1, kept),
              SubSeq(buf, kept + 1, n) \o Bytes(pos + m, k), pos + m + k)

(* Or it fails: what is in dst is given up, and tag may be overwritten.    *)
RefillFails(n, m) ==
  \E k \in 0 .. Available(pos + m, TagLen) :
    /\ pos' = pos + m + k
    /\ tag' = Bytes(pos + m, k) \o SubSeq(tag, k + 1, TagLen)
    /\ lost' = TRUE
    /\ Result(n, -1)
    /\ UNCHANGED <<stream, out, state>>

(* read of more than TagLen bytes: tag is moved to dst, what follows it is *)
(* read behind it, and tag is taken from the end of both when that was     *)
(* short, or refilled by a second read.                                    *)
ReadBeyondTag(n) ==
  LET m   == Available(pos, n - TagLen)
      buf == tag \o Bytes(pos, m)
  IN  \/ FirstReadFails(n, n - TagLen)
      \/ m = 0 /\ AtEnd(n)
      \/ /\ m > 0 /\ m < n - TagLen
         /\ Deliver(n, SubSeq(buf, 1, m), SubSeq(buf, m + 1, m + TagLen), pos + m)
      \/ m > 0 /\ m = n - TagLen /\ (Refill(n, buf, m) \/ RefillFails(n, m))

Read(n) ==
  \/ state = "failed" /\ Result(n, -1) /\ UNCHANGED <<stream, pos, tag, out, state, lost>>
  \/ state = "open" /\ n <= TagLen /\ ReadWithinTag(n)
  \/ state = "open" /\ n > TagLen /\ ReadBeyondTag(n)

(* Mutant: the result of the final check is ignored.                       *)
CloseUnchecked ==
  /\ state \in {"open", "failed"}
  /\ state' = IF state = "open" THEN "verified" ELSE "rejected"
  /\ UNCHANGED <<stream, pos, tag, out, ret, lost>>

(* close: the cipher accepts the tag only for the payload it belongs to.   *)
(* The readers drop the source afterwards.                                 *)
Close ==
  /\ state \in {"open", "failed"}
  /\ state' = IF state = "open" /\ out \o tag = Sealed THEN "verified" ELSE "rejected"
  /\ UNCHANGED <<stream, pos, tag, out, ret, lost>>

Next == Close \/ \E n \in Requests : Read(n)

Spec == Init /\ [][Next]_vars

----------------------------------------------------------------------------
(* PROPERTIES                                                              *)

(* What has been decrypted and what is held back are together what has     *)
(* been read, in order, and TagLen bytes are held back: however reads of   *)
(* different sizes follow each other, no byte of the tag is decrypted and  *)
(* none of the payload is skipped, unless the source failed after it had   *)
(* advanced.                                                               *)
Window ==
  state \in {"open", "verified"} /\ ~lost =>
    Len(tag) = TagLen /\ out \o tag = SubSeq(stream, 1, pos)

(* A read returns less than it was asked for only at the end of the        *)
(* stream, as Io.h requires: decryptAllAndClose stops reading at the first *)
(* such result and must not close before all of the payload was decrypted. *)
ShortOnlyAtEnd == ret.got >= 0 /\ ret.got < ret.want => pos = Len(stream)

(* A payload read to its end is accepted exactly if it is the one that was *)
(* sealed, even when the underlying source failed in between without       *)
(* advancing and was read again.                                           *)
AcceptsAuthentic ==
  ret.got = 0 /\ ret.want > 0 /\ ~lost =>
    /\ state = "verified" => stream = Sealed
    /\ state = "open" /\ stream = Sealed => out \o tag = Sealed

(* A verified payload is complete: of the sealed one nothing is missing,   *)
(* neither cut off from the stream nor lost in an error on the way.        *)
VerifiedComplete ==
  state = "verified" => Len(stream) >= Len(Sealed) /\ (lost => Len(stream) > Len(Sealed))

----------------------------------------------------------------------------
(* THE PROMISE                                                             *)

Plain(s) == SubSeq(s, 1, Len(s) - TagLen)

Status ==
  IF state \in {"verified", "rejected"} THEN state
  ELSE IF lost \/ state = "failed" THEN "broken" ELSE "open"

Promised == INSTANCE DataSource WITH
  Genuine <- Plain(Sealed), content <- Plain(stream), intact <- (stream = Sealed),
  given <- out, status <- Status

(* To its reader the source is one without a tag: the bytes held back, and *)
(* how they move through the two ways to read, do not show.                *)
KeepsPromise == Promised!Spec
=============================================================================
