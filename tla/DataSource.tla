----------------------------- MODULE DataSource -----------------------------
(***************************************************************************)
(* What a DataSource (Io.h) that decrypts and authenticates promises to    *)
(* the filters and readers above it, which know nothing of a tag: each     *)
(* read gives the next bytes of the plain text, less than it was asked for *)
(* only when there are no more, and closing it accepts the plain text that *)
(* was sealed and nothing else.                                            *)
(***************************************************************************)
EXTENDS Integers, Sequences

CONSTANTS
  Byte,
  Requests,   \* sizes of the reads
  Genuine     \* the plain text that was sealed

VARIABLES
  content,  \* the plain text below
  intact,   \* it is what was sealed, and so is its tag
  given,    \* what the reads have returned
  status,   \* "open", "broken", "verified" or "rejected"
  ret       \* the last read

vars == <<content, intact, given, status, ret>>

Init ==
  /\ content \in Seq(Byte) /\ intact \in BOOLEAN /\ (intact => content = Genuine)
  /\ given = <<>> /\ status \in {"open", "broken"}
  /\ ret = [want |-> 0, got |-> 0]

Rest      == Len(content) - Len(given)
Amount(n) == IF n <= Rest THEN n ELSE Rest

Deliver(n) ==
  /\ status = "open"
  /\ given' = given \o SubSeq(content, Len(given) + 1, Len(given) + Amount(n))
  /\ ret' = [want |-> n, got |-> Amount(n)]
  /\ UNCHANGED status

(* An error gives nothing, and may cost bytes: the source is then broken.  *)
Fail(n) ==
  /\ status' \in {status, "broken"}
  /\ ret' = [want |-> n, got |-> -1]
  /\ UNCHANGED given

(* What a broken source gives is not to be relied on.                      *)
DeliverBroken(n) ==
  /\ status = "broken"
  /\ Len(given) <= Len(given') /\ SubSeq(given', 1, Len(given)) = given
  /\ ret' = [want |-> n, got |-> Len(given') - Len(given)]
  /\ ret'.got <= n
  /\ UNCHANGED status

Read(n) ==
  /\ status \in {"open", "broken"}
  /\ Deliver(n) \/ Fail(n) \/ DeliverBroken(n)
  /\ UNCHANGED <<content, intact>>

(* An intact source, read to its end, must be accepted; only the sealed    *)
(* plain text, all of it, may be.                                          *)
Close ==
  /\ status \in {"open", "broken"}
  /\ \/ status' = "verified" /\ given = Genuine
     \/ status' = "rejected" /\ ~(status = "open" /\ intact /\ given = content)
  /\ UNCHANGED <<content, intact, given, ret>>

Next == Close \/ \E n \in Requests : Read(n)

Spec == Init /\ [][Next]_vars
=============================================================================
