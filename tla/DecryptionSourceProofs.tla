----------------------- MODULE DecryptionSourceProofs -----------------------
(***************************************************************************)
(* The properties of DecryptionSource for every tag length, every stream   *)
(* and every sequence of reads.                                            *)
(***************************************************************************)
EXTENDS DecryptionSource, SequenceTheorems, TLAPS

(* Bytes are dropped, never made up: while the source can still verify, it *)
(* accounts for no more than was read, and for less once some were lost.   *)
Counted ==
  state \in {"open", "verified"} =>
    /\ Len(tag) = TagLen
    /\ Len(out) + TagLen <= pos
    /\ lost => Len(out) + TagLen < pos

Verified == state = "verified" => out \o tag = Sealed

Inv == TypeOK /\ Window /\ Counted /\ Verified /\ ShortOnlyAtEnd

----------------------------------------------------------------------------
LEMMA Associative ==
  ASSUME NEW s \in Seq(Byte), NEW t \in Seq(Byte), NEW u \in Seq(Byte)
  PROVE  (s \o t) \o u = s \o (t \o u)
  OBVIOUS

LEMMA Lengths ==
  ASSUME NEW s \in Seq(Byte), NEW t \in Seq(Byte)
  PROVE  s \o t \in Seq(Byte) /\ Len(s \o t) = Len(s) + Len(t)
  OBVIOUS

LEMMA BytesJoin ==
  ASSUME NEW s \in Seq(Byte), NEW p \in 0 .. Len(s), NEW q \in p .. Len(s),
         NEW r \in q .. Len(s)
  PROVE  /\ SubSeq(s, p + 1, q) \in Seq(Byte) /\ Len(SubSeq(s, p + 1, q)) = q - p
         /\ SubSeq(s, p + 1, q) \o SubSeq(s, q + 1, r) = SubSeq(s, p + 1, r)
  OBVIOUS

LEMMA Whole ==
  ASSUME NEW s \in Seq(Byte)
  PROVE  SubSeq(s, 1, Len(s)) = s
  OBVIOUS

(* A sequence cut after its first n elements.                              *)
LEMMA Cut ==
  ASSUME NEW s \in Seq(Byte), NEW n \in 0 .. Len(s)
  PROVE  /\ SubSeq(s, 1, n) \in Seq(Byte) /\ Len(SubSeq(s, 1, n)) = n
         /\ SubSeq(s, n + 1, Len(s)) \in Seq(Byte)
         /\ Len(SubSeq(s, n + 1, Len(s))) = Len(s) - n
         /\ SubSeq(s, 1, n) \o SubSeq(s, n + 1, Len(s)) = s
<1>1. Len(s) \in Nat /\ n \in Nat /\ 0 \in 0 .. Len(s) /\ n \in 0 .. Len(s)
      /\ Len(s) \in n .. Len(s) /\ 0 + 1 = 1
  OBVIOUS
<1>2. /\ SubSeq(s, 0 + 1, n) \in Seq(Byte) /\ Len(SubSeq(s, 0 + 1, n)) = n - 0
      /\ SubSeq(s, 0 + 1, n) \o SubSeq(s, n + 1, Len(s)) = SubSeq(s, 0 + 1, Len(s))
  BY <1>1, BytesJoin
<1>3. /\ SubSeq(s, n + 1, Len(s)) \in Seq(Byte)
      /\ Len(SubSeq(s, n + 1, Len(s))) = Len(s) - n
  BY <1>1, BytesJoin
<1>4. SubSeq(s, 0 + 1, n) = SubSeq(s, 1, n) /\ SubSeq(s, 0 + 1, Len(s)) = s /\ n - 0 = n
  BY <1>1, Whole
<1> QED BY <1>2, <1>3, <1>4

LEMMA StreamType ==
  ASSUME TypeOK
  PROVE  stream \in Seq(Byte) /\ Len(stream) \in Nat /\ pos \in Nat /\ pos <= Len(stream)
  BY StreamAssumption DEF TypeOK

LEMMA AvailableRange ==
  ASSUME TypeOK, NEW p \in 0 .. Len(stream), NEW n \in Nat
  PROVE  /\ Available(p, n) \in Nat /\ Available(p, n) <= n
         /\ p + Available(p, n) <= Len(stream)
         /\ Available(p, n) < n => p + Available(p, n) = Len(stream)
  BY StreamType DEF Available

(* d and t together are tag and the bytes from pos to p.                   *)
Moves(d, t, p) == d \o t = tag \o Bytes(pos, p - pos)

----------------------------------------------------------------------------
(* A read that moves the bytes between pos and p through tag, and leaves   *)
(* the last TagLen of them there.                                          *)
LEMMA DeliverStep ==
  ASSUME Inv, state = "open", NEW n \in Requests, NEW d \in Seq(Byte), NEW t \in Seq(Byte),
         NEW p \in pos .. Len(stream), Len(t) = TagLen, Moves(d, t, p),
         Len(d) < n => p = Len(stream), Deliver(n, d, t, p)
  PROVE  Inv'
<1>1. /\ stream \in Seq(Byte) /\ Len(stream) \in Nat /\ pos \in Nat /\ pos <= Len(stream)
      /\ tag \in Seq(Byte) /\ out \in Seq(Byte) /\ Len(out) \in Nat /\ Len(tag) = TagLen
      /\ n \in Nat /\ n > 0 /\ Len(d) \in Nat /\ p \in Nat /\ TagLen \in Nat
  BY StreamType, RequestAssumption, TagAssumption DEF Inv, TypeOK, Counted
<1>2. PICK b : b = Bytes(pos, p - pos)
  OBVIOUS
<1>3. b = SubSeq(stream, pos + 1, p)
  BY <1>1, <1>2 DEF Bytes
<1>4. b \in Seq(Byte) /\ Len(b) = p - pos
  BY <1>1, <1>3, BytesJoin
<1>5. Len(d) = p - pos
  <2>1. Len(d \o t) = Len(d) + Len(t) /\ Len(tag \o b) = Len(tag) + Len(b)
    BY <1>1, <1>4, Lengths
  <2>2. Len(d \o t) = Len(tag \o b)
    BY <1>2 DEF Moves
  <2>3. Len(d) + Len(t) = Len(tag) + Len(b)
    BY ONLY <2>1, <2>2
  <2>4. /\ Len(t) = TagLen /\ Len(tag) = TagLen /\ Len(b) = p - pos
        /\ TagLen \in Int /\ Len(d) \in Int /\ p \in Int /\ pos \in Int
    BY <1>1, <1>4
  <2> QED BY ONLY <2>3, <2>4
<1>6. out \o d \in Seq(Byte) /\ Len(out \o d) = Len(out) + Len(d)
  BY <1>1, Lengths
<1>7. ASSUME ~lost
      PROVE  (out \o d) \o t = SubSeq(stream, 1, p)
  <2>1. (out \o d) \o t = out \o (d \o t) /\ (out \o tag) \o b = out \o (tag \o b)
    <3>1. out \in Seq(Byte) /\ tag \in Seq(Byte) /\ b \in Seq(Byte)
      BY <1>1, <1>4
    <3>2. (out \o d) \o t = out \o (d \o t)
      BY <3>1, Associative, ZenonT(60)
    <3>3. (out \o tag) \o b = out \o (tag \o b)
      BY <3>1, Associative, ZenonT(60)
    <3> QED BY <3>2, <3>3
  <2>2. out \o tag = SubSeq(stream, 1, pos)
    BY <1>7 DEF Inv, Window
  <2>3. SubSeq(stream, 1, pos) \o b = SubSeq(stream, 1, p)
    <3>1. 0 \in 0 .. Len(stream) /\ pos \in 0 .. Len(stream) /\ 0 + 1 = 1
      BY <1>1
    <3> QED BY <1>1, <1>3, <3>1, BytesJoin
  <2> QED BY <1>2, <2>1, <2>2, <2>3 DEF Moves
<1>8. pos' = p /\ tag' = t /\ stream' = stream /\ lost' = lost
  BY DEF Deliver
<1>9. CASE out' = out \o d /\ Result(n, Len(d)) /\ UNCHANGED state
  <2>1. ret' = [want |-> n, got |-> Len(d)] /\ ret'.want = n /\ ret'.got = Len(d)
    BY <1>9 DEF Result
  <2>2. TypeOK'
    <3>1. ret' \in [want : Nat, got : Int]
      BY <1>1, <2>1
    <3> QED BY <1>1, <1>6, <1>8, <1>9, <3>1 DEF Inv, TypeOK
  <2>3. Window'
    BY <1>7, <1>8, <1>9 DEF Window
  <2>4. Counted'
    BY <1>1, <1>5, <1>6, <1>8, <1>9 DEF Inv, Counted
  <2>5. Verified' /\ ShortOnlyAtEnd'
    BY <1>8, <1>9, <2>1 DEF Verified, ShortOnlyAtEnd
  <2> QED BY <2>2, <2>3, <2>4, <2>5 DEF Inv
<1>10. CASE state' = "failed" /\ Result(n, -1) /\ UNCHANGED out
  <2>1. ret' = [want |-> n, got |-> -1] /\ ret'.got = -1
    BY <1>10 DEF Result
  <2>2. TypeOK'
    <3>1. ret' \in [want : Nat, got : Int]
      BY <1>1, <2>1
    <3> QED BY <1>1, <1>8, <1>10, <3>1 DEF Inv, TypeOK
  <2>3. Window' /\ Counted' /\ Verified'
    BY <1>10 DEF Window, Counted, Verified
  <2>4. ShortOnlyAtEnd'
    BY <2>1 DEF ShortOnlyAtEnd
  <2> QED BY <2>2, <2>3, <2>4 DEF Inv
<1> QED BY <1>9, <1>10 DEF Deliver

(* A read at the end of the stream.                                        *)
LEMMA AtEndStep ==
  ASSUME Inv, NEW n \in Requests, pos = Len(stream), AtEnd(n)
  PROVE  Inv'
<1>1. n \in Nat /\ ret' = [want |-> n, got |-> 0]
  BY RequestAssumption DEF AtEnd, Result
<1>2. TypeOK'
  <2>1. ret' \in [want : Nat, got : Int]
    BY <1>1
  <2> QED BY <2>1 DEF Inv, TypeOK, AtEnd
<1>3. Window' /\ Counted' /\ Verified'
  BY DEF Inv, Window, Counted, Verified, AtEnd
<1>4. ShortOnlyAtEnd'
  BY DEF ShortOnlyAtEnd, AtEnd
<1> QED BY <1>2, <1>3, <1>4 DEF Inv

(* An error of the underlying source, at its first or its second read:     *)
(* what the source advanced by is missing from out and tag.                *)
LEMMA SourceErrorStep ==
  ASSUME Inv, state = "open", NEW n \in Requests, Result(n, -1),
         NEW k \in Nat, pos + k <= Len(stream), pos' = pos + k,
         lost' \in BOOLEAN, lost \/ k > 0 => lost', k = 0 => tag' = tag /\ lost' = lost,
         tag' \in Seq(Byte), Len(tag') = TagLen, UNCHANGED <<stream, out, state>>
  PROVE  Inv'
<1>1. /\ stream \in Seq(Byte) /\ Len(stream) \in Nat /\ pos \in Nat
      /\ out \in Seq(Byte) /\ Len(out) \in Nat /\ TagLen \in Nat /\ n \in Nat
  BY StreamType, RequestAssumption, TagAssumption DEF Inv, TypeOK
<1>2. ret' = [want |-> n, got |-> -1] /\ ret'.got = -1
  BY DEF Result
<1>3. TypeOK'
  <2>1. ret' \in [want : Nat, got : Int]
    BY <1>1, <1>2
  <2>2. pos' \in 0 .. Len(stream') /\ Len(tag') <= TagLen
    BY <1>1
  <2> QED BY <2>1, <2>2 DEF Inv, TypeOK
<1>4. CASE k = 0
  BY <1>1, <1>2, <1>3, <1>4 DEF Inv, Window, Counted, Verified, ShortOnlyAtEnd
<1>5. CASE k > 0
  BY <1>1, <1>2, <1>3, <1>5 DEF Inv, Window, Counted, Verified, ShortOnlyAtEnd
<1> QED BY <1>4, <1>5

LEMMA FirstReadFailsStep ==
  ASSUME Inv, state = "open", NEW n \in Requests, NEW asked \in Nat, FirstReadFails(n, asked)
  PROVE  Inv'
<1>1. /\ Len(stream) \in Nat /\ pos \in Nat /\ pos \in 0 .. Len(stream)
      /\ Available(pos, asked) \in Nat /\ pos + Available(pos, asked) <= Len(stream)
      /\ lost \in BOOLEAN
      /\ tag \in Seq(Byte) /\ Len(tag) = TagLen
  BY StreamType, AvailableRange DEF Inv, TypeOK, Counted
<1>2. PICK k \in 0 .. Available(pos, asked) :
        /\ pos' = pos + k
        /\ lost' = (lost \/ k > 0)
        /\ Result(n, -1)
        /\ UNCHANGED <<stream, tag, out, state>>
  BY DEF FirstReadFails
<1>3. k \in Nat /\ pos + k <= Len(stream)
  BY <1>1, <1>2
<1>4. lost' \in BOOLEAN /\ (lost \/ k > 0 => lost')
  BY <1>2
<1>5. k = 0 => tag' = tag /\ lost' = lost
  BY <1>1, <1>2
<1>6. tag' \in Seq(Byte) /\ Len(tag') = TagLen
  BY <1>1, <1>2
<1>7. Result(n, -1) /\ pos' = pos + k /\ UNCHANGED <<stream, out, state>>
  BY <1>2
<1> QED BY <1>3, <1>4, <1>5, <1>6, <1>7, SourceErrorStep

LEMMA WithinStep ==
  ASSUME Inv, state = "open", NEW n \in Requests, n <= TagLen, ReadWithinTag(n)
  PROVE  Inv'
<1>1. PICK m : m = Available(pos, n)
  OBVIOUS
<1>2. /\ stream \in Seq(Byte) /\ Len(stream) \in Nat /\ pos \in Nat /\ pos \in 0 .. Len(stream)
      /\ n \in Nat /\ tag \in Seq(Byte) /\ Len(tag) = TagLen /\ TagLen \in Nat
  BY StreamType, RequestAssumption, TagAssumption DEF Inv, TypeOK, Counted
<1>3. /\ m \in Nat /\ m <= n /\ pos + m <= Len(stream)
      /\ m < n => pos + m = Len(stream)
  BY <1>1, <1>2, AvailableRange DEF Inv
<1>7. m <= TagLen /\ m \in 0 .. Len(tag) /\ pos + m \in pos .. Len(stream)
  BY <1>2, <1>3
<1>4. CASE FirstReadFails(n, n)
  BY <1>2, <1>4, FirstReadFailsStep
<1>5. CASE m = 0 /\ AtEnd(n)
  BY <1>2, <1>3, <1>5, AtEndStep, RequestAssumption
<1>6. CASE /\ m > 0
           /\ Deliver(n, SubSeq(tag, 1, m), SubSeq(tag, m + 1, TagLen) \o Bytes(pos, m), pos + m)
  <2>1. PICK d, e, b : /\ d = SubSeq(tag, 1, m) /\ e = SubSeq(tag, m + 1, TagLen)
                       /\ b = Bytes(pos, m)
    OBVIOUS
  <2>2. /\ d \in Seq(Byte) /\ Len(d) = m /\ e \in Seq(Byte) /\ Len(e) = TagLen - m
        /\ d \o e = tag
    BY <1>2, <1>7, <2>1, Cut
  <2>3. b \in Seq(Byte) /\ Len(b) = m
    <3>1. (pos + m) - pos = m /\ b = SubSeq(stream, pos + 1, pos + m)
      BY <1>2, <1>3, <2>1 DEF Bytes
    <3> QED BY <1>2, <1>3, <1>7, <3>1, BytesJoin
  <2>4. e \o b \in Seq(Byte) /\ Len(e \o b) = TagLen
    <3>1. e \o b \in Seq(Byte) /\ Len(e \o b) = Len(e) + Len(b)
      BY <2>2, <2>3, Lengths
    <3>2. Len(e) + Len(b) = TagLen
      BY <1>2, <1>3, <2>2, <2>3
    <3> QED BY <3>1, <3>2
  <2>5. Moves(d, e \o b, pos + m)
    <3>1. (pos + m) - pos = m
      BY <1>2, <1>3
    <3>2. (d \o e) \o b = d \o (e \o b)
      BY <2>2, <2>3, Associative
    <3> QED BY <2>1, <2>2, <3>1, <3>2 DEF Moves
  <2> QED BY <1>3, <1>6, <1>7, <2>1, <2>2, <2>4, <2>5, DeliverStep
<1> QED BY <1>1, <1>4, <1>5, <1>6 DEF ReadWithinTag

LEMMA BeyondStep ==
  ASSUME Inv, state = "open", NEW n \in Requests, n > TagLen, ReadBeyondTag(n)
  PROVE  Inv'
<1>1. PICK m : m = Available(pos, n - TagLen)
  OBVIOUS
<1>2. PICK b : b = Bytes(pos, m)
  OBVIOUS
<1>3. PICK buf : buf = tag \o b
  OBVIOUS
<1>4. /\ stream \in Seq(Byte) /\ Len(stream) \in Nat /\ pos \in Nat /\ pos \in 0 .. Len(stream)
      /\ n \in Nat /\ tag \in Seq(Byte) /\ Len(tag) = TagLen /\ TagLen \in Nat
      /\ n - TagLen \in Nat
  BY StreamType, RequestAssumption, TagAssumption DEF Inv, TypeOK, Counted
<1>13. /\ m \in Nat /\ m <= n - TagLen /\ pos + m <= Len(stream)
       /\ m < n - TagLen => pos + m = Len(stream)
  BY <1>1, <1>4, AvailableRange DEF Inv
<1>5. /\ m \in Nat /\ m <= n - TagLen /\ pos + m \in pos .. Len(stream)
      /\ pos + m \in 0 .. Len(stream)
      /\ m < n - TagLen => pos + m = Len(stream)
  BY <1>4, <1>13
<1>6. b = SubSeq(stream, pos + 1, pos + m) /\ b \in Seq(Byte) /\ Len(b) = m
  <2>1. (pos + m) - pos = m /\ b = SubSeq(stream, pos + 1, pos + m)
    BY <1>2, <1>4, <1>5 DEF Bytes
  <2> QED BY <1>4, <1>5, <2>1, BytesJoin
<1>7. buf \in Seq(Byte) /\ Len(buf) = TagLen + m
  BY <1>3, <1>4, <1>6, Lengths
<1>8. CASE FirstReadFails(n, n - TagLen)
  BY <1>4, <1>8, FirstReadFailsStep
<1>9. CASE m = 0 /\ AtEnd(n)
  BY <1>4, <1>5, <1>9, AtEndStep
<1>10. CASE /\ m > 0 /\ m < n - TagLen
            /\ Deliver(n, SubSeq(buf, 1, m), SubSeq(buf, m + 1, m + TagLen), pos + m)
  <2>1. PICK d, t : d = SubSeq(buf, 1, m) /\ t = SubSeq(buf, m + 1, m + TagLen)
    OBVIOUS
  <2>2. /\ d \in Seq(Byte) /\ t \in Seq(Byte) /\ Len(t) = TagLen /\ d \o t = buf
    <3>1. m \in 0 .. Len(buf) /\ m + TagLen = Len(buf) /\ Len(buf) - m = TagLen
      BY <1>4, <1>5, <1>7
    <3> QED BY <1>7, <2>1, <3>1, Cut
  <2>3. Moves(d, t, pos + m)
    <3>1. (pos + m) - pos = m
      BY <1>4, <1>5
    <3> QED BY <1>2, <1>3, <2>2, <3>1 DEF Moves
  <2> QED BY <1>5, <1>10, <2>1, <2>2, <2>3, DeliverStep
<1>11. CASE m > 0 /\ m = n - TagLen /\ Refill(n, buf, m)
  <2>1. PICK k : k = Available(pos + m, TagLen)
    OBVIOUS
  <2>13. /\ k \in Nat /\ k <= TagLen /\ pos + m + k <= Len(stream)
         /\ k < TagLen => pos + m + k = Len(stream)
    BY <1>4, <1>5, <2>1, AvailableRange DEF Inv
  <2>2. /\ k \in Nat /\ k <= TagLen /\ pos + m + k \in pos .. Len(stream)
        /\ pos + m + k \in (pos + m) .. Len(stream)
        /\ k < TagLen => pos + m + k = Len(stream)
    BY <1>4, <1>5, <2>13
  <2>3. PICK kept : kept = n - (TagLen - k)
    OBVIOUS
  <2>4. kept \in 0 .. Len(buf) /\ Len(buf) = n /\ kept = m + k
    BY <1>4, <1>5, <1>7, <1>11, <2>2, <2>3
  <2>5. PICK c : c = Bytes(pos + m, k)
    OBVIOUS
  <2>6. c = SubSeq(stream, (pos + m) + 1, pos + m + k) /\ c \in Seq(Byte) /\ Len(c) = k
    <3>1. pos + m + k - (pos + m) = k /\ c = SubSeq(stream, (pos + m) + 1, pos + m + k)
      BY <1>4, <1>5, <2>2, <2>5 DEF Bytes
    <3> QED BY <1>4, <1>5, <2>2, <3>1, BytesJoin
  <2>7. PICK d, e : d = SubSeq(buf, 1, kept) /\ e = SubSeq(buf, kept + 1, n)
    OBVIOUS
  <2>8. /\ d \in Seq(Byte) /\ Len(d) = kept /\ e \in Seq(Byte) /\ Len(e) = n - kept
        /\ d \o e = buf
    BY <1>7, <2>4, <2>7, Cut
  <2>9. e \o c \in Seq(Byte) /\ Len(e \o c) = TagLen
    <3>1. e \o c \in Seq(Byte) /\ Len(e \o c) = Len(e) + Len(c)
      BY <2>6, <2>8, Lengths
    <3>2. Len(e) + Len(c) = TagLen
      BY <1>4, <2>2, <2>3, <2>6, <2>8
    <3> QED BY <3>1, <3>2
  <2>10. Moves(d, e \o c, pos + m + k)
    <3>1. (d \o e) \o c = d \o (e \o c)
      BY <2>6, <2>8, Associative
    <3>4. (tag \o b) \o c = tag \o (b \o c)
      <4>1. tag \in Seq(Byte) /\ b \in Seq(Byte) /\ c \in Seq(Byte)
        BY <1>4, <1>6, <2>6
      <4> QED BY <4>1, Associative
    <3>2. b \o c = SubSeq(stream, pos + 1, pos + m + k)
      BY <1>4, <1>5, <1>6, <2>2, <2>6, BytesJoin
    <3>3. Bytes(pos, (pos + m + k) - pos) = SubSeq(stream, pos + 1, pos + m + k)
      <4>1. pos + ((pos + m + k) - pos) = pos + m + k
        BY <1>4, <1>5, <2>2
      <4> QED BY <4>1 DEF Bytes
    <3> QED BY <1>3, <2>8, <3>1, <3>2, <3>3, <3>4 DEF Moves
  <2>11. Deliver(n, d, e \o c, pos + m + k)
    BY <1>11, <2>1, <2>3, <2>5, <2>7 DEF Refill
  <2>12. Len(d) < n => pos + m + k = Len(stream)
    BY <1>4, <2>2, <2>3, <2>8
  <2> QED BY <2>2, <2>8, <2>9, <2>10, <2>11, <2>12, DeliverStep
<1>12. CASE m > 0 /\ RefillFails(n, m)
  <2>1. PICK k \in 0 .. Available(pos + m, TagLen) :
          /\ pos' = pos + m + k
          /\ tag' = Bytes(pos + m, k) \o SubSeq(tag, k + 1, TagLen)
          /\ lost' = TRUE
          /\ Result(n, -1)
          /\ UNCHANGED <<stream, out, state>>
    BY <1>12 DEF RefillFails
  <2>7. /\ Available(pos + m, TagLen) \in Nat /\ Available(pos + m, TagLen) <= TagLen
        /\ pos + m + Available(pos + m, TagLen) <= Len(stream)
    BY <1>4, <1>5, AvailableRange DEF Inv
  <2>2. k \in Nat /\ k <= TagLen /\ pos + m + k <= Len(stream)
    BY <1>4, <1>5, <2>1, <2>7
  <2>3. PICK j : j = m + k
    OBVIOUS
  <2>4. j \in Nat /\ j > 0 /\ pos + j <= Len(stream) /\ pos' = pos + j
    BY <1>4, <1>5, <1>12, <2>1, <2>2, <2>3
  <2>5. tag' \in Seq(Byte) /\ Len(tag') = TagLen
    <3>1. PICK c, e : c = Bytes(pos + m, k) /\ e = SubSeq(tag, k + 1, TagLen)
      OBVIOUS
    <3>2. c \in Seq(Byte) /\ Len(c) = k
      <4>1. pos + m + k - (pos + m) = k /\ c = SubSeq(stream, (pos + m) + 1, pos + m + k)
            /\ pos + m + k \in (pos + m) .. Len(stream)
        BY <1>4, <1>5, <2>2, <3>1 DEF Bytes
      <4> QED BY <1>4, <1>5, <4>1, BytesJoin
    <3>3. e \in Seq(Byte) /\ Len(e) = TagLen - k
      BY <1>4, <2>2, <3>1, Cut
    <3>4. c \o e \in Seq(Byte) /\ Len(c \o e) = Len(c) + Len(e)
      BY <3>2, <3>3, Lengths
    <3>5. Len(c) + Len(e) = TagLen
      BY <1>4, <2>2, <3>2, <3>3
    <3> QED BY <2>1, <3>1, <3>4, <3>5
  <2>6. lost' \in BOOLEAN /\ (lost \/ j > 0 => lost')
    BY <2>1
  <2>8. j = 0 => tag' = tag /\ lost' = lost
    BY <2>4
  <2>9. Result(n, -1) /\ UNCHANGED <<stream, out, state>>
    BY <2>1
  <2> QED BY <2>4, <2>5, <2>6, <2>8, <2>9, SourceErrorStep
<1> QED BY <1>1, <1>2, <1>3, <1>8, <1>9, <1>10, <1>11, <1>12 DEF ReadBeyondTag

LEMMA InitInv == Init => Inv
<1> SUFFICES ASSUME Init PROVE Inv
  OBVIOUS
<1>1. /\ stream \in Seq(Byte) /\ Len(stream) \in Nat /\ TagLen \in Nat /\ stream \in Streams
      /\ out = <<>> /\ lost = FALSE /\ ret = [want |-> 0, got |-> 0]
  BY StreamAssumption, TagAssumption DEF Init
<1>2. ret \in [want : Nat, got : Int] /\ ret.want = 0 /\ ret.got = 0
  BY <1>1
<1>3. ShortOnlyAtEnd
  BY <1>2 DEF ShortOnlyAtEnd
<1>7. <<>> \in Seq(Byte) /\ Len(<<>>) = 0
  OBVIOUS
<1>8. lost \in BOOLEAN
  BY <1>1
<1>6. out \in Seq(Byte) /\ lost \in BOOLEAN /\ <<>> \in Seq(Byte) /\ Len(<<>>) = 0
  BY <1>1, <1>7, <1>8
<1>4. CASE /\ Len(stream) >= TagLen
           /\ pos = TagLen /\ tag = SubSeq(stream, 1, TagLen) /\ state = "open"
  <2>1. tag \in Seq(Byte) /\ Len(tag) = TagLen
    BY <1>1, <1>4, Cut
  <2>2. <<>> \o tag = tag /\ Len(<<>>) = 0
    BY <2>1
  <2>3. TypeOK
    <3>1. pos \in 0 .. Len(stream) /\ Len(tag) <= TagLen
      BY <1>1, <1>4, <2>1
    <3> QED BY <1>1, <1>2, <1>4, <1>6, <2>1, <3>1 DEF TypeOK
  <2>4. Window /\ Counted /\ Verified
    BY <1>1, <1>4, <2>1, <2>2 DEF Window, Counted, Verified
  <2> QED BY <1>3, <2>3, <2>4 DEF Inv
<1>5. CASE pos = 0 /\ tag = <<>> /\ state = "failed"
  <2>1. TypeOK
    <3>1. pos \in 0 .. Len(stream) /\ tag \in Seq(Byte) /\ Len(tag) <= TagLen
      BY <1>1, <1>5, <1>6
    <3> QED BY <1>1, <1>2, <1>5, <1>6, <3>1 DEF TypeOK
  <2>2. Window /\ Counted /\ Verified
    BY <1>5 DEF Window, Counted, Verified
  <2> QED BY <1>3, <2>1, <2>2 DEF Inv
<1> QED BY <1>4, <1>5 DEF Init

LEMMA ReadStep ==
  ASSUME Inv, NEW n \in Requests, Read(n)
  PROVE  Inv'
<1>1. CASE /\ state = "failed" /\ Result(n, -1)
           /\ UNCHANGED <<stream, pos, tag, out, state, lost>>
  <2>1. n \in Nat /\ ret' = [want |-> n, got |-> -1] /\ ret'.got = -1
    BY <1>1, RequestAssumption DEF Result
  <2>2. ret' \in [want : Nat, got : Int]
    BY <2>1
  <2>3. TypeOK'
    BY <1>1, <2>2 DEF Inv, TypeOK
  <2>4. Window' /\ Counted' /\ Verified' /\ ShortOnlyAtEnd'
    BY <1>1, <2>1 DEF Window, Counted, Verified, ShortOnlyAtEnd
  <2> QED BY <2>3, <2>4 DEF Inv
<1>2. CASE state = "open" /\ n <= TagLen /\ ReadWithinTag(n)
  BY <1>2, WithinStep
<1>3. CASE state = "open" /\ n > TagLen /\ ReadBeyondTag(n)
  BY <1>3, BeyondStep
<1> QED BY <1>1, <1>2, <1>3 DEF Read

LEMMA CloseStep ==
  ASSUME Inv, Close
  PROVE  Inv'
<1>1. /\ UNCHANGED <<stream, pos, tag, out, ret, lost>>
      /\ state \in {"open", "failed"} /\ state' \in {"verified", "rejected"}
      /\ state' = "verified" => state = "open" /\ out \o tag = Sealed
  BY DEF Close
<1>2. TypeOK' /\ ShortOnlyAtEnd'
  BY <1>1 DEF Inv, TypeOK, ShortOnlyAtEnd
<1>3. Window' /\ Counted' /\ Verified'
  BY <1>1 DEF Inv, Window, Counted, Verified
<1> QED BY <1>2, <1>3 DEF Inv

LEMMA NextInv == Inv /\ [Next]_vars => Inv'
<1> SUFFICES ASSUME Inv, [Next]_vars PROVE Inv'
  OBVIOUS
<1>1. CASE Close
  BY <1>1, CloseStep
<1>2. ASSUME NEW n \in Requests, Read(n)
      PROVE  Inv'
  BY <1>2, ReadStep
<1>3. CASE UNCHANGED vars
  BY <1>3 DEF Inv, TypeOK, Window, Counted, Verified, ShortOnlyAtEnd, vars
<1> QED BY <1>1, <1>2, <1>3 DEF Next

LEMMA SpecInv == Spec => []Inv
BY InitInv, NextInv, PTL DEF Spec

(* The state of the source has the types declared for it; in particular    *)
(* tag never overflows.                                                    *)
THEOREM SourceTypes == Spec => []TypeOK
<1>1. Inv => TypeOK
  BY DEF Inv
<1> QED BY <1>1, SpecInv, PTL

(* Decrypted and held back bytes are together the bytes read.              *)
THEOREM SourceWindow == Spec => []Window
<1>1. Inv => Window
  BY DEF Inv
<1> QED BY <1>1, SpecInv, PTL

(* A result shorter than the request means the end of the stream.          *)
THEOREM SourceShortOnlyAtEnd == Spec => []ShortOnlyAtEnd
<1>1. Inv => ShortOnlyAtEnd
  BY DEF Inv
<1> QED BY <1>1, SpecInv, PTL

(* Once it has been read to the end, the sealed payload is accepted and    *)
(* any other is not.                                                       *)
THEOREM SourceAcceptsAuthentic == Spec => []AcceptsAuthentic
<1>1. Inv => AcceptsAuthentic
  <2> SUFFICES ASSUME Inv, ret.got = 0, ret.want > 0, ~lost, state \in {"verified", "open"}
               PROVE  out \o tag = stream
    BY DEF AcceptsAuthentic, Inv, Verified
  <2>1. pos = Len(stream)
    BY DEF Inv, ShortOnlyAtEnd
  <2>2. stream \in Seq(Byte)
    BY StreamType DEF Inv
  <2> QED BY <2>1, <2>2, Whole DEF Inv, Window
<1> QED BY <1>1, SpecInv, PTL

(* What verifies is all of the sealed payload, and was all of the stream   *)
(* unless there was more of it.                                            *)
THEOREM SourceVerifiedComplete == Spec => []VerifiedComplete
<1>1. Inv => VerifiedComplete
  <2> SUFFICES ASSUME Inv, state = "verified"
               PROVE  Len(stream) >= Len(Sealed) /\ (lost => Len(stream) > Len(Sealed))
    BY DEF VerifiedComplete
  <2>1. /\ out \in Seq(Byte) /\ tag \in Seq(Byte) /\ Len(stream) \in Nat /\ pos \in Nat
        /\ pos <= Len(stream)
    BY StreamType DEF Inv, TypeOK
  <2>2. Len(Sealed) = Len(out) + Len(tag)
    BY <2>1, Lengths DEF Inv, Verified
  <2>3. Len(tag) = TagLen /\ Len(out) + TagLen <= pos /\ (lost => Len(out) + TagLen < pos)
    BY DEF Inv, Counted
  <2> QED BY <2>1, <2>2, <2>3, TagAssumption
<1> QED BY <1>1, SpecInv, PTL

----------------------------------------------------------------------------
(* THE PROMISE                                                             *)

(* A read returns an error and gives nothing, or gives d.                  *)
Erred(n) ==
  /\ Result(n, -1)
  /\ out' = out /\ state' \in {state, "failed"}
Gave(n, d) ==
  /\ state = "open" /\ state' = "open"
  /\ out' = out \o d /\ Len(d) <= n /\ Result(n, Len(d))
  /\ lost' = lost

Answered(n) ==
  /\ stream' = stream /\ (lost => lost')
  /\ Erred(n) \/ \E d \in Seq(Byte) : Gave(n, d)

LEMMA AnswerToDeliver ==
  ASSUME state = "open", NEW n, NEW d \in Seq(Byte), NEW t, NEW p, Deliver(n, d, t, p),
         Len(d) <= n
  PROVE  Answered(n)
BY DEF Deliver, Answered, Erred, Gave

LEMMA AnswerAtEnd ==
  ASSUME Inv, state = "open", NEW n \in Requests, AtEnd(n)
  PROVE  Answered(n)
<1>1. n \in Nat /\ out \in Seq(Byte)
  BY RequestAssumption DEF Inv, TypeOK
<1>2. <<>> \in Seq(Byte) /\ Len(<<>>) = 0 /\ out \o <<>> = out
  BY <1>1
<1>3. Gave(n, <<>>)
  BY <1>1, <1>2 DEF AtEnd, Gave
<1> QED BY <1>2, <1>3 DEF Answered, AtEnd

LEMMA AnswerToFailure ==
  ASSUME state = "open", NEW n, NEW asked, FirstReadFails(n, asked)
  PROVE  Answered(n)
BY DEF FirstReadFails, Answered, Erred

LEMMA ReadAnswered ==
  ASSUME Inv, NEW n \in Requests, Read(n)
  PROVE  Answered(n)
<1>1. /\ stream \in Seq(Byte) /\ Len(stream) \in Nat /\ pos \in Nat /\ pos \in 0 .. Len(stream)
      /\ n \in Nat /\ tag \in Seq(Byte) /\ TagLen \in Nat
      /\ state = "open" => Len(tag) = TagLen
  BY StreamType, RequestAssumption, TagAssumption DEF Inv, TypeOK, Counted
<1>2. CASE /\ state = "failed" /\ Result(n, -1)
           /\ UNCHANGED <<stream, pos, tag, out, state, lost>>
  BY <1>2 DEF Answered, Erred
<1>3. CASE state = "open" /\ n <= TagLen /\ ReadWithinTag(n)
  <2>1. PICK m : m = Available(pos, n)
    OBVIOUS
  <2>2. m \in 0 .. n /\ m \in 0 .. Len(tag)
    BY <1>1, <1>3, <2>1, AvailableRange DEF Inv
  <2>3. CASE FirstReadFails(n, n)
    BY <1>3, <2>3, AnswerToFailure
  <2>4. CASE AtEnd(n)
    BY <1>3, <2>4, AnswerAtEnd
  <2>5. CASE Deliver(n, SubSeq(tag, 1, m), SubSeq(tag, m + 1, TagLen) \o Bytes(pos, m), pos + m)
    <3>1. SubSeq(tag, 1, m) \in Seq(Byte) /\ Len(SubSeq(tag, 1, m)) <= n
      BY <1>1, <2>2, Cut
    <3> QED BY <1>3, <2>5, <3>1, AnswerToDeliver
  <2> QED BY <1>3, <2>1, <2>3, <2>4, <2>5 DEF ReadWithinTag
<1>4. CASE state = "open" /\ n > TagLen /\ ReadBeyondTag(n)
  <2>1. PICK m, b : m = Available(pos, n - TagLen) /\ b = Bytes(pos, m)
    OBVIOUS
  <2>2. PICK buf : buf = tag \o b
    OBVIOUS
  <2>3. m \in Nat /\ m <= n - TagLen /\ pos + m <= Len(stream)
    <3>1. n - TagLen \in Nat
      BY <1>1, <1>4
    <3> QED BY <1>1, <2>1, <3>1, AvailableRange DEF Inv
  <2>4. b \in Seq(Byte) /\ Len(b) = m
    <3>1. (pos + m) - pos = m /\ b = SubSeq(stream, pos + 1, pos + m)
          /\ pos + m \in pos .. Len(stream)
      BY <1>1, <2>1, <2>3 DEF Bytes
    <3> QED BY <1>1, <3>1, BytesJoin
  <2>5. buf \in Seq(Byte) /\ Len(buf) = TagLen + m
    BY <1>1, <1>4, <2>2, <2>4, Lengths
  <2>6. CASE FirstReadFails(n, n - TagLen)
    BY <1>4, <2>6, AnswerToFailure
  <2>7. CASE AtEnd(n)
    BY <1>4, <2>7, AnswerAtEnd
  <2>8. CASE Deliver(n, SubSeq(buf, 1, m), SubSeq(buf, m + 1, m + TagLen), pos + m)
    <3>1. m \in 0 .. Len(buf) /\ m <= n
      BY <1>1, <2>3, <2>5
    <3>2. SubSeq(buf, 1, m) \in Seq(Byte) /\ Len(SubSeq(buf, 1, m)) <= n
      BY <2>5, <3>1, Cut
    <3> QED BY <1>4, <2>8, <3>2, AnswerToDeliver
  <2>9. CASE m = n - TagLen /\ Refill(n, buf, m)
    <3>1. PICK k : k = Available(pos + m, TagLen)
      OBVIOUS
    <3>2. k \in Nat /\ k <= TagLen
      <4>1. pos + m \in 0 .. Len(stream)
        BY <1>1, <2>3
      <4> QED BY <1>1, <3>1, <4>1, AvailableRange DEF Inv
    <3>3. PICK kept : kept = n - (TagLen - k)
      OBVIOUS
    <3>4. kept \in 0 .. Len(buf) /\ kept <= n
      BY <1>1, <1>4, <2>3, <2>5, <2>9, <3>2, <3>3
    <3>5. PICK d : d = SubSeq(buf, 1, kept)
      OBVIOUS
    <3>6. d \in Seq(Byte) /\ Len(d) <= n
      BY <2>5, <3>4, <3>5, Cut
    <3>7. PICK t, p : Deliver(n, d, t, p)
      BY <2>9, <3>1, <3>3, <3>5 DEF Refill
    <3> QED BY <1>4, <3>6, <3>7, AnswerToDeliver
  <2>10. CASE RefillFails(n, m)
    BY <1>4, <2>10 DEF RefillFails, Answered, Erred
  <2> QED BY <1>4, <2>1, <2>2, <2>6, <2>7, <2>8, <2>9, <2>10 DEF ReadBeyondTag
<1> QED BY <1>2, <1>3, <1>4 DEF Read

(* The plain text is the stream without its tag: up to where there is no   *)
(* tag they agree.                                                         *)
LEMMA PlainPrefix ==
  ASSUME NEW s \in Seq(Byte), Len(s) >= TagLen
  PROVE  /\ Plain(s) \in Seq(Byte) /\ Len(Plain(s)) = Len(s) - TagLen
         /\ \A n \in 0 .. Len(s) - TagLen : SubSeq(Plain(s), 1, n) = SubSeq(s, 1, n)
<1>1. Len(s) \in Nat /\ TagLen \in Nat /\ Len(s) - TagLen \in 0 .. Len(s)
  BY TagAssumption
<1>2. PICK k : k = Len(s) - TagLen
  OBVIOUS
<1>3. k \in 0 .. Len(s) /\ Plain(s) = SubSeq(s, 1, k)
  BY <1>1, <1>2 DEF Plain
<1>4. Plain(s) \in Seq(Byte) /\ Len(Plain(s)) = k
  BY <1>3, Cut
<1>5. ASSUME NEW n \in 0 .. k
      PROVE  SubSeq(Plain(s), 1, n) = SubSeq(s, 1, n)
  BY <1>1, <1>3, <1>4, <1>5
<1> QED BY <1>2, <1>4, <1>5

(* The end of the first part of a sequence, cut out of the sequence.       *)
LEMMA PrefixOfJoin ==
  ASSUME NEW s \in Seq(Byte), NEW t \in Seq(Byte)
  PROVE  SubSeq(s \o t, 1, Len(s)) = s
  OBVIOUS

LEMMA PrefixOfPrefix ==
  ASSUME NEW s \in Seq(Byte), NEW p \in 0 .. Len(s), NEW n \in 0 .. p
  PROVE  SubSeq(SubSeq(s, 1, p), 1, n) = SubSeq(s, 1, n)
  OBVIOUS

(* What the window makes of the bytes given, o: they are a prefix of the   *)
(* plain text, and those still to be read are as many as the rest.         *)
IsWindow(s, o, t, p) == Len(t) = TagLen /\ o \o t = SubSeq(s, 1, p)

IsPrefix(s, o, p) ==
  /\ Len(s) >= TagLen
  /\ Len(o) + TagLen = p
  /\ Len(o) <= Len(Plain(s))
  /\ o = SubSeq(Plain(s), 1, Len(o))
  /\ Len(Plain(s)) - Len(o) = Len(s) - p

LEMMA WindowIsPrefix ==
  ASSUME NEW s \in Seq(Byte), NEW o \in Seq(Byte), NEW t \in Seq(Byte),
         NEW p \in 0 .. Len(s), IsWindow(s, o, t, p)
  PROVE  IsPrefix(s, o, p)
<1>7. Len(t) = TagLen /\ o \o t = SubSeq(s, 1, p)
  BY DEF IsWindow
<1>1. Len(s) \in Nat /\ p \in Nat /\ p <= Len(s) /\ Len(o) \in Nat /\ TagLen \in Nat
  BY TagAssumption
<1>2. Len(o) + TagLen = p
  <2>1. Len(o \o t) = Len(o) + Len(t)
    BY Lengths
  <2>2. Len(SubSeq(s, 1, p)) = p
    BY Cut
  <2> QED BY <1>1, <1>7, <2>1, <2>2
<1>3. o = SubSeq(s, 1, Len(o))
  <2>1. SubSeq(o \o t, 1, Len(o)) = o
    BY PrefixOfJoin
  <2>2. Len(o) \in 0 .. p
    BY <1>1, <1>2
  <2>3. SubSeq(SubSeq(s, 1, p), 1, Len(o)) = SubSeq(s, 1, Len(o))
    BY <2>2, PrefixOfPrefix
  <2> QED BY <1>7, <2>1, <2>3
<1>4. Len(s) >= TagLen /\ Len(o) \in 0 .. Len(s) - TagLen
  BY <1>1, <1>2
<1>5. /\ Len(Plain(s)) = Len(s) - TagLen
      /\ SubSeq(Plain(s), 1, Len(o)) = SubSeq(s, 1, Len(o))
  <2>1. /\ Len(Plain(s)) = Len(s) - TagLen
        /\ \A n \in 0 .. Len(s) - TagLen : SubSeq(Plain(s), 1, n) = SubSeq(s, 1, n)
    BY <1>4, PlainPrefix
  <2> QED BY <1>4, <2>1
<1>6. o = SubSeq(Plain(s), 1, Len(o))
  BY <1>3, <1>5
<1>8. Len(o) <= Len(Plain(s)) /\ Len(Plain(s)) - Len(o) = Len(s) - p
  BY <1>1, <1>2, <1>4, <1>5
<1> QED BY <1>2, <1>4, <1>6, <1>8 DEF IsPrefix

LEMMA GivenIsPrefix ==
  ASSUME Inv, state = "open", ~lost
  PROVE  IsPrefix(stream, out, pos)
<1>1. /\ stream \in Seq(Byte) /\ out \in Seq(Byte) /\ tag \in Seq(Byte)
      /\ pos \in 0 .. Len(stream) /\ Len(tag) = TagLen
  BY StreamType DEF Inv, TypeOK, Counted
<1>2. IsWindow(stream, out, tag, pos)
  BY <1>1 DEF Inv, Window, IsWindow
<1> QED BY <1>1, <1>2, WindowIsPrefix, SMTT(30)

LEMMA GivenIsPrefixAfter ==
  ASSUME Inv', state' = "open", ~lost', stream \in Seq(Byte), stream' = stream
  PROVE  IsPrefix(stream, out', pos')
<1>1. /\ out' \in Seq(Byte) /\ tag' \in Seq(Byte)
      /\ pos' \in 0 .. Len(stream) /\ Len(tag') = TagLen
  BY DEF Inv, TypeOK, Counted
<1>2. IsWindow(stream, out', tag', pos')
  BY <1>1 DEF Inv, Window, IsWindow
<1> QED BY <1>1, <1>2, WindowIsPrefix, SMTT(30)

LEMMA StatusOf ==
  /\ state = "open" /\ ~lost => Status = "open"
  /\ state = "failed" \/ (state = "open" /\ lost) => Status = "broken"
  /\ state = "verified" => Status = "verified"
  /\ state = "rejected" => Status = "rejected"
BY DEF Status

LEMMA StatusAfter ==
  /\ state' = "open" /\ ~lost' => Status' = "open"
  /\ state' = "failed" \/ (state' = "open" /\ lost') => Status' = "broken"
  /\ state' = "verified" => Status' = "verified"
  /\ state' = "rejected" => Status' = "rejected"
BY DEF Status

(* What a read gives, as long as nothing was lost, is what comes next.     *)
LEMMA GivesNext ==
  ASSUME Inv, Inv', ~lost, NEW n \in Requests, NEW d \in Seq(Byte), stream' = stream,
         Gave(n, d)
  PROVE  Promised!Deliver(n)
<1> DEFINE text == Plain(stream)
<1>1. n \in Nat /\ n > 0 /\ out \in Seq(Byte) /\ Len(out) \in Nat /\ Len(d) \in Nat
      /\ Len(d) <= n /\ Len(stream) \in Nat /\ pos \in Nat /\ pos' \in Nat /\ TagLen \in Nat
      /\ stream \in Seq(Byte) /\ stream' = stream
  <2>1. pos' \in Nat
    BY StreamAssumption DEF Inv, TypeOK
  <2> QED BY <2>1, StreamType, RequestAssumption, TagAssumption DEF Inv, TypeOK, Gave
<1>2. /\ state = "open" /\ state' = "open" /\ ~lost' /\ out' = out \o d
      /\ ret' = [want |-> n, got |-> Len(d)]
  BY DEF Gave, Result
<1>3. /\ Len(stream) >= TagLen /\ Len(out) + TagLen = pos
      /\ Len(out) <= Len(text) /\ out = SubSeq(text, 1, Len(out))
      /\ Len(text) - Len(out) = Len(stream) - pos
  BY <1>2, GivenIsPrefix DEF IsPrefix
<1>4. /\ Len(out') + TagLen = pos' /\ Len(out') <= Len(text)
      /\ out' = SubSeq(text, 1, Len(out'))
  BY <1>1, <1>2, GivenIsPrefixAfter DEF IsPrefix
<1>5. Len(out') = Len(out) + Len(d)
  BY <1>1, <1>2, Lengths
<1>6. text \in Seq(Byte) /\ Len(text) \in Nat
  BY <1>1, <1>3, PlainPrefix
<1>7. Len(d) = Promised!Amount(n)
  <2>1. Len(d) < n => pos' = Len(stream)
    BY <1>1, <1>2 DEF Inv, ShortOnlyAtEnd
  <2>2. Promised!Amount(n) = IF n <= Len(text) - Len(out) THEN n ELSE Len(text) - Len(out)
    BY DEF Promised!Amount, Promised!Rest
  <2> QED BY <1>1, <1>3, <1>4, <1>5, <1>6, <2>1, <2>2
<1>8. out' = out \o SubSeq(text, Len(out) + 1, Len(out) + Len(d))
  <2>1. PICK p, q : p = Len(out) /\ q = Len(out) + Len(d)
    OBVIOUS
  <2>2. 0 \in 0 .. Len(text) /\ p \in 0 .. Len(text) /\ q \in p .. Len(text) /\ 0 + 1 = 1
    BY <1>1, <1>3, <1>4, <1>5, <1>6, <2>1
  <2>3. SubSeq(text, 0 + 1, p) \o SubSeq(text, p + 1, q) = SubSeq(text, 0 + 1, q)
    BY <1>6, <2>2, BytesJoin
  <2>4. SubSeq(text, 1, q) = out' /\ SubSeq(text, 1, p) = out
    BY <1>3, <1>4, <1>5, <2>1
  <2> QED BY <2>1, <2>2, <2>3, <2>4
<1>9. Status = "open" /\ Status' = "open"
  BY <1>2, StatusOf, StatusAfter
<1> QED BY <1>2, <1>7, <1>8, <1>9 DEF Promised!Deliver

(* Once bytes were lost, what is given is no part of the promise.          *)
LEMMA GivesAnything ==
  ASSUME Inv, lost, NEW n \in Requests, NEW d \in Seq(Byte), Gave(n, d)
  PROVE  Promised!DeliverBroken(n)
<1>1. /\ state = "open" /\ state' = "open" /\ lost' /\ out' = out \o d /\ Len(d) <= n
      /\ ret' = [want |-> n, got |-> Len(d)]
  BY DEF Gave, Result
<1>2. out \in Seq(Byte) /\ Len(out) \in Nat /\ Len(d) \in Nat
  BY DEF Inv, TypeOK
<1>3. Len(out') = Len(out) + Len(d) /\ SubSeq(out', 1, Len(out)) = out
  BY <1>1, <1>2, Lengths, PrefixOfJoin
<1>4. Len(out') - Len(out) = Len(d) /\ Len(out) <= Len(out')
  BY <1>2, <1>3
<1>5. Status = "broken" /\ Status' = "broken"
  BY <1>1, StatusOf, StatusAfter
<1> QED BY <1>1, <1>3, <1>4, <1>5 DEF Promised!DeliverBroken

LEMMA PromiseRead ==
  ASSUME Inv, Inv', NEW n \in Requests, Read(n)
  PROVE  Promised!Read(n)
<1>1. Answered(n) /\ state \in {"open", "failed"}
  BY ReadAnswered DEF Read
<1>2. stream' = stream /\ (lost => lost') /\ lost \in BOOLEAN /\ lost' \in BOOLEAN
  BY <1>1 DEF Answered, Inv, TypeOK
<1>3. Status \in {"open", "broken"}
  BY <1>1, <1>2, StatusOf
<1>4. UNCHANGED <<Plain(stream), stream = Sealed>>
  BY <1>2 DEF Plain
<1>5. CASE Erred(n)
  <2>1. ret' = [want |-> n, got |-> -1] /\ out' = out /\ state' \in {state, "failed"}
    BY <1>5 DEF Erred, Result
  <2>2. Status' \in {Status, "broken"}
    BY <1>1, <1>2, <2>1, StatusOf, StatusAfter
  <2> QED BY <1>3, <1>4, <2>1, <2>2 DEF Promised!Read, Promised!Fail
<1>6. ASSUME NEW d \in Seq(Byte), Gave(n, d)
      PROVE  Promised!Read(n)
  <2>1. CASE lost
    BY <1>3, <1>4, <1>6, <2>1, GivesAnything DEF Promised!Read
  <2>2. CASE ~lost
    BY <1>2, <1>3, <1>4, <1>6, <2>2, GivesNext DEF Promised!Read
  <2> QED BY <2>1, <2>2
<1> QED BY <1>1, <1>5, <1>6 DEF Answered

(* The cipher accepts what was decrypted with the tag that is held back:   *)
(* that is the sealed plain text, and of an intact stream it is the rest.  *)
LEMMA PromiseClose ==
  ASSUME Inv, Close
  PROVE  Promised!Close
<1>1. /\ UNCHANGED <<stream, out, ret, lost>> /\ lost \in BOOLEAN
      /\ state \in {"open", "failed"} /\ state' \in {"verified", "rejected"}
      /\ state' = "verified" => state = "open" /\ out \o tag = Sealed
      /\ state' = "rejected" => state = "failed" \/ out \o tag # Sealed
  BY DEF Close, Inv, TypeOK
<1>2. /\ stream \in Seq(Byte) /\ Len(stream) \in Nat /\ pos \in 0 .. Len(stream)
      /\ tag \in Seq(Byte) /\ out \in Seq(Byte) /\ Len(out) \in Nat /\ TagLen \in Nat
      /\ state = "open" => Len(tag) = TagLen
  BY StreamType, TagAssumption DEF Inv, TypeOK, Counted
<1>3. Status \in {"open", "broken"} /\ Status' = state'
  BY <1>1, StatusOf, StatusAfter
<1>4. UNCHANGED <<Plain(stream), stream = Sealed, out, ret>>
  BY <1>1 DEF Plain
<1>5. CASE state' = "verified"
  <2>1. Len(Sealed) = Len(out) + TagLen /\ SubSeq(Sealed, 1, Len(out)) = out
    BY <1>1, <1>2, <1>5, Lengths, PrefixOfJoin
  <2>2. Plain(Sealed) = out
    <3>1. Len(Sealed) - TagLen = Len(out)
      BY <1>2, <2>1
    <3> QED BY <2>1, <3>1 DEF Plain
  <2> QED BY <1>3, <1>4, <1>5, <2>2 DEF Promised!Close
<1>6. CASE state' = "rejected"
  <2>1. ASSUME Status = "open", stream = Sealed, out = Plain(stream)
        PROVE  FALSE
    <3>1. state = "open" /\ ~lost
      BY <1>1, <2>1, StatusOf
    <3>2. out \o tag = SubSeq(stream, 1, pos)
      BY <3>1 DEF Inv, Window
    <3>3. Len(stream) >= TagLen /\ Len(Plain(stream)) - Len(out) = Len(stream) - pos
      BY <3>1, GivenIsPrefix DEF IsPrefix
    <3>4. Len(Plain(stream)) = Len(stream) - TagLen
      BY <1>2, <3>3, PlainPrefix
    <3>5. pos = Len(stream)
      BY <1>2, <2>1, <3>3, <3>4
    <3>6. out \o tag = stream
      BY <1>2, <3>2, <3>5, Whole
    <3> QED BY <1>1, <1>6, <2>1, <3>1, <3>6
  <2> QED BY <1>3, <1>4, <1>6, <2>1 DEF Promised!Close
<1> QED BY <1>1, <1>5, <1>6

LEMMA PromiseInit == Init => Promised!Init
<1> SUFFICES ASSUME Init PROVE Promised!Init
  OBVIOUS
<1>1. /\ stream \in Seq(Byte) /\ Len(stream) \in Nat /\ TagLen \in Nat
      /\ out = <<>> /\ lost = FALSE /\ ret = [want |-> 0, got |-> 0]
      /\ state \in {"open", "failed"}
  BY StreamAssumption, TagAssumption DEF Init
<1>2. Plain(stream) \in Seq(Byte)
  <2>1. CASE Len(stream) >= TagLen
    BY <1>1, <2>1, PlainPrefix
  <2>2. CASE Len(stream) < TagLen
    BY <1>1, <2>2 DEF Plain
  <2> QED BY <1>1, <2>1, <2>2
<1>3. Status \in {"open", "broken"}
  BY <1>1, StatusOf
<1>4. stream = Sealed => Plain(stream) = Plain(Sealed)
  OBVIOUS
<1> QED BY <1>1, <1>2, <1>3, <1>4 DEF Promised!Init

LEMMA PromiseNext ==
  ASSUME Inv, Inv', [Next]_vars
  PROVE  [Promised!Next]_(Promised!vars)
<1>1. CASE Close
  BY <1>1, PromiseClose DEF Promised!Next
<1>2. ASSUME NEW n \in Requests, Read(n)
      PROVE  Promised!Next
  BY <1>2, PromiseRead DEF Promised!Next
<1>3. CASE UNCHANGED vars
  BY <1>3 DEF vars, Promised!vars, Status, Plain
<1> QED BY <1>1, <1>2, <1>3 DEF Next

(* For every tag length, every stream and every sequence of reads the      *)
(* source is one that has no tag.                                          *)
THEOREM SourceKeepsPromise == Spec => KeepsPromise
<1>1. Init => Promised!Init
  BY PromiseInit
<1>2. Inv /\ Inv' /\ [Next]_vars => [Promised!Next]_(Promised!vars)
  BY PromiseNext
<1> QED BY <1>1, <1>2, SpecInv, PTL DEF Spec, KeepsPromise, Promised!Spec
=============================================================================
