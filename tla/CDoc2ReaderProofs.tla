------------------------- MODULE CDoc2ReaderProofs -------------------------
(***************************************************************************)
(* The safety properties of CDoc2Reader, for every archive that a writer   *)
(* may have finished, every block, chunk and buffer size, every order of   *)
(* the calls, and failures of the source and the cipher anywhere.          *)
(*                                                                         *)
(* The argument has two halves.  A chain on which nothing has failed is    *)
(* Healthy: each read gets what was asked for (InflateAdvances), so where  *)
(* the chain stands in the archive follows from the files that were found, *)
(* and next meets a header, or the two null blocks, where it looks for     *)
(* one (NextGood).  A chain that has failed is Dead, and stays so: its     *)
(* reads fail, and it does not take the failure for an end.  ReaderInv     *)
(* says both, with what the caller has been told.                          *)
(*                                                                         *)
(* The last part, from THE LOOPS END on, is about the loops themselves,    *)
(* for any payload, the unreadable ones included: each round takes input   *)
(* or hands out output, so the rounds of a call can be counted.            *)
(*                                                                         *)
(* How many rounds a read takes is a CHOOSE over a loop.  In place of an   *)
(* induction over the loop, the least round that ends it is taken, and     *)
(* that there is one (LeastNumber) comes from the well-foundedness of <.   *)
(***************************************************************************)
EXTENDS CDoc2Reader, SequenceTheorems, WellFoundedInduction, TLAPS

(* Every set of numbers has a least member.                                *)
LEMMA LeastNumber ==
  ASSUME NEW S \in SUBSET Nat, S # {}
  PROVE  \E m \in S : \A n \in S : m <= n
<1>1. PICK m \in S : \A n \in S : ~ (<<n, m>> \in OpToRel(<, Nat))
  BY WFMin, NatLessThanWellFounded
<1>2. ASSUME NEW n \in S PROVE m <= n
  <2>1. ~ (n < m)
    BY <1>1 DEF OpToRel
  <2> QED BY <2>1
<1> QED BY <1>2

(* Chains are records with these fields; what they hold is Healthy's to    *)
(* say, or nobody's once the chain is Dead.                                *)
Fields == {"at", "lost", "derr", "srcEof", "fault", "out", "zerr", "avail", "pos", "data",
           "block", "terr", "eof"}
IsChain(r) == DOMAIN r = Fields

LEMMA PaddingNat ==
  ASSUME NEW n \in Nat
  PROVE  Padding(n) \in Nat
<1>1. Block \in Nat \ {0}
  BY BlockAssumption
<1>2. PICK q : q = (n + Block - 1) \div Block
  OBVIOUS
<1>3. q \in Int /\ n + Block - 1 < Block * q + Block
  BY <1>1, <1>2
<1>4. Block * q \in Int
  BY <1>1, <1>3
<1> QED BY <1>1, <1>2, <1>3, <1>4 DEF Padding

(* The payloads of the theorems.                                           *)
Sound(p) ==
  /\ p.units \in Seq(Unit) /\ p.sizes \in Seq(Int) /\ Cells(p) \in Nat \ {0}
  /\ \A c \in 0 .. Cells(p) : Upto(p, c) \in Nat
  /\ p.intact /\ WellLaid(p) /\ Deflated(p)

LEMMA WrittenSound ==
  ASSUME NEW p \in Written
  PROVE  Sound(p)
<1>1. p \in Streams /\ p.intact /\ WellLaid(p) /\ Deflated(p)
  BY WrittenAssumption
<1>2. p \in Payload /\ Cells(p) > 0
  BY <1>1, StreamAssumption
<1>3. p.units \in Seq(Unit) /\ p.sizes \in Seq(Int) /\ p.upto \in Seq(Nat)
  BY <1>2 DEF Payload
<1>4. Cells(p) \in Nat \ {0}
  BY <1>2, <1>3 DEF Cells
<1>5. \A c \in 0 .. Cells(p) : Upto(p, c) \in Nat
  BY <1>3, <1>4 DEF Upto, Cells
<1> QED BY <1>1, <1>3, <1>4, <1>5 DEF Sound

LEMMA SoundLength ==
  ASSUME NEW p, Sound(p)
  PROVE  Len(p.units) \in Nat
<1>1. p.units \in Seq(Unit)
  BY DEF Sound
<1> QED BY <1>1

(* The stream inflates to nothing but the archive.                         *)
LEMMA UptoMonotone ==
  ASSUME NEW p, Sound(p), NEW c \in 0 .. Cells(p)
  PROVE  Upto(p, c) <= Len(p.units)
<1> DEFINE S == {d \in 0 .. Cells(p) : Upto(p, Cells(p) - d) > Len(p.units)}
<1>1. SUFFICES ASSUME S # {} PROVE FALSE
  <2>1. Cells(p) - c \in 0 .. Cells(p) /\ Cells(p) - (Cells(p) - c) = c
    BY DEF Sound
  <2>2. Cells(p) - c \notin S
    OBVIOUS
  <2>3. ~(Upto(p, c) > Len(p.units))
    BY <2>1, <2>2
  <2> QED BY <2>3 DEF Sound
<1>2. S \in SUBSET Nat
  OBVIOUS
<1>3. PICK d \in S : \A e \in S : d <= e
  <2> HIDE DEF S
  <2> QED BY <1>1, <1>2, LeastNumber
<1>4. Cells(p) \in Nat /\ d \in 0 .. Cells(p)
  BY DEF Sound
<1>5. d # 0
  BY <1>4 DEF Sound, Deflated
<1>6. d - 1 \notin S /\ d - 1 \in 0 .. Cells(p)
  BY <1>3, <1>4, <1>5
<1>7. PICK b : b = Cells(p) - (d - 1)
  OBVIOUS
<1>8. b \in 1 .. Cells(p) /\ Cells(p) - d = b - 1
  BY <1>4, <1>5, <1>7
<1>9. Upto(p, b - 1) <= Upto(p, b) /\ Upto(p, b) \in Nat /\ Upto(p, b - 1) \in Nat
  BY <1>4, <1>8 DEF Sound, Deflated
<1>10. Upto(p, b) <= Len(p.units) /\ Upto(p, b - 1) > Len(p.units)
  <2>1. ~(Upto(p, b) > Len(p.units))
    BY <1>6, <1>7
  <2>2. Upto(p, b - 1) > Len(p.units)
    <3>1. Upto(p, Cells(p) - d) > Len(p.units)
      OBVIOUS
    <3> QED BY <1>8, <3>1
  <2>3. Len(p.units) \in Nat
    BY SoundLength
  <2> QED BY <1>9, <2>1, <2>2, <2>3
<1>11. Len(p.units) \in Nat
  BY SoundLength
<1> QED BY <1>9, <1>10, <1>11

(* A round has decrypted some of the cells.                                *)
LEMMA AtType ==
  ASSUME NEW p, Cells(p) \in Nat, NEW r, r.at \in 0 .. Cells(p), NEW i \in Nat
  PROVE  /\ At(p, r, i) \in 0 .. Cells(p) /\ r.at <= At(p, r, i)
         /\ i * CHUNK \in Nat
         /\ r.at + i * CHUNK >= Cells(p) => At(p, r, i) = Cells(p)
<1>1. i * CHUNK \in Nat
  BY ChunkAssumption
<1> QED BY <1>1 DEF At

LEMMA ChunkTimes ==
  ASSUME NEW c \in Nat
  PROVE  c * CHUNK \in Nat /\ c * CHUNK >= c
<1>1. PICK b \in Nat : CHUNK = b + 1
  <2>1. CHUNK - 1 \in Nat /\ CHUNK = (CHUNK - 1) + 1
    BY ChunkAssumption
  <2> QED BY <2>1
<1>2. c * CHUNK = c * b + c /\ c * b >= 0
  BY <1>1
<1>3. c * b \in Int
  BY <1>1
<1> QED BY <1>2, <1>3

(* inflate stops a read in the end, and Rounds is the first round that     *)
(* ends it.                                                                *)
LEMMA RoundsIs ==
  ASSUME NEW p, Cells(p) \in Nat, p.stop \in Nat, NEW r, r.at \in 0 .. Cells(p), NEW n
  PROVE  /\ Rounds(p, r, n) \in 1 .. Cells(p) + 1
         /\ Enough(p, r, n, Rounds(p, r, n)) \/ Stopped(p, r, Rounds(p, r, n))
<1> DEFINE S == {i \in 1 .. Cells(p) + 1 : Enough(p, r, n, i) \/ Stopped(p, r, i)}
           T(i) == /\ Enough(p, r, n, i) \/ Stopped(p, r, i)
                   /\ \A j \in 1 .. i - 1 : ~Enough(p, r, n, j) /\ ~Stopped(p, r, j)
<1>1. PICK c \in Nat : c = Cells(p)
  OBVIOUS
<1>2. Cells(p) + 1 \in S
  <2>1. c + 1 \in Nat /\ (c + 1) * CHUNK \in Nat /\ (c + 1) * CHUNK >= c + 1
    BY <1>1, ChunkTimes
  <2>2. At(p, r, c + 1) = c
    BY <1>1, <2>1, AtType
  <2>3. r.at + c * CHUNK >= c
    BY <1>1, ChunkTimes
  <2>4. (c + 1) - 1 = c
    BY <1>1
  <2>5. Stopped(p, r, c + 1)
    BY <1>1, <2>2, <2>3, <2>4 DEF Stopped
  <2> QED BY <1>1, <2>5
<1>3. S \in SUBSET Nat /\ S # {}
  BY <1>1, <1>2
<1>4. PICK i \in S : \A j \in S : i <= j
  <2> HIDE DEF S
  <2> QED BY <1>3, LeastNumber
<1>5. i \in 1 .. Cells(p) + 1 /\ (Enough(p, r, n, i) \/ Stopped(p, r, i))
  OBVIOUS
<1>6. ASSUME NEW j \in 1 .. i - 1 PROVE ~Enough(p, r, n, j) /\ ~Stopped(p, r, j)
  BY <1>1, <1>4, <1>5
<1>7. T(i)
  BY <1>5, <1>6
<1>8. Rounds(p, r, n) = CHOOSE k \in 1 .. Cells(p) + 1 : T(k)
  BY DEF Rounds
<1> HIDE DEF S, T
<1>9. Rounds(p, r, n) \in 1 .. Cells(p) + 1 /\ T(Rounds(p, r, n))
  BY <1>5, <1>7, <1>8
<1> QED BY <1>9 DEF T

----------------------------------------------------------------------------
(* What a read of zsrc does.                                               *)

(* ZSource or DecryptionSource has noted an error.                         *)
Dead(r) == r.zerr \/ r.derr

(* A chain on which nothing has failed.  r.out tells how far ZSource is,   *)
(* and it has met its end exactly when nothing is left.                    *)
Healthy(p, r) ==
  /\ ~r.lost /\ ~r.terr
  /\ r.at \in 0 .. Cells(p) /\ r.out \in 0 .. Len(p.units) /\ r.out <= Upto(p, r.at)
  /\ r.pos \in Nat /\ r.data \in Nat /\ r.block \in Nat
  /\ r.out = Len(p.units) <=> ZEof(r)
  /\ r.out = Len(p.units) => r.at = Cells(p)

(* The numbers of a sound archive and of a healthy chain over it.          *)
LEMMA SoundNumbers ==
  ASSUME NEW p, Sound(p)
  PROVE  Len(p.units) \in Nat /\ Len(p.sizes) \in Nat /\ Cells(p) \in Nat \ {0}
<1>1. p.units \in Seq(Unit) /\ p.sizes \in Seq(Int) /\ Cells(p) \in Nat \ {0}
  BY DEF Sound
<1> QED BY <1>1

LEMMA HealthyNumbers ==
  ASSUME NEW p, Sound(p), NEW r, Healthy(p, r)
  PROVE  /\ r.at \in 0 .. Cells(p) /\ r.at \in Nat /\ r.out \in 0 .. Len(p.units) /\ r.out \in Nat
         /\ r.out <= Upto(p, r.at) /\ Upto(p, r.at) \in Nat
<1>1. r.at \in 0 .. Cells(p) /\ r.out \in 0 .. Len(p.units) /\ r.out <= Upto(p, r.at)
  BY DEF Healthy
<1>2. \A c \in 0 .. Cells(p) : Upto(p, c) \in Nat
  BY DEF Sound
<1> QED BY <1>1, <1>2, SoundNumbers

(* A read has got n units, or has failed and says so from now on.          *)
Advances(p, r, v, n) ==
  /\ IsChain(v) /\ Healthy(p, v) /\ ~Dead(v) /\ v.out = r.out + n
  /\ v.pos = r.pos /\ v.data = r.data /\ v.block = r.block /\ v.eof = r.eof
Breaks(r, v) ==
  IsChain(v) /\ v.zerr = TRUE /\ v.fault = TRUE /\ v.avail = r.avail /\ v.srcEof = r.srcEof

(* No read brings a dead chain back.                                       *)
LEMMA DeadRead ==
  ASSUME NEW p, NEW r, NEW n, NEW f, Dead(r)
  PROVE  ZRead(p, r, n, f) = {[n |-> ERR, r |-> [r EXCEPT !.zerr = TRUE]]}
BY DEF ZRead, Dead

(* When nothing fails below, a read gets all it asks for, and ZSource sees *)
(* its end exactly when the second null block has been read: as less than  *)
(* a CHUNK is left from there on, that read has taken in the trailer too.  *)
LEMMA InflateAdvances ==
  ASSUME NEW p, Sound(p), NEW r, IsChain(r), Healthy(p, r), ~Dead(r),
         NEW n \in Nat \ {0}, r.out + n <= Len(p.units),
         r.out + n < Len(p.units) \/ n = Block
  PROVE  \E v : Inflate(p, r, n) = [n |-> n, r |-> v] /\ Advances(p, r, v, n)
<1> DEFINE i == Rounds(p, r, n)
           at == At(p, r, i)
           mem == r.at + i * CHUNK > Cells(p) \/ (p.memory /\ at = Cells(p))
           u == [r EXCEPT !.at = at, !.out = @ + n, !.srcEof = mem]
           since == IF p.stop > At(p, r, i - 1) THEN p.stop ELSE At(p, r, i - 1)
           left == IF u.out = Upto(p, Cells(p)) /\ Stopped(p, r, i) THEN at > since ELSE Upto(p, at) > u.out
           v == [u EXCEPT !.avail = left]
<1>1. /\ Cells(p) \in Nat \ {0} /\ p.stop = Cells(p) /\ ~p.broken /\ Upto(p, Cells(p)) = Len(p.units)
      /\ Len(p.units) \in Nat
  BY DEF Sound, Deflated
<1>2. r.at \in 0 .. Cells(p) /\ r.out \in 0 .. Len(p.units)
  BY DEF Healthy
<1>3. i \in 1 .. Cells(p) + 1 /\ (Enough(p, r, n, i) \/ Stopped(p, r, i))
  BY <1>1, <1>2, RoundsIs
<1>4. /\ at \in 0 .. Cells(p) /\ r.at <= at /\ i * CHUNK \in Nat
      /\ r.at + i * CHUNK >= Cells(p) => at = Cells(p)
  <2> HIDE DEF i
  <2> QED BY <1>1, <1>2, <1>3, AtType
<1>5. At(p, r, i - 1) \in 0 .. Cells(p)
  <2> HIDE DEF i
  <2>1. i - 1 \in Nat
    BY <1>1, <1>3
  <2> QED BY <1>1, <1>2, <2>1, AtType
<1> HIDE DEF i
<1>6. Enough(p, r, n, i)
  <2>1. CASE Stopped(p, r, i)
    <3>1. at = Cells(p)
      BY <1>1, <1>4, <2>1 DEF Stopped
    <3> QED BY <1>1, <3>1 DEF Enough
  <2> QED BY <1>3, <2>1
<1>7. r.out + n <= Upto(p, at)
  BY <1>6 DEF Enough
<1>8. ~(MaxInflated > 0 /\ r.out + n > MaxInflated)
  BY <1>1, <1>2, LimitAssumption DEF Sound, Deflated
<1>9. Inflate(p, r, n) = [n |-> n, r |-> v]
  <2> DEFINE full == Enough(p, r, n, i)
             k == IF full THEN n ELSE Upto(p, Cells(p)) - r.out
             fails == (MaxInflated > 0 /\ r.out + k > MaxInflated) \/ (~full /\ p.broken)
             last == IF ~full /\ k > 0 /\ ~fails THEN i + 1 ELSE i
             W(m, l) ==
               LET a == At(p, r, l)
                   s == IF p.stop > At(p, r, l - 1) THEN p.stop ELSE At(p, r, l - 1)
                   w == [r EXCEPT !.at = a, !.out = @ + m,
                                  !.srcEof = r.at + l * CHUNK > Cells(p) \/ (p.memory /\ a = Cells(p))]
               IN  IF fails THEN [n |-> ERR, r |-> [w EXCEPT !.zerr = TRUE, !.avail = ~full]]
                   ELSE [n |-> m, r |-> [w EXCEPT !.avail = IF w.out = Upto(p, Cells(p)) /\ Stopped(p, r, i)
                                                            THEN a > s ELSE Upto(p, a) > w.out]]
  <2>1. Inflate(p, r, n) = W(k, last)
    BY Zenon DEF Inflate, i
  <2>2. k = n /\ last = i /\ ~fails
    BY <1>1, <1>6, <1>8
  <2>3. W(n, i) = [n |-> n, r |-> v]
    <3>1. ~fails
      BY <2>2
    <3> HIDE DEF fails
    <3> QED BY <3>1, Zenon
  <2> HIDE DEF W, k, last
  <2> QED BY <2>1, <2>2, <2>3
<1>10. /\ IsChain(v) /\ v.at = at /\ v.out = r.out + n /\ v.srcEof = mem /\ v.avail = left
       /\ v.lost = r.lost /\ v.terr = r.terr /\ v.zerr = r.zerr /\ v.derr = r.derr
       /\ v.pos = r.pos /\ v.data = r.data /\ v.block = r.block /\ v.eof = r.eof
  BY DEF IsChain, Fields
<1>11. u.out = r.out + n
  BY DEF IsChain, Fields
<1>12. Upto(p, at) \in Nat /\ Upto(p, at) <= Len(p.units)
  BY <1>1, <1>4, UptoMonotone DEF Sound
<1>13. CASE r.out + n < Len(p.units)
  <2>1. ~ZEof(v)
    <3>1. CASE mem
      <4>1. at = Cells(p)
        BY <1>1, <1>2, <1>4, <3>1
      <4>2. left
        BY <1>1, <1>2, <1>11, <1>13, <4>1
      <4> QED BY <1>10, <4>2 DEF ZEof
    <3> QED BY <1>10, <3>1 DEF ZEof
  <2> HIDE DEF v, mem, left, at
  <2>2. v.out \in 0 .. Len(p.units) /\ v.out <= Upto(p, v.at) /\ v.out # Len(p.units)
    BY <1>1, <1>2, <1>7, <1>10, <1>13
  <2>3. Healthy(p, v)
    BY <1>4, <1>10, <2>1, <2>2 DEF Healthy
  <2>4. Advances(p, r, v, n)
    BY <1>10, <2>3 DEF Advances, Dead
  <2> QED BY <1>9, <2>4
<1>14. CASE ~(r.out + n < Len(p.units))
  <2>1. r.out + n = Len(p.units) /\ n = Block
    BY <1>1, <1>2, <1>14
  <2>2. Block \in Nat \ {0} /\ CHUNK \in Nat \ {0}
    BY BlockAssumption, ChunkAssumption
  <2>3. r.out > 0
    <3>1. PICK e \in [0 .. Len(p.sizes) -> 0 .. Len(p.units)] : Laid(p, e)
      BY DEF Sound, WellLaid
    <3>2. PICK l : l = e[Len(p.sizes)]
      OBVIOUS
    <3>3. l \in 0 .. Len(p.units) /\ l + 2 * Block = Len(p.units)
      <4>1. l \in 0 .. Len(p.units)
        BY <3>1, <3>2, SoundNumbers
      <4>2. l + 2 * Block = Len(p.units)
        BY <3>1, <3>2 DEF Laid
      <4> QED BY <4>1, <4>2
    <3> QED BY <1>1, <1>2, <2>1, <2>2, <3>3
  <2>4. r.out <= Upto(p, r.at) /\ Upto(p, r.at) \in Nat
    BY <1>1, HealthyNumbers
  <2>5. r.at # 0
    BY <2>3, <2>4, <1>2 DEF Upto
  <2>6. Cells(p) < r.at + CHUNK
    <3>1. r.at \in 1 .. Cells(p)
      BY <1>1, <2>5, SoundNumbers, HealthyNumbers
    <3>2. \A c \in 1 .. Cells(p) : Len(p.units) - Block <= Upto(p, c) => Cells(p) < c + CHUNK
      BY DEF Sound, Deflated
    <3>3. r.out \in Nat /\ Len(p.units) - Block = r.out
      BY <1>1, <2>1, <2>2, SoundNumbers, HealthyNumbers
    <3>4. Len(p.units) - Block <= Upto(p, r.at)
      BY <2>4, <3>3
    <3> QED BY <3>1, <3>2, <3>4
  <2>7. r.at + i * CHUNK > Cells(p)
    <3>1. PICK j \in Nat : i = j + 1
      <4>1. i - 1 \in Nat /\ i = (i - 1) + 1
        BY <1>1, <1>3
      <4> QED BY <4>1
    <3>2. i * CHUNK = j * CHUNK + CHUNK /\ j * CHUNK \in Nat
      BY <2>2, <3>1
    <3> QED BY <1>1, <1>2, <2>2, <2>6, <3>2
  <2>8. at = Cells(p) /\ mem
    BY <1>1, <1>2, <1>4, <2>7
  <2>9. Stopped(p, r, i) /\ since = Cells(p)
    BY <1>1, <1>5, <2>8 DEF Stopped
  <2>10. left = FALSE
    BY <1>1, <1>11, <2>1, <2>8, <2>9
  <2>11. ZEof(v)
    BY <1>10, <2>8, <2>10 DEF ZEof
  <2> HIDE DEF v, mem, left, at
  <2>12. v.out \in 0 .. Len(p.units) /\ v.out <= Upto(p, v.at) /\ v.out = Len(p.units)
    BY <1>1, <1>2, <1>7, <1>10, <2>1
  <2>13. Healthy(p, v)
    BY <1>4, <1>10, <2>8, <2>11, <2>12 DEF Healthy
  <2>14. Advances(p, r, v, n)
    BY <1>10, <2>13 DEF Advances, Dead
  <2> QED BY <1>9, <2>14
<1> QED BY <1>13, <1>14

LEMMA ReadFailsIs ==
  ASSUME NEW p, NEW r, NEW n, NEW o \in ReadFails(p, r, n)
  PROVE  \E j, l, d : o = FailsIn(p, r, j, l, d)
<1> DEFINE A == 0 .. Rounds(p, r, n) - 1
           B == {r.lost, TRUE}
           C == {r.derr, TRUE}
<1>1. ReadFails(p, r, n) = {FailsIn(p, r, j, l, d) : j \in A, l \in B, d \in C}
  BY DEF ReadFails
<1> HIDE DEF A, B, C
<1> QED BY <1>1

(* A read of a healthy chain gets all it asks for or breaks the chain.     *)
LEMMA ZReadGood ==
  ASSUME NEW p, Sound(p), NEW r, IsChain(r), Healthy(p, r), ~Dead(r),
         NEW n \in Nat \ {0}, r.out + n <= Len(p.units),
         r.out + n < Len(p.units) \/ n = Block,
         NEW f, NEW o \in ZRead(p, r, n, f)
  PROVE  \E v : \/ o = [n |-> n, r |-> v] /\ Advances(p, r, v, n)
                \/ o = [n |-> ERR, r |-> v] /\ Breaks(r, v)
<1>1. CASE o = Inflate(p, r, n)
  BY <1>1, InflateAdvances
<1>2. CASE o \in BrokenAhead(p, r, n)
  <2>1. ~p.broken
    BY DEF Sound, Deflated
  <2> QED BY <1>2, <2>1 DEF BrokenAhead
<1>3. CASE o \in ReadFails(p, r, n)
  <2>1. PICK j, l, d : o = FailsIn(p, r, j, l, d)
    BY <1>3, ReadFailsIs
  <2> DEFINE v == [r EXCEPT !.at = At(p, r, j), !.zerr = TRUE, !.fault = TRUE,
                            !.lost = l, !.derr = d]
  <2>2. Breaks(r, v)
    BY DEF Breaks, IsChain, Fields
  <2> QED BY <2>1, <2>2 DEF FailsIn
<1> QED BY <1>1, <1>2, <1>3 DEF ZRead, Dead

(* Its outcomes on any chain.                                              *)
IsOutcome(o) == \E n, v : o = [n |-> n, r |-> v] /\ IsChain(v)

LEMMA ZReadOutcome ==
  ASSUME NEW p, NEW r, IsChain(r), NEW n, NEW f, NEW o \in ZRead(p, r, n, f)
  PROVE  IsOutcome(o)
<1>1. IsOutcome(Inflate(p, r, n))
  <2> DEFINE i == Rounds(p, r, n)
             full == Enough(p, r, n, i)
             k == IF full THEN n ELSE Upto(p, Cells(p)) - r.out
             over == MaxInflated > 0 /\ r.out + k > MaxInflated
             fails == over \/ (~full /\ p.broken)
             last == IF ~full /\ k > 0 /\ ~fails THEN i + 1 ELSE i
             at == At(p, r, last)
             since == IF p.stop > At(p, r, last - 1) THEN p.stop ELSE At(p, r, last - 1)
             mem == r.at + last * CHUNK > Cells(p) \/ (p.memory /\ at = Cells(p))
             v == [r EXCEPT !.at = at, !.out = @ + k, !.srcEof = mem]
             a == [v EXCEPT !.zerr = TRUE, !.avail = ~full]
             b == [v EXCEPT !.avail = IF v.out = Upto(p, Cells(p)) /\ Stopped(p, r, i)
                                      THEN at > since ELSE Upto(p, at) > v.out]
  <2>1. Inflate(p, r, n) = IF fails THEN [n |-> ERR, r |-> a] ELSE [n |-> k, r |-> b]
    BY Zenon DEF Inflate
  <2>2. IsChain(a) /\ IsChain(b)
    <3> HIDE DEF i, full, k, over, fails, last, at, since, mem
    <3> QED BY DEF IsChain
  <2> HIDE DEF i, full, k, over, fails, last, at, since, mem, v, a, b
  <2>3. IsOutcome([n |-> ERR, r |-> a]) /\ IsOutcome([n |-> k, r |-> b])
    BY <2>2 DEF IsOutcome
  <2> QED BY <2>1, <2>3
<1>2. ASSUME o \in BrokenAhead(p, r, n) PROVE IsOutcome(o)
  <2>1. PICK c, v : Inflate(p, r, n) = [n |-> c, r |-> v] /\ IsChain(v)
    BY <1>1 DEF IsOutcome
  <2>2. o = [n |-> ERR, r |-> [v EXCEPT !.zerr = TRUE]]
    BY <1>2, <2>1 DEF BrokenAhead
  <2>3. IsChain([v EXCEPT !.zerr = TRUE])
    BY <2>1 DEF IsChain
  <2> QED BY <2>2, <2>3 DEF IsOutcome
<1>3. ASSUME o \in ReadFails(p, r, n) PROVE IsOutcome(o)
  <2>1. PICK j, l, d : o = FailsIn(p, r, j, l, d)
    BY <1>3, ReadFailsIs
  <2> DEFINE v == [r EXCEPT !.at = At(p, r, j), !.zerr = TRUE, !.fault = TRUE,
                            !.lost = l, !.derr = d]
  <2>2. IsChain(v)
    BY DEF IsChain
  <2> QED BY <2>1, <2>2 DEF IsOutcome, FailsIn
<1>4. ASSUME o = [n |-> ERR, r |-> [r EXCEPT !.zerr = TRUE]] PROVE IsOutcome(o)
  <2>1. IsChain([r EXCEPT !.zerr = TRUE])
    BY DEF IsChain
  <2> QED BY <1>4, <2>1 DEF IsOutcome
<1> QED BY <1>1, <1>2, <1>3, <1>4 DEF ZRead

(* What a read of tar does.  On a dead chain it may still report the end   *)
(* of a file, and nothing else.                                            *)
LEMMA TarReadDead ==
  ASSUME NEW p, NEW r, IsChain(r), Dead(r), r.fault, NEW n, NEW f,
         NEW o \in TarRead(p, r, n, f)
  PROVE  \E v : /\ IsChain(v) /\ Dead(v) /\ v.fault = r.fault
                /\ v.avail = r.avail /\ v.srcEof = r.srcEof /\ v.derr = r.derr
                /\ o = [n |-> 0, r |-> v] \/ o = [n |-> ERR, r |-> v]
<1>1. CASE r.terr
  BY <1>1 DEF TarRead
<1>2. CASE ~r.terr /\ r.pos >= r.data
  <2> DEFINE v == [r EXCEPT !.eof = TRUE]
  <2>1. o = [n |-> 0, r |-> v]
    BY <1>2 DEF TarRead
  <2>2. /\ IsChain(v) /\ Dead(v) /\ v.fault = r.fault
        /\ v.avail = r.avail /\ v.srcEof = r.srcEof /\ v.derr = r.derr
    BY DEF IsChain, Fields, Dead
  <2> QED BY <2>1, <2>2
<1>3. CASE ~r.terr /\ ~(r.pos >= r.data)
  <2> DEFINE v == [r EXCEPT !.zerr = TRUE]
             k == IF n < r.data - r.pos THEN n ELSE r.data - r.pos
  <2>1. PICK z \in ZRead(p, r, k, f) :
          o = CASE z.n > 0 -> [z EXCEPT !.r.pos = @ + z.n]
                [] z.n = 0 -> [z EXCEPT !.r.eof = TRUE]
                [] OTHER   -> z
    BY <1>3 DEF TarRead
  <2>2. z = [n |-> ERR, r |-> v]
    <3> HIDE DEF k
    <3> QED BY DeadRead
  <2>3. z.n = -1 /\ ~(-1 > 0) /\ -1 # 0
    BY <2>2 DEF ERR
  <2>4. o = z
    BY <2>1, <2>3
  <2>5. /\ IsChain(v) /\ Dead(v) /\ v.fault = r.fault
        /\ v.avail = r.avail /\ v.srcEof = r.srcEof /\ v.derr = r.derr
    BY DEF IsChain, Fields, Dead
  <2> QED BY <2>2, <2>4, <2>5
<1> QED BY <1>1, <1>2, <1>3

(* On a healthy one it gets a piece of the file, which is not empty before *)
(* its end.                                                                *)
LEMMA TarReadGood ==
  ASSUME NEW p, Sound(p), NEW r, IsChain(r), Healthy(p, r), ~Dead(r), NEW n \in Nat \ {0},
         r.pos < r.data => r.out + (r.data - r.pos) < Len(p.units),
         NEW f, NEW o \in TarRead(p, r, n, f)
  PROVE  \E v : \/ /\ r.data <= r.pos
                   /\ o = [n |-> 0, r |-> v] /\ v = [r EXCEPT !.eof = TRUE]
                \/ /\ r.pos < r.data /\ IsChain(v) /\ Healthy(p, v) /\ ~Dead(v)
                   /\ \E k \in 1 .. r.data - r.pos :
                        o = [n |-> k, r |-> v] /\ v.out = r.out + k /\ v.pos = r.pos + k
                   /\ v.data = r.data /\ v.block = r.block /\ v.eof = r.eof
                \/ r.pos < r.data /\ o = [n |-> ERR, r |-> v] /\ Breaks(r, v)
<1>1. ~r.terr /\ r.pos \in Nat /\ r.data \in Nat /\ Len(p.units) \in Nat /\ r.out \in Nat
  BY DEF Healthy, Sound
<1>2. CASE r.data <= r.pos
  BY <1>1, <1>2 DEF TarRead
<1>3. CASE ~(r.data <= r.pos)
  <2>1. PICK k : k = IF n < r.data - r.pos THEN n ELSE r.data - r.pos
    OBVIOUS
  <2>2. k \in 1 .. r.data - r.pos /\ k \in Nat \ {0} /\ r.out + k < Len(p.units)
    BY <1>1, <1>3, <2>1
  <2>3. PICK z \in ZRead(p, r, k, f) :
          o = CASE z.n > 0 -> [z EXCEPT !.r.pos = @ + z.n]
                [] z.n = 0 -> [z EXCEPT !.r.eof = TRUE]
                [] OTHER   -> z
    BY <1>1, <1>3, <2>1 DEF TarRead
  <2>4. PICK w : \/ z = [n |-> k, r |-> w] /\ Advances(p, r, w, k)
                 \/ z = [n |-> ERR, r |-> w] /\ Breaks(r, w)
    <3>1. r.out + k <= Len(p.units)
      BY <1>1, <2>2
    <3> QED BY <2>2, <3>1, ZReadGood
  <2>5. CASE z = [n |-> ERR, r |-> w] /\ Breaks(r, w)
    <3>1. z.n = -1 /\ ~(-1 > 0) /\ -1 # 0
      BY <2>5 DEF ERR
    <3>2. o = z
      BY <2>3, <3>1
    <3>3. r.pos < r.data
      BY <1>1, <1>3
    <3> QED BY <2>5, <3>2, <3>3
  <2>6. CASE z = [n |-> k, r |-> w] /\ Advances(p, r, w, k)
    <3> DEFINE v == [w EXCEPT !.pos = @ + k]
    <3>1. z.n = k /\ z.n > 0
      BY <2>2, <2>6
    <3>2. o = [z EXCEPT !.r.pos = @ + k]
      BY <2>3, <3>1
    <3>3. o = [n |-> k, r |-> v]
      BY <2>6, <3>2
    <3>4. /\ IsChain(v) /\ v.out = w.out /\ v.pos = w.pos + k /\ v.data = w.data /\ v.block = w.block
          /\ v.eof = w.eof /\ v.lost = w.lost /\ v.terr = w.terr /\ v.at = w.at /\ v.avail = w.avail
          /\ v.srcEof = w.srcEof /\ v.zerr = w.zerr /\ v.derr = w.derr
      BY <2>6 DEF Advances, IsChain, Fields
    <3> HIDE DEF v
    <3>5. v.pos \in Nat
      BY <1>1, <2>2, <2>6, <3>4 DEF Advances
    <3>6. Healthy(p, v) /\ ~Dead(v)
      BY <2>6, <3>4, <3>5 DEF Advances, Healthy, Dead, ZEof
    <3>7. v.out = r.out + k /\ v.pos = r.pos + k /\ v.data = r.data /\ v.block = r.block /\ v.eof = r.eof
      BY <2>6, <3>4 DEF Advances
    <3>8. r.pos < r.data /\ k \in 1 .. r.data - r.pos /\ IsChain(v)
      BY <1>1, <1>3, <2>2, <3>4
    <3>9. \E c \in 1 .. r.data - r.pos :
            o = [n |-> c, r |-> v] /\ v.out = r.out + c /\ v.pos = r.pos + c
      BY <3>3, <3>7, <3>8
    <3> QED BY <3>6, <3>7, <3>8, <3>9
  <2> QED BY <2>4, <2>5, <2>6
<1> QED BY <1>2, <1>3

LEMMA TarReadOutcome ==
  ASSUME NEW p, NEW r, IsChain(r), NEW n, NEW f, NEW o \in TarRead(p, r, n, f)
  PROVE  IsOutcome(o)
<1>1. CASE r.terr
  BY <1>1 DEF TarRead, IsOutcome
<1>2. CASE ~r.terr /\ r.pos >= r.data
  <2>1. o = [n |-> 0, r |-> [r EXCEPT !.eof = TRUE]]
    BY <1>2 DEF TarRead
  <2>2. IsChain([r EXCEPT !.eof = TRUE])
    BY DEF IsChain
  <2> QED BY <2>1, <2>2 DEF IsOutcome
<1>3. CASE ~r.terr /\ ~(r.pos >= r.data)
  <2> DEFINE k == IF n < r.data - r.pos THEN n ELSE r.data - r.pos
  <2>1. PICK z \in ZRead(p, r, k, f) :
          o = CASE z.n > 0 -> [z EXCEPT !.r.pos = @ + z.n]
                [] z.n = 0 -> [z EXCEPT !.r.eof = TRUE]
                [] OTHER   -> z
    BY <1>3 DEF TarRead
  <2>2. PICK c, v : z = [n |-> c, r |-> v] /\ IsChain(v)
    <3> HIDE DEF k
    <3> QED BY ZReadOutcome DEF IsOutcome
  <2>3. CASE z.n > 0
    <3>1. o = [z EXCEPT !.r.pos = @ + z.n]
      <4>1. ~(z.n = 0) \/ z.n = 0
        OBVIOUS
      <4>2. z.n = 0 => FALSE
        BY <2>3
      <4> QED BY <2>1, <2>3, <4>2
    <3>2. o = [n |-> c, r |-> [v EXCEPT !.pos = @ + c]]
      BY <2>2, <3>1
    <3>3. IsChain([v EXCEPT !.pos = @ + c])
      BY <2>2 DEF IsChain
    <3> QED BY <3>2, <3>3 DEF IsOutcome
  <2>4. CASE z.n = 0
    <3>1. o = [z EXCEPT !.r.eof = TRUE]
      BY <2>1, <2>4
    <3>2. o = [n |-> c, r |-> [v EXCEPT !.eof = TRUE]]
      BY <2>2, <3>1
    <3>3. IsChain([v EXCEPT !.eof = TRUE])
      BY <2>2 DEF IsChain
    <3> QED BY <3>2, <3>3 DEF IsOutcome
  <2>5. CASE ~(z.n > 0) /\ z.n # 0
    <3>1. o = z
      BY <2>1, <2>5
    <3> QED BY <2>2, <3>1 DEF IsOutcome
  <2> QED BY <2>3, <2>4, <2>5
<1> QED BY <1>1, <1>2, <1>3

----------------------------------------------------------------------------
(* What a round of TarSource::next does.                                   *)

(* h is what becomes of a second null block.                               *)
AfterNull(p, v, f, h) ==
  \E z \in ZRead(p, v, Block, f) :
    \/ z.n = Block /\ h = Found("end", 0, [z.r EXCEPT !.eof = TRUE])
    \/ z.n # Block /\ h = Fail(z.r)

(* h is what becomes of the record of a pax header and what follows it.    *)
AfterPax(p, r, f, h) ==
  \E o \in ZRead(p, r, 1, f) :
    \/ o.n # 1 /\ h = Fail(o.r)
    \/ /\ o.n = 1
       /\ \E v : /\ \/ Padding(1) = 0 /\ v = o.r
                    \/ Padding(1) # 0 /\ \E y \in ZRead(p, o.r, Padding(1), f) : v = y.r
                 /\ \/ p.units[o.r.out].k # "record" /\ h = Fail(v)
                    \/ /\ p.units[o.r.out].k = "record"
                       /\ \E z \in ZRead(p, v, Block, f) :
                            \/ z.n # Block /\ h = Fail(z.r)
                            \/ /\ z.n = Block
                               /\ \/ BlockAt(p, v.out) = "head" /\ h \in OpenFile(p, NoError(z.r))
                                  \/ BlockAt(p, v.out) # "head" /\ h = Fail(z.r)

(* ReadPax and NextHeader are nested unions over reads; these two lemmas   *)
(* say once, with quantifiers, what is in them.                            *)
LEMMA ReadPaxIs ==
  ASSUME NEW p, NEW r, NEW f, NEW h \in ReadPax(p, r, f)
  PROVE  AfterPax(p, r, f, h)
<1> DEFINE Header(b, v) == IF b = "head" THEN OpenFile(p, NoError(v)) ELSE {Fail(v)}
           Blk(v) == UNION {IF z.n = Block THEN Header(BlockAt(p, v.out), z.r) ELSE {Fail(z.r)}
                              : z \in ZRead(p, v, Block, f)}
           Parse(v, q) == IF p.units[q].k = "record" THEN Blk(v) ELSE {Fail(v)}
           Pad(v) == IF Padding(1) = 0 THEN {v} ELSE {o.r : o \in ZRead(p, v, Padding(1), f)}
           All == {IF o.n = 1 THEN UNION {Parse(v, o.r.out) : v \in Pad(o.r)} ELSE {Fail(o.r)}
                     : o \in ZRead(p, r, 1, f)}
<1>1. ReadPax(p, r, f) = UNION All
  BY Zenon DEF ReadPax, ReadBlock
<1> HIDE DEF Pad, Parse
<1>2. PICK o \in ZRead(p, r, 1, f) :
        h \in IF o.n = 1 THEN UNION {Parse(v, o.r.out) : v \in Pad(o.r)} ELSE {Fail(o.r)}
  BY <1>1
<1>3. CASE o.n # 1
  <2>1. h = Fail(o.r)
    BY <1>2, <1>3
  <2> QED BY <1>3, <2>1 DEF AfterPax
<1>4. CASE o.n = 1
  <2>1. PICK v \in Pad(o.r) : h \in Parse(v, o.r.out)
    BY <1>2, <1>4
  <2>2. \/ Padding(1) = 0 /\ v = o.r
        \/ Padding(1) # 0 /\ \E y \in ZRead(p, o.r, Padding(1), f) : v = y.r
    BY <2>1 DEF Pad
  <2>3. CASE p.units[o.r.out].k # "record"
    <3>1. h = Fail(v)
      BY <2>1, <2>3 DEF Parse
    <3> QED BY <1>4, <2>2, <2>3, <3>1 DEF AfterPax
  <2>4. CASE p.units[o.r.out].k = "record"
    <3>1. h \in Blk(v)
      BY <2>1, <2>4 DEF Parse
    <3> HIDE DEF Header
    <3>2. PICK z \in ZRead(p, v, Block, f) :
            h \in IF z.n = Block THEN Header(BlockAt(p, v.out), z.r) ELSE {Fail(z.r)}
      BY <3>1
    <3>3. \/ z.n # Block /\ h = Fail(z.r)
          \/ /\ z.n = Block
             /\ \/ BlockAt(p, v.out) = "head" /\ h \in OpenFile(p, NoError(z.r))
                \/ BlockAt(p, v.out) # "head" /\ h = Fail(z.r)
      BY <3>2 DEF Header
    <3> QED BY <1>4, <2>2, <2>4, <3>3 DEF AfterPax
  <2> QED BY <2>3, <2>4
<1> QED BY <1>3, <1>4

(* h is what a block of kind b leads to.                                   *)
AfterBlock(p, b, v, f, h) ==
  \/ b = "null" /\ AfterNull(p, v, f, h)
  \/ b = "head" /\ h \in OpenFile(p, v)
  \/ b = "pax"  /\ AfterPax(p, v, f, h)
  \/ b = "aux"  /\ h = Found("aux", p.units[v.out].f, v)
  \/ b = "junk" /\ h = Fail(v)

LEMMA NextHeaderIs ==
  ASSUME NEW p, NEW r, NEW f, NEW h \in NextHeader(p, r, f)
  PROVE  \/ ZEof(r) /\ h = Found("end", 0, r)
         \/ ~ZEof(r) /\ \E o \in ZRead(p, r, Block, f) :
                          \/ o.n # Block /\ h = Fail(o.r)
                          \/ o.n = Block /\ AfterBlock(p, BlockAt(p, r.out), o.r, f, h)
<1> DEFINE SecondNull(b, v) == {Found("end", 0, [v EXCEPT !.eof = TRUE])}
           Null(v) == UNION {IF z.n = Block THEN SecondNull(BlockAt(p, v.out), z.r) ELSE {Fail(z.r)}
                               : z \in ZRead(p, v, Block, f)}
           First(b, v) ==
             CASE b = "null" -> Null(v)
               [] b = "head" -> OpenFile(p, v)
               [] b = "pax"  -> ReadPax(p, v, f)
               [] b = "aux"  -> {Found("aux", p.units[v.out].f, v)}
               [] b = "junk" -> {Fail(v)}
           All == {IF o.n = Block THEN First(BlockAt(p, r.out), o.r) ELSE {Fail(o.r)}
                     : o \in ZRead(p, r, Block, f)}
<1>1. NextHeader(p, r, f) = IF ZEof(r) THEN {Found("end", 0, r)} ELSE UNION All
  BY Zenon DEF NextHeader, ReadBlock
<1>2. CASE ZEof(r)
  BY <1>1, <1>2
<1>3. CASE ~ZEof(r)
  <2> HIDE DEF First
  <2>1. PICK o \in ZRead(p, r, Block, f) :
          h \in IF o.n = Block THEN First(BlockAt(p, r.out), o.r) ELSE {Fail(o.r)}
    BY <1>1, <1>3
  <2>2. CASE o.n # Block
    BY <1>3, <2>1, <2>2
  <2>3. CASE o.n = Block
    <3>1. PICK b, v : b = BlockAt(p, r.out) /\ v = o.r
      OBVIOUS
    <3>2. h \in First(b, v)
      BY <2>1, <2>3, <3>1
    <3>3. b \in {"null", "head", "pax", "aux", "junk"}
      BY <3>1 DEF BlockAt
    <3>4. CASE b = "null"
      <4> HIDE DEF SecondNull
      <4>1. h \in Null(v)
        <5> HIDE DEF Null
        <5> QED BY <3>2, <3>4 DEF First
      <4>2. PICK z \in ZRead(p, v, Block, f) :
              h \in IF z.n = Block THEN SecondNull(BlockAt(p, v.out), z.r) ELSE {Fail(z.r)}
        BY <4>1
      <4>3. AfterNull(p, v, f, h)
        BY <4>2 DEF AfterNull, SecondNull
      <4> QED BY <1>3, <2>3, <3>1, <3>4, <4>3 DEF AfterBlock
    <3>5. CASE b = "pax"
      <4>1. h \in ReadPax(p, v, f)
        <5> HIDE DEF Null
        <5> QED BY <3>2, <3>5 DEF First
      <4>2. AfterPax(p, v, f, h)
        BY <4>1, ReadPaxIs
      <4> QED BY <1>3, <2>3, <3>1, <3>5, <4>2 DEF AfterBlock
    <3>6. CASE b \in {"head", "aux", "junk"}
      <4> HIDE DEF Null
      <4>1. AfterBlock(p, b, v, f, h)
        BY <3>2, <3>6 DEF AfterBlock, First
      <4> QED BY <1>3, <2>3, <3>1, <4>1
    <3> QED BY <3>3, <3>4, <3>5, <3>6
  <2> QED BY <2>2, <2>3
<1> QED BY <1>2, <1>3

(* What next finds on any chain.                                           *)
IsFound(h) == \E w, i, v : h = Found(w, i, v) /\ IsChain(v)

LEMMA FailOutcome ==
  ASSUME NEW v, IsChain(v)
  PROVE  IsFound(Fail(v))
<1>1. IsChain([v EXCEPT !.terr = TRUE])
  BY DEF IsChain
<1> QED BY <1>1 DEF IsFound, Fail

LEMMA NoErrorChain ==
  ASSUME NEW v, IsChain(v)
  PROVE  IsChain(NoError(v))
BY DEF NoError, IsChain

LEMMA OpenFileOutcome ==
  ASSUME NEW p, NEW v, IsChain(v), NEW h \in OpenFile(p, v)
  PROVE  IsFound(h)
<1> DEFINE i == p.units[v.out].f
           d == IF p.sizes[i] < 0 THEN Len(p.units) + 1 ELSE p.sizes[i]
           b == p.sizes[i] + Padding(p.sizes[i])
           w == [v EXCEPT !.pos = 0, !.data = d, !.block = b, !.eof = FALSE]
<1>1. h = Found("file", i, w)
  BY DEF OpenFile
<1>2. IsChain(w)
  <2> HIDE DEF d, b
  <2> QED BY DEF IsChain
<1> HIDE DEF i, w
<1> QED BY <1>1, <1>2 DEF IsFound

LEMMA NextHeaderChain ==
  ASSUME NEW p, NEW r, IsChain(r), NEW f, NEW h \in NextHeader(p, r, f)
  PROVE  IsFound(h)
<1>1. CASE ZEof(r)
  <2>1. h = Found("end", 0, r)
    BY <1>1, NextHeaderIs
  <2> QED BY <2>1 DEF IsFound
<1>2. CASE ~ZEof(r)
  <2>1. PICK o \in ZRead(p, r, Block, f) :
          \/ o.n # Block /\ h = Fail(o.r)
          \/ o.n = Block /\ AfterBlock(p, BlockAt(p, r.out), o.r, f, h)
    BY <1>2, NextHeaderIs
  <2>2. PICK c, v : o = [n |-> c, r |-> v] /\ IsChain(v)
    BY ZReadOutcome DEF IsOutcome
  <2>3. CASE h = Fail(o.r)
    BY <2>2, <2>3, FailOutcome
  <2>4. CASE AfterBlock(p, BlockAt(p, r.out), o.r, f, h)
    <3>1. AfterBlock(p, BlockAt(p, r.out), v, f, h)
      BY <2>2, <2>4
    <3>2. CASE AfterNull(p, v, f, h)
      <4>1. PICK z \in ZRead(p, v, Block, f) :
              \/ z.n = Block /\ h = Found("end", 0, [z.r EXCEPT !.eof = TRUE])
              \/ z.n # Block /\ h = Fail(z.r)
        BY <3>2 DEF AfterNull
      <4>2. PICK d, w : z = [n |-> d, r |-> w] /\ IsChain(w)
        BY <2>2, ZReadOutcome DEF IsOutcome
      <4>3. IsChain([w EXCEPT !.eof = TRUE])
        BY <4>2 DEF IsChain
      <4>4. IsFound(Fail(w)) /\ z.r = w
        BY <4>2, FailOutcome
      <4> QED BY <4>1, <4>3, <4>4 DEF IsFound
    <3>3. CASE h \in OpenFile(p, v)
      BY <2>2, <3>3, OpenFileOutcome
    <3>4. CASE AfterPax(p, v, f, h)
      <4>1. PICK y \in ZRead(p, v, 1, f) :
              \/ y.n # 1 /\ h = Fail(y.r)
              \/ \E w : /\ \/ w = y.r
                           \/ \E x \in ZRead(p, y.r, Padding(1), f) : w = x.r
                        /\ \/ h = Fail(w)
                           \/ \E z \in ZRead(p, w, Block, f) :
                                h = Fail(z.r) \/ h \in OpenFile(p, NoError(z.r))
        BY <3>4 DEF AfterPax
      <4>2. PICK y1 : y.r = y1 /\ IsChain(y1)
        BY <2>2, ZReadOutcome DEF IsOutcome
      <4>3. CASE h = Fail(y.r)
        BY <4>2, <4>3, FailOutcome
      <4>4. ASSUME NEW w, w = y.r \/ \E x \in ZRead(p, y.r, Padding(1), f) : w = x.r,
                   \/ h = Fail(w)
                   \/ \E z \in ZRead(p, w, Block, f) : h = Fail(z.r) \/ h \in OpenFile(p, NoError(z.r))
            PROVE  IsFound(h)
        <5>1. IsChain(w)
          <6>1. CASE w = y.r
            BY <4>2, <6>1
          <6>2. CASE \E x \in ZRead(p, y.r, Padding(1), f) : w = x.r
            <7>1. PICK x \in ZRead(p, y1, Padding(1), f) : w = x.r
              BY <4>2, <6>2
            <7>2. PICK k : k = Padding(1)
              OBVIOUS
            <7>3. IsOutcome(x)
              BY <4>2, <7>1, <7>2, ZReadOutcome
            <7> QED BY <7>1, <7>3 DEF IsOutcome
          <6> QED BY <4>4, <6>1, <6>2
        <5>2. CASE h = Fail(w)
          BY <5>1, <5>2, FailOutcome
        <5>3. CASE \E z \in ZRead(p, w, Block, f) : h = Fail(z.r) \/ h \in OpenFile(p, NoError(z.r))
          <6>1. PICK z \in ZRead(p, w, Block, f) : h = Fail(z.r) \/ h \in OpenFile(p, NoError(z.r))
            BY <5>3
          <6>2. PICK z1 : z.r = z1 /\ IsChain(z1)
            BY <5>1, ZReadOutcome DEF IsOutcome
          <6>3. PICK z2 : z2 = NoError(z1) /\ IsChain(z2)
            BY <6>2, NoErrorChain
          <6> QED BY <6>1, <6>2, <6>3, FailOutcome, OpenFileOutcome
        <5> QED BY <4>4, <5>2, <5>3
      <4> QED BY <4>1, <4>3, <4>4
    <3>5. CASE h = Found("aux", p.units[v.out].f, v)
      BY <2>2, <3>5 DEF IsFound
    <3>6. CASE h = Fail(v)
      BY <2>2, <3>6, FailOutcome
    <3> QED BY <3>1, <3>2, <3>3, <3>4, <3>5, <3>6 DEF AfterBlock
  <2> QED BY <2>1, <2>3, <2>4
<1> QED BY <1>1, <1>2

(* next reports an error of a chain that has not met its end.              *)
FoundBroken(h) ==
  \E v : h = Found("fail", 0, v) /\ IsChain(v) /\ v.zerr = TRUE /\ v.fault = TRUE /\ ~ZEof(v)

LEMMA FailBroken ==
  ASSUME NEW v, IsChain(v), v.zerr = TRUE, v.fault = TRUE, ~ZEof(v)
  PROVE  FoundBroken(Fail(v))
<1> DEFINE w == [v EXCEPT !.terr = TRUE]
<1>1. IsChain(w) /\ w.zerr = v.zerr /\ w.fault = v.fault /\ w.avail = v.avail /\ w.srcEof = v.srcEof
  BY DEF IsChain, Fields
<1>2. Fail(v) = Found("fail", 0, w)
  BY DEF Fail
<1> HIDE DEF w
<1> QED BY <1>1, <1>2 DEF FoundBroken, ZEof

(* ... and keeps what DecryptionSource says.                               *)
BrokenLike(h, r) == FoundBroken(h) /\ h.r.derr = r.derr

LEMMA NextHeaderDead ==
  ASSUME NEW p, NEW r, IsChain(r), Dead(r), r.fault = TRUE, ~ZEof(r), NEW f,
         NEW h \in NextHeader(p, r, f)
  PROVE  BrokenLike(h, r)
<1> DEFINE v == [r EXCEPT !.zerr = TRUE]
           w == [v EXCEPT !.terr = TRUE]
<1>1. IsChain(v) /\ v.zerr = TRUE /\ v.fault = TRUE /\ ~ZEof(v) /\ v.derr = r.derr
  BY DEF IsChain, Fields, ZEof
<1>2. \A o \in ZRead(p, r, Block, f) : o = [n |-> ERR, r |-> v]
  <2>1. PICK b : b = Block
    OBVIOUS
  <2>2. ZRead(p, r, b, f) = {[n |-> ERR, r |-> v]}
    BY DeadRead
  <2> HIDE DEF v
  <2> QED BY <2>1, <2>2
<1>3. Block # -1
  BY BlockAssumption
<1>4. w.derr = v.derr
  BY <1>1 DEF IsChain, Fields
<1> HIDE DEF v
<1>5. h = Fail(v)
  BY <1>2, <1>3, NextHeaderIs DEF ERR
<1>6. h.r = w
  BY <1>5 DEF Fail, Found
<1>7. FoundBroken(h)
  BY <1>1, <1>5, FailBroken
<1> QED BY <1>1, <1>4, <1>6, <1>7 DEF BrokenLike

----------------------------------------------------------------------------
(* Where a chain stands in the archive of a writer.                        *)

(* Where the files of the archive end.                                     *)
Ends(p) == CHOOSE e \in [0 .. Len(p.sizes) -> 0 .. Len(p.units)] : Laid(p, e)

LEMMA EndsLaid ==
  ASSUME NEW p, Sound(p)
  PROVE  Ends(p) \in [0 .. Len(p.sizes) -> 0 .. Len(p.units)] /\ Laid(p, Ends(p))
BY DEF Ends, Sound, WellLaid

(* The head of the file behind the first m stands at a.                    *)
ToHead(p, a, m) == m < Len(p.sizes) /\ FileAt(p, m + 1, a, Ends(p)[m + 1])

(* next is to look for another file here.                                  *)
AtHeader(p, a, m) ==
  \/ a = Ends(p)[m]
  \/ ToHead(p, a, m)
  \/ a = Len(p.units) /\ m = Len(p.sizes)

LEMMA FileAtType ==
  ASSUME NEW p, Sound(p), NEW i, NEW q, NEW e, FileAt(p, i, q, e)
  PROVE  /\ p.sizes[i] \in Nat => p.sizes[i] + Padding(p.sizes[i]) \in Nat
         /\ q + Block <= Len(p.units)
BY PaddingNat DEF FileAt, HeaderAt

(* The blocks of the archive are taken for what they are.                  *)
LEMMA BlockAtHeader ==
  ASSUME NEW p, NEW q, NEW k \in {"head", "pax", "aux"}, NEW i, HeaderAt(p, q, k, i)
  PROVE  BlockAt(p, q) = k /\ p.units[q + Block].f = i
<1>1. Block \in Nat \ {0} /\ 1 \in 1 .. Block /\ Block \in 1 .. Block
  BY BlockAssumption
<1>2. \A j \in 1 .. Block : p.units[q + j] = [k |-> k, f |-> i, i |-> j]
  BY DEF HeaderAt
<1>3. p.units[q + 1] = [k |-> k, f |-> i, i |-> 1]
      /\ p.units[q + Block] = [k |-> k, f |-> i, i |-> Block]
  BY <1>1, <1>2
<1>4. ~ \A j \in 1 .. Block : p.units[q + j].k = "zero"
  BY <1>1, <1>3
<1>5. ASSUME NEW j \in 1 .. Block
      PROVE  p.units[q + j] = [p.units[q + 1] EXCEPT !.i = j]
  <2>1. p.units[q + j] = [k |-> k, f |-> i, i |-> j]
    BY <1>2
  <2> QED BY <1>3, <2>1
<1>6. p.units[q + 1].k = k /\ p.units[q + Block].f = i
  BY <1>3
<1> QED BY <1>4, <1>5, <1>6 DEF BlockAt

LEMMA BlockAtNull ==
  ASSUME NEW p, NEW q, \A j \in 1 .. Block : p.units[q + j].k = "zero"
  PROVE  BlockAt(p, q) = "null"
BY DEF BlockAt

(* A file found in order.                                                  *)
AtStart(p, v, m) ==
  /\ m \in 1 .. Len(p.sizes)
  /\ IsChain(v) /\ Healthy(p, v) /\ ~Dead(v)
  /\ \E q \in 0 .. Len(p.units) : FileAt(p, m, q, Ends(p)[m]) /\ v.out = q + Block
  /\ v.pos = 0 /\ v.data = p.sizes[m] /\ v.block = v.data + Padding(v.data) /\ v.eof = FALSE

(* The head of the next file opens it.                                     *)
LEMMA OpensNext ==
  ASSUME NEW p, Sound(p), NEW m \in Nat, NEW q \in 0 .. Len(p.units), ToHead(p, q, m),
         NEW v, IsChain(v), Healthy(p, v), ~Dead(v), v.out = q + Block,
         NEW h \in OpenFile(p, v)
  PROVE  \E w : h = Found("file", m + 1, w) /\ AtStart(p, w, m + 1)
<1>1. /\ m + 1 \in 1 .. Len(p.sizes) /\ FileAt(p, m + 1, q, Ends(p)[m + 1])
      /\ HeaderAt(p, q, "head", m + 1) /\ p.sizes[m + 1] >= 0
  BY DEF ToHead, FileAt, Sound
<1>2. p.sizes[m + 1] \in Nat
  BY <1>1 DEF Sound
<1>3. p.units[v.out].f = m + 1
  BY <1>1, BlockAtHeader
<1> DEFINE d == p.sizes[m + 1]
           w == [v EXCEPT !.pos = 0, !.data = d, !.block = d + Padding(d), !.eof = FALSE]
<1>4. ~(d < 0)
  BY <1>2
<1>5. h = Found("file", m + 1, w)
  <2> DEFINE e(i) == IF p.sizes[i] < 0 THEN Len(p.units) + 1 ELSE p.sizes[i]
             W(i) == [v EXCEPT !.pos = 0, !.data = e(i), !.block = p.sizes[i] + Padding(p.sizes[i]),
                               !.eof = FALSE]
  <2>1. PICK i : i = p.units[v.out].f
    OBVIOUS
  <2>2. h = Found("file", i, W(i))
    BY <2>1 DEF OpenFile
  <2>3. i = m + 1
    BY <1>3, <2>1
  <2>4. W(i) = w
    <3>1. e(i) = d /\ p.sizes[i] = d
      BY <1>4, <2>3
    <3> HIDE DEF e
    <3> QED BY <3>1
  <2> HIDE DEF W, w
  <2> QED BY <2>2, <2>3, <2>4
<1>6. d + Padding(d) \in Nat
  <2>1. PICK c \in Nat : c = d
    BY <1>2
  <2>2. Padding(c) \in Nat
    BY PaddingNat
  <2> QED BY <2>1, <2>2
<1>7. /\ IsChain(w) /\ w.pos = 0 /\ w.data = d /\ w.block = d + Padding(d) /\ w.eof = FALSE
      /\ w.out = v.out /\ w.at = v.at /\ w.lost = v.lost /\ w.terr = v.terr /\ w.zerr = v.zerr
      /\ w.derr = v.derr /\ w.avail = v.avail /\ w.srcEof = v.srcEof
  BY DEF IsChain, Fields
<1> HIDE DEF w
<1>8. Healthy(p, w) /\ ~Dead(w)
  BY <1>2, <1>6, <1>7 DEF Healthy, Dead, ZEof
<1>9. AtStart(p, w, m + 1)
  BY <1>1, <1>7, <1>8 DEF AtStart
<1> QED BY <1>5, <1>9

(* What next finds in such a place.                                        *)
FoundNext(p, r, m, h) ==
  \/ FoundBroken(h)
  \/ \E v : h = Found("file", m + 1, v) /\ AtStart(p, v, m + 1)
  \/ \E v : \E a \in Nat : /\ h = Found("aux", a, v) /\ Advances(p, r, v, Block)
                            /\ ToHead(p, v.out + a + Padding(a), m)
  \/ \E v : /\ h = Found("end", 0, v) /\ m = Len(p.sizes)
            /\ IsChain(v) /\ Healthy(p, v) /\ ~Dead(v) /\ v.out = Len(p.units)
            /\ v.pos = r.pos /\ v.data = r.data /\ v.block = r.block

(* A read of a block, or of less, that does not end the archive.           *)
Broken(v) == IsChain(v) /\ v.zerr = TRUE /\ v.fault = TRUE /\ ~ZEof(v)
ReadsOn(p, r, n, o) ==
  \E v : /\ o.r = v
         /\ \/ o.n = n /\ Advances(p, r, v, n)
            \/ o.n # n /\ Broken(v)

LEMMA ReadOn ==
  ASSUME NEW p, Sound(p), NEW r, IsChain(r), Healthy(p, r), ~Dead(r),
         NEW n \in Nat \ {0}, r.out + n <= Len(p.units),
         r.out + n < Len(p.units) \/ n = Block,
         NEW f, NEW o \in ZRead(p, r, n, f)
  PROVE  ReadsOn(p, r, n, o)
<1>1. PICK v : \/ o = [n |-> n, r |-> v] /\ Advances(p, r, v, n)
               \/ o = [n |-> ERR, r |-> v] /\ Breaks(r, v)
  BY ZReadGood
<1>2. ~ZEof(r)
  BY DEF Healthy, Sound
<1>3. ERR # n
  BY DEF ERR
<1>4. CASE o = [n |-> n, r |-> v] /\ Advances(p, r, v, n)
  <2>1. o.n = n /\ o.r = v
    BY <1>4
  <2> QED BY <1>4, <2>1 DEF ReadsOn
<1>5. CASE o = [n |-> ERR, r |-> v] /\ Breaks(r, v)
  <2>1. Broken(v)
    BY <1>2, <1>5 DEF Breaks, ZEof, Broken
  <2>2. o.n # n /\ o.r = v
    BY <1>3, <1>5
  <2> QED BY <2>1, <2>2 DEF ReadsOn
<1> QED BY <1>1, <1>4, <1>5

(* The round of next that starts at the head of a file.                    *)
LEMMA NextAtHead ==
  ASSUME NEW p, Sound(p), NEW r, IsChain(r), Healthy(p, r), ~Dead(r),
         NEW m \in Nat, ToHead(p, r.out, m), NEW f, NEW h \in NextHeader(p, r, f)
  PROVE  FoundNext(p, r, m, h)
<1>1. PICK q : q = r.out /\ q \in 0 .. Len(p.units) /\ Len(p.units) \in Nat
  BY DEF Healthy, Sound
<1>2. HeaderAt(p, q, "head", m + 1)
  BY <1>1 DEF ToHead, FileAt
<1>3. BlockAt(p, q) = "head" /\ q + Block <= Len(p.units) /\ Block \in Nat \ {0}
  <2>1. BlockAt(p, q) = "head"
    BY <1>2, BlockAtHeader
  <2> QED BY <1>2, <2>1, BlockAssumption DEF HeaderAt
<1>4. ~ZEof(r)
  BY <1>1, <1>3 DEF Healthy
<1>5. PICK o \in ZRead(p, r, Block, f) :
        \/ o.n # Block /\ h = Fail(o.r)
        \/ o.n = Block /\ AfterBlock(p, "head", o.r, f, h)
  BY <1>1, <1>3, <1>4, NextHeaderIs
<1>6. PICK v : /\ o.r = v
               /\ \/ o.n = Block /\ Advances(p, r, v, Block)
                  \/ o.n # Block /\ Broken(v)
  <2>1. PICK b : b = Block
    OBVIOUS
  <2>2. ReadsOn(p, r, b, o)
    BY <1>1, <1>3, <2>1, ReadOn
  <2> QED BY <2>1, <2>2 DEF ReadsOn
<1>7. CASE o.n # Block
  BY <1>5, <1>6, <1>7, FailBroken DEF FoundNext, Broken
<1>8. CASE o.n = Block
  <2>1. h \in OpenFile(p, v) /\ Advances(p, r, v, Block)
    BY <1>5, <1>6, <1>8 DEF AfterBlock
  <2>2. IsChain(v) /\ Healthy(p, v) /\ ~Dead(v) /\ v.out = q + Block
    BY <1>1, <2>1 DEF Advances
  <2>3. ToHead(p, q, m)
    BY <1>1
  <2> QED BY <1>1, <2>1, <2>2, <2>3, OpensNext DEF FoundNext
<1> QED BY <1>7, <1>8

LEMMA NoErrorHealthy ==
  ASSUME NEW p, NEW v, IsChain(v), Healthy(p, v), ~Dead(v)
  PROVE  /\ IsChain(NoError(v)) /\ Healthy(p, NoError(v)) /\ ~Dead(NoError(v))
         /\ NoError(v).out = v.out
<1>1. PICK c : c = NoError(v)
  OBVIOUS
<1>2. /\ c.lost = v.lost /\ ~c.terr /\ c.at = v.at /\ c.out = v.out /\ c.pos = v.pos
      /\ c.data = v.data /\ c.block = v.block /\ c.avail = v.avail /\ c.srcEof = v.srcEof
      /\ c.zerr = v.zerr /\ c.derr = v.derr /\ IsChain(c)
  BY <1>1, NoErrorChain DEF NoError, IsChain, Fields
<1>3. ZEof(c) <=> ZEof(v)
  BY <1>2 DEF ZEof
<1>4. Healthy(p, c) /\ ~Dead(c)
  BY <1>2, <1>3 DEF Healthy, Dead
<1> QED BY <1>1, <1>2, <1>4

(* Behind a pax header.                                                    *)
LEMMA NextBehindPax ==
  ASSUME NEW p, Sound(p), NEW r, IsChain(r), Healthy(p, r), ~Dead(r),
         NEW m \in Nat, NEW q \in 0 .. Len(p.units), ToHead(p, q, m),
         q = r.out + 1 + Padding(1), p.units[r.out + 1].k = "record",
         NEW f, NEW h, AfterPax(p, r, f, h), NEW r0
  PROVE  FoundNext(p, r0, m, h)
<1>1. Len(p.units) \in Nat /\ r.out \in Nat /\ Block \in Nat \ {0} /\ Padding(1) \in Nat
  BY BlockAssumption, PaddingNat, SoundNumbers, HealthyNumbers
<1>2. HeaderAt(p, q, "head", m + 1) /\ q + Block <= Len(p.units) /\ BlockAt(p, q) = "head"
  <2>1. HeaderAt(p, q, "head", m + 1)
    BY DEF ToHead, FileAt
  <2>2. BlockAt(p, q) = "head"
    BY <2>1, BlockAtHeader
  <2> QED BY <2>1, <2>2 DEF HeaderAt
<1>3. r.out + 1 < Len(p.units)
  BY <1>1, <1>2
<1>4. PICK o \in ZRead(p, r, 1, f) :
        \/ o.n # 1 /\ h = Fail(o.r)
        \/ /\ o.n = 1
           /\ \E v : /\ \/ Padding(1) = 0 /\ v = o.r
                        \/ Padding(1) # 0 /\ \E y \in ZRead(p, o.r, Padding(1), f) : v = y.r
                     /\ \/ p.units[o.r.out].k # "record" /\ h = Fail(v)
                        \/ /\ p.units[o.r.out].k = "record"
                           /\ \E z \in ZRead(p, v, Block, f) :
                                \/ z.n # Block /\ h = Fail(z.r)
                                \/ /\ z.n = Block
                                   /\ \/ BlockAt(p, v.out) = "head" /\ h \in OpenFile(p, NoError(z.r))
                                      \/ BlockAt(p, v.out) # "head" /\ h = Fail(z.r)
  BY DEF AfterPax
<1>5. PICK u : /\ o.r = u
               /\ \/ o.n = 1 /\ Advances(p, r, u, 1)
                  \/ o.n # 1 /\ Broken(u)
  BY <1>1, <1>3, ReadOn DEF ReadsOn
<1>6. CASE o.n # 1
  BY <1>4, <1>5, <1>6, FailBroken DEF FoundNext, Broken
<1>7. CASE o.n = 1
  <2>1. IsChain(u) /\ Healthy(p, u) /\ ~Dead(u) /\ u.out = r.out + 1
    BY <1>5, <1>7 DEF Advances
  <2>2. p.units[u.out].k = "record"
    BY <2>1
  <2>3. PICK v : /\ \/ Padding(1) = 0 /\ v = u
                    \/ Padding(1) # 0 /\ \E y \in ZRead(p, u, Padding(1), f) : v = y.r
                 /\ \E z \in ZRead(p, v, Block, f) :
                      \/ z.n # Block /\ h = Fail(z.r)
                      \/ /\ z.n = Block
                         /\ \/ BlockAt(p, v.out) = "head" /\ h \in OpenFile(p, NoError(z.r))
                            \/ BlockAt(p, v.out) # "head" /\ h = Fail(z.r)
    BY <1>4, <1>5, <1>7, <2>2
  <2>4. \/ IsChain(v) /\ Healthy(p, v) /\ ~Dead(v) /\ v.out = q
        \/ Broken(v)
    <3>1. CASE Padding(1) = 0
      BY <1>1, <2>1, <2>3, <3>1
    <3>2. CASE Padding(1) # 0
      <4>1. PICK k : k = Padding(1) /\ k \in Nat \ {0}
        BY <1>1, <3>2
      <4>2. PICK y \in ZRead(p, u, k, f) : v = y.r
        BY <2>3, <3>2, <4>1
      <4>3. u.out + k = q /\ u.out + k < Len(p.units) /\ u.out + k <= Len(p.units)
        BY <1>1, <1>2, <2>1, <4>1
      <4>4. PICK w : /\ y.r = w
                     /\ \/ y.n = k /\ Advances(p, u, w, k)
                        \/ y.n # k /\ Broken(w)
        BY <2>1, <4>1, <4>3, ReadOn DEF ReadsOn
      <4> QED BY <4>2, <4>3, <4>4 DEF Advances
    <3> QED BY <3>1, <3>2
  <2>5. PICK z \in ZRead(p, v, Block, f) :
          \/ z.n # Block /\ h = Fail(z.r)
          \/ /\ z.n = Block
             /\ \/ BlockAt(p, v.out) = "head" /\ h \in OpenFile(p, NoError(z.r))
                \/ BlockAt(p, v.out) # "head" /\ h = Fail(z.r)
    BY <2>3
  <2>6. PICK b : b = Block /\ b \in Nat \ {0}
    BY <1>1
  <2>7. CASE Broken(v)
    <3> DEFINE w == [v EXCEPT !.zerr = TRUE]
    <3>1. ZRead(p, v, b, f) = {[n |-> ERR, r |-> w]}
      BY <2>7, DeadRead DEF Dead, Broken
    <3>2. Broken(w)
      BY <2>7 DEF Broken, IsChain, Fields, ZEof
    <3> HIDE DEF w
    <3>3. z.n # Block /\ z.r = w
      BY <1>1, <2>6, <3>1 DEF ERR
    <3> QED BY <2>5, <3>2, <3>3, FailBroken DEF FoundNext, Broken
  <2>8. CASE IsChain(v) /\ Healthy(p, v) /\ ~Dead(v) /\ v.out = q
    <3>1. PICK w : /\ z.r = w
                   /\ \/ z.n = b /\ Advances(p, v, w, b)
                      \/ z.n # b /\ Broken(w)
      BY <1>2, <2>5, <2>6, <2>8, ReadOn DEF ReadsOn
    <3>2. CASE z.n # b
      BY <2>5, <2>6, <3>1, <3>2, FailBroken DEF FoundNext, Broken
    <3>3. CASE z.n = b
      <4>1. PICK x : x = NoError(w) /\ h \in OpenFile(p, x)
        BY <1>2, <2>5, <2>6, <2>8, <3>1, <3>3
      <4>2. IsChain(w) /\ Healthy(p, w) /\ ~Dead(w) /\ w.out = q + Block
        BY <2>6, <2>8, <3>1, <3>3 DEF Advances
      <4>3. IsChain(x) /\ Healthy(p, x) /\ ~Dead(x) /\ x.out = q + Block
        BY <4>1, <4>2, NoErrorHealthy
      <4> QED BY <4>1, <4>3, OpensNext DEF FoundNext
    <3> QED BY <3>2, <3>3
  <2> QED BY <2>4, <2>7, <2>8
<1> QED BY <1>6, <1>7

(* A round of next on a healthy chain between files: it finds the next     *)
(* file, passes a header in front of it, ends the archive behind the last, *)
(* or breaks the chain.                                                    *)
LEMMA NextGood ==
  ASSUME NEW p, Sound(p), NEW r, IsChain(r), Healthy(p, r), ~Dead(r),
         NEW m \in 0 .. Len(p.sizes), AtHeader(p, r.out, m), NEW f, NEW h \in NextHeader(p, r, f)
  PROVE  FoundNext(p, r, m, h)
<1>1. PICK a : a = r.out /\ a \in 0 .. Len(p.units) /\ Len(p.units) \in Nat /\ Len(p.sizes) \in Nat
  BY SoundNumbers, HealthyNumbers
<1>2. Block \in Nat \ {0} /\ Padding(1) \in Nat
  BY BlockAssumption, PaddingNat
<1>3. PICK e \in [0 .. Len(p.sizes) -> 0 .. Len(p.units)] : e = Ends(p) /\ Laid(p, e)
  BY EndsLaid
<1>4. CASE ToHead(p, r.out, m)
  BY <1>1, <1>4, NextAtHead
<1>5. CASE a = Len(p.units) /\ m = Len(p.sizes)
  <2>1. ZEof(r)
    BY <1>1, <1>5 DEF Healthy
  <2>2. h = Found("end", 0, r)
    BY <2>1, NextHeaderIs
  <2> QED BY <1>1, <1>5, <2>2 DEF FoundNext
<1>6. CASE a = e[m] /\ m = Len(p.sizes)
  <2>1. a + 2 * Block = Len(p.units) /\ \A j \in 1 .. 2 * Block : p.units[a + j].k = "zero"
    BY <1>3, <1>6 DEF Laid
  <2>2. PICK b : b = Block /\ b \in Nat \ {0}
    BY <1>2
  <2>3. \A j \in 1 .. Block : p.units[a + j].k = "zero"
    BY <2>1, <2>2
  <2>4. BlockAt(p, a) = "null"
    BY <2>3, BlockAtNull
  <2>5. ~ZEof(r)
    BY <1>1, <2>1, <2>2 DEF Healthy
  <2>6. PICK o \in ZRead(p, r, b, f) :
          \/ o.n # b /\ h = Fail(o.r)
          \/ o.n = b /\ AfterBlock(p, "null", o.r, f, h)
    BY <1>1, <2>2, <2>4, <2>5, NextHeaderIs
  <2>7. PICK v : /\ o.r = v
                 /\ \/ o.n = b /\ Advances(p, r, v, b)
                    \/ o.n # b /\ Broken(v)
    <3>1. r.out + b <= Len(p.units) /\ r.out + b < Len(p.units)
      BY <1>1, <2>1, <2>2
    <3> QED BY <2>2, <3>1, ReadOn DEF ReadsOn
  <2>8. CASE o.n # b
    BY <2>6, <2>7, <2>8, FailBroken DEF FoundNext, Broken
  <2>9. CASE o.n = b
    <3>1. AfterNull(p, v, f, h) /\ Advances(p, r, v, b)
      BY <2>6, <2>7, <2>9 DEF AfterBlock
    <3>2. PICK z \in ZRead(p, v, b, f) :
            \/ z.n = b /\ h = Found("end", 0, [z.r EXCEPT !.eof = TRUE])
            \/ z.n # b /\ h = Fail(z.r)
      BY <2>2, <3>1 DEF AfterNull
    <3>3. v.out + b <= Len(p.units) /\ v.out + b = Len(p.units)
      BY <1>1, <2>1, <2>2, <3>1 DEF Advances
    <3>4. PICK w : /\ z.r = w
                   /\ \/ z.n = b /\ Advances(p, v, w, b)
                      \/ z.n # b /\ Broken(w)
      BY <2>2, <3>1, <3>3, ReadOn DEF ReadsOn, Advances
    <3>5. CASE z.n # b
      BY <3>2, <3>4, <3>5, FailBroken DEF FoundNext, Broken
    <3>6. CASE z.n = b
      <4> DEFINE u == [w EXCEPT !.eof = TRUE]
      <4>1. h = Found("end", 0, u) /\ Advances(p, v, w, b)
        BY <3>2, <3>4, <3>6
      <4>2. /\ IsChain(u) /\ u.pos = w.pos /\ u.data = w.data /\ u.block = w.block
            /\ u.out = w.out /\ u.at = w.at /\ u.lost = w.lost /\ u.terr = w.terr /\ u.zerr = w.zerr
            /\ u.derr = w.derr /\ u.avail = w.avail /\ u.srcEof = w.srcEof
        BY <4>1 DEF Advances, IsChain, Fields
      <4> HIDE DEF u
      <4>3. Healthy(p, u) /\ ~Dead(u) /\ u.out = Len(p.units)
        BY <3>3, <4>1, <4>2 DEF Advances, Healthy, Dead, ZEof
      <4>4. u.pos = r.pos /\ u.data = r.data /\ u.block = r.block
        BY <3>1, <4>1, <4>2 DEF Advances
      <4> QED BY <1>6, <4>1, <4>2, <4>3, <4>4 DEF FoundNext
    <3> QED BY <3>5, <3>6
  <2> QED BY <2>8, <2>9
<1>7. CASE a = e[m] /\ m < Len(p.sizes)
  <2>1. m + 1 \in 1 .. Len(p.sizes) /\ (m + 1) - 1 = m
    BY <1>1, <1>7
  <2>2. PICK q \in 0 .. Len(p.units) : LeadsTo(p, a, q, m + 1) /\ FileAt(p, m + 1, q, e[m + 1])
    BY <1>3, <1>7, <2>1 DEF Laid
  <2>3. ToHead(p, q, m)
    BY <1>3, <1>7, <2>2 DEF ToHead
  <2>4. q + Block <= Len(p.units)
    BY <2>2 DEF FileAt, HeaderAt
  <2>5. CASE q = a
    <3>1. ToHead(p, r.out, m)
      BY <1>1, <2>3, <2>5
    <3> QED BY <3>1, <1>4
  <2>6. ASSUME a + Block <= q, NEW k \in {"pax", "aux"}, NEW i, HeaderAt(p, a, k, i)
        PROVE  \/ FoundNext(p, r, m, h)
               \/ \E v : AfterBlock(p, k, v, f, h) /\ Advances(p, r, v, Block)
    <3>1. BlockAt(p, a) = k
      BY <2>6, BlockAtHeader
    <3>2. PICK b : b = Block /\ b \in Nat \ {0}
      BY <1>2
    <3>3. r.out + b <= Len(p.units) /\ r.out + b < Len(p.units)
      BY <1>1, <2>4, <2>6, <3>2
    <3>4. ~ZEof(r)
      BY <1>1, <3>2, <3>3 DEF Healthy
    <3>5. PICK o \in ZRead(p, r, b, f) :
            \/ o.n # b /\ h = Fail(o.r)
            \/ o.n = b /\ AfterBlock(p, k, o.r, f, h)
      BY <1>1, <3>1, <3>2, <3>4, NextHeaderIs
    <3>6. PICK v : /\ o.r = v
                   /\ \/ o.n = b /\ Advances(p, r, v, b)
                      \/ o.n # b /\ Broken(v)
      BY <3>2, <3>3, ReadOn DEF ReadsOn
    <3>7. CASE o.n # b
      BY <3>5, <3>6, <3>7, FailBroken DEF FoundNext, Broken
    <3>8. CASE o.n = b
      BY <3>2, <3>5, <3>6, <3>8
    <3> QED BY <3>7, <3>8
  <2>7. CASE /\ q = a + Block + 1 + Padding(1)
             /\ HeaderAt(p, a, "pax", m + 1) /\ p.units[a + Block + 1].k = "record"
    <3>1. a + Block <= q
      BY <1>1, <1>2, <2>7
    <3>2. CASE FoundNext(p, r, m, h)
      BY <3>2
    <3>3. ASSUME NEW v, AfterBlock(p, "pax", v, f, h), Advances(p, r, v, Block)
          PROVE  FoundNext(p, r, m, h)
      <4>1. AfterPax(p, v, f, h)
        BY <3>3 DEF AfterBlock
      <4>2. IsChain(v) /\ Healthy(p, v) /\ ~Dead(v) /\ v.out = a + Block
        BY <1>1, <3>3 DEF Advances
      <4>3. q = v.out + 1 + Padding(1) /\ p.units[v.out + 1].k = "record"
        BY <1>1, <1>2, <2>7, <4>2
      <4>4. m \in Nat
        OBVIOUS
      <4> QED BY <2>3, <4>1, <4>2, <4>3, <4>4, NextBehindPax
    <3> QED BY <2>6, <2>7, <3>1, <3>3
  <2>8. CASE \E s \in 0 .. Len(p.units) :
               q = a + Block + s + Padding(s) /\ HeaderAt(p, a, "aux", s)
    <3>1. PICK s \in 0 .. Len(p.units) :
            q = a + Block + s + Padding(s) /\ HeaderAt(p, a, "aux", s)
      BY <2>8
    <3>2. s \in Nat /\ Padding(s) \in Nat
      <4>1. s \in Nat
        BY <1>1
      <4> QED BY <4>1, PaddingNat
    <3>3. a + Block <= q
      BY <1>1, <1>2, <3>1, <3>2
    <3>4. ASSUME NEW v, AfterBlock(p, "aux", v, f, h), Advances(p, r, v, Block)
          PROVE  FoundNext(p, r, m, h)
      <4>1. h = Found("aux", p.units[v.out].f, v)
        BY <3>4 DEF AfterBlock
      <4>2. v.out = a + Block
        BY <1>1, <3>4 DEF Advances
      <4>3. p.units[v.out].f = s
        BY <3>1, <4>2, BlockAtHeader
      <4>4. ToHead(p, v.out + s + Padding(s), m)
        BY <2>3, <3>1, <4>2
      <4> QED BY <3>2, <3>4, <4>1, <4>3, <4>4 DEF FoundNext
    <3> QED BY <2>6, <3>1, <3>3, <3>4
  <2> QED BY <2>2, <2>5, <2>7, <2>8 DEF LeadsTo
<1> QED BY <1>1, <1>3, <1>4, <1>5, <1>6, <1>7 DEF AtHeader

----------------------------------------------------------------------------
(* What the application has been given.                                    *)

Piece == [f : Nat, size : Int, got : Seq(Unit)]

ServedOK(p, s) ==
  /\ s \in Seq(Piece) /\ Len(s) <= Len(p.sizes)
  /\ \A i \in 1 .. Len(s) :
       /\ s[i].f = i /\ s[i].size = p.sizes[i] /\ Len(s[i].got) <= p.sizes[i]
       /\ \A j \in 1 .. Len(s[i].got) : s[i].got[j] = Member(i, j)

(* The first k files have been delivered whole.                            *)
Whole(s, k) == \A i \in 1 .. k : Len(s[i].got) = s[i].size

(* The chain is in the data of file m.                                     *)
InFile(p, r, m) ==
  /\ m \in 1 .. Len(p.sizes)
  /\ \E q \in 0 .. Len(p.units) : FileAt(p, m, q, Ends(p)[m]) /\ r.out = q + Block + r.pos
  /\ r.data = p.sizes[m] /\ r.block = r.data + Padding(r.data)
  /\ r.pos <= r.data
  /\ r.eof => r.pos = r.data

(* m files have been found, and the last one has nothing left to skip.     *)
Between(p, r, m) ==
  /\ r.data <= r.pos /\ r.block <= r.pos
  /\ AtHeader(p, r.out, m)

(* A file ends before the archive does.                                    *)
LEMMA EndsBefore ==
  ASSUME NEW p, Sound(p), NEW m \in 0 .. Len(p.sizes)
  PROVE  Ends(p)[m] \in 0 .. Len(p.units) /\ Ends(p)[m] < Len(p.units)
<1>1. PICK e \in [0 .. Len(p.sizes) -> 0 .. Len(p.units)] : e = Ends(p) /\ Laid(p, e)
  BY EndsLaid
<1>2. Len(p.sizes) \in Nat /\ Len(p.units) \in Nat /\ Block \in Nat \ {0} /\ Padding(1) \in Nat
  <2>1. Len(p.sizes) \in Nat /\ Len(p.units) \in Nat
    BY DEF Sound
  <2> QED BY <2>1, BlockAssumption, PaddingNat
<1>3. PICK a \in 0 .. Len(p.units) : a = e[m]
  OBVIOUS
<1>4. CASE m = Len(p.sizes)
  <2>1. a + 2 * Block = Len(p.units)
    BY <1>1, <1>3, <1>4 DEF Laid
  <2> QED BY <1>1, <1>2, <1>3, <2>1
<1>5. CASE m # Len(p.sizes)
  <2>1. m + 1 \in 1 .. Len(p.sizes) /\ (m + 1) - 1 = m
    BY <1>2, <1>5
  <2>2. PICK q \in 0 .. Len(p.units) : LeadsTo(p, a, q, m + 1) /\ FileAt(p, m + 1, q, e[m + 1])
    BY <1>1, <1>3, <2>1 DEF Laid
  <2>3. q + Block <= Len(p.units)
    BY <2>2 DEF FileAt, HeaderAt
  <2>4. a <= q
    <3>1. CASE q = a
      BY <3>1
    <3>2. CASE q = a + Block + 1 + Padding(1)
      BY <1>2, <3>2
    <3>3. ASSUME NEW s \in 0 .. Len(p.units), q = a + Block + s + Padding(s) PROVE a <= q
      <4>1. Padding(s) \in Nat /\ s \in Nat
        BY <1>2, PaddingNat
      <4> QED BY <1>2, <3>3, <4>1
    <3> QED BY <2>2, <3>1, <3>2, <3>3 DEF LeadsTo
  <2> QED BY <1>1, <1>2, <1>3, <2>3, <2>4
<1> QED BY <1>4, <1>5

(* The rest of a file, its padding included, does not end the archive.     *)
LEMMA InFileEnds ==
  ASSUME NEW p, Sound(p), NEW r, NEW m, InFile(p, r, m), r.pos \in Nat
  PROVE  /\ m \in Nat /\ r.data \in Nat /\ r.block \in Nat /\ r.out \in Nat
         /\ r.data <= r.block /\ r.pos <= r.data
         /\ r.out + (r.data - r.pos) < Len(p.units)
         /\ r.out + (r.block - r.pos) = Ends(p)[m]
<1>1. PICK e, q : /\ q \in 0 .. Len(p.units) /\ e = Ends(p)[m] /\ FileAt(p, m, q, e)
                  /\ r.out = q + Block + r.pos
  BY DEF InFile
<1>2. m \in 1 .. Len(p.sizes) /\ Len(p.sizes) \in Nat /\ Len(p.units) \in Nat /\ m \in 0 .. Len(p.sizes)
      /\ m \in Nat
  BY DEF InFile, Sound
<1>3. PICK d \in Nat : d = p.sizes[m]
  <2>1. p.sizes[m] \in Int /\ p.sizes[m] >= 0
    BY <1>1, <1>2 DEF FileAt, Sound
  <2> QED BY <2>1
<1>4. Padding(d) \in Nat /\ Block \in Nat \ {0}
  BY PaddingNat, BlockAssumption
<1>5. e \in 0 .. Len(p.units) /\ e < Len(p.units)
  BY <1>1, <1>2, EndsBefore
<1>6. e = q + Block + d + Padding(d)
  BY <1>1, <1>3 DEF FileAt
<1>7. r.data = d /\ r.block = d + Padding(d) /\ r.pos <= d
  <2>1. r.data = p.sizes[m] /\ r.block = r.data + Padding(r.data) /\ r.pos <= r.data
    BY DEF InFile
  <2> QED BY <1>3, <2>1
<1>8. PICK b, n : b = Padding(d) /\ n = Len(p.units)
  OBVIOUS
<1>9. PICK o, x, y, z : o = r.out /\ x = r.pos /\ y = r.data /\ z = r.block
  OBVIOUS
<1>10. /\ b \in Nat /\ n \in Nat /\ x \in Nat /\ q \in Nat /\ e \in Nat /\ Block \in Nat
       /\ y = d /\ z = d + b /\ x <= d /\ o = q + Block + x /\ e = q + Block + d + b /\ e < n
  BY <1>1, <1>2, <1>4, <1>5, <1>6, <1>7, <1>8, <1>9
<1>11. /\ y \in Nat /\ z \in Nat /\ o \in Nat /\ y <= z /\ x <= y
       /\ o + (y - x) < n /\ o + (z - x) = e
  BY <1>3, <1>10
<1> QED BY <1>1, <1>2, <1>8, <1>9, <1>11

(* Units of the file, read in order, extend what was delivered of it.      *)
Extended(s, m, u) == [s EXCEPT ![m].got = @ \o u]
Grown(p, s, m, t, n) ==
  /\ ServedOK(p, t) /\ Len(t) = m /\ Len(t[m].got) = n
  /\ \A i \in 1 .. m - 1 : t[i] = s[i]

LEMMA Delivers ==
  ASSUME NEW p, Sound(p), NEW s, ServedOK(p, s), NEW m, m = Len(s),
         NEW r, InFile(p, r, m), r.pos \in Nat, Len(s[m].got) = r.pos,
         NEW k \in 1 .. r.data - r.pos,
         NEW t, t = Extended(s, m, SubSeq(p.units, r.out + 1, r.out + k))
  PROVE  Grown(p, s, m, t, r.pos + k)
<1>1. /\ m \in Nat /\ r.data \in Nat /\ r.out \in Nat
      /\ r.out + (r.data - r.pos) < Len(p.units) /\ Len(p.units) \in Nat
  BY InFileEnds DEF Sound
<1>19. PICK o, c, d, n : o = r.out /\ c = r.pos /\ d = r.data /\ n = Len(p.units)
  OBVIOUS
<1>20. /\ o \in Nat /\ c \in Nat /\ d \in Nat /\ n \in Nat /\ o + (d - c) < n /\ k \in 1 .. d - c
      /\ k \in Nat
  BY <1>1, <1>19
<1>2. s \in Seq(Piece) /\ m \in 1 .. Len(s) /\ p.units \in Seq(Unit)
  BY <1>1 DEF ServedOK, InFile, Sound
<1>3. s[m] \in Piece
  BY <1>2
<1>4. PICK got : got = s[m].got
  OBVIOUS
<1>5. got \in Seq(Unit) /\ Len(got) = r.pos
  BY <1>3, <1>4 DEF Piece
<1>6. PICK more : more = SubSeq(p.units, r.out + 1, r.out + k)
  OBVIOUS
<1>8. /\ more \in Seq(Unit) /\ Len(more) = k
      /\ \A j \in 1 .. k : more[j] = p.units[r.out + j]
  <2>1. PICK a, b : a = o + 1 /\ b = o + k
    OBVIOUS
  <2>2. a \in 1 .. Len(p.units) /\ b \in a .. Len(p.units) /\ b - a + 1 = k
    <3>1. a \in 1 .. n /\ b \in a .. n /\ b - a + 1 = k
      BY <1>20, <2>1
    <3> QED BY <1>19, <3>1
  <2>3. more = SubSeq(p.units, a, b)
    BY <1>6, <1>19, <2>1
  <2>4. \A i \in a .. b : p.units[i] \in Unit
    BY <1>2, <2>2
  <2>5. more \in Seq(Unit) /\ Len(more) = k
    BY <1>2, <2>2, <2>3, <2>4
  <2>6. ASSUME NEW j \in 1 .. k PROVE more[j] = p.units[r.out + j]
    <3>1. more[j] = p.units[a + j - 1]
      BY <1>2, <2>2, <2>3, <2>5
    <3>2. a + j - 1 = r.out + j
      BY <1>19, <1>20, <2>1
    <3> QED BY <3>1, <3>2
  <2> QED BY <2>5, <2>6
<1>9. PICK all : all = got \o more
  OBVIOUS
<1>10. /\ all \in Seq(Unit) /\ Len(all) = r.pos + k
       /\ \A j \in 1 .. r.pos : all[j] = got[j]
       /\ \A j \in r.pos + 1 .. r.pos + k : all[j] = more[j - r.pos]
  <2>1. got \o more \in Seq(Unit)
    BY <1>5, <1>8
  <2>2. Len(got) = c /\ Len(more) = k
    BY <1>19, <1>5, <1>8
  <2>3. /\ Len(all) = Len(got) + Len(more)
        /\ \A j \in 1 .. Len(got) + Len(more) :
             all[j] = IF j <= Len(got) THEN got[j] ELSE more[j - Len(got)]
    BY <1>5, <1>8, <1>9, ConcatProperties
  <2>4. Len(all) = c + k /\ \A j \in 1 .. c + k : all[j] = IF j <= c THEN got[j] ELSE more[j - c]
    BY <2>2, <2>3
  <2>5. \A j \in 1 .. c : all[j] = got[j]
    BY <1>20, <2>4
  <2>6. \A j \in c + 1 .. c + k : all[j] = more[j - c]
    BY <1>20, <2>4
  <2> QED BY <1>9, <1>19, <2>1, <2>4, <2>5, <2>6
<1>11. PICK x : x = [s[m] EXCEPT !.got = all]
  OBVIOUS
<1>12. x \in Piece /\ x.f = s[m].f /\ x.size = s[m].size /\ x.got = all
  BY <1>3, <1>10, <1>11 DEF Piece
<1>13. t = [s EXCEPT ![m] = x]
  BY <1>4, <1>6, <1>9, <1>11 DEF Extended
<1>14. t \in Seq(Piece) /\ Len(t) = Len(s) /\ t[m] = x /\ \A i \in 1 .. m - 1 : t[i] = s[i]
  BY <1>2, <1>12, <1>13
<1>15. \A j \in 1 .. Len(all) : all[j] = Member(m, j)
  <2>1. PICK q \in 0 .. Len(p.units) : FileAt(p, m, q, Ends(p)[m]) /\ r.out = q + Block + r.pos
    BY DEF InFile
  <2>2. /\ \A j \in 1 .. p.sizes[m] : p.units[q + Block + j] = Member(m, j)
        /\ p.sizes[m] = r.data
    BY <2>1 DEF FileAt, InFile
  <2>3. \A j \in 1 .. r.pos : got[j] = Member(m, j)
    BY <1>2, <1>4, <1>5 DEF ServedOK
  <2>4. Block \in Nat
    BY BlockAssumption
  <2>5. ASSUME NEW j \in 1 .. r.pos + k PROVE all[j] = Member(m, j)
    <3>1. CASE j <= r.pos
      <4>1. j \in 1 .. r.pos
        BY <1>19, <1>20, <3>1
      <4> QED BY <1>10, <2>3, <4>1
    <3>2. CASE ~(j <= r.pos)
      <4>1. j \in r.pos + 1 .. r.pos + k /\ j - r.pos \in 1 .. k
        <5>1. j \in 1 .. c + k /\ ~(j <= c)
          BY <1>19, <3>2
        <5>2. j \in c + 1 .. c + k /\ j - c \in 1 .. k
          BY <1>20, <5>1
        <5> QED BY <1>19, <5>2
      <4>2. all[j] = p.units[r.out + (j - r.pos)]
        BY <1>8, <1>10, <4>1
      <4>3. r.out + (j - r.pos) = q + Block + j /\ j \in 1 .. r.data
        <5>1. o = q + Block + c /\ j - c \in 1 .. k
          BY <1>19, <2>1, <4>1
        <5>2. q \in Nat /\ o + (j - c) = q + Block + j /\ j \in 1 .. d
          BY <1>20, <2>4, <5>1
        <5> QED BY <1>19, <5>2
      <4> QED BY <2>2, <4>2, <4>3
    <3> QED BY <3>1, <3>2
  <2> QED BY <1>10, <2>5
<1>16. Len(all) <= p.sizes[m]
  <2>1. p.sizes[m] = d
    BY <1>19 DEF InFile
  <2> QED BY <1>19, <1>20, <1>10, <2>1
<1>17. ASSUME NEW i \in 1 .. Len(t)
       PROVE  /\ t[i].f = i /\ t[i].size = p.sizes[i] /\ Len(t[i].got) <= p.sizes[i]
              /\ \A j \in 1 .. Len(t[i].got) : t[i].got[j] = Member(i, j)
  <2>1. CASE i = m
    BY <1>2, <1>12, <1>14, <1>15, <1>16, <2>1 DEF ServedOK
  <2>2. CASE i # m
    <3>1. i \in 1 .. m - 1 /\ i \in 1 .. Len(s)
      BY <1>1, <1>14, <2>2
    <3>2. /\ s[i].f = i /\ s[i].size = p.sizes[i] /\ Len(s[i].got) <= p.sizes[i]
          /\ \A j \in 1 .. Len(s[i].got) : s[i].got[j] = Member(i, j)
      BY <3>1 DEF ServedOK
    <3>3. t[i] = s[i]
      BY <1>14, <3>1
    <3> QED BY <3>2, <3>3
  <2> QED BY <2>1, <2>2
<1>18. ServedOK(p, t)
  BY <1>14, <1>17 DEF ServedOK
<1> QED BY <1>10, <1>12, <1>14, <1>18 DEF Grown

----------------------------------------------------------------------------
(* The inductive invariant.                                                *)

(* Where a chain that works stands, by the loop that is running, l, with   *)
(* todo t: after the files s were found.                                   *)
Place(p, on, r, l, t, s) ==
  LET m == Len(s)
  IN  /\ l = "idle" /\ on => \/ InFile(p, r, m) /\ Len(s[m].got) = r.pos
                             \/ Between(p, r, m)
      /\ l = "skip" => t \in Nat \ {0} /\ r.out + t = Ends(p)[m]
      /\ l = "header" => Between(p, r, m)
      /\ l = "skipAux" => /\ r.data <= r.pos /\ r.block <= r.pos
                          /\ t \in Nat \ {0} /\ ToHead(p, r.out + t, m)
      /\ l = "copy" => InFile(p, r, m) /\ Len(s[m].got) = r.pos

(* A chain that does not work any more knows it, and why.                  *)
Known(p, dg, r) ==
  /\ Dead(r) \/ Healthy(p, r)
  /\ dg => r.derr
  /\ Dead(r) => r.fault = TRUE
  /\ Dead(r) /\ ~dg => ~ZEof(r)

(* What the caller has been told.                                          *)
Told(p, r, l, o, v, s) ==
  /\ l = "crashed" => r.fault = TRUE
  /\ v = "mismatch" /\ o # "finishDecryption" => r.fault = TRUE
  /\ l = "copy" => ~Dead(r)
  /\ o = "decrypt" /\ (l \in Running \/ v = "ok") =>
       Whole(s, IF l = "copy" THEN Len(s) - 1 ELSE Len(s))
  /\ o = "decrypt" /\ v = "ok" => Len(s) = Len(p.sizes)
  /\ v = "end" => Len(s) = Len(p.sizes) /\ Accepted(p, r)
  /\ l \in Running => v = "none" /\ o \in {"nextFile", "decrypt"}

Holds(p, on, dg, r, l, t, o, v, s) ==
  /\ ServedOK(p, s)
  /\ Known(p, dg, r)
  /\ ~Dead(r) => Place(p, on, r, l, t, s)
  /\ Told(p, r, l, o, v, s)

Held == Holds(view, open, dangling, chain, pc, todo, op, rv, served)

ReaderInv ==
  /\ IsChain(chain) /\ stream \in Streams /\ "broken" \in DOMAIN view
  /\ view \in Written => Held

(* What every step keeps that does not begin a decryption.                 *)
Keeps ==
  /\ IsChain(chain') /\ stream' = stream /\ "broken" \in DOMAIN view'
  /\ view' \in Written => view' = view

(* A payload of which something is missing is not a writer's any more.     *)
LEMMA MissingIsBroken ==
  ASSUME NEW p, "broken" \in DOMAIN p, NEW c
  PROVE  /\ "broken" \in DOMAIN Missing(p, c)
         /\ Missing(p, c) \in Written => Missing(p, c) = p
<1>1. CASE p.stop <= c
  BY <1>1 DEF Missing
<1>2. CASE ~(p.stop <= c)
  <2> DEFINE u == [i \in DOMAIN p.upto |-> Upto(p, IF i < c THEN i ELSE c)]
             q == [p EXCEPT !.upto = u, !.stop = c + 1, !.broken = TRUE]
  <2>1. Missing(p, c) = q
    BY <1>2 DEF Missing
  <2>2. "broken" \in DOMAIN q /\ q.broken = TRUE
    <3> HIDE DEF u
    <3> QED OBVIOUS
  <2>3. \A x \in Written : ~x.broken
    BY WrittenAssumption DEF Deflated
  <2> HIDE DEF q
  <2> QED BY <2>1, <2>2, <2>3
<1> QED BY <1>1, <1>2

LEMMA CheckKeeps ==
  ASSUME ReaderInv, NEW o, NEW r, IsChain(r), CheckIntegrity(o, r)
  PROVE  Keeps
<1> DEFINE all == [r EXCEPT !.at = Cells(view)]
<1>1. CASE chain' = r /\ UNCHANGED <<stream, view>>
  BY <1>1 DEF Keeps, ReaderInv
<1>2. ASSUME NEW at, NEW lost, NEW derr,
             chain' = [r EXCEPT !.at = at, !.lost = lost, !.derr = derr, !.fault = TRUE],
             view' = view \/ view' = Missing(view, r.at), stream' = stream
      PROVE  Keeps
  <2>1. IsChain(chain')
    BY <1>2 DEF IsChain
  <2>2. PICK p, c : p = view /\ c = r.at
    OBVIOUS
  <2>3. "broken" \in DOMAIN p
    BY <2>2 DEF ReaderInv
  <2>4. view' = p \/ view' = Missing(p, c)
    BY <1>2, <2>2
  <2>5. "broken" \in DOMAIN Missing(p, c) /\ (Missing(p, c) \in Written => Missing(p, c) = p)
    BY <2>3, MissingIsBroken
  <2> QED BY <1>2, <2>1, <2>2, <2>3, <2>4, <2>5 DEF Keeps
<1>3. CASE chain' = all /\ UNCHANGED <<stream, view>>
  <2>1. IsChain(chain')
    BY <1>3 DEF IsChain
  <2> QED BY <1>3, <2>1 DEF Keeps, ReaderInv
<1>4. \/ chain' = r /\ UNCHANGED <<stream, view>>
      \/ /\ stream' = stream
         /\ \E at, lost, derr :
              /\ chain' = [r EXCEPT !.at = at, !.lost = lost, !.derr = derr, !.fault = TRUE]
              /\ view' = view \/ view' = Missing(view, r.at)
      \/ chain' = all /\ UNCHANGED <<stream, view>>
  <2>1. CASE r.derr
    BY <2>1 DEF CheckIntegrity
  <2>2. CASE \E at \in r.at .. Cells(view), lost \in {r.lost, TRUE}, derr \in BOOLEAN :
               /\ chain' = [r EXCEPT !.at = at, !.lost = lost, !.derr = derr, !.fault = TRUE]
               /\ view' = IF at = r.at /\ ~lost THEN view ELSE Missing(view, r.at)
    <3>1. PICK at \in r.at .. Cells(view), lost \in {r.lost, TRUE}, derr \in BOOLEAN :
            /\ chain' = [r EXCEPT !.at = at, !.lost = lost, !.derr = derr, !.fault = TRUE]
            /\ view' = IF at = r.at /\ ~lost THEN view ELSE Missing(view, r.at)
      BY <2>2
    <3>2. view' = view \/ view' = Missing(view, r.at)
      BY <3>1
    <3>3. stream' = stream
      BY DEF CheckIntegrity, Crash
    <3> QED BY <3>1, <3>2, <3>3
  <2>3. CASE chain' = all /\ UNCHANGED <<stream, view>>
    BY <2>3
  <2>4. \/ r.derr
        \/ \E at \in r.at .. Cells(view), lost \in {r.lost, TRUE}, derr \in BOOLEAN :
             /\ chain' = [r EXCEPT !.at = at, !.lost = lost, !.derr = derr, !.fault = TRUE]
             /\ view' = IF at = r.at /\ ~lost THEN view ELSE Missing(view, r.at)
        \/ chain' = all /\ UNCHANGED <<stream, view>>
    BY Zenon DEF CheckIntegrity, Crash
  <2> QED BY <2>1, <2>2, <2>3, <2>4
<1> QED BY <1>1, <1>2, <1>3, <1>4

(* Now action by action.                                                   *)
LEMMA SameKeeps ==
  ASSUME ReaderInv, UNCHANGED <<stream, view, chain>>
  PROVE  Keeps
BY DEF ReaderInv, Keeps

LEMMA ChainKeeps ==
  ASSUME ReaderInv, UNCHANGED <<stream, view>>, NEW r, IsChain(r), chain' = r
  PROVE  Keeps
BY DEF ReaderInv, Keeps

LEMMA EmptyHandsKeep ==
  ASSUME ReaderInv, NEW o, NEW v, Reject(o, v) \/ UseFreed(o)
  PROVE  Keeps
BY SameKeeps DEF Reject, UseFreed, Crash

LEMMA NextFileKeeps == ReaderInv /\ NextFile => Keeps
<1> SUFFICES ASSUME ReaderInv, NextFile PROVE Keeps
  OBVIOUS
<1>1. UNCHANGED <<stream, view, chain>>
  BY DEF NextFile, NeedsChain, Reject
<1> QED BY <1>1, SameKeeps

LEMMA ReadDataKeeps ==
  ASSUME ReaderInv, NEW n, ReadData(n)
  PROVE  Keeps
<1>1. CASE ~open
  BY <1>1, EmptyHandsKeep DEF ReadData, NeedsChain
<1>2. CASE UseFreed("readData")
  BY <1>2, EmptyHandsKeep
<1>3. CASE \E o \in TarRead(view, chain, n, MayFail) :
             \/ CheckIntegrity("readData", o.r)
             \/ chain' = o.r /\ UNCHANGED <<stream, view>>
  <2>1. PICK p, r, f : p = view /\ r = chain /\ f = MayFail
    OBVIOUS
  <2>2. PICK o \in TarRead(p, r, n, f) :
          \/ CheckIntegrity("readData", o.r)
          \/ chain' = o.r /\ UNCHANGED <<stream, view>>
    BY <1>3, <2>1
  <2>3. IsChain(r)
    BY <2>1 DEF ReaderInv
  <2>4. PICK v : o.r = v /\ IsChain(v)
    BY <2>3, TarReadOutcome DEF IsOutcome
  <2> QED BY <2>2, <2>4, CheckKeeps, ChainKeeps
<1>4. CASE open
  BY <1>2, <1>3, <1>4 DEF ReadData, NeedsChain
<1> QED BY <1>1, <1>4

LEMMA FinishKeeps ==
  ASSUME ReaderInv, NEW o, NEW r, IsChain(r), Finish(o, r)
  PROVE  Keeps
BY ChainKeeps DEF Finish

LEMMA FinishDecryptionKeeps == ReaderInv /\ FinishDecryption => Keeps
<1> SUFFICES ASSUME ReaderInv, FinishDecryption PROVE Keeps
  OBVIOUS
<1>1. PICK r : r = chain /\ IsChain(r)
  BY DEF ReaderInv
<1>2. CASE Finish("finishDecryption", chain)
  <2>1. Finish("finishDecryption", r)
    BY <1>1, <1>2
  <2> QED BY <1>1, <2>1, FinishKeeps
<1>3. CASE ~Finish("finishDecryption", chain)
  BY <1>3, EmptyHandsKeep DEF FinishDecryption, NeedsChain
<1> QED BY <1>2, <1>3

LEMMA LoopCrashesKeeps == ReaderInv /\ LoopCrashes => Keeps
<1> SUFFICES ASSUME ReaderInv, LoopCrashes PROVE Keeps
  OBVIOUS
<1> QED BY SameKeeps DEF LoopCrashes, UseFreed, Crash

LEMMA AtBlockChain ==
  ASSUME NEW r, IsChain(r)
  PROVE  /\ IsChain(AtBlock(r)) /\ AtBlock(r).pos = 0 /\ AtBlock(r).data = 0 /\ AtBlock(r).block = 0
         /\ AtBlock(r).out = r.out /\ AtBlock(r).at = r.at /\ AtBlock(r).lost = r.lost
         /\ AtBlock(r).terr = r.terr /\ AtBlock(r).zerr = r.zerr /\ AtBlock(r).derr = r.derr
         /\ AtBlock(r).fault = r.fault /\ AtBlock(r).avail = r.avail /\ AtBlock(r).srcEof = r.srcEof
BY DEF AtBlock, IsChain, Fields

LEMMA SkipRoundKeeps == ReaderInv /\ SkipRound => Keeps
<1> SUFFICES ASSUME ReaderInv, SkipRound PROVE Keeps
  OBVIOUS
<1>1. PICK p, r, f, t, c : /\ p = view /\ r = chain /\ f = MayFail /\ c = op
                           /\ t = IF todo < BUFFER THEN todo ELSE BUFFER
  OBVIOUS
<1>2. PICK o \in ZRead(p, r, t, f) :
        \/ CheckIntegrity(c, [AtBlock(o.r) EXCEPT !.terr = TRUE])
        \/ (chain' = AtBlock(o.r) \/ chain' = o.r) /\ UNCHANGED <<stream, view>>
  BY <1>1 DEF SkipRound
<1>3. IsChain(r)
  BY <1>1 DEF ReaderInv
<1>4. PICK v : o.r = v /\ IsChain(v)
  BY <1>3, ZReadOutcome DEF IsOutcome
<1>5. PICK w : w = AtBlock(v) /\ IsChain(w)
  BY <1>4, AtBlockChain
<1>6. IsChain([w EXCEPT !.terr = TRUE])
  BY <1>5 DEF IsChain
<1>7. CASE CheckIntegrity(c, [AtBlock(o.r) EXCEPT !.terr = TRUE])
  <2>1. CheckIntegrity(c, [w EXCEPT !.terr = TRUE])
    BY <1>4, <1>5, <1>7
  <2> QED BY <1>6, <2>1, CheckKeeps
<1>8. CASE (chain' = AtBlock(o.r) \/ chain' = o.r) /\ UNCHANGED <<stream, view>>
  BY <1>4, <1>5, <1>8, ChainKeeps
<1> QED BY <1>2, <1>7, <1>8

LEMMA SkipAuxRoundKeeps == ReaderInv /\ SkipAuxRound => Keeps
<1> SUFFICES ASSUME ReaderInv, SkipAuxRound PROVE Keeps
  OBVIOUS
<1>1. PICK p, r, f, t : /\ p = view /\ r = chain /\ f = MayFail
                        /\ t = IF todo < BUFFER THEN todo ELSE BUFFER
  OBVIOUS
<1>2. PICK o \in ZRead(p, r, t, f) : chain' = o.r /\ UNCHANGED <<stream, view>>
  BY <1>1 DEF SkipAuxRound
<1>3. IsChain(r)
  BY <1>1 DEF ReaderInv
<1>4. PICK v : o.r = v /\ IsChain(v)
  BY <1>3, ZReadOutcome DEF IsOutcome
<1> QED BY <1>2, <1>4, ChainKeeps

LEMMA HeaderRoundKeeps == ReaderInv /\ HeaderRound => Keeps
<1> SUFFICES ASSUME ReaderInv, HeaderRound PROVE Keeps
  OBVIOUS
<1>1. PICK p, r, f, c : p = view /\ r = chain /\ f = MayFail /\ c = op
  OBVIOUS
<1>2. PICK h \in NextHeader(p, r, f) :
        \/ CheckIntegrity(c, h.r) \/ Finish(c, h.r)
        \/ chain' = h.r /\ UNCHANGED <<stream, view>>
  BY <1>1 DEF HeaderRound, Opens
<1>3. IsChain(r)
  BY <1>1 DEF ReaderInv
<1>4. PICK v : h.r = v /\ IsChain(v)
  BY <1>3, NextHeaderChain DEF IsFound, Found
<1> QED BY <1>2, <1>4, CheckKeeps, FinishKeeps, ChainKeeps

LEMMA CopyRoundKeeps == ReaderInv /\ CopyRound => Keeps
<1> SUFFICES ASSUME ReaderInv, CopyRound PROVE Keeps
  OBVIOUS
<1>1. PICK p, r, f : p = view /\ r = chain /\ f = MayFail
  OBVIOUS
<1>2. CASE chain.eof
  BY <1>2, SameKeeps DEF CopyRound
<1>3. CASE ~chain.eof
  <2>1. PICK o \in TarRead(p, r, BUFFER, f) : chain' = o.r /\ UNCHANGED <<stream, view>>
    BY <1>1, <1>3 DEF CopyRound
  <2>2. IsChain(r)
    BY <1>1 DEF ReaderInv
  <2>3. PICK v : o.r = v /\ IsChain(v)
    BY <2>2, TarReadOutcome DEF IsOutcome
  <2> QED BY <2>1, <2>3, ChainKeeps
<1> QED BY <1>2, <1>3

----------------------------------------------------------------------------
(* Ways in which a step keeps the invariant for a writer's payload.        *)

LEMMA RejectHolds ==
  ASSUME NEW p, NEW on, NEW dg, NEW r, NEW t, NEW o, NEW v, NEW s,
         Holds(p, on, dg, r, "idle", t, o, v, s), NEW c, NEW w \in {"refused", "error"}
  PROVE  Holds(p, on, dg, r, "idle", t, c, w, s)
BY DEF Holds, Told, Running

LEMMA CrashHolds ==
  ASSUME NEW p, NEW s, ServedOK(p, s), NEW dg, NEW r, Known(p, dg, r), r.fault = TRUE,
         NEW on, NEW t, NEW o
  PROVE  Holds(p, on, dg, r, "crashed", t, o, "none", s)
BY DEF Holds, Told, Place, Running

LEMMA DeadHolds ==
  ASSUME NEW p, NEW s, ServedOK(p, s), NEW dg, NEW r, Known(p, dg, r), Dead(r),
         NEW on, NEW t, NEW o, NEW v \in {"mismatch", "error"}
  PROVE  Holds(p, on, dg, r, "idle", t, o, v, s)
<1>1. r.fault = TRUE
  BY DEF Known
<1> QED BY <1>1 DEF Holds, Told, Running

(* A chain that was broken by a read.                                      *)
LEMMA BrokenKnown ==
  ASSUME NEW p, NEW r, Dead(r), r.fault = TRUE, NEW dg, dg => r.derr, ~dg => ~ZEof(r)
  PROVE  Known(p, dg, r)
BY DEF Known

(* EnterNext: the rest of the file is skipped, if there is any.            *)
LEMMA EnterHolds ==
  ASSUME NEW p, Sound(p), NEW s, ServedOK(p, s), NEW dg, NEW r, Known(p, dg, r),
         ~Dead(r) => InFile(p, r, Len(s)) \/ Between(p, r, Len(s)),
         NEW l, NEW t,
         \/ r.pos < r.block /\ l = "skip" /\ t = r.block - r.pos
         \/ ~(r.pos < r.block) /\ l = "header",
         NEW o \in {"nextFile", "decrypt"}, o = "decrypt" => Whole(s, Len(s)), NEW on
  PROVE  Holds(p, on, dg, r, l, t, o, "none", s)
<1>1. Told(p, r, l, o, "none", s)
  BY DEF Told, Running
<1>2. ASSUME ~Dead(r) PROVE Place(p, on, r, l, t, s)
  <2>1. PICK m : m = Len(s)
    OBVIOUS
  <2>2. r.pos \in Nat /\ r.data \in Nat /\ r.block \in Nat
    BY <1>2 DEF Known, Healthy
  <2>3. CASE InFile(p, r, m)
    <3>1. /\ r.out \in Nat /\ r.pos <= r.data /\ r.data <= r.block
          /\ r.out + (r.block - r.pos) = Ends(p)[m]
      BY <2>2, <2>3, InFileEnds
    <3>2. CASE r.pos < r.block
      <4>1. l = "skip" /\ t = r.block - r.pos
        BY <3>2
      <4>2. t \in Nat \ {0} /\ r.out + t = Ends(p)[m]
        BY <2>2, <3>1, <3>2, <4>1
      <4> QED BY <2>1, <4>1, <4>2 DEF Place
    <3>3. CASE ~(r.pos < r.block)
      <4>1. PICK b, d, c, a : b = r.block /\ d = r.data /\ c = r.pos /\ a = r.out
        OBVIOUS
      <4>2. b = c /\ d <= c /\ a + (b - c) = a
        BY <2>2, <3>1, <3>3, <4>1
      <4>3. a + (b - c) = Ends(p)[m]
        BY <3>1, <4>1
      <4>4. l = "header" /\ r.data <= r.pos /\ r.block <= r.pos /\ r.out = Ends(p)[m]
        BY <2>2, <3>1, <3>3, <4>1, <4>2, <4>3
      <4> QED BY <2>1, <4>4 DEF Place, Between, AtHeader
    <3> QED BY <3>2, <3>3
  <2>4. CASE Between(p, r, m)
    <3>1. ~(r.pos < r.block)
      BY <2>2, <2>4 DEF Between
    <3> QED BY <2>1, <2>4, <3>1 DEF Place
  <2> QED BY <1>2, <2>1, <2>3, <2>4
<1> QED BY <1>1, <1>2 DEF Holds

(* A read of the current file on a chain that works.                       *)
AliveOutcome(p, r, s, o) ==
  LET m == Len(s)
  IN  \E v :
        /\ o.r = v
        /\ \/ /\ o.n = 0 /\ IsChain(v) /\ Healthy(p, v) /\ ~Dead(v)
              /\ InFile(p, r, m) /\ Len(s[m].got) = r.pos =>
                   InFile(p, v, m) /\ Len(s[m].got) = v.pos
              /\ Between(p, r, m) => Between(p, v, m)
           \/ /\ o.n \in Nat \ {0} /\ IsChain(v) /\ Healthy(p, v) /\ ~Dead(v)
              /\ InFile(p, v, m)
              /\ \E t : /\ t = Extended(s, m, SubSeq(p.units, r.out + 1, v.out))
                        /\ Grown(p, s, m, t, v.pos)
           \/ o.n = ERR /\ Broken(v)

LEMMA AliveRead ==
  ASSUME NEW p, Sound(p), NEW s, ServedOK(p, s), NEW r, IsChain(r), Healthy(p, r), ~Dead(r),
         \/ InFile(p, r, Len(s)) /\ Len(s[Len(s)].got) = r.pos
         \/ Between(p, r, Len(s)),
         NEW n \in Nat \ {0}, NEW f, NEW o \in TarRead(p, r, n, f)
  PROVE  AliveOutcome(p, r, s, o)
<1>1. PICK m : m = Len(s)
  OBVIOUS
<1>2. r.pos \in Nat /\ r.data \in Nat /\ r.block \in Nat /\ r.out \in Nat /\ Len(p.units) \in Nat
  BY DEF Healthy, Sound
<1>3. ASSUME r.pos < r.data
      PROVE  InFile(p, r, m) /\ Len(s[m].got) = r.pos /\ r.out + (r.data - r.pos) < Len(p.units)
  <2>1. InFile(p, r, m) /\ Len(s[m].got) = r.pos
    BY <1>1, <1>2, <1>3 DEF Between
  <2> QED BY <1>2, <2>1, InFileEnds
<1>4. PICK v : \/ /\ r.data <= r.pos
                  /\ o = [n |-> 0, r |-> v] /\ v = [r EXCEPT !.eof = TRUE]
               \/ /\ r.pos < r.data /\ IsChain(v) /\ Healthy(p, v) /\ ~Dead(v)
                  /\ \E k \in 1 .. r.data - r.pos :
                       o = [n |-> k, r |-> v] /\ v.out = r.out + k /\ v.pos = r.pos + k
                  /\ v.data = r.data /\ v.block = r.block /\ v.eof = r.eof
               \/ r.pos < r.data /\ o = [n |-> ERR, r |-> v] /\ Breaks(r, v)
  BY <1>3, TarReadGood
<1>5. CASE r.data <= r.pos /\ o = [n |-> 0, r |-> v] /\ v = [r EXCEPT !.eof = TRUE]
  <2>1. /\ IsChain(v) /\ v.pos = r.pos /\ v.data = r.data /\ v.block = r.block
        /\ v.out = r.out /\ v.at = r.at /\ v.lost = r.lost /\ v.terr = r.terr /\ v.zerr = r.zerr
        /\ v.derr = r.derr /\ v.avail = r.avail /\ v.srcEof = r.srcEof
    BY <1>5 DEF IsChain, Fields
  <2>2. Healthy(p, v) /\ ~Dead(v)
    BY <2>1 DEF Healthy, Dead, ZEof
  <2>3. InFile(p, r, m) => InFile(p, v, m)
    <3>1. InFile(p, r, m) => r.pos = r.data
      BY <1>2, <1>5 DEF InFile
    <3> QED BY <2>1, <3>1 DEF InFile
  <2>4. Between(p, r, m) => Between(p, v, m)
    BY <2>1 DEF Between
  <2>5. o.n = 0 /\ o.r = v
    BY <1>5
  <2> QED BY <1>1, <2>1, <2>2, <2>3, <2>4, <2>5 DEF AliveOutcome
<1>6. CASE /\ r.pos < r.data /\ IsChain(v) /\ Healthy(p, v) /\ ~Dead(v)
           /\ \E k \in 1 .. r.data - r.pos :
                o = [n |-> k, r |-> v] /\ v.out = r.out + k /\ v.pos = r.pos + k
           /\ v.data = r.data /\ v.block = r.block /\ v.eof = r.eof
  <2>1. PICK k \in 1 .. r.data - r.pos :
          o = [n |-> k, r |-> v] /\ v.out = r.out + k /\ v.pos = r.pos + k
    BY <1>6
  <2>2. InFile(p, r, m) /\ Len(s[m].got) = r.pos
    BY <1>3, <1>6
  <2>3. PICK t : t = Extended(s, m, SubSeq(p.units, r.out + 1, r.out + k))
    OBVIOUS
  <2>4. Grown(p, s, m, t, r.pos + k)
    BY <1>1, <1>2, <2>2, <2>3, Delivers
  <2>5. InFile(p, v, m)
    <3>1. PICK q \in 0 .. Len(p.units) : FileAt(p, m, q, Ends(p)[m]) /\ r.out = q + Block + r.pos
      BY <2>2 DEF InFile
    <3>2. PICK a, c, d, b : a = r.out /\ c = r.pos /\ d = r.data /\ b = Block /\ b \in Nat
      BY BlockAssumption
    <3>3. /\ a \in Nat /\ c \in Nat /\ d \in Nat /\ q \in Nat /\ a = q + b + c
          /\ k \in 1 .. d - c /\ c < d
      BY <1>2, <1>6, <3>1, <3>2
    <3>4. a + k = q + b + (c + k) /\ c + k <= d
      BY <3>2, <3>3
    <3>5. v.out = q + Block + v.pos /\ v.pos <= v.data
      BY <1>6, <2>1, <3>2, <3>4
    <3>6. ~r.eof
      BY <1>2, <1>6, <2>2 DEF InFile
    <3> QED BY <1>6, <2>2, <3>1, <3>5, <3>6 DEF InFile
  <2>6. o.n \in Nat \ {0} /\ o.r = v
    <3>1. k \in Nat \ {0}
      BY <1>2
    <3> QED BY <2>1, <3>1
  <2>7. t = Extended(s, m, SubSeq(p.units, r.out + 1, v.out)) /\ Grown(p, s, m, t, v.pos)
    BY <2>1, <2>3, <2>4
  <2> QED BY <1>1, <1>6, <2>4, <2>5, <2>6, <2>7 DEF AliveOutcome
<1>7. CASE r.pos < r.data /\ o = [n |-> ERR, r |-> v] /\ Breaks(r, v)
  <2>1. ~ZEof(r)
    <3>1. r.out # Len(p.units)
      BY <1>2, <1>3, <1>7
    <3> QED BY <3>1 DEF Healthy
  <2>2. Broken(v)
    BY <1>7, <2>1 DEF Broken, Breaks, ZEof
  <2>3. o.n = ERR /\ o.r = v
    BY <1>7
  <2> QED BY <2>2, <2>3 DEF AliveOutcome
<1> QED BY <1>4, <1>5, <1>6, <1>7

----------------------------------------------------------------------------
(* The steps, on a writer's payload.                                       *)

LEMMA RejectStep ==
  ASSUME Held, pc = "idle", view' = view, NEW o, NEW v \in {"refused", "error"}, Reject(o, v)
  PROVE  Held'
<1>1. PICK p, on, dg, r, t, c, w, s : /\ p = view /\ on = open /\ dg = dangling /\ r = chain
                                      /\ t = todo /\ c = op /\ w = rv /\ s = served
  OBVIOUS
<1>2. Holds(p, on, dg, r, "idle", t, c, w, s)
  BY <1>1 DEF Held
<1>3. Holds(p, on, dg, r, "idle", t, o, v, s)
  BY <1>2, RejectHolds
<1>4. /\ view' = p /\ open' = on /\ dangling' = dg /\ chain' = r /\ pc' = "idle" /\ todo' = t
      /\ op' = o /\ rv' = v /\ served' = s
  BY <1>1 DEF Reject, Return
<1> QED BY <1>3, <1>4 DEF Held

LEMMA FreedStep ==
  ASSUME Held, dangling, view' = view, NEW o, UseFreed(o)
  PROVE  Held'
<1>1. PICK p, on, dg, r, t, s : /\ p = view /\ on = open /\ dg = dangling /\ r = chain
                                /\ t = todo /\ s = served
  OBVIOUS
<1>2. ServedOK(p, s) /\ Known(p, dg, r) /\ r.fault = TRUE
  BY <1>1 DEF Held, Holds, Known, Dead
<1>3. Holds(p, on, dg, r, "crashed", t, o, "none", s)
  BY <1>2, CrashHolds
<1>4. /\ view' = p /\ open' = on /\ dangling' = dg /\ chain' = r /\ pc' = "crashed" /\ todo' = t
      /\ op' = o /\ rv' = "none" /\ served' = s
  BY <1>1 DEF UseFreed, Crash
<1> QED BY <1>3, <1>4 DEF Held

(* An error of the chain.                                                  *)
LEMMA CheckStep ==
  ASSUME ServedOK(view, served), view' = view, NEW o, NEW r, IsChain(r), Dead(r), r.fault = TRUE,
         dangling => r.derr, ~dangling => ~ZEof(r), CheckIntegrity(o, r)
  PROVE  Held'
<1> DEFINE all == [r EXCEPT !.at = Cells(view)]
<1>1. PICK p, on, dg, t, s, on1, t1 : /\ p = view /\ on = open /\ dg = dangling
                                      /\ t = todo /\ s = served /\ on1 = open' /\ t1 = todo'
  OBVIOUS
<1>2. CASE /\ chain' = r /\ Return(o, "mismatch")
           /\ UNCHANGED <<dangling, served>>
  <2>1. Known(p, dg, r)
    BY <1>1 DEF Known
  <2>2. Holds(p, on1, dg, r, "idle", t1, o, "mismatch", s)
    BY <1>1, <2>1, DeadHolds
  <2> QED BY <1>1, <1>2, <2>2 DEF Held, Return
<1>3. CASE chain' = all /\ UNCHANGED <<dangling, served>>
           /\ (Crash(o) \/ Return(o, "mismatch"))
  <2>1. PICK x : x = all
    OBVIOUS
  <2>2. Dead(x) /\ x.fault = TRUE /\ (dg => x.derr) /\ (~dg => ~ZEof(x))
    BY <1>1, <2>1 DEF Dead, ZEof, IsChain, Fields
  <2>3. Known(p, dg, x)
    BY <2>2, BrokenKnown
  <2>4. Holds(p, on1, dg, x, "crashed", t1, o, "none", s)
    BY <1>1, <2>2, <2>3, CrashHolds
  <2>5. Holds(p, on1, dg, x, "idle", t1, o, "mismatch", s)
    BY <1>1, <2>2, <2>3, DeadHolds
  <2>6. view' = p /\ open' = on1 /\ dangling' = dg /\ chain' = x /\ todo' = t1 /\ served' = s
    BY <1>1, <1>3, <2>1
  <2>7. CASE Crash(o)
    <3>1. pc' = "crashed" /\ op' = o /\ rv' = "none"
      BY <2>7 DEF Crash
    <3> QED BY <2>4, <2>6, <3>1 DEF Held
  <2>8. CASE Return(o, "mismatch")
    <3>1. pc' = "idle" /\ op' = o /\ rv' = "mismatch"
      BY <2>8 DEF Return
    <3> QED BY <2>5, <2>6, <3>1 DEF Held
  <2> QED BY <1>3, <2>7, <2>8
<1>4. \/ chain' = r /\ Return(o, "mismatch") /\ UNCHANGED <<dangling, served>>
      \/ ~r.fault
      \/ chain' = all /\ UNCHANGED <<dangling, served>> /\ (Crash(o) \/ Return(o, "mismatch"))
  <2>1. CASE r.derr
    BY <2>1 DEF CheckIntegrity
  <2>2. CASE ~r.derr /\ ~r.fault
    BY <2>2
  <2>3. CASE chain' = all /\ UNCHANGED <<dangling, served>> /\ (Crash(o) \/ Return(o, "mismatch"))
    BY <2>3
  <2> HIDE DEF all
  <2>4. \/ r.derr
        \/ ~r.derr /\ ~r.fault
        \/ chain' = all /\ (IF Accepted(view, all) THEN Crash(o)
                            ELSE /\ Return(o, "mismatch") /\ todo' = 0
                                 /\ UNCHANGED <<stream, atNonce, dangling, served, begins>>)
    BY Zenon DEF CheckIntegrity, all
  <2>5. Crash(o) => UNCHANGED <<dangling, served>>
    BY DEF Crash
  <2> QED BY <2>1, <2>2, <2>3, <2>4, <2>5
<1> QED BY <1>2, <1>3, <1>4

LEMMA NextFileStep ==
  ASSUME ReaderInv, view \in Written, view' = view, NextFile
  PROVE  Held'
<1>1. PICK p, on, dg, r, t, s, l1, t1 :
        /\ p = view /\ on = open /\ dg = dangling /\ r = chain /\ t = todo /\ s = served
        /\ l1 = pc' /\ t1 = todo'
  OBVIOUS
<1>2. Held /\ pc = "idle" /\ Sound(p)
  <2>1. Sound(p)
    BY <1>1, WrittenSound
  <2> QED BY <2>1 DEF ReaderInv, NextFile, NeedsChain
<1>3. CASE ~open
  BY <1>2, <1>3, RejectStep DEF NextFile, NeedsChain
<1>4. CASE open
  <2>1. /\ EnterNext /\ op' = "nextFile" /\ rv' = "none"
        /\ UNCHANGED <<stream, view, atNonce, open, dangling, chain, served, begins>>
    BY <1>4 DEF NextFile, NeedsChain
  <2>2. \/ r.pos < r.block /\ l1 = "skip" /\ t1 = r.block - r.pos
        \/ ~(r.pos < r.block) /\ l1 = "header"
    BY <1>1, <2>1 DEF EnterNext
  <2>3. ServedOK(p, s) /\ Known(p, dg, r)
    BY <1>1, <1>2 DEF Held, Holds
  <2>4. ~Dead(r) => InFile(p, r, Len(s)) \/ Between(p, r, Len(s))
    BY <1>1, <1>2, <1>4 DEF Held, Holds, Place
  <2>5. Holds(p, on, dg, r, l1, t1, "nextFile", "none", s)
    BY <1>2, <2>2, <2>3, <2>4, EnterHolds
  <2> QED BY <1>1, <2>1, <2>5 DEF Held
<1> QED BY <1>3, <1>4

LEMMA FinishDecryptionStep ==
  ASSUME ReaderInv, view \in Written, view' = view, FinishDecryption
  PROVE  Held'
<1>1. Held /\ pc = "idle"
  BY DEF ReaderInv, FinishDecryption, NeedsChain
<1>2. CASE ~open
  BY <1>1, <1>2, RejectStep DEF FinishDecryption, NeedsChain
<1>3. CASE open /\ EofFreed
  BY <1>1, <1>3, FreedStep DEF FinishDecryption, NeedsChain, EofFreed
<1>4. CASE open /\ ~EofFreed
  <2>1. Finish("finishDecryption", chain)
    BY <1>4 DEF FinishDecryption, NeedsChain
  <2>2. /\ open' = FALSE /\ chain' = chain /\ dangling' = dangling /\ served' = served
        /\ pc' = "idle" /\ op' = "finishDecryption" /\ rv' \in {"ok", "mismatch"}
    BY <2>1 DEF Finish, Return
  <2> QED BY <1>1, <2>2 DEF Held, Holds, Told, Place, Running
<1> QED BY <1>2, <1>3, <1>4

LEMMA LoopCrashesStep ==
  ASSUME ReaderInv, view \in Written, view' = view, LoopCrashes
  PROVE  Held'
<1>1. PICK o : o = op
  OBVIOUS
<1>2. Held /\ dangling /\ UseFreed(o)
  BY <1>1 DEF ReaderInv, LoopCrashes, ReadsFreed, EofFreed
<1> QED BY <1>2, FreedStep

LEMMA ReadDataStep ==
  ASSUME ReaderInv, view \in Written, view' = view, NEW n \in Amounts, ReadData(n)
  PROVE  Held'
<1>1. PICK p, on, dg, r, t, s, f :
        /\ p = view /\ on = open /\ dg = dangling /\ r = chain /\ t = todo /\ s = served
        /\ f = MayFail
  OBVIOUS
<1>2. Held /\ pc = "idle" /\ Sound(p) /\ IsChain(r) /\ n \in Nat \ {0}
  <2>1. Sound(p)
    BY <1>1, WrittenSound
  <2>2. n \in Nat \ {0}
    BY InputAssumption
  <2> QED BY <1>1, <2>1, <2>2 DEF ReaderInv, ReadData, NeedsChain
<1>3. ServedOK(p, s) /\ Known(p, dg, r)
  BY <1>1, <1>2 DEF Held, Holds
<1>4. CASE ~open
  BY <1>2, <1>4, RejectStep DEF ReadData, NeedsChain
<1>5. CASE open /\ UseFreed("readData") /\ ReadsFreed
  BY <1>2, <1>5, FreedStep DEF ReadsFreed
<1>6. CASE /\ open
           /\ \E o \in TarRead(p, r, n, f) :
                IF o.n = ERR THEN CheckIntegrity("readData", o.r)
                ELSE /\ chain' = o.r /\ served' = Delivered(o)
                     /\ Return("readData", "ok")
                     /\ UNCHANGED <<stream, view, atNonce, open, dangling, todo, begins>>
  <2>1. PICK o \in TarRead(p, r, n, f) :
          IF o.n = ERR THEN CheckIntegrity("readData", o.r)
          ELSE /\ chain' = o.r /\ served' = Delivered(o)
               /\ Return("readData", "ok")
               /\ UNCHANGED <<stream, view, atNonce, open, dangling, todo, begins>>
    BY <1>6
  <2>2. CASE Dead(r)
    <3>1. r.fault = TRUE
      BY <1>3, <2>2 DEF Known
    <3>2. PICK v : /\ IsChain(v) /\ Dead(v) /\ v.fault = r.fault
                   /\ v.avail = r.avail /\ v.srcEof = r.srcEof /\ v.derr = r.derr
                   /\ o = [n |-> 0, r |-> v] \/ o = [n |-> ERR, r |-> v]
      BY <1>2, <2>2, <3>1, TarReadDead
    <3>3. Known(p, dg, v) /\ v.fault = TRUE /\ (dg => v.derr) /\ (~dg => ~ZEof(v))
      BY <1>3, <2>2, <3>1, <3>2 DEF Known, ZEof
    <3>4. CASE o = [n |-> ERR, r |-> v]
      <4>1. CheckIntegrity("readData", v)
        BY <2>1, <3>4
      <4> QED BY <1>1, <1>3, <3>2, <3>3, <4>1, CheckStep
    <3>5. CASE o = [n |-> 0, r |-> v]
      <4>1. o.n = 0 /\ o.n # ERR /\ o.r = v
        BY <3>5 DEF ERR
      <4>2. Delivered(o) = served
        BY <4>1 DEF Delivered
      <4>3. /\ view' = p /\ open' = on /\ dangling' = dg /\ chain' = v /\ pc' = "idle" /\ todo' = t
            /\ op' = "readData" /\ rv' = "ok" /\ served' = s
        BY <1>1, <2>1, <4>1, <4>2 DEF Return
      <4>4. Holds(p, on, dg, v, "idle", t, "readData", "ok", s)
        BY <1>3, <3>2, <3>3 DEF Holds, Told, Running
      <4> QED BY <4>3, <4>4 DEF Held
    <3> QED BY <3>2, <3>4, <3>5
  <2>3. CASE ~Dead(r)
    <3>1. Healthy(p, r) /\ ~dg
      BY <1>3, <2>3 DEF Known, Dead
    <3>2. \/ InFile(p, r, Len(s)) /\ Len(s[Len(s)].got) = r.pos
          \/ Between(p, r, Len(s))
      BY <1>1, <1>2, <1>6, <2>3 DEF Held, Holds, Place
    <3>3. AliveOutcome(p, r, s, o)
      BY <1>2, <1>3, <2>3, <3>1, <3>2, AliveRead
    <3>4. PICK m, v :
            /\ m = Len(s) /\ o.r = v
            /\ \/ /\ o.n = 0 /\ IsChain(v) /\ Healthy(p, v) /\ ~Dead(v)
                  /\ InFile(p, r, m) /\ Len(s[m].got) = r.pos =>
                       InFile(p, v, m) /\ Len(s[m].got) = v.pos
                  /\ Between(p, r, m) => Between(p, v, m)
               \/ /\ o.n \in Nat \ {0} /\ IsChain(v) /\ Healthy(p, v) /\ ~Dead(v)
                  /\ InFile(p, v, m)
                  /\ \E x : /\ x = Extended(s, m, SubSeq(p.units, r.out + 1, v.out))
                            /\ Grown(p, s, m, x, v.pos)
               \/ o.n = ERR /\ Broken(v)
      BY <3>3 DEF AliveOutcome
    <3>5. CASE o.n = ERR /\ Broken(v)
      <4>1. CheckIntegrity("readData", v)
        BY <2>1, <3>4, <3>5
      <4>2. IsChain(v) /\ Dead(v) /\ v.fault = TRUE /\ ~ZEof(v)
        BY <3>5 DEF Broken, Dead
      <4> QED BY <1>1, <1>3, <3>1, <4>1, <4>2, CheckStep
    <3>6. CASE /\ o.n = 0 /\ IsChain(v) /\ Healthy(p, v) /\ ~Dead(v)
               /\ InFile(p, r, m) /\ Len(s[m].got) = r.pos =>
                    InFile(p, v, m) /\ Len(s[m].got) = v.pos
               /\ Between(p, r, m) => Between(p, v, m)
      <4>1. o.n # ERR /\ Delivered(o) = served
        BY <3>6 DEF ERR, Delivered
      <4>2. /\ view' = p /\ open' = on /\ dangling' = dg /\ chain' = v /\ pc' = "idle" /\ todo' = t
            /\ op' = "readData" /\ rv' = "ok" /\ served' = s
        BY <1>1, <2>1, <3>4, <4>1 DEF Return
      <4>3. Known(p, dg, v)
        BY <3>1, <3>6 DEF Known
      <4>4. Place(p, on, v, "idle", t, s)
        BY <3>2, <3>4, <3>6 DEF Place
      <4>5. Holds(p, on, dg, v, "idle", t, "readData", "ok", s)
        BY <1>3, <4>3, <4>4 DEF Holds, Told, Running
      <4> QED BY <4>2, <4>5 DEF Held
    <3>7. CASE /\ o.n \in Nat \ {0} /\ IsChain(v) /\ Healthy(p, v) /\ ~Dead(v)
               /\ InFile(p, v, m)
               /\ \E x : /\ x = Extended(s, m, SubSeq(p.units, r.out + 1, v.out))
                         /\ Grown(p, s, m, x, v.pos)
      <4>1. PICK x : /\ x = Extended(s, m, SubSeq(p.units, r.out + 1, v.out))
                     /\ Grown(p, s, m, x, v.pos)
        BY <3>7
      <4>2. o.n # ERR /\ Delivered(o) = x
        <5>1. o.n # ERR /\ o.n > 0
          BY <3>7 DEF ERR
        <5>2. o.n # 0
          BY <5>1
        <5>3. Delivered(o) = [served EXCEPT ![Len(served)].got =
                                @ \o SubSeq(view.units, chain.out + 1, o.r.out)]
          BY <5>2 DEF Delivered
        <5>4. x = [s EXCEPT ![m].got = @ \o SubSeq(p.units, r.out + 1, v.out)]
          BY <4>1 DEF Extended
        <5> QED BY <1>1, <3>4, <5>1, <5>3, <5>4
      <4>3. /\ view' = p /\ open' = on /\ dangling' = dg /\ chain' = v /\ pc' = "idle" /\ todo' = t
            /\ op' = "readData" /\ rv' = "ok" /\ served' = x
        BY <1>1, <2>1, <3>4, <4>2 DEF Return
      <4>4. Known(p, dg, v)
        BY <3>1, <3>7 DEF Known
      <4>5. ServedOK(p, x) /\ Len(x) = m /\ Len(x[m].got) = v.pos
        BY <4>1 DEF Grown
      <4>6. Place(p, on, v, "idle", t, x)
        BY <3>7, <4>5 DEF Place
      <4>7. Holds(p, on, dg, v, "idle", t, "readData", "ok", x)
        BY <4>4, <4>5, <4>6 DEF Holds, Told, Running
      <4> QED BY <4>3, <4>7 DEF Held
    <3> QED BY <3>4, <3>5, <3>6, <3>7
  <2> QED BY <2>2, <2>3
<1> QED BY <1>1, <1>4, <1>5, <1>6 DEF ReadData, NeedsChain

LEMMA SkipRoundStep ==
  ASSUME ReaderInv, view \in Written, view' = view, SkipRound
  PROVE  Held'
<1>1. PICK p, on, dg, r, t, s, f, c, a :
        /\ p = view /\ on = open /\ dg = dangling /\ r = chain /\ t = todo /\ s = served
        /\ f = MayFail /\ c = op /\ a = IF todo < BUFFER THEN todo ELSE BUFFER
  OBVIOUS
<1>2. Held /\ pc = "skip" /\ Sound(p) /\ IsChain(r)
  <2>1. Sound(p)
    BY <1>1, WrittenSound
  <2> QED BY <1>1, <2>1 DEF ReaderInv, SkipRound
<1>3. ServedOK(p, s) /\ Known(p, dg, r) /\ Told(p, r, "skip", c, rv, s)
  BY <1>1, <1>2 DEF Held, Holds
<1>4. rv = "none" /\ c \in {"nextFile", "decrypt"} /\ (c = "decrypt" => Whole(s, Len(s)))
  BY <1>3 DEF Told, Running
<1>5. PICK o \in ZRead(p, r, a, f) :
        IF o.n = ERR THEN CheckIntegrity(c, [AtBlock(o.r) EXCEPT !.terr = TRUE])
        ELSE /\ pc'    = IF SkipEnds(o, a) THEN "header" ELSE pc
             /\ chain' = IF SkipEnds(o, a) THEN AtBlock(o.r) ELSE o.r
             /\ todo'  = IF SkipEnds(o, a) THEN 0 ELSE todo - o.n
             /\ UNCHANGED <<stream, view, atNonce, open, dangling, op, rv, served, begins>>
  BY <1>1 DEF SkipRound
<1>6. ASSUME NEW v, o.n = ERR, o.r = v, IsChain(v), Dead(v), v.fault = TRUE, dg => v.derr,
             ~dg => ~ZEof(v)
      PROVE  Held'
  <2>1. PICK w : w = AtBlock(v)
    OBVIOUS
  <2>2. IsChain(w) /\ w.zerr = v.zerr /\ w.derr = v.derr /\ w.fault = v.fault
        /\ w.avail = v.avail /\ w.srcEof = v.srcEof
    BY <1>6, <2>1, AtBlockChain
  <2>3. PICK x : x = [w EXCEPT !.terr = TRUE]
    OBVIOUS
  <2>4. IsChain(x) /\ x.zerr = v.zerr /\ x.derr = v.derr /\ x.fault = v.fault
        /\ x.avail = v.avail /\ x.srcEof = v.srcEof
    BY <2>2, <2>3 DEF IsChain, Fields
  <2>5. Dead(x) /\ x.fault = TRUE /\ (dg => x.derr) /\ (~dg => ~ZEof(x))
    BY <1>6, <2>4 DEF Dead, ZEof
  <2>6. CheckIntegrity(c, x)
    BY <1>5, <1>6, <2>1, <2>3
  <2> QED BY <1>1, <1>3, <2>4, <2>5, <2>6, CheckStep
<1>7. CASE Dead(r)
  <2> DEFINE v == [r EXCEPT !.zerr = TRUE]
  <2>1. o = [n |-> ERR, r |-> v]
    BY <1>7, DeadRead
  <2>2. IsChain(v) /\ v.zerr = TRUE /\ v.derr = r.derr /\ v.fault = r.fault
        /\ v.avail = r.avail /\ v.srcEof = r.srcEof
    BY <1>2 DEF IsChain, Fields
  <2> HIDE DEF v
  <2>3. Dead(v) /\ v.fault = TRUE /\ (dg => v.derr) /\ (~dg => ~ZEof(v))
    BY <1>3, <1>7, <2>2 DEF Known, Dead, ZEof
  <2> QED BY <1>6, <2>1, <2>2, <2>3
<1>8. CASE ~Dead(r)
  <2>1. Healthy(p, r) /\ ~dg
    BY <1>3, <1>8 DEF Known, Dead
  <2>2. PICK m : m = Len(s) /\ m \in 0 .. Len(p.sizes)
    BY <1>3 DEF ServedOK, Sound
  <2>3. t \in Nat \ {0} /\ r.out + t = Ends(p)[m]
    BY <1>1, <1>2, <1>8, <2>2 DEF Held, Holds, Place
  <2>4. a \in Nat \ {0} /\ a <= t
    BY <1>1, <2>3, InputAssumption
  <2>5. r.out + t < Len(p.units) /\ r.out \in Nat /\ Len(p.units) \in Nat
    <3>1. Ends(p)[m] < Len(p.units)
      BY <1>2, <2>2, EndsBefore
    <3> QED BY <1>2, <2>1, <2>3, <3>1 DEF Healthy, Sound
  <2>6. r.out + a < Len(p.units) /\ r.out + a <= Len(p.units)
    BY <2>3, <2>4, <2>5
  <2>7. PICK v : \/ o = [n |-> a, r |-> v] /\ Advances(p, r, v, a)
                 \/ o = [n |-> ERR, r |-> v] /\ Breaks(r, v)
    BY <1>2, <1>8, <2>1, <2>4, <2>6, ZReadGood
  <2>8. CASE o = [n |-> ERR, r |-> v] /\ Breaks(r, v)
    <3>1. ~ZEof(r)
      BY <2>1, <2>5, <2>3 DEF Healthy
    <3>2. IsChain(v) /\ Dead(v) /\ v.fault = TRUE /\ ~ZEof(v)
      BY <2>8, <3>1 DEF Breaks, Dead, ZEof
    <3> QED BY <1>6, <2>1, <2>8, <3>2
  <2>9. CASE o = [n |-> a, r |-> v] /\ Advances(p, r, v, a)
    <3>1. o.n = a /\ o.r = v /\ o.n # ERR /\ ~(o.n < a)
      BY <2>4, <2>9 DEF ERR
    <3>2. /\ IsChain(v) /\ Healthy(p, v) /\ ~Dead(v) /\ v.out = r.out + a
      BY <2>9 DEF Advances
    <3>3. CASE a = t
      <4>1. SkipEnds(o, a)
        BY <1>1, <3>1, <3>3 DEF SkipEnds
      <4>2. PICK w : w = AtBlock(v)
        OBVIOUS
      <4>3. /\ view' = p /\ open' = on /\ dangling' = dg /\ chain' = w /\ pc' = "header" /\ todo' = 0
            /\ op' = c /\ rv' = "none" /\ served' = s
        BY <1>1, <1>4, <1>5, <3>1, <4>1, <4>2
      <4>4. /\ w.pos = 0 /\ w.data = 0 /\ w.block = 0 /\ w.out = v.out /\ w.at = v.at
            /\ w.lost = v.lost /\ w.terr = v.terr /\ w.zerr = v.zerr /\ w.derr = v.derr
            /\ w.avail = v.avail /\ w.srcEof = v.srcEof
        BY <3>2, <4>2, AtBlockChain
      <4>5. Healthy(p, w) /\ ~Dead(w)
        BY <3>2, <4>4 DEF Healthy, Dead, ZEof
      <4>6. Between(p, w, m)
        BY <2>3, <3>2, <3>3, <4>4 DEF Between, AtHeader
      <4>7. Known(p, dg, w) /\ Place(p, on, w, "header", 0, s)
        BY <2>1, <2>2, <4>5, <4>6 DEF Known, Place
      <4>8. Told(p, w, "header", c, "none", s)
        BY <1>4 DEF Told, Running
      <4> QED BY <1>3, <4>3, <4>7, <4>8 DEF Held, Holds
    <3>4. CASE a # t
      <4>1. ~SkipEnds(o, a)
        BY <1>1, <3>1, <3>4 DEF SkipEnds
      <4>2. PICK t1 : t1 = t - a /\ t1 \in Nat \ {0} /\ v.out + t1 = r.out + t
        BY <2>3, <2>4, <2>5, <3>2, <3>4
      <4>3. /\ view' = p /\ open' = on /\ dangling' = dg /\ chain' = v /\ pc' = "skip" /\ todo' = t1
            /\ op' = c /\ rv' = "none" /\ served' = s
        BY <1>1, <1>2, <1>4, <1>5, <3>1, <4>1, <4>2
      <4>4. Known(p, dg, v) /\ Place(p, on, v, "skip", t1, s)
        BY <2>1, <2>2, <2>3, <3>2, <4>2 DEF Known, Place
      <4>5. Told(p, v, "skip", c, "none", s)
        BY <1>4 DEF Told, Running
      <4> QED BY <1>3, <4>3, <4>4, <4>5 DEF Held, Holds
    <3> QED BY <3>3, <3>4
  <2> QED BY <2>7, <2>8, <2>9
<1> QED BY <1>7, <1>8

LEMMA SkipAuxRoundStep ==
  ASSUME ReaderInv, view \in Written, view' = view, SkipAuxRound
  PROVE  Held'
<1>1. PICK p, on, dg, r, t, s, f, c, a :
        /\ p = view /\ on = open /\ dg = dangling /\ r = chain /\ t = todo /\ s = served
        /\ f = MayFail /\ c = op /\ a = IF todo < BUFFER THEN todo ELSE BUFFER
  OBVIOUS
<1>2. Held /\ pc = "skipAux" /\ Sound(p) /\ IsChain(r)
  <2>1. Sound(p)
    BY <1>1, WrittenSound
  <2> QED BY <1>1, <2>1 DEF ReaderInv, SkipAuxRound
<1>3. ServedOK(p, s) /\ Known(p, dg, r) /\ Told(p, r, "skipAux", c, rv, s)
  BY <1>1, <1>2 DEF Held, Holds
<1>4. rv = "none" /\ c \in {"nextFile", "decrypt"} /\ (c = "decrypt" => Whole(s, Len(s)))
  BY <1>3 DEF Told, Running
<1>5. PICK o \in ZRead(p, r, a, f) :
        /\ pc'    = IF SkipEnds(o, a) THEN "header" ELSE pc
        /\ chain' = o.r
        /\ todo'  = IF SkipEnds(o, a) THEN 0 ELSE todo - o.n
        /\ UNCHANGED <<stream, view, atNonce, open, dangling, op, rv, served, begins>>
  BY <1>1 DEF SkipAuxRound
<1>6. ASSUME NEW v, o.r = v, Dead(v), v.fault = TRUE, dg => v.derr, ~dg => ~ZEof(v)
      PROVE  Held'
  <2>1. PICK l1, t1 : l1 = pc' /\ t1 = todo'
    OBVIOUS
  <2>2. l1 \in {"header", "skipAux"}
    BY <1>2, <1>5, <2>1
  <2>3. /\ view' = p /\ open' = on /\ dangling' = dg /\ chain' = v /\ pc' = l1 /\ todo' = t1
        /\ op' = c /\ rv' = "none" /\ served' = s
    BY <1>1, <1>4, <1>5, <1>6, <2>1
  <2>4. Known(p, dg, v)
    BY <1>6, BrokenKnown
  <2>5. Told(p, v, l1, c, "none", s)
    BY <1>4, <2>2 DEF Told, Running
  <2> QED BY <1>3, <1>6, <2>3, <2>4, <2>5 DEF Held, Holds
<1>7. CASE Dead(r)
  <2> DEFINE v == [r EXCEPT !.zerr = TRUE]
  <2>1. o = [n |-> ERR, r |-> v]
    BY <1>7, DeadRead
  <2>2. IsChain(v) /\ v.zerr = TRUE /\ v.derr = r.derr /\ v.fault = r.fault
        /\ v.avail = r.avail /\ v.srcEof = r.srcEof
    BY <1>2 DEF IsChain, Fields
  <2> HIDE DEF v
  <2>3. Dead(v) /\ v.fault = TRUE /\ (dg => v.derr) /\ (~dg => ~ZEof(v))
    BY <1>3, <1>7, <2>2 DEF Known, Dead, ZEof
  <2> QED BY <1>6, <2>1, <2>3
<1>8. CASE ~Dead(r)
  <2>1. Healthy(p, r) /\ ~dg
    BY <1>3, <1>8 DEF Known, Dead
  <2>2. PICK m : m = Len(s)
    OBVIOUS
  <2>3. t \in Nat \ {0} /\ ToHead(p, r.out + t, m) /\ r.data <= r.pos /\ r.block <= r.pos
    BY <1>1, <1>2, <1>8, <2>2 DEF Held, Holds, Place
  <2>4. a \in Nat \ {0} /\ a <= t
    BY <1>1, <2>3, InputAssumption
  <2>5. r.out + t < Len(p.units) /\ r.out \in Nat /\ Len(p.units) \in Nat
    <3>1. PICK q : q = r.out + t
      OBVIOUS
    <3>2. q + Block <= Len(p.units)
      BY <2>3, <3>1 DEF ToHead, FileAt, HeaderAt
    <3>3. r.out \in Nat /\ Len(p.units) \in Nat
      BY <1>2, <2>1 DEF Healthy, Sound
    <3> QED BY <2>3, <3>1, <3>2, <3>3, BlockAssumption
  <2>6. r.out + a < Len(p.units) /\ r.out + a <= Len(p.units)
    BY <2>3, <2>4, <2>5
  <2>7. PICK v : \/ o = [n |-> a, r |-> v] /\ Advances(p, r, v, a)
                 \/ o = [n |-> ERR, r |-> v] /\ Breaks(r, v)
    BY <1>2, <1>8, <2>1, <2>4, <2>6, ZReadGood
  <2>8. CASE o = [n |-> ERR, r |-> v] /\ Breaks(r, v)
    <3>1. ~ZEof(r)
      BY <2>1, <2>5, <2>3 DEF Healthy
    <3>2. Dead(v) /\ v.fault = TRUE /\ ~ZEof(v)
      BY <2>8, <3>1 DEF Breaks, Dead, ZEof
    <3> QED BY <1>6, <2>1, <2>8, <3>2
  <2>9. CASE o = [n |-> a, r |-> v] /\ Advances(p, r, v, a)
    <3>1. o.n = a /\ o.r = v /\ ~(o.n < a)
      BY <2>4, <2>9
    <3>2. /\ IsChain(v) /\ Healthy(p, v) /\ ~Dead(v) /\ v.out = r.out + a
          /\ v.data = r.data /\ v.pos = r.pos /\ v.block = r.block
      BY <2>9 DEF Advances
    <3>3. CASE a = t
      <4>1. SkipEnds(o, a)
        BY <1>1, <3>1, <3>3 DEF SkipEnds
      <4>2. /\ view' = p /\ open' = on /\ dangling' = dg /\ chain' = v /\ pc' = "header" /\ todo' = 0
            /\ op' = c /\ rv' = "none" /\ served' = s
        BY <1>1, <1>4, <1>5, <3>1, <4>1
      <4>3. Between(p, v, m)
        BY <2>3, <3>2, <3>3 DEF Between, AtHeader
      <4>4. Known(p, dg, v) /\ Place(p, on, v, "header", 0, s)
        BY <2>1, <2>2, <3>2, <4>3 DEF Known, Place
      <4>5. Told(p, v, "header", c, "none", s)
        BY <1>4 DEF Told, Running
      <4> QED BY <1>3, <4>2, <4>4, <4>5 DEF Held, Holds
    <3>4. CASE a # t
      <4>1. ~SkipEnds(o, a)
        BY <1>1, <3>1, <3>4 DEF SkipEnds
      <4>2. PICK t1 : t1 = t - a /\ t1 \in Nat \ {0} /\ v.out + t1 = r.out + t
        BY <2>3, <2>4, <2>5, <3>2, <3>4
      <4>3. /\ view' = p /\ open' = on /\ dangling' = dg /\ chain' = v /\ pc' = "skipAux" /\ todo' = t1
            /\ op' = c /\ rv' = "none" /\ served' = s
        BY <1>1, <1>2, <1>4, <1>5, <3>1, <4>1, <4>2
      <4>4. Known(p, dg, v) /\ Place(p, on, v, "skipAux", t1, s)
        BY <2>1, <2>2, <2>3, <3>2, <4>2 DEF Known, Place
      <4>5. Told(p, v, "skipAux", c, "none", s)
        BY <1>4 DEF Told, Running
      <4> QED BY <1>3, <4>3, <4>4, <4>5 DEF Held, Holds
    <3> QED BY <3>3, <3>4
  <2> QED BY <2>7, <2>8, <2>9
<1> QED BY <1>7, <1>8

(* A file that was found joins those delivered.                            *)
Joined(p, s, m, t) == Grown(p, s, m + 1, t, 0) /\ (Whole(s, m) => Whole(t, m))

LEMMA JoinsServed ==
  ASSUME NEW p, Sound(p), NEW s, ServedOK(p, s), NEW m, m = Len(s), m + 1 \in 1 .. Len(p.sizes),
         p.sizes[m + 1] \in Nat,
         NEW t, t = Append(s, [f |-> m + 1, size |-> p.sizes[m + 1], got |-> <<>>])
  PROVE  Joined(p, s, m, t)
<1>1. s \in Seq(Piece) /\ m \in Nat /\ Len(p.sizes) \in Nat
  BY DEF ServedOK, Sound
<1>2. PICK x : x = [f |-> m + 1, size |-> p.sizes[m + 1], got |-> <<>>]
  OBVIOUS
<1>3. <<>> \in Seq(Unit) /\ Len(<<>>) = 0
  OBVIOUS
<1>4. x \in Piece
  BY <1>1, <1>2, <1>3 DEF Piece
<1>5. x.f = m + 1 /\ x.size = p.sizes[m + 1] /\ x.got = <<>>
  BY <1>2
<1>6. t \in Seq(Piece) /\ Len(t) = m + 1 /\ t[m + 1] = x /\ \A i \in 1 .. m : t[i] = s[i]
  BY <1>1, <1>2, <1>4
<1>7. ASSUME NEW i \in 1 .. m + 1
      PROVE  /\ t[i].f = i /\ t[i].size = p.sizes[i] /\ Len(t[i].got) <= p.sizes[i]
             /\ \A j \in 1 .. Len(t[i].got) : t[i].got[j] = Member(i, j)
  <2>1. CASE i = m + 1
    <3>1. Len(t[i].got) = 0 /\ t[i].f = i /\ t[i].size = p.sizes[i] /\ p.sizes[i] \in Nat
      BY <1>3, <1>5, <1>6, <2>1
    <3> QED BY <3>1
  <2>2. CASE i # m + 1
    <3>1. i \in 1 .. m /\ i \in 1 .. Len(s) /\ t[i] = s[i]
      BY <1>1, <1>6, <2>2
    <3> QED BY <3>1 DEF ServedOK
  <2> QED BY <2>1, <2>2
<1>8. ServedOK(p, t)
  BY <1>1, <1>6, <1>7 DEF ServedOK
<1>9. Len(t[m + 1].got) = 0
  BY <1>3, <1>5, <1>6
<1>10. Whole(s, m) => Whole(t, m)
  BY <1>6 DEF Whole
<1>11. \A i \in 1 .. (m + 1) - 1 : t[i] = s[i]
  BY <1>1, <1>6
<1>12. Grown(p, s, m + 1, t, 0)
  BY <1>6, <1>8, <1>9, <1>11 DEF Grown
<1> QED BY <1>10, <1>12 DEF Joined

LEMMA HeaderRoundStep ==
  ASSUME ReaderInv, view \in Written, view' = view, HeaderRound
  PROVE  Held'
<1>1. PICK p, on, dg, r, t, s, f, c :
        /\ p = view /\ on = open /\ dg = dangling /\ r = chain /\ t = todo /\ s = served
        /\ f = MayFail /\ c = op
  OBVIOUS
<1>2. Held /\ pc = "header" /\ Sound(p) /\ IsChain(r)
  <2>1. Sound(p)
    BY <1>1, WrittenSound
  <2> QED BY <1>1, <2>1 DEF ReaderInv, HeaderRound
<1>3. ServedOK(p, s) /\ Known(p, dg, r) /\ Told(p, r, "header", c, rv, s)
  BY <1>1, <1>2 DEF Held, Holds
<1>4. rv = "none" /\ c \in {"nextFile", "decrypt"} /\ (c = "decrypt" => Whole(s, Len(s)))
  BY <1>3 DEF Told, Running
<1>5. PICK h \in NextHeader(p, r, f) :
        \/ h.what = "file" /\ Opens(h.f, h.r)
        \/ h.what = "fail" /\ CheckIntegrity(c, h.r)
        \/ h.what = "end" /\ c = "decrypt" /\ Finish(c, h.r)
        \/ /\ h.what = "end" /\ c = "nextFile"
           /\ chain' = h.r /\ Return(c, "end")
           /\ UNCHANGED <<stream, view, atNonce, open, dangling, todo, served, begins>>
        \/ /\ h.what = "aux"
           /\ chain' = h.r /\ todo' = h.f + Padding(h.f)
           /\ pc' = IF todo' > 0 THEN "skipAux" ELSE "header"
           /\ UNCHANGED <<stream, view, atNonce, open, dangling, op, rv, served, begins>>
  BY <1>1 DEF HeaderRound
<1>6. ASSUME FoundBroken(h), dg => h.r.derr
      PROVE  Held'
  <2>1. PICK v : h = Found("fail", 0, v) /\ IsChain(v) /\ v.zerr = TRUE /\ v.fault = TRUE /\ ~ZEof(v)
    BY <1>6 DEF FoundBroken
  <2>2. h.what = "fail" /\ h.r = v
    BY <2>1 DEF Found
  <2>3. CheckIntegrity(c, v) /\ Dead(v) /\ (dg => v.derr)
    BY <1>5, <1>6, <2>1, <2>2 DEF Dead
  <2> QED BY <1>1, <1>3, <2>1, <2>3, CheckStep
<1>7. CASE Dead(r)
  <2>1. ~ZEof(r)
    <3>1. CASE dg
      BY <1>1, <3>1 DEF HeaderRound, EofFreed, ZEof
    <3>2. CASE ~dg
      BY <1>3, <1>7, <3>2 DEF Known
    <3> QED BY <3>1, <3>2
  <2>2. r.fault = TRUE
    BY <1>3, <1>7 DEF Known
  <2>3. FoundBroken(h) /\ h.r.derr = r.derr
    <3>1. BrokenLike(h, r)
      BY <1>2, <1>7, <2>1, <2>2, NextHeaderDead
    <3> QED BY <3>1 DEF BrokenLike
  <2>4. dg => h.r.derr
    BY <1>3, <2>3 DEF Known
  <2> QED BY <1>6, <2>3, <2>4
<1>8. CASE ~Dead(r)
  <2>1. Healthy(p, r) /\ ~dg
    BY <1>3, <1>8 DEF Known, Dead
  <2>2. PICK m : m = Len(s) /\ m \in 0 .. Len(p.sizes) /\ m \in Nat /\ Len(p.sizes) \in Nat
    BY <1>2, <1>3 DEF ServedOK, Sound
  <2>3. Between(p, r, m)
    BY <1>1, <1>2, <1>8, <2>2 DEF Held, Holds, Place
  <2>4. FoundNext(p, r, m, h)
    <3>1. AtHeader(p, r.out, m)
      BY <2>3 DEF Between
    <3> QED BY <1>2, <1>8, <2>1, <2>2, <3>1, NextGood
  <2>5. CASE FoundBroken(h)
    BY <1>6, <2>1, <2>5
  <2>6. ASSUME NEW v, h = Found("file", m + 1, v), AtStart(p, v, m + 1)
        PROVE  Held'
    <3>1. h.what = "file" /\ h.f = m + 1 /\ h.r = v
      BY <2>6 DEF Found
    <3>2. Opens(m + 1, v)
      BY <1>5, <3>1
    <3>3. PICK q \in 0 .. Len(p.units) : FileAt(p, m + 1, q, Ends(p)[m + 1]) /\ v.out = q + Block
      BY <2>6 DEF AtStart
    <3>4. /\ m + 1 \in 1 .. Len(p.sizes) /\ IsChain(v) /\ Healthy(p, v) /\ ~Dead(v)
          /\ v.pos = 0 /\ v.data = p.sizes[m + 1] /\ v.block = v.data + Padding(v.data) /\ v.eof = FALSE
      BY <2>6 DEF AtStart
    <3>5. p.sizes[m + 1] \in Nat
      BY <3>4 DEF Healthy
    <3>6. PICK x : x = Append(s, [f |-> m + 1, size |-> p.sizes[m + 1], got |-> <<>>])
      OBVIOUS
    <3>7. Grown(p, s, m + 1, x, 0) /\ (Whole(s, m) => Whole(x, m))
      <4>1. Joined(p, s, m, x)
        BY <1>2, <1>3, <2>2, <3>4, <3>5, <3>6, JoinsServed
      <4> QED BY <4>1 DEF Joined
    <3>8. ServedOK(p, x) /\ Len(x) = m + 1 /\ Len(x[m + 1].got) = 0
      BY <3>7 DEF Grown
    <3>9. InFile(p, v, m + 1)
      <4>1. v.out = q + Block + v.pos /\ v.pos <= v.data
        BY <3>3, <3>4, <3>5, BlockAssumption
      <4> QED BY <3>3, <3>4, <4>1 DEF InFile
    <3>10. /\ view' = p /\ open' = on /\ dangling' = dg /\ chain' = v /\ todo' = 0 /\ served' = x
           /\ op' = c
           /\ \/ c = "decrypt" /\ pc' = "copy" /\ rv' = "none"
              \/ c = "decrypt" /\ pc' = "idle" /\ rv' = "error"
              \/ c = "nextFile" /\ pc' = "idle" /\ rv' = "ok"
      BY <1>1, <1>4, <3>2, <3>6 DEF Opens, Return
    <3>11. Known(p, dg, v)
      BY <2>1, <3>4 DEF Known
    <3>12. Place(p, on, v, "idle", 0, x) /\ Place(p, on, v, "copy", 0, x)
      BY <3>4, <3>8, <3>9 DEF Place
    <3>13. Told(p, v, "idle", "decrypt", "error", x) /\ Told(p, v, "idle", "nextFile", "ok", x)
      BY DEF Told, Running
    <3>14. c = "decrypt" => Told(p, v, "copy", "decrypt", "none", x)
      <4>1. c = "decrypt" => Whole(x, Len(x) - 1)
        BY <1>4, <2>2, <3>7, <3>8
      <4> QED BY <3>4, <4>1 DEF Told, Running
    <3> QED BY <3>8, <3>10, <3>11, <3>12, <3>13, <3>14 DEF Held, Holds
  <2>7. ASSUME NEW v, NEW a \in Nat, h = Found("aux", a, v), Advances(p, r, v, Block),
               ToHead(p, v.out + a + Padding(a), m)
        PROVE  Held'
    <3>1. h.what = "aux" /\ h.f = a /\ h.r = v
      BY <2>7 DEF Found
    <3>2. PICK t1 : t1 = a + Padding(a) /\ t1 \in Nat
      BY PaddingNat
    <3>3. PICK l1 : l1 = IF t1 > 0 THEN "skipAux" ELSE "header"
      OBVIOUS
    <3>4. /\ view' = p /\ open' = on /\ dangling' = dg /\ chain' = v /\ pc' = l1 /\ todo' = t1
          /\ op' = c /\ rv' = "none" /\ served' = s
      BY <1>1, <1>4, <1>5, <3>1, <3>2, <3>3
    <3>5. /\ IsChain(v) /\ Healthy(p, v) /\ ~Dead(v)
          /\ v.data = r.data /\ v.pos = r.pos /\ v.block = r.block
      BY <2>7 DEF Advances
    <3>6. v.out \in Nat /\ v.out + a + Padding(a) = v.out + t1
      <4>1. v.out \in Nat
        BY <1>2, <3>5 DEF Healthy, Sound
      <4>2. PICK b \in Nat : b = Padding(a)
        BY PaddingNat
      <4> QED BY <3>2, <4>1, <4>2
    <3>7. ToHead(p, v.out + t1, m)
      BY <2>7, <3>6
    <3>8. v.data <= v.pos /\ v.block <= v.pos
      BY <2>3, <3>5 DEF Between
    <3>9. Place(p, on, v, l1, t1, s)
      <4>1. CASE t1 > 0
        BY <2>2, <3>2, <3>3, <3>7, <3>8, <4>1 DEF Place
      <4>2. CASE ~(t1 > 0)
        <5>1. ToHead(p, v.out, m) /\ l1 = "header"
          BY <3>2, <3>3, <3>6, <3>7, <4>2
        <5> QED BY <2>2, <3>8, <5>1 DEF Place, Between, AtHeader
      <4> QED BY <4>1, <4>2
    <3>10. Known(p, dg, v)
      BY <2>1, <3>5 DEF Known
    <3>11. Told(p, v, l1, c, "none", s)
      BY <1>4, <3>3 DEF Told, Running
    <3> QED BY <1>3, <3>4, <3>9, <3>10, <3>11 DEF Held, Holds
  <2>8. ASSUME NEW v, h = Found("end", 0, v), m = Len(p.sizes), IsChain(v), Healthy(p, v), ~Dead(v),
               v.out = Len(p.units), v.pos = r.pos, v.data = r.data, v.block = r.block
        PROVE  Held'
    <3>1. h.what = "end" /\ h.r = v
      BY <2>8 DEF Found
    <3>2. Accepted(p, v)
      BY <1>2, <2>8 DEF Accepted, Healthy, Sound, Dead
    <3>3. Known(p, dg, v)
      BY <2>1, <2>8 DEF Known
    <3>4. CASE c = "decrypt"
      <4>1. Finish(c, v)
        BY <1>5, <3>1, <3>4
      <4>2. /\ view' = p /\ open' = FALSE /\ dangling' = dg /\ chain' = v /\ pc' = "idle" /\ todo' = 0
            /\ op' = c /\ rv' = "ok" /\ served' = s
        BY <1>1, <3>2, <4>1 DEF Finish, Return
      <4>3. Place(p, FALSE, v, "idle", 0, s)
        BY DEF Place
      <4>4. Told(p, v, "idle", c, "ok", s)
        BY <1>4, <2>2, <2>8 DEF Told, Running
      <4> QED BY <1>3, <3>3, <4>2, <4>3, <4>4 DEF Held, Holds
    <3>5. CASE c = "nextFile"
      <4>1. /\ view' = p /\ open' = on /\ dangling' = dg /\ chain' = v /\ pc' = "idle" /\ todo' = t
            /\ op' = c /\ rv' = "end" /\ served' = s
        BY <1>1, <1>5, <3>1, <3>5 DEF Return
      <4>2. Between(p, v, m)
        BY <2>3, <2>8 DEF Between, AtHeader
      <4>3. Place(p, on, v, "idle", t, s)
        BY <2>2, <4>2 DEF Place
      <4>4. Told(p, v, "idle", c, "end", s)
        BY <2>2, <2>8, <3>2, <3>5 DEF Told, Running
      <4> QED BY <1>3, <3>3, <4>1, <4>3, <4>4 DEF Held, Holds
    <3> QED BY <1>4, <3>4, <3>5
  <2> QED BY <2>4, <2>5, <2>6, <2>7, <2>8 DEF FoundNext
<1> QED BY <1>7, <1>8

(* What writeAll leaves: it goes on, or decrypt returns an error.          *)
Copying(l, v) ==
  \/ l = "copy" /\ v = "none"
  \/ l = "idle" /\ v = "error"

LEMMA CopyHolds ==
  ASSUME NEW p, NEW s, ServedOK(p, s), NEW v, Healthy(p, v), ~Dead(v),
         InFile(p, v, Len(s)), Len(s[Len(s)].got) = v.pos,
         NEW c \in {"nextFile", "decrypt"}, c = "decrypt" => Whole(s, Len(s) - 1),
         NEW l, NEW w, Copying(l, w), NEW on, NEW t, NEW dg, ~dg
  PROVE  Holds(p, on, dg, v, l, t, c, w, s)
<1>1. Known(p, dg, v)
  BY DEF Known
<1>2. Place(p, on, v, l, t, s)
  BY DEF Place, Copying
<1>3. Told(p, v, l, c, w, s)
  BY DEF Told, Running, Copying
<1> QED BY <1>1, <1>2, <1>3 DEF Holds

LEMMA CopyRoundStep ==
  ASSUME ReaderInv, view \in Written, view' = view, CopyRound
  PROVE  Held'
<1>1. PICK p, on, dg, r, t, s, f, c, n :
        /\ p = view /\ on = open /\ dg = dangling /\ r = chain /\ t = todo /\ s = served
        /\ f = MayFail /\ c = op /\ n = BUFFER
  OBVIOUS
<1>2. Held /\ pc = "copy" /\ Sound(p) /\ IsChain(r) /\ n \in Nat \ {0}
  <2>1. Sound(p)
    BY <1>1, WrittenSound
  <2>2. n \in Nat \ {0}
    BY <1>1, InputAssumption
  <2> QED BY <1>1, <2>1, <2>2 DEF ReaderInv, CopyRound
<1>3. ServedOK(p, s) /\ Known(p, dg, r) /\ Told(p, r, "copy", c, rv, s) /\ Place(p, on, r, "copy", t, s)
      /\ ~Dead(r)
  <2>1. ServedOK(p, s) /\ Known(p, dg, r) /\ Told(p, r, "copy", c, rv, s)
    BY <1>1, <1>2 DEF Held, Holds
  <2>2. ~Dead(r)
    BY <2>1 DEF Told
  <2> QED BY <1>1, <1>2, <2>1, <2>2 DEF Held, Holds
<1>4. PICK m : m = Len(s) /\ m \in Nat
  BY <1>3 DEF ServedOK
<1>5. /\ Healthy(p, r) /\ ~dg /\ InFile(p, r, m) /\ Len(s[m].got) = r.pos
      /\ rv = "none" /\ c \in {"nextFile", "decrypt"} /\ (c = "decrypt" => Whole(s, m - 1))
  <2>1. Healthy(p, r) /\ ~dg
    BY <1>3 DEF Known, Dead
  <2> QED BY <1>3, <1>4, <2>1 DEF Told, Place, Running
<1>6. CASE r.eof
  <2>1. PICK l1, t1 : l1 = pc' /\ t1 = todo'
    OBVIOUS
  <2>2. /\ EnterNext
        /\ UNCHANGED <<stream, view, atNonce, open, dangling, chain, op, rv, served, begins>>
    BY <1>1, <1>6 DEF CopyRound
  <2>3. \/ r.pos < r.block /\ l1 = "skip" /\ t1 = r.block - r.pos
        \/ ~(r.pos < r.block) /\ l1 = "header"
    BY <1>1, <2>1, <2>2 DEF EnterNext
  <2>4. r.pos = p.sizes[m] /\ m \in 1 .. Len(p.sizes)
    BY <1>5, <1>6 DEF InFile
  <2>5. m \in 1 .. Len(s)
    BY <1>4, <2>4
  <2>6. s[m].size = p.sizes[m]
    BY <1>3, <2>5 DEF ServedOK
  <2>7. Len(s[m].got) = s[m].size
    BY <1>5, <2>4, <2>6
  <2>8. c = "decrypt" => Whole(s, m)
    <3>1. \A i \in 1 .. m : i = m \/ i \in 1 .. m - 1
      BY <1>4
    <3> QED BY <1>5, <2>7, <3>1 DEF Whole
  <2>9. Holds(p, on, dg, r, l1, t1, c, "none", s)
    BY <1>2, <1>3, <1>4, <1>5, <2>3, <2>8, EnterHolds
  <2> QED BY <1>1, <1>5, <2>1, <2>2, <2>9 DEF Held
<1>7. CASE ~r.eof
  <2>1. PICK o \in TarRead(p, r, n, f) :
          /\ chain' = o.r
          /\ \/ o.n = ERR /\ served' = served /\ Return(op, "error")
             \/ o.n # ERR /\ served' = Delivered(o) /\ UNCHANGED <<pc, op, rv>>
             \/ o.n > 0 /\ served' = Delivered(o) /\ Return(op, "error")
          /\ UNCHANGED <<stream, view, atNonce, open, dangling, todo, begins>>
    BY <1>1, <1>7 DEF CopyRound
  <2>2. AliveOutcome(p, r, s, o)
    BY <1>2, <1>3, <1>4, <1>5, AliveRead
  <2>3. PICK v :
          /\ o.r = v
          /\ \/ /\ o.n = 0 /\ IsChain(v) /\ Healthy(p, v) /\ ~Dead(v)
                /\ InFile(p, r, m) /\ Len(s[m].got) = r.pos =>
                     InFile(p, v, m) /\ Len(s[m].got) = v.pos
                /\ Between(p, r, m) => Between(p, v, m)
             \/ /\ o.n \in Nat \ {0} /\ IsChain(v) /\ Healthy(p, v) /\ ~Dead(v)
                /\ InFile(p, v, m)
                /\ \E x : /\ x = Extended(s, m, SubSeq(p.units, r.out + 1, v.out))
                          /\ Grown(p, s, m, x, v.pos)
             \/ o.n = ERR /\ Broken(v)
    BY <1>4, <2>2 DEF AliveOutcome
  <2>4. view' = p /\ open' = on /\ dangling' = dg /\ chain' = v /\ todo' = t
    BY <1>1, <2>1, <2>3
  <2>5. CASE o.n = ERR /\ Broken(v)
    <3>1. IsChain(v) /\ Dead(v) /\ v.fault = TRUE /\ ~ZEof(v)
      BY <2>5 DEF Broken, Dead
    <3>2. Known(p, dg, v)
      BY <1>5, <3>1, BrokenKnown
    <3>3. Holds(p, on, dg, v, "idle", t, c, "error", s)
      BY <1>3, <3>1, <3>2, DeadHolds
    <3>4. served' = s /\ pc' = "idle" /\ op' = c /\ rv' = "error"
      BY <1>1, <2>1, <2>5 DEF Return, ERR
    <3> QED BY <2>4, <3>3, <3>4 DEF Held
  <2>6. ASSUME o.n \in Nat, NEW x, Delivered(o) = x, ServedOK(p, x), Len(x) = m,
               Len(x[m].got) = v.pos, InFile(p, v, m), Healthy(p, v), ~Dead(v),
               c = "decrypt" => Whole(x, m - 1)
        PROVE  Held'
    <3>1. PICK l1, w1 : l1 = pc' /\ w1 = rv'
      OBVIOUS
    <3>2. served' = x /\ op' = c /\ Copying(l1, w1)
      BY <1>1, <1>2, <1>5, <2>1, <2>6, <3>1 DEF Return, ERR, Copying
    <3>3. Holds(p, on, dg, v, l1, t, c, w1, x)
      BY <1>5, <2>6, <3>2, CopyHolds
    <3> QED BY <2>4, <3>1, <3>2, <3>3 DEF Held
  <2>7. CASE /\ o.n = 0 /\ IsChain(v) /\ Healthy(p, v) /\ ~Dead(v)
             /\ InFile(p, r, m) /\ Len(s[m].got) = r.pos =>
                  InFile(p, v, m) /\ Len(s[m].got) = v.pos
             /\ Between(p, r, m) => Between(p, v, m)
    <3>1. Delivered(o) = s
      BY <1>1, <2>7 DEF Delivered
    <3>2. InFile(p, v, m) /\ Len(s[m].got) = v.pos
      BY <1>5, <2>7
    <3> QED BY <1>3, <1>4, <1>5, <2>6, <2>7, <3>1, <3>2
  <2>8. CASE /\ o.n \in Nat \ {0} /\ IsChain(v) /\ Healthy(p, v) /\ ~Dead(v)
             /\ InFile(p, v, m)
             /\ \E x : /\ x = Extended(s, m, SubSeq(p.units, r.out + 1, v.out))
                       /\ Grown(p, s, m, x, v.pos)
    <3>1. PICK x : /\ x = Extended(s, m, SubSeq(p.units, r.out + 1, v.out))
                   /\ Grown(p, s, m, x, v.pos)
      BY <2>8
    <3>2. Delivered(o) = x
      BY <1>1, <1>4, <2>3, <2>8, <3>1 DEF Delivered, Extended
    <3>3. ServedOK(p, x) /\ Len(x) = m /\ Len(x[m].got) = v.pos /\ \A i \in 1 .. m - 1 : x[i] = s[i]
      BY <3>1 DEF Grown
    <3>4. c = "decrypt" => Whole(x, m - 1)
      BY <1>5, <3>3 DEF Whole
    <3> QED BY <2>6, <2>8, <3>2, <3>3, <3>4
  <2> QED BY <2>3, <2>5, <2>7, <2>8
<1> QED BY <1>6, <1>7

(* The chain of beginDecryption on a writer's payload.                     *)
LEMMA FreshChain ==
  ASSUME NEW p, Sound(p), NEW dg, ~dg
  PROVE  /\ Known(p, dg, NewChain(FALSE)) /\ ~Dead(NewChain(FALSE))
         /\ Between(p, NewChain(FALSE), 0)
<1>1. PICK v : v = NewChain(FALSE)
  OBVIOUS
<1>2. /\ v.at = 0 /\ v.lost = FALSE /\ v.derr = FALSE /\ v.srcEof = FALSE /\ v.out = 0 /\ v.zerr = FALSE
      /\ v.avail = FALSE /\ v.pos = 0 /\ v.data = 0 /\ v.block = 0 /\ v.terr = FALSE
  BY <1>1 DEF NewChain
<1>3. PICK e \in [0 .. Len(p.sizes) -> 0 .. Len(p.units)] : e = Ends(p) /\ Laid(p, e)
  BY EndsLaid
<1>4. Len(p.sizes) \in Nat /\ Len(p.units) \in Nat /\ Cells(p) \in Nat /\ Block \in Nat \ {0}
  BY BlockAssumption DEF Sound
<1>5. 0 \in 0 .. Len(p.sizes) /\ Ends(p)[0] = 0
  BY <1>3, <1>4 DEF Laid
<1>6. 0 < Len(p.units)
  BY <1>5, EndsBefore
<1>7. Healthy(p, v)
  BY <1>2, <1>4, <1>6 DEF Healthy, ZEof, Upto
<1>8. ~Dead(v)
  BY <1>2 DEF Dead
<1>9. Known(p, dg, v)
  BY <1>7, <1>8 DEF Known
<1>10. Between(p, v, 0)
  BY <1>2, <1>4, <1>5 DEF Between, AtHeader
<1> QED BY <1>1, <1>8, <1>9, <1>10

LEMMA NothingServed ==
  ASSUME NEW p, Sound(p)
  PROVE  ServedOK(p, <<>>) /\ Whole(<<>>, Len(<<>>))
<1>1. Len(<<>>) = 0 /\ <<>> \in Seq(Piece)
  OBVIOUS
<1>2. Len(p.sizes) \in Nat
  BY DEF Sound
<1> QED BY <1>1, <1>2 DEF ServedOK, Whole

LEMMA NewChainIs ==
  ASSUME NEW b
  PROVE  IsChain(NewChain(b))
BY DEF IsChain, Fields, NewChain

LEMMA FreshHolds ==
  ASSUME NEW p, Sound(p), NEW dg, ~dg, NEW on, NEW t, NEW l, NEW o, NEW v,
         \/ l = "header" /\ o = "decrypt" /\ v = "none"
         \/ l = "idle" /\ o # "decrypt" /\ v = "ok"
  PROVE  Holds(p, on, dg, NewChain(FALSE), l, t, o, v, <<>>)
<1>1. PICK r, s : r = NewChain(FALSE) /\ s = <<>> /\ Len(s) = 0
  <2>1. Len(<<>>) = 0
    OBVIOUS
  <2> QED BY <2>1, Zenon
<1>2. ServedOK(p, s) /\ Whole(s, Len(s))
  BY <1>1, NothingServed
<1>3. Known(p, dg, r) /\ ~Dead(r) /\ Between(p, r, 0)
  BY <1>1, FreshChain
<1>4. Place(p, on, r, l, t, s)
  BY <1>1, <1>3 DEF Place
<1>5. Told(p, r, l, o, v, s)
  BY <1>2 DEF Told, Running
<1> QED BY <1>1, <1>2, <1>3, <1>4, <1>5 DEF Holds

LEMMA GarbledIs ==
  ASSUME NEW p \in Streams
  PROVE  "broken" \in DOMAIN p /\ "broken" \in DOMAIN Garbled(p) /\ Garbled(p) \notin Written
<1>1. p \in Payload
  BY StreamAssumption
<1>2. "broken" \in DOMAIN p
  BY <1>1 DEF Payload
<1> DEFINE u == [c \in DOMAIN p.upto |-> 0]
<1>3. PICK q : q = [p EXCEPT !.units = <<>>, !.upto = u, !.stop = 1, !.broken = TRUE, !.intact = FALSE]
  OBVIOUS
<1>4. Garbled(p) = q
  BY <1>3 DEF Garbled
<1> HIDE DEF u
<1>5. "broken" \in DOMAIN q /\ q.broken = TRUE
  BY <1>2, <1>3
<1>6. \A x \in Written : ~x.broken
  BY WrittenAssumption DEF Deflated
<1> QED BY <1>2, <1>4, <1>5, <1>6

LEMMA BeginInv ==
  ASSUME ReaderInv, NEW o \in {"beginDecryption", "decrypt"}, NEW key, Begin(o, key)
  PROVE  ReaderInv'
<1>1. IsChain(chain) /\ stream \in Streams /\ pc = "idle"
  BY DEF ReaderInv, Begin
<1>2. CASE Reject(o, "refused") \/ Reject(o, "error")
  <2>1. PICK w \in {"refused", "error"} : Reject(o, w)
    BY <1>2
  <2>2. Keeps /\ view' = view
    BY <2>1, EmptyHandsKeep DEF Reject
  <2>3. view \in Written => Held'
    BY <1>1, <2>1, <2>2, RejectStep DEF ReaderInv
  <2> QED BY <1>1, <2>2, <2>3 DEF Keeps, ReaderInv
<1>3. CASE /\ view' = IF key = "right" THEN stream ELSE Garbled(stream)
           /\ served' = <<>> /\ stream' = stream
           /\ BeginFails(o) \/ BeginSucceeds(o)
  <2>1. "broken" \in DOMAIN view' /\ (view' \in Written => view' = stream)
    BY <1>1, <1>3, GarbledIs
  <2>2. ASSUME NEW p, view' = p, p \in Written PROVE Sound(p)
    BY <2>2, WrittenSound
  <2>3. PICK p, on, t : p = view' /\ on = open' /\ t = todo'
    OBVIOUS
  <2>4. CASE BeginSucceeds(o)
    <3>1. PICK l, w, v : l = pc' /\ w = rv' /\ v = NewChain(FALSE)
      OBVIOUS
    <3>2. chain' = v /\ dangling' = FALSE /\ op' = o /\ IsChain(v)
      BY <2>4, <3>1, NewChainIs DEF BeginSucceeds, Return
    <3>3. \/ l = "header" /\ o = "decrypt" /\ w = "none"
          \/ l = "idle" /\ o # "decrypt" /\ w = "ok"
      BY <2>4, <3>1 DEF BeginSucceeds, Return
    <3>4. p \in Written => Holds(p, on, FALSE, v, l, t, o, w, <<>>)
      BY <2>2, <2>3, <3>1, <3>3, FreshHolds
    <3>5. p \in Written => Held'
      BY <1>3, <2>3, <3>1, <3>2, <3>4 DEF Held
    <3> QED BY <1>1, <1>3, <2>1, <2>3, <3>2, <3>5 DEF ReaderInv
  <2>5. CASE BeginFails(o)
    <3>1. PICK r, v : r = chain /\ v = chain'
      OBVIOUS
    <3>2. open' = open /\ dangling' = open /\ op' = o /\ pc' = "idle" /\ rv' = "error"
      BY <2>5 DEF BeginFails, Return
    <3>3. v = IF open THEN [r EXCEPT !.derr = TRUE, !.fault = TRUE] ELSE NewChain(TRUE)
      BY <2>5, <3>1 DEF BeginFails
    <3>4. IsChain(v) /\ v.derr = TRUE /\ v.fault = TRUE /\ (~open => ~ZEof(v))
      <4>1. CASE open
        BY <1>1, <3>1, <3>3, <4>1 DEF IsChain, Fields
      <4>2. CASE ~open
        <5>1. v = NewChain(TRUE)
          BY <3>3, <4>2
        <5>2. IsChain(v)
          BY <5>1, NewChainIs
        <5> QED BY <5>1, <5>2 DEF NewChain, ZEof
      <4> QED BY <4>1, <4>2
    <3>5. PICK dg : dg = dangling' /\ Dead(v) /\ (dg => v.derr) /\ (~dg => ~ZEof(v))
      BY <3>2, <3>4 DEF Dead
    <3>6. Known(p, dg, v)
      BY <3>4, <3>5, BrokenKnown
    <3>7. p \in Written => Holds(p, on, dg, v, "idle", t, o, "error", <<>>)
      BY <2>2, <2>3, <3>5, <3>6, NothingServed, DeadHolds
    <3>8. p \in Written => Held'
      BY <1>3, <2>3, <3>1, <3>2, <3>5, <3>7 DEF Held
    <3> QED BY <1>1, <1>3, <2>1, <2>3, <3>1, <3>4, <3>8 DEF ReaderInv
  <2> QED BY <1>3, <2>4, <2>5
<1> QED BY <1>2, <1>3 DEF Begin

LEMMA InitInv == Init => ReaderInv
<1> SUFFICES ASSUME Init PROVE ReaderInv
  OBVIOUS
<1>1. /\ stream \in Streams /\ view = stream /\ chain = NewChain(FALSE) /\ pc = "idle"
      /\ dangling = FALSE /\ op = "create" /\ rv = "ok" /\ served = <<>>
  BY DEF Init
<1>2. IsChain(chain) /\ "broken" \in DOMAIN view
  BY <1>1, NewChainIs, GarbledIs
<1>3. ASSUME view \in Written PROVE Held
  <2>1. PICK p, on, t : p = view /\ on = open /\ t = todo
    OBVIOUS
  <2>2. Sound(p)
    BY <1>3, <2>1, WrittenSound
  <2>3. Holds(p, on, FALSE, NewChain(FALSE), "idle", t, "create", "ok", <<>>)
    BY <2>2, FreshHolds
  <2> QED BY <1>1, <2>1, <2>3 DEF Held
<1> QED BY <1>1, <1>2, <1>3 DEF ReaderInv

(* Any other step.                                                         *)
StepHolds == view \in Written /\ view' = view => Held'

(* Every action, and every round of nextFile, readData and decrypt, keeps  *)
(* the invariant.                                                          *)
LEMMA StepInv == ReaderInv /\ [Next]_vars => ReaderInv'
<1> SUFFICES ASSUME ReaderInv, [Next]_vars PROVE ReaderInv'
  OBVIOUS
<1>1. ASSUME Keeps, StepHolds PROVE ReaderInv'
  BY <1>1 DEF ReaderInv, Keeps, StepHolds
<1>2. CASE UNCHANGED vars
  BY <1>2 DEF ReaderInv, Held, vars
<1>3. ASSUME NEW key \in Keys, BeginDecryption(key) \/ Decrypt(key) PROVE ReaderInv'
  BY <1>3, BeginInv DEF BeginDecryption, Decrypt
<1>4. CASE NextFile
  BY <1>1, <1>4, NextFileKeeps, NextFileStep DEF StepHolds
<1>5. ASSUME NEW n \in Amounts, ReadData(n) PROVE ReaderInv'
  BY <1>1, <1>5, ReadDataKeeps, ReadDataStep DEF StepHolds
<1>6. CASE FinishDecryption
  BY <1>1, <1>6, FinishDecryptionKeeps, FinishDecryptionStep DEF StepHolds
<1>7. CASE LoopCrashes
  BY <1>1, <1>7, LoopCrashesKeeps, LoopCrashesStep DEF StepHolds
<1>8. CASE SkipRound
  BY <1>1, <1>8, SkipRoundKeeps, SkipRoundStep DEF StepHolds
<1>9. CASE SkipAuxRound
  BY <1>1, <1>9, SkipAuxRoundKeeps, SkipAuxRoundStep DEF StepHolds
<1>10. CASE HeaderRound
  BY <1>1, <1>10, HeaderRoundKeeps, HeaderRoundStep DEF StepHolds
<1>11. CASE CopyRound
  BY <1>1, <1>11, CopyRoundKeeps, CopyRoundStep DEF StepHolds
<1> QED BY <1>2, <1>3, <1>4, <1>5, <1>6, <1>7, <1>8, <1>9, <1>10, <1>11 DEF Next, Calls, Loop

(* Where the chain stands, what has been delivered and what the caller was *)
(* told agree after every call and every round of a loop.                  *)
THEOREM ReaderInvariant == Spec => []ReaderInv
BY InitInv, StepInv, PTL DEF Spec

----------------------------------------------------------------------------
(* What follows for the application.                                       *)

(* Of what a writer finished, nextFile, readData and decrypt hand out the  *)
(* files in order and of each a gapless prefix of its data, whatever was   *)
(* read, skipped or started again before.                                  *)
THEOREM ReaderServedExact == Spec => []ServedExact
<1>1. ReaderInv => ServedExact
  <2> SUFFICES ASSUME ReaderInv, view \in Written, NEW i \in DOMAIN served
               PROVE  /\ served[i].f = i /\ served[i].size = view.sizes[i]
                      /\ Len(served[i].got) <= view.sizes[i]
                      /\ \A j \in DOMAIN served[i].got : served[i].got[j] = Member(i, j)
    BY DEF ServedExact
  <2>1. ServedOK(view, served)
    BY DEF ReaderInv, Held, Holds
  <2>2. i \in 1 .. Len(served) /\ served[i] \in Piece
    BY <2>1 DEF ServedOK
  <2>3. DOMAIN served[i].got = 1 .. Len(served[i].got)
    BY <2>2 DEF Piece
  <2> QED BY <2>1, <2>2, <2>3 DEF ServedOK
<1> QED BY <1>1, ReaderInvariant, PTL

(* END_OF_STREAM from nextFile means that every file of the container has  *)
(* been offered, and OK from decrypt that each was delivered whole.        *)
THEOREM ReaderEndMeansAll == Spec => []EndMeansAll
<1>1. ReaderInv => EndMeansAll
  <2> SUFFICES ASSUME ReaderInv, view \in Written
               PROVE  /\ rv = "end" => AllOpened
                      /\ op = "decrypt" /\ rv = "ok" => AllRead
    BY DEF EndMeansAll
  <2>1. ServedOK(view, served) /\ Told(view, chain, pc, op, rv, served)
    BY DEF ReaderInv, Held, Holds
  <2>2. rv = "end" => AllOpened
    BY <2>1 DEF Told, AllOpened
  <2>3. ASSUME op = "decrypt", rv = "ok" PROVE AllRead
    <3>1. Len(served) = Len(view.sizes)
      BY <2>1, <2>3 DEF Told
    <3>2. pc # "copy"
      BY <2>1, <2>3 DEF Told, Running
    <3>3. Whole(served, Len(served))
      BY <2>1, <2>3, <3>2 DEF Told
    <3>4. DOMAIN served = 1 .. Len(served)
      BY <2>1 DEF ServedOK
    <3> QED BY <3>1, <3>3, <3>4 DEF AllRead, AllOpened, Whole
  <2> QED BY <2>2, <2>3
<1> QED BY <1>1, ReaderInvariant, PTL

(* As long as the source and the cipher work, no call complains of what a  *)
(* writer finished: next meets a header where it looks for one, no read    *)
(* goes to a source that was freed.  Only finishDecryption may still say   *)
(* that the payload was not read to its end.                               *)
THEOREM ReaderNoFalseAlarm == Spec => []NoFalseAlarm
<1>1. ReaderInv => NoFalseAlarm
  BY DEF ReaderInv, Held, Holds, Told, NoFalseAlarm
<1> QED BY <1>1, ReaderInvariant, PTL

(* At END_OF_STREAM ZSource has read so far ahead that the tag of the      *)
(* payload can be checked, although nothing asks for what follows the      *)
(* archive.                                                                *)
THEOREM ReaderEndIsVerifiable == Spec => []EndIsVerifiable
<1>1. ReaderInv => EndIsVerifiable
  BY DEF ReaderInv, Held, Holds, Told, EndIsVerifiable
<1> QED BY <1>1, ReaderInvariant, PTL
----------------------------------------------------------------------------
(* THE LOOPS END                                                           *)

(* How much inflate may still put out, which is nothing once               *)
(* DecryptionSource has noted an error, and how many rounds of the loops   *)
(* may come that put out nothing.                                          *)
Left(p, r) == IF r.derr THEN 0 ELSE Upto(p, Cells(p)) - r.out
OutputLeft == Left(view, chain)
RoundsLeft ==
  CASE pc = "copy"    -> IF chain.eof THEN 4 ELSE 5
    [] pc = "skip"    -> 3
    [] pc = "skipAux" -> 2
    [] pc = "header"  -> 1
    [] pc \notin Running -> 0

(* Both are numbers, so no payload keeps a call in its loops.              *)
LoopCounted == OutputLeft \in Nat /\ RoundsLeft \in Nat

(* Each round of a loop after which the call goes on lowers the first, or  *)
(* the second with the first unchanged.                                    *)
Lowers == OutputLeft' < OutputLeft \/ (OutputLeft' = OutputLeft /\ RoundsLeft' < RoundsLeft)
RoundsLower == pc \in Running /\ pc' \in Running => Lowers

(* A chain over any payload, also a broken one: ZSource has not put out    *)
(* more than it has read.                                                  *)
Fits(p, r) ==
  /\ IsChain(r) /\ r.derr \in BOOLEAN /\ r.eof \in BOOLEAN
  /\ r.pos \in Int /\ r.data \in Int /\ r.block \in Int
  /\ ~r.derr => r.at \in 0 .. Cells(p) /\ r.out \in Nat /\ r.out <= Upto(p, r.at)

LoopInv ==
  /\ stream \in Streams
  /\ view \in Payload /\ Inflates(view)
  /\ Fits(view, chain)
  /\ pc \in Running \cup {"idle", "crashed"}
  /\ pc \in {"skip", "skipAux"} => todo \in Nat \ {0}

LEMMA PayloadNumbers ==
  ASSUME NEW p \in Payload, Inflates(p)
  PROVE  /\ Cells(p) \in Nat /\ p.stop \in Nat /\ p.broken \in BOOLEAN
         /\ p.units \in Seq(Unit) /\ Len(p.units) \in Nat /\ p.sizes \in Seq(Int)
         /\ \A c \in 0 .. Cells(p) : Upto(p, c) \in Nat /\ Upto(p, c) <= Upto(p, Cells(p))
<1>1. p.units \in Seq(Unit) /\ p.upto \in Seq(Nat) /\ p.sizes \in Seq(Int) /\ p.stop \in Nat /\ p.broken \in BOOLEAN
  BY DEF Payload
<1>2. PICK m \in Nat : m = Cells(p)
  BY <1>1 DEF Cells
<1>3. \A c \in 0 .. m : Upto(p, c) \in Nat
  BY <1>1, <1>2 DEF Upto, Cells
<1>4. \A c \in 0 .. m : Upto(p, c) <= Upto(p, m)
  BY <1>2 DEF Inflates
<1>5. Len(p.units) \in Nat
  BY <1>1
<1> QED BY <1>1, <1>2, <1>3, <1>4, <1>5

LEMMA LeftNat ==
  ASSUME NEW p \in Payload, Inflates(p), NEW r, Fits(p, r)
  PROVE  Left(p, r) \in Nat
<1>1. CASE r.derr
  BY <1>1 DEF Left
<1>2. CASE ~r.derr
  <2>1. PICK a, o : a = r.at /\ o = r.out
    OBVIOUS
  <2>2. a \in 0 .. Cells(p) /\ o \in Nat /\ o <= Upto(p, a)
    BY <1>2, <2>1 DEF Fits
  <2>3. PICK u, w : u = Upto(p, a) /\ w = Upto(p, Cells(p))
    OBVIOUS
  <2>4. u \in Nat /\ u <= w
    BY <2>2, <2>3, PayloadNumbers
  <2>5. w \in Nat
    <3>1. Cells(p) \in 0 .. Cells(p)
      BY PayloadNumbers
    <3> QED BY <2>3, <3>1, PayloadNumbers
  <2>6. w - o \in Nat
    BY <2>2, <2>3, <2>4, <2>5
  <2> QED BY <1>2, <2>1, <2>3, <2>6 DEF Left
<1> QED BY <1>1, <1>2

(* A read of n units gets at most so many, or fails.                       *)
Goes(p, r, n, k, v) ==
  /\ Fits(p, v) /\ Left(p, v) <= Left(p, r)
  /\ v.pos = r.pos /\ v.data = r.data /\ v.block = r.block /\ v.eof = r.eof
  /\ \/ k = ERR
     \/ k \in 0 .. n /\ ~r.derr /\ ~v.derr /\ v.out = r.out + k /\ Left(p, v) = Left(p, r) - k

(* What a chain still has is what it had, less what was read.              *)
LEMMA GoesOn ==
  ASSUME NEW p \in Payload, Inflates(p), NEW r, Fits(p, r), ~r.derr,
         NEW n \in Nat \ {0}, NEW k \in 0 .. n,
         NEW v, IsChain(v), v.derr = r.derr, v.eof = r.eof,
         v.pos = r.pos, v.data = r.data, v.block = r.block,
         v.at \in 0 .. Cells(p), v.out = r.out + k, v.out <= Upto(p, v.at)
  PROVE  Goes(p, r, n, k, v) /\ Goes(p, r, n, ERR, v)
<1>1. r.out \in Nat /\ k \in Nat /\ v.out \in Nat
  BY DEF Fits
<1>2. Fits(p, v)
  BY <1>1 DEF Fits
<1>3. PICK l, m : l = Left(p, r) /\ m = Left(p, v)
  OBVIOUS
<1>4. l \in Nat /\ m \in Nat
  BY <1>2, <1>3, LeftNat
<1>5. PICK w, o : w = Upto(p, Cells(p)) /\ o = r.out
  OBVIOUS
<1>6. w \in Nat
  <2>1. Cells(p) \in 0 .. Cells(p)
    BY PayloadNumbers
  <2> QED BY <1>5, <2>1, PayloadNumbers
<1>7. l = w - o /\ m = w - (o + k)
  BY <1>3, <1>5 DEF Left
<1>8. m = l - k /\ m <= l
  BY <1>1, <1>4, <1>5, <1>6, <1>7
<1> QED BY <1>2, <1>3, <1>8 DEF Goes

(* A chain that has stopped on the way says so, and nothing is left of it  *)
(* if it is DecryptionSource that says it.                                 *)
LEMMA GoesWrong ==
  ASSUME NEW p \in Payload, Inflates(p), NEW r, Fits(p, r), NEW n \in Nat \ {0},
         NEW v, Fits(p, v), v.derr = TRUE, v.eof = r.eof,
         v.pos = r.pos, v.data = r.data, v.block = r.block
  PROVE  Goes(p, r, n, ERR, v)
<1>1. Left(p, v) = 0
  BY DEF Left
<1>2. PICK l \in Nat : l = Left(p, r)
  BY LeftNat
<1>3. Left(p, v) <= Left(p, r)
  BY <1>1, <1>2
<1> QED BY <1>3 DEF Goes

(* One more round does not take cells back.                                *)
LEMMA AtGrows ==
  ASSUME NEW p, Cells(p) \in Nat, NEW r, r.at \in 0 .. Cells(p), NEW i \in Nat
  PROVE  At(p, r, i) <= At(p, r, i + 1)
<1>1. PICK a, b, c, d : a = At(p, r, i) /\ b = At(p, r, i + 1) /\ c = i * CHUNK /\ d = (i + 1) * CHUNK
  OBVIOUS
<1>2. c \in Nat /\ d \in Nat /\ d >= c
  <2>1. d = c + CHUNK /\ CHUNK \in Nat
    BY <1>1, ChunkAssumption
  <2>2. c \in Nat
    BY <1>1, ChunkTimes
  <2> QED BY <2>1, <2>2
<1>3. PICK m, x : m = Cells(p) /\ x = r.at /\ m \in Nat /\ x \in 0 .. m
  OBVIOUS
<1>4. a = IF x + c < m THEN x + c ELSE m
  BY <1>1, <1>3 DEF At
<1>5. b = IF x + d < m THEN x + d ELSE m
  BY <1>1, <1>3 DEF At
<1>6. a <= b
  BY <1>2, <1>3, <1>4, <1>5
<1> QED BY <1>1, <1>6

(* inflate puts out no more than it was given.                             *)
LEMMA Inflated ==
  ASSUME NEW p \in Payload, Inflates(p), NEW r, Fits(p, r), ~r.derr, NEW n \in Nat \ {0},
         NEW i, i = Rounds(p, r, n),
         NEW k, k = IF Enough(p, r, n, i) THEN n ELSE Upto(p, Cells(p)) - r.out,
         NEW l, l = i \/ (l = i + 1 /\ ~Enough(p, r, n, i))
  PROVE  k \in 0 .. n /\ At(p, r, l) \in 0 .. Cells(p) /\ r.out + k <= Upto(p, At(p, r, l))
<1>1. PICK m \in Nat, s \in Nat : m = Cells(p) /\ s = p.stop
  BY PayloadNumbers
<1>2. PICK x, o \in Nat : x = r.at /\ o = r.out
  BY DEF Fits
<1>3. x \in 0 .. m /\ o <= Upto(p, x)
  BY <1>1, <1>2 DEF Fits
<1>4. i \in 1 .. m + 1 /\ (Enough(p, r, n, i) \/ Stopped(p, r, i))
  BY <1>1, <1>2, <1>3, RoundsIs
<1>5. PICK a, b : a = At(p, r, i) /\ b = At(p, r, l)
  OBVIOUS
<1>6. a \in 0 .. m /\ b \in 0 .. m /\ x <= a /\ a <= b
  <2>1. i \in Nat /\ i + 1 \in Nat /\ r.at \in 0 .. m
    BY <1>2, <1>3, <1>4
  <2>2. At(p, r, i) \in 0 .. m /\ x <= At(p, r, i)
    BY <1>1, <1>2, <2>1, AtType
  <2>3. At(p, r, i + 1) \in 0 .. m /\ At(p, r, i) <= At(p, r, i + 1)
    BY <1>1, <2>1, AtType, AtGrows
  <2> QED BY <1>5, <2>2, <2>3
<1>7. PICK w, u, t : w = Upto(p, m) /\ u = Upto(p, b) /\ t = Upto(p, a)
  OBVIOUS
<1>8. w \in Nat /\ u \in Nat /\ t \in Nat /\ t <= u /\ o <= w
  <2>1. m \in 0 .. m /\ Upto(p, x) \in Nat /\ Upto(p, x) <= w
    BY <1>1, <1>3, <1>7, PayloadNumbers
  <2>2. w \in Nat /\ u \in Nat /\ t \in Nat
    BY <1>1, <1>6, <1>7, <2>1, PayloadNumbers
  <2>3. t <= u
    BY <1>1, <1>6, <1>7 DEF Inflates
  <2> QED BY <1>3, <2>1, <2>2, <2>3
<1>9. CASE Enough(p, r, n, i)
  <2>1. k = n /\ l = i
    BY <1>9
  <2>2. o + n <= u
    BY <1>2, <1>5, <1>7, <1>9, <2>1 DEF Enough
  <2> QED BY <1>1, <1>2, <1>5, <1>6, <1>7, <2>1, <2>2
<1>10. CASE ~Enough(p, r, n, i)
  <2>1. k = w - o
    BY <1>1, <1>2, <1>7, <1>10
  <2>2. Stopped(p, r, i)
    BY <1>4, <1>10
  <2>3. t = w
    <3>1. CASE s <= m
      <4>1. s <= a
        BY <1>1, <1>5, <2>2, <3>1 DEF Stopped
      <4> QED BY <1>1, <1>6, <1>7, <4>1 DEF Inflates
    <3>2. CASE ~(s <= m)
      <4>1. x + (i - 1) * CHUNK >= m
        BY <1>1, <1>2, <2>2, <3>2 DEF Stopped
      <4>2. PICK j \in Nat : i = j + 1
        <5>1. i - 1 \in Nat /\ i = (i - 1) + 1
          BY <1>4
        <5> QED BY <5>1
      <4>3. x + j * CHUNK >= m
        BY <4>1, <4>2
      <4>4. At(p, r, j) = m /\ At(p, r, j) <= a
        BY <1>1, <1>2, <1>3, <1>5, <4>2, <4>3, AtType, AtGrows
      <4> QED BY <1>6, <1>7, <4>4
    <3> QED BY <3>1, <3>2
  <2>4. o + n > t
    <3>1. ~(o + n <= t)
      BY <1>2, <1>5, <1>7, <1>10 DEF Enough
    <3> QED BY <1>2, <1>8, <3>1
  <2>5. k \in 0 .. n /\ o + k <= u
    BY <1>2, <1>8, <2>1, <2>3, <2>4
  <2> QED BY <1>1, <1>2, <1>5, <1>6, <1>7, <2>5
<1> QED BY <1>9, <1>10

LEMMA InflateGoes ==
  ASSUME NEW p \in Payload, Inflates(p), NEW r, Fits(p, r), ~r.derr, NEW n \in Nat \ {0}
  PROVE  \E k, v : Inflate(p, r, n) = [n |-> k, r |-> v] /\ Goes(p, r, n, k, v)
<1> DEFINE i == Rounds(p, r, n)
           full == Enough(p, r, n, i)
           k == IF full THEN n ELSE Upto(p, Cells(p)) - r.out
           over == MaxInflated > 0 /\ r.out + k > MaxInflated
           fails == over \/ (~full /\ p.broken)
           last == IF ~full /\ k > 0 /\ ~fails THEN i + 1 ELSE i
           at == At(p, r, last)
           since == IF p.stop > At(p, r, last - 1) THEN p.stop ELSE At(p, r, last - 1)
           mem == r.at + last * CHUNK > Cells(p) \/ (p.memory /\ at = Cells(p))
           v == [r EXCEPT !.at = at, !.out = @ + k, !.srcEof = mem]
           a == [v EXCEPT !.zerr = TRUE, !.avail = ~full]
           b == [v EXCEPT !.avail = IF v.out = Upto(p, Cells(p)) /\ Stopped(p, r, i)
                                    THEN at > since ELSE Upto(p, at) > v.out]
<1>1. Inflate(p, r, n) = IF fails THEN [n |-> ERR, r |-> a] ELSE [n |-> k, r |-> b]
  BY Zenon DEF Inflate
<1>2. k \in 0 .. n /\ at \in 0 .. Cells(p) /\ r.out + k <= Upto(p, at)
  <2>1. last = i \/ (last = i + 1 /\ ~Enough(p, r, n, i))
    OBVIOUS
  <2> HIDE DEF last, i
  <2> QED BY <2>1, Inflated DEF i
<1>3. /\ IsChain(a) /\ a.derr = r.derr /\ a.eof = r.eof /\ a.pos = r.pos /\ a.data = r.data
      /\ a.block = r.block /\ a.at = at /\ a.out = r.out + k
  <2> HIDE DEF i, full, k, over, fails, last, at, since, mem
  <2> QED BY DEF Fits, IsChain, Fields
<1>4. /\ IsChain(b) /\ b.derr = r.derr /\ b.eof = r.eof /\ b.pos = r.pos /\ b.data = r.data
      /\ b.block = r.block /\ b.at = at /\ b.out = r.out + k
  <2> HIDE DEF i, full, k, over, fails, last, at, since, mem
  <2> QED BY DEF Fits, IsChain, Fields
<1> HIDE DEF i, full, k, over, fails, last, at, since, mem, v, a, b
<1>5. Goes(p, r, n, ERR, a)
  BY <1>2, <1>3, GoesOn
<1>6. Goes(p, r, n, k, b)
  BY <1>2, <1>4, GoesOn
<1> QED BY <1>1, <1>5, <1>6

(* The error that DecryptionSource notes stays.                            *)
LEMMA FailsInGoes ==
  ASSUME NEW p \in Payload, Inflates(p), NEW r, Fits(p, r), ~r.derr, NEW n \in Nat \ {0},
         NEW j \in Nat, NEW l, NEW d \in {r.derr, TRUE}
  PROVE  \E v : FailsIn(p, r, j, l, d) = [n |-> ERR, r |-> v] /\ Goes(p, r, n, ERR, v)
<1> DEFINE at == At(p, r, j)
           v == [r EXCEPT !.at = at, !.zerr = TRUE, !.fault = TRUE, !.lost = l, !.derr = d]
<1>1. FailsIn(p, r, j, l, d) = [n |-> ERR, r |-> v]
  BY DEF FailsIn
<1>2. /\ IsChain(v) /\ v.derr = d /\ v.eof = r.eof /\ v.pos = r.pos /\ v.data = r.data
      /\ v.block = r.block /\ v.at = at /\ v.out = r.out
  <2> HIDE DEF at
  <2> QED BY DEF Fits, IsChain, Fields
<1>3. at \in 0 .. Cells(p) /\ r.at \in 0 .. Cells(p) /\ r.at <= at /\ r.out \in Nat
  BY PayloadNumbers, AtType DEF Fits
<1> HIDE DEF v, at
<1>4. r.out <= Upto(p, at)
  <2>1. PICK x, y, z : x = r.out /\ y = Upto(p, r.at) /\ z = Upto(p, at)
    OBVIOUS
  <2>2. y \in Nat /\ z \in Nat
    BY <1>3, <2>1, PayloadNumbers
  <2>3. x <= y /\ x \in Nat
    BY <2>1 DEF Fits
  <2>4. y <= z
    BY <1>3, <2>1 DEF Inflates
  <2> QED BY <2>1, <2>2, <2>3, <2>4
<1>5. CASE d = r.derr
  <2>1. v.out = r.out + 0 /\ v.out <= Upto(p, v.at) /\ 0 \in 0 .. n
    BY <1>2, <1>3, <1>4
  <2>2. Goes(p, r, n, ERR, v)
    BY <1>2, <1>3, <1>5, <2>1, GoesOn
  <2> QED BY <1>1, <2>2
<1>6. CASE d = TRUE
  <2>1. Fits(p, v)
    BY <1>2, <1>6 DEF Fits
  <2>2. Goes(p, r, n, ERR, v)
    BY <1>2, <1>6, <2>1, GoesWrong
  <2> QED BY <1>1, <2>2
<1> QED BY <1>5, <1>6

(* An error that ZSource notes changes nothing else.                       *)
LEMMA ErrorGoes ==
  ASSUME NEW p \in Payload, Inflates(p), NEW r, Fits(p, r), NEW n \in Nat \ {0}, NEW k,
         NEW v, Goes(p, r, n, k, v)
  PROVE  Goes(p, r, n, ERR, [v EXCEPT !.zerr = TRUE])
<1>1. PICK w : w = [v EXCEPT !.zerr = TRUE]
  OBVIOUS
<1>2. /\ IsChain(w) /\ w.derr = v.derr /\ w.eof = v.eof /\ w.pos = v.pos /\ w.data = v.data
      /\ w.block = v.block /\ w.at = v.at /\ w.out = v.out
  BY <1>1 DEF Goes, Fits, IsChain, Fields
<1>3. Fits(p, w)
  BY <1>2 DEF Goes, Fits
<1>4. Left(p, w) = Left(p, v)
  BY <1>2 DEF Left
<1> QED BY <1>1, <1>2, <1>3, <1>4 DEF Goes

LEMMA NothingGoes ==
  ASSUME NEW p \in Payload, Inflates(p), NEW r, Fits(p, r), NEW n \in Nat \ {0}
  PROVE  Goes(p, r, n, ERR, r)
<1>1. Left(p, r) \in Nat
  BY LeftNat
<1>2. Left(p, r) <= Left(p, r)
  BY <1>1
<1> QED BY <1>2 DEF Goes

LEMMA ZReadGoes ==
  ASSUME NEW p \in Payload, Inflates(p), NEW r, Fits(p, r), NEW n \in Nat \ {0}, NEW f,
         NEW o \in ZRead(p, r, n, f)
  PROVE  \E k, v : o = [n |-> k, r |-> v] /\ Goes(p, r, n, k, v)
<1>1. CASE o = [n |-> ERR, r |-> [r EXCEPT !.zerr = TRUE]]
  BY <1>1, NothingGoes, ErrorGoes
<1>2. CASE o = Inflate(p, r, n) /\ ~r.derr
  BY <1>2, InflateGoes
<1>3. CASE o \in BrokenAhead(p, r, n) /\ ~r.derr
  <2>1. PICK k, v : Inflate(p, r, n) = [n |-> k, r |-> v] /\ Goes(p, r, n, k, v)
    BY <1>3, InflateGoes
  <2>2. o = [n |-> ERR, r |-> [v EXCEPT !.zerr = TRUE]]
    BY <1>3, <2>1 DEF BrokenAhead
  <2> QED BY <2>1, <2>2, ErrorGoes
<1>4. CASE o \in ReadFails(p, r, n) /\ ~r.derr
  <2> DEFINE A == 0 .. Rounds(p, r, n) - 1
             B == {r.lost, TRUE}
             C == {r.derr, TRUE}
  <2>1. ReadFails(p, r, n) = {FailsIn(p, r, j, l, d) : j \in A, l \in B, d \in C}
    BY DEF ReadFails
  <2>2. A \subseteq Nat
    OBVIOUS
  <2> HIDE DEF A, B
  <2>3. PICK j \in A, l \in B, d \in C : o = FailsIn(p, r, j, l, d)
    <3> HIDE DEF C
    <3> QED BY <1>4, <2>1
  <2> QED BY <1>4, <2>2, <2>3, FailsInGoes
<1> QED BY <1>1, <1>2, <1>3, <1>4 DEF ZRead

(* A read of the current file gets something, or meets the end.            *)
Reads(p, r, k, v) ==
  /\ Fits(p, v) /\ Left(p, v) <= Left(p, r)
  /\ \/ k = ERR
     \/ k = 0 /\ v.eof = TRUE
     \/ k \in Nat \ {0} /\ Left(p, v) < Left(p, r)

LEMMA TarReadGoes ==
  ASSUME NEW p \in Payload, Inflates(p), NEW r, Fits(p, r), NEW n \in Nat \ {0}, NEW f,
         NEW o \in TarRead(p, r, n, f)
  PROVE  \E k, v : o = [n |-> k, r |-> v] /\ Reads(p, r, k, v)
<1>1. CASE r.terr
  <2>1. o = [n |-> ERR, r |-> r]
    BY <1>1 DEF TarRead
  <2>2. Reads(p, r, ERR, r)
    BY NothingGoes DEF Goes, Reads
  <2> QED BY <2>1, <2>2
<1>2. CASE ~r.terr /\ r.pos >= r.data
  <2>1. PICK v : v = [r EXCEPT !.eof = TRUE]
    OBVIOUS
  <2>2. o = [n |-> 0, r |-> v]
    BY <1>2, <2>1 DEF TarRead
  <2>3. /\ IsChain(v) /\ v.derr = r.derr /\ v.eof = TRUE /\ v.pos = r.pos /\ v.data = r.data
        /\ v.block = r.block /\ v.at = r.at /\ v.out = r.out
    BY <2>1 DEF Fits, IsChain, Fields
  <2>4. Fits(p, v) /\ Left(p, v) = Left(p, r)
    BY <2>3 DEF Fits, Left
  <2>5. Left(p, v) <= Left(p, r)
    BY <2>4, LeftNat
  <2> QED BY <2>2, <2>3, <2>4, <2>5 DEF Reads
<1>3. CASE ~r.terr /\ ~(r.pos >= r.data)
  <2>1. PICK c : c = IF n < r.data - r.pos THEN n ELSE r.data - r.pos
    OBVIOUS
  <2>2. c \in Nat \ {0}
    <3>1. PICK x, y : x = r.pos /\ y = r.data
      OBVIOUS
    <3>2. x \in Int /\ y \in Int /\ ~(x >= y)
      BY <1>3, <3>1 DEF Fits
    <3>3. y - x \in Nat \ {0}
      BY <3>2
    <3> QED BY <2>1, <3>1, <3>3
  <2>3. PICK z \in ZRead(p, r, c, f) :
          o = CASE z.n > 0 -> [z EXCEPT !.r.pos = @ + z.n]
                [] z.n = 0 -> [z EXCEPT !.r.eof = TRUE]
                [] OTHER   -> z
    BY <1>3, <2>1 DEF TarRead
  <2>4. PICK k, w : z = [n |-> k, r |-> w] /\ Goes(p, r, c, k, w)
    BY <2>2, ZReadGoes
  <2>5. CASE k = ERR
    <3>1. z.n = -1 /\ ~(-1 > 0) /\ -1 # 0
      BY <2>4, <2>5 DEF ERR
    <3>2. o = z
      BY <2>3, <3>1
    <3>3. Reads(p, r, k, w)
      BY <2>4, <2>5 DEF Goes, Reads
    <3> QED BY <2>4, <3>2, <3>3
  <2>6. CASE k = 0
    <3>1. PICK v : v = [w EXCEPT !.eof = TRUE]
      OBVIOUS
    <3>2. z.n = 0 /\ ~(0 > 0)
      BY <2>4, <2>6
    <3>3. o = [z EXCEPT !.r.eof = TRUE]
      BY <2>3, <3>2
    <3>4. o = [n |-> k, r |-> v]
      BY <2>4, <3>1, <3>3
    <3>5. /\ IsChain(v) /\ v.derr = w.derr /\ v.eof = TRUE /\ v.pos = w.pos /\ v.data = w.data
          /\ v.block = w.block /\ v.at = w.at /\ v.out = w.out
      BY <2>4, <3>1 DEF Goes, Fits, IsChain, Fields
    <3>6. Fits(p, v) /\ Left(p, v) = Left(p, w)
      BY <2>4, <3>5 DEF Goes, Fits, Left
    <3>7. Reads(p, r, k, v)
      BY <2>4, <2>6, <3>5, <3>6 DEF Goes, Reads
    <3> QED BY <3>4, <3>7
  <2>7. CASE k # ERR /\ k # 0
    <3>1. k \in 1 .. c /\ k \in Nat \ {0}
      BY <2>2, <2>4, <2>7 DEF Goes
    <3>2. z.n = k /\ z.n > 0
      BY <2>4, <3>1
    <3>3. o = [z EXCEPT !.r.pos = @ + k]
      BY <2>3, <3>2
    <3>4. PICK v : v = [w EXCEPT !.pos = @ + k]
      OBVIOUS
    <3>5. o = [n |-> k, r |-> v]
      BY <2>4, <3>3, <3>4
    <3>6. /\ IsChain(v) /\ v.derr = w.derr /\ v.eof = w.eof /\ v.pos = w.pos + k /\ v.data = w.data
          /\ v.block = w.block /\ v.at = w.at /\ v.out = w.out
      BY <2>4, <3>4 DEF Goes, Fits, IsChain, Fields
    <3>7. v.pos \in Int
      BY <2>4, <3>1, <3>6 DEF Goes, Fits
    <3>8. Fits(p, v) /\ Left(p, v) = Left(p, w)
      BY <2>4, <3>6, <3>7 DEF Goes, Fits, Left
    <3>9. PICK x, y : x = Left(p, r) /\ y = Left(p, v)
      OBVIOUS
    <3>10. x \in Nat /\ y = x - k
      BY <2>4, <2>7, <3>8, <3>9, LeftNat DEF Goes
    <3>11. y <= x /\ y < x
      BY <3>1, <3>10
    <3>12. Reads(p, r, k, v)
      BY <3>1, <3>8, <3>9, <3>11 DEF Reads
    <3> QED BY <3>5, <3>12
  <2> QED BY <2>5, <2>6, <2>7
<1> QED BY <1>1, <1>2, <1>3

----------------------------------------------------------------------------
(* A round of next finds what it takes units to find, or ends the loop.    *)
FoundGoes(p, r, h) ==
  \E w, i, v :
    /\ h = Found(w, i, v) /\ Fits(p, v) /\ Left(p, v) <= Left(p, r)
    /\ w = "file" => Left(p, v) < Left(p, r)
    /\ w = "aux" => Left(p, v) < Left(p, r) /\ i \in Nat

LEMMA FailGoes ==
  ASSUME NEW p, NEW r, NEW v, Fits(p, v), Left(p, v) <= Left(p, r)
  PROVE  FoundGoes(p, r, Fail(v))
<1>1. PICK w : w = [v EXCEPT !.terr = TRUE]
  OBVIOUS
<1>2. /\ IsChain(w) /\ w.derr = v.derr /\ w.eof = v.eof /\ w.pos = v.pos /\ w.data = v.data
      /\ w.block = v.block /\ w.at = v.at /\ w.out = v.out
  BY <1>1 DEF Fits, IsChain, Fields
<1>3. Fits(p, w) /\ Left(p, w) = Left(p, v)
  BY <1>2 DEF Fits, Left
<1>4. Fail(v) = Found("fail", 0, w)
  BY <1>1 DEF Fail
<1> QED BY <1>3, <1>4 DEF FoundGoes

(* ZSource puts out what the archive has.                                  *)
LEMMA OutBound ==
  ASSUME NEW p \in Payload, Inflates(p), NEW r, Fits(p, r), ~r.derr
  PROVE  r.out \in Nat /\ Len(p.units) \in Nat /\ r.out <= Len(p.units)
<1>1. PICK x, y, z, l : /\ x = r.out /\ y = Upto(p, r.at) /\ z = Upto(p, Cells(p))
                        /\ l = Len(p.units)
  OBVIOUS
<1>2. x \in Nat /\ x <= y /\ r.at \in 0 .. Cells(p)
  BY <1>1 DEF Fits
<1>3. y \in Nat /\ y <= z
  BY <1>1, <1>2, PayloadNumbers
<1>4. z \in Nat
  <2>1. Cells(p) \in 0 .. Cells(p)
    BY PayloadNumbers
  <2> QED BY <1>1, <2>1, PayloadNumbers
<1>5. l \in Nat /\ z <= l
  BY <1>1, PayloadNumbers DEF Inflates
<1>6. x <= l
  BY <1>2, <1>3, <1>4, <1>5
<1> QED BY <1>1, <1>2, <1>5, <1>6

(* A header that was found names a file.                                   *)
LEMMA HeadNames ==
  ASSUME NEW p \in Payload, Inflates(p), NEW q \in Nat, q + Block <= Len(p.units),
         BlockAt(p, q) = "head"
  PROVE  p.units[q + Block].f \in DOMAIN p.sizes
<1>1. Block \in Nat \ {0} /\ Len(p.units) \in Nat /\ p.units \in Seq(Unit)
  BY BlockAssumption, PayloadNumbers
<1>2. PICK u : u = p.units[q + 1]
  OBVIOUS
<1>3. u \in Unit
  BY <1>1, <1>2
<1>4. u.k = "head" /\ p.units[q + Block] = [u EXCEPT !.i = Block]
  <2>1. \A i \in 1 .. Block : p.units[q + i] = [u EXCEPT !.i = i]
    BY <1>2 DEF BlockAt
  <2>2. u.k = "head"
    BY <1>2 DEF BlockAt
  <2>3. Block \in 1 .. Block
    BY <1>1
  <2> QED BY <2>1, <2>2, <2>3
<1>5. p.units[q + Block].k = "head"
  BY <1>3, <1>4 DEF Unit
<1>6. q + Block \in DOMAIN p.units
  BY <1>1
<1>7. \A i \in DOMAIN p.units : p.units[i].k = "head" => p.units[i].f \in DOMAIN p.sizes
  BY Zenon DEF Inflates
<1> QED BY <1>5, <1>6, <1>7, Zenon

LEMMA OpenFileGoes ==
  ASSUME NEW p \in Payload, Inflates(p), NEW r, NEW v, Fits(p, v), Left(p, v) < Left(p, r),
         Left(p, v) <= Left(p, r),
         p.units[v.out].f \in DOMAIN p.sizes, NEW h \in OpenFile(p, v)
  PROVE  FoundGoes(p, r, h)
<1>1. PICK i : i = p.units[v.out].f
  OBVIOUS
<1>2. PICK s, d, b, l : /\ s = p.sizes[i] /\ l = Len(p.units)
                        /\ d = IF s < 0 THEN l + 1 ELSE s
                        /\ b = s + Padding(s)
  OBVIOUS
<1>3. s \in Int /\ l \in Nat
  <2>1. p.sizes \in Seq(Int) /\ Len(p.units) \in Nat
    BY PayloadNumbers, Zenon
  <2>2. i \in DOMAIN p.sizes
    BY <1>1
  <2>3. p.sizes[i] \in Int
    BY <2>1, <2>2
  <2> QED BY <1>2, <2>1, <2>3, Zenon
<1>4. d \in Int /\ b \in Int
  <2>1. PICK x : x = (s + Block - 1) \div Block
    OBVIOUS
  <2>2. Block \in Nat \ {0}
    BY BlockAssumption
  <2>3. x \in Int
    BY <1>3, <2>1, <2>2
  <2>4. Block * x \in Int
    BY <2>2, <2>3
  <2>5. Padding(s) = Block * x - s
    BY <2>1 DEF Padding
  <2>6. b \in Int
    BY <1>2, <1>3, <2>4, <2>5
  <2> QED BY <1>2, <1>3, <2>6
<1>5. PICK w : w = [v EXCEPT !.pos = 0, !.data = d, !.block = b, !.eof = FALSE]
  OBVIOUS
<1>6. h = Found("file", i, w)
  BY <1>1, <1>2, <1>5 DEF OpenFile
<1>7. /\ IsChain(w) /\ w.derr = v.derr /\ w.eof = FALSE /\ w.pos = 0 /\ w.data = d
      /\ w.block = b /\ w.at = v.at /\ w.out = v.out
  BY <1>5 DEF Fits, IsChain, Fields
<1>8. Fits(p, w)
  <2>1. w.pos \in Int /\ w.data \in Int /\ w.block \in Int /\ w.eof \in BOOLEAN
    <3>1. w.eof \in BOOLEAN
      BY <1>7
    <3>2. w.pos \in Int
      BY <1>7
    <3>3. w.data \in Int /\ w.block \in Int
      BY <1>4, <1>7
    <3> QED BY <3>1, <3>2, <3>3
  <2>2. /\ IsChain(w) /\ w.derr \in BOOLEAN
        /\ ~w.derr => w.at \in 0 .. Cells(p) /\ w.out \in Nat /\ w.out <= Upto(p, w.at)
    BY <1>7 DEF Fits
  <2> QED BY <2>1, <2>2 DEF Fits
<1>9. Left(p, w) = Left(p, v)
  BY <1>7 DEF Left
<1> QED BY <1>6, <1>8, <1>9 DEF FoundGoes

(* A read that gets all it asked for has taken it from the archive.        *)
Gets(p, r, n, v) ==
  /\ Left(p, v) < Left(p, r) /\ r.out \in Nat /\ v.out = r.out + n
  /\ Len(p.units) \in Nat /\ v.out <= Len(p.units)

LEMMA ZReadGets ==
  ASSUME NEW p \in Payload, Inflates(p), NEW r, Fits(p, r), NEW n \in Nat \ {0}, NEW f,
         NEW o \in ZRead(p, r, n, f)
  PROVE  \E k, v : /\ o = [n |-> k, r |-> v] /\ Fits(p, v) /\ Left(p, v) <= Left(p, r)
                   /\ k = n => Gets(p, r, n, v)
<1>1. PICK k, v : o = [n |-> k, r |-> v] /\ Goes(p, r, n, k, v)
  BY ZReadGoes
<1>2. Fits(p, v) /\ Left(p, v) <= Left(p, r)
  BY <1>1 DEF Goes
<1>3. ASSUME k = n PROVE Gets(p, r, n, v)
  <2>1. k # ERR
    BY <1>3 DEF ERR
  <2>2. ~r.derr /\ ~v.derr /\ v.out = r.out + n /\ Left(p, v) = Left(p, r) - n
    BY <1>1, <1>3, <2>1 DEF Goes
  <2>3. PICK x \in Nat : x = Left(p, r)
    BY LeftNat
  <2>4. Left(p, v) < Left(p, r)
    BY <2>2, <2>3
  <2>5. r.out \in Nat
    BY <2>2 DEF Fits
  <2>6. Len(p.units) \in Nat /\ v.out <= Len(p.units)
    BY <1>2, <2>2, OutBound
  <2> QED BY <2>2, <2>4, <2>5, <2>6 DEF Gets
<1> QED BY <1>1, <1>2, <1>3

(* What is left only falls.                                                *)
LEMMA LeftFalls ==
  ASSUME NEW p \in Payload, Inflates(p), NEW r, Fits(p, r), NEW u, Fits(p, u), NEW v, Fits(p, v),
         Left(p, u) <= Left(p, r), Left(p, v) <= Left(p, u)
  PROVE  /\ Left(p, v) <= Left(p, r)
         /\ Left(p, u) < Left(p, r) \/ Left(p, v) < Left(p, u) => Left(p, v) < Left(p, r)
<1>1. PICK x, y, z : x = Left(p, r) /\ y = Left(p, u) /\ z = Left(p, v)
  OBVIOUS
<1>2. x \in Nat /\ y \in Nat /\ z \in Nat
  BY <1>1, LeftNat
<1>3. z <= x /\ (y < x \/ z < y => z < x)
  BY <1>1, <1>2
<1> QED BY <1>1, <1>3

LEMMA AfterNullGoes ==
  ASSUME NEW p \in Payload, Inflates(p), NEW r, Fits(p, r), NEW u, Fits(p, u),
         Left(p, u) <= Left(p, r), NEW f, NEW h, AfterNull(p, u, f, h)
  PROVE  FoundGoes(p, r, h)
<1>1. PICK z \in ZRead(p, u, Block, f) :
        \/ h = Found("end", 0, [z.r EXCEPT !.eof = TRUE])
        \/ h = Fail(z.r)
  BY DEF AfterNull
<1>2. PICK v : z.r = v /\ Fits(p, v) /\ Left(p, v) <= Left(p, u)
  BY BlockAssumption, ZReadGets
<1>3. Left(p, v) <= Left(p, r)
  BY <1>2, LeftFalls
<1>4. CASE h = Fail(v)
  BY <1>2, <1>3, <1>4, FailGoes
<1>5. CASE h = Found("end", 0, [v EXCEPT !.eof = TRUE])
  <2>1. PICK w : w = [v EXCEPT !.eof = TRUE]
    OBVIOUS
  <2>2. /\ IsChain(w) /\ w.derr = v.derr /\ w.eof = TRUE /\ w.pos = v.pos /\ w.data = v.data
        /\ w.block = v.block /\ w.at = v.at /\ w.out = v.out
    BY <1>2, <2>1 DEF Fits, IsChain, Fields
  <2>3. Fits(p, w)
    BY <1>2, <2>2 DEF Fits
  <2>4. Left(p, w) = Left(p, v)
    BY <2>2 DEF Left
  <2>5. h = Found("end", 0, w) /\ "end" # "file" /\ "end" # "aux"
    BY <1>5, <2>1
  <2> QED BY <1>3, <2>3, <2>4, <2>5 DEF FoundGoes
<1> QED BY <1>1, <1>2, <1>4, <1>5

LEMMA NoErrorFits ==
  ASSUME NEW p, NEW v, Fits(p, v)
  PROVE  Fits(p, NoError(v)) /\ Left(p, NoError(v)) = Left(p, v) /\ NoError(v).out = v.out
<1>1. PICK c : c = NoError(v)
  OBVIOUS
<1>2. /\ c.derr = v.derr /\ c.eof = v.eof /\ c.pos = v.pos /\ c.data = v.data
      /\ c.block = v.block /\ c.at = v.at /\ c.out = v.out /\ IsChain(c)
  BY <1>1, NoErrorChain DEF NoError, Fits, IsChain, Fields
<1>3. Fits(p, c) /\ Left(p, c) = Left(p, v)
  BY <1>2 DEF Fits, Left
<1> QED BY <1>1, <1>2, <1>3

LEMMA AfterPaxGoes ==
  ASSUME NEW p \in Payload, Inflates(p), NEW r, Fits(p, r), NEW u, Fits(p, u),
         Left(p, u) <= Left(p, r), NEW f, NEW h, AfterPax(p, u, f, h)
  PROVE  FoundGoes(p, r, h)
<1>1. Block \in Nat \ {0} /\ Padding(1) \in Nat
  BY BlockAssumption, PaddingNat
<1>2. PICK y \in ZRead(p, u, 1, f) :
        \/ h = Fail(y.r)
        \/ \E w : /\ \/ w = y.r
                     \/ Padding(1) # 0 /\ \E x \in ZRead(p, y.r, Padding(1), f) : w = x.r
                  /\ \/ h = Fail(w)
                     \/ \E z \in ZRead(p, w, Block, f) :
                          \/ h = Fail(z.r)
                          \/ /\ z.n = Block /\ BlockAt(p, w.out) = "head"
                             /\ h \in OpenFile(p, NoError(z.r))
  BY DEF AfterPax
<1>3. PICK v : y.r = v /\ Fits(p, v) /\ Left(p, v) <= Left(p, u)
  BY ZReadGets
<1>4. Left(p, v) <= Left(p, r)
  BY <1>3, LeftFalls
<1>5. CASE h = Fail(v)
  BY <1>3, <1>4, <1>5, FailGoes
<1>6. ASSUME NEW w, w = v \/ (Padding(1) # 0 /\ \E x \in ZRead(p, v, Padding(1), f) : w = x.r),
             \/ h = Fail(w)
             \/ \E z \in ZRead(p, w, Block, f) :
                  \/ h = Fail(z.r)
                  \/ /\ z.n = Block /\ BlockAt(p, w.out) = "head"
                     /\ h \in OpenFile(p, NoError(z.r))
      PROVE  FoundGoes(p, r, h)
  <2>1. Fits(p, w) /\ Left(p, w) <= Left(p, r)
    <3>1. CASE w = v
      BY <1>3, <1>4, <3>1
    <3>2. CASE Padding(1) # 0 /\ \E x \in ZRead(p, v, Padding(1), f) : w = x.r
      <4>1. PICK c : c = Padding(1) /\ c \in Nat \ {0}
        BY <1>1, <3>2
      <4>2. PICK x \in ZRead(p, v, c, f) : w = x.r
        BY <3>2, <4>1
      <4>3. Fits(p, w) /\ Left(p, w) <= Left(p, v)
        BY <1>3, <4>1, <4>2, ZReadGets
      <4> QED BY <1>3, <1>4, <4>3, LeftFalls
    <3> QED BY <1>6, <3>1, <3>2
  <2>2. CASE h = Fail(w)
    BY <2>1, <2>2, FailGoes
  <2>3. CASE \E z \in ZRead(p, w, Block, f) :
               \/ h = Fail(z.r)
               \/ z.n = Block /\ BlockAt(p, w.out) = "head" /\ h \in OpenFile(p, NoError(z.r))
    <3>1. PICK z \in ZRead(p, w, Block, f) :
            \/ h = Fail(z.r)
            \/ z.n = Block /\ BlockAt(p, w.out) = "head" /\ h \in OpenFile(p, NoError(z.r))
      BY <2>3
    <3>2. PICK k, x : /\ z = [n |-> k, r |-> x] /\ Fits(p, x) /\ Left(p, x) <= Left(p, w)
                      /\ k = Block => Gets(p, w, Block, x)
      BY <1>1, <2>1, ZReadGets
    <3>3. /\ Left(p, x) <= Left(p, r)
          /\ Left(p, x) < Left(p, w) => Left(p, x) < Left(p, r)
      BY <2>1, <3>2, LeftFalls
    <3>4. CASE h = Fail(x)
      BY <3>2, <3>3, <3>4, FailGoes
    <3>5. CASE k = Block /\ BlockAt(p, w.out) = "head" /\ h \in OpenFile(p, NoError(x))
      <4>1. Left(p, x) < Left(p, r)
        BY <3>2, <3>3, <3>5 DEF Gets
      <4>2. PICK q : q = w.out /\ q \in Nat /\ x.out = q + Block /\ q + Block <= Len(p.units)
        BY <3>2, <3>5 DEF Gets
      <4>3. p.units[x.out].f \in DOMAIN p.sizes
        BY <3>5, <4>2, HeadNames
      <4>4. PICK c : c = NoError(x) /\ h \in OpenFile(p, c)
        BY <3>5
      <4>5. Fits(p, c) /\ Left(p, c) = Left(p, x) /\ c.out = x.out
        BY <3>2, <4>4, NoErrorFits
      <4> QED BY <3>3, <4>1, <4>3, <4>4, <4>5, OpenFileGoes
    <3> QED BY <3>1, <3>2, <3>4, <3>5
  <2> QED BY <1>6, <2>2, <2>3
<1> QED BY <1>2, <1>3, <1>5, <1>6

LEMMA NextHeaderGoes ==
  ASSUME NEW p \in Payload, Inflates(p), NEW r, Fits(p, r), NEW f, NEW h \in NextHeader(p, r, f)
  PROVE  FoundGoes(p, r, h)
<1>1. Block \in Nat \ {0}
  BY BlockAssumption
<1>2. CASE ZEof(r) /\ h = Found("end", 0, r)
  <2>1. Left(p, r) <= Left(p, r)
    BY LeftNat
  <2> QED BY <1>2, <2>1 DEF FoundGoes
<1>3. ASSUME NEW o \in ZRead(p, r, Block, f),
             \/ h = Fail(o.r)
             \/ o.n = Block /\ AfterBlock(p, BlockAt(p, r.out), o.r, f, h)
      PROVE  FoundGoes(p, r, h)
  <2>1. PICK k, v : /\ o = [n |-> k, r |-> v] /\ Fits(p, v) /\ Left(p, v) <= Left(p, r)
                    /\ k = Block => Gets(p, r, Block, v)
    BY <1>1, ZReadGets
  <2>2. CASE h = Fail(v)
    BY <2>1, <2>2, FailGoes
  <2>3. CASE k = Block /\ AfterBlock(p, BlockAt(p, r.out), v, f, h)
    <3>1. PICK q : q = r.out /\ q \in Nat /\ v.out = q + Block /\ q + Block <= Len(p.units)
                   /\ Left(p, v) < Left(p, r) /\ Len(p.units) \in Nat
      BY <2>1, <2>3 DEF Gets
    <3>2. CASE AfterNull(p, v, f, h)
      BY <2>1, <3>2, AfterNullGoes
    <3>3. CASE AfterPax(p, v, f, h)
      BY <2>1, <3>3, AfterPaxGoes
    <3>4. CASE BlockAt(p, q) = "head" /\ h \in OpenFile(p, v)
      <4>1. p.units[v.out].f \in DOMAIN p.sizes
        BY <3>1, <3>4, HeadNames
      <4> QED BY <2>1, <3>1, <3>4, <4>1, OpenFileGoes
    <3>5. CASE h = Found("aux", p.units[v.out].f, v)
      <4>1. PICK i : i = p.units[v.out].f
        OBVIOUS
      <4>2. i \in Nat
        <5>1. v.out \in 1 .. Len(p.units) /\ p.units \in Seq(Unit)
          BY <1>1, <3>1, PayloadNumbers
        <5>2. p.units[v.out] \in Unit
          BY <5>1
        <5> QED BY <4>1, <5>2 DEF Unit
      <4> QED BY <2>1, <3>1, <3>5, <4>1, <4>2 DEF FoundGoes
    <3> QED BY <2>2, <2>3, <3>1, <3>2, <3>3, <3>4, <3>5 DEF AfterBlock
  <2> QED BY <1>3, <2>1, <2>2, <2>3
<1> QED BY <1>2, <1>3, NextHeaderIs

----------------------------------------------------------------------------
(* The steps.                                                              *)

(* Garbled and Missing are payloads, too.                                  *)
LEMMA GarbledInflates ==
  ASSUME NEW p \in Payload
  PROVE  Garbled(p) \in Payload /\ Inflates(Garbled(p))
<1>1. PICK q, u : /\ u = [c \in DOMAIN p.upto |-> 0] /\ q = Garbled(p)
  OBVIOUS
<1>2. p.upto \in Seq(Nat) /\ p.sizes \in Seq(Int) /\ p.memory \in BOOLEAN
  BY DEF Payload
<1>3. u \in Seq(Nat) /\ \A c \in 1 .. Len(u) : u[c] = 0
  BY <1>1, <1>2
<1>4. q = [p EXCEPT !.units = <<>>, !.upto = u, !.stop = 1, !.broken = TRUE, !.intact = FALSE]
  BY <1>1 DEF Garbled
<1>5. q \in Payload /\ q.units = <<>> /\ q.upto = u
  <2>1. <<>> \in Seq(Unit) /\ 1 \in Nat
    OBVIOUS
  <2> QED BY <1>3, <1>4, <2>1 DEF Payload
<1>6. \A c \in 0 .. Cells(q) : Upto(q, c) = 0
  BY <1>3, <1>5 DEF Cells, Upto
<1>7. Cells(q) \in 0 .. Cells(q) /\ Len(q.units) = 0 /\ DOMAIN q.units = {}
  BY <1>3, <1>5 DEF Cells
<1>8. Inflates(q)
  BY <1>6, <1>7 DEF Inflates
<1> QED BY <1>1, <1>5, <1>8

LEMMA MissingInflates ==
  ASSUME NEW p \in Payload, Inflates(p), NEW c \in 0 .. Cells(p)
  PROVE  /\ Missing(p, c) \in Payload /\ Inflates(Missing(p, c))
         /\ Cells(Missing(p, c)) = Cells(p)
         /\ \A b \in c .. Cells(p) : Upto(Missing(p, c), b) = Upto(p, c) \/ Missing(p, c) = p
<1>1. CASE p.stop <= c
  BY <1>1 DEF Missing
<1>2. CASE ~(p.stop <= c)
  <2>1. PICK m, u, q : /\ m = Cells(p) /\ u = [i \in DOMAIN p.upto |-> Upto(p, IF i < c THEN i ELSE c)]
                       /\ q = Missing(p, c)
    OBVIOUS
  <2>2. m \in Nat /\ c \in 0 .. m /\ p.upto \in Seq(Nat) /\ DOMAIN p.upto = 1 .. m
    BY <2>1, PayloadNumbers DEF Payload, Cells
  <2>3. \A i \in 0 .. m : Upto(p, i) \in Nat
    BY <2>1, PayloadNumbers
  <2>4. \A i \in 1 .. m : u[i] = Upto(p, IF i < c THEN i ELSE c) /\ u[i] \in Nat
    BY <2>1, <2>2, <2>3
  <2>5. u \in Seq(Nat) /\ Len(u) = m
    <3>1. u \in [1 .. m -> Nat]
      BY <2>1, <2>2, <2>4
    <3> QED BY <2>2, <3>1
  <2>6. q = [p EXCEPT !.upto = u, !.stop = c + 1, !.broken = TRUE]
    BY <1>2, <2>1 DEF Missing
  <2>7. /\ q \in Payload /\ q.upto = u /\ q.stop = c + 1 /\ q.units = p.units /\ q.sizes = p.sizes
    <3>1. c + 1 \in Nat
      BY <2>2
    <3> QED BY <2>5, <2>6, <3>1 DEF Payload
  <2>8. Cells(q) = m
    BY <2>5, <2>7 DEF Cells
  <2>9. \A i \in 0 .. m : Upto(q, i) = Upto(p, IF i < c THEN i ELSE c)
    BY <2>2, <2>4, <2>7 DEF Upto
  <2>10. \A i \in c .. m : Upto(q, i) = Upto(p, c)
    BY <2>2, <2>9
  <2>11. \A i, j \in 0 .. m : i <= j => Upto(q, i) <= Upto(q, j)
    <3> SUFFICES ASSUME NEW i \in 0 .. m, NEW j \in 0 .. m, i <= j PROVE Upto(q, i) <= Upto(q, j)
      OBVIOUS
    <3>1. PICK k, l : k = (IF i < c THEN i ELSE c) /\ l = (IF j < c THEN j ELSE c)
      OBVIOUS
    <3>2. k \in 0 .. m /\ l \in 0 .. m /\ k <= l
      BY <2>2, <3>1
    <3>3. Upto(q, i) = Upto(p, k) /\ Upto(q, j) = Upto(p, l)
      BY <2>9, <3>1
    <3>4. Upto(p, k) <= Upto(p, l)
      BY <2>1, <3>2 DEF Inflates
    <3> QED BY <3>3, <3>4
  <2>12. \A i \in 0 .. m : q.stop <= i => Upto(q, i) = Upto(q, m)
    <3>1. \A i \in 0 .. m : c + 1 <= i => i \in c .. m /\ m \in c .. m
      BY <2>2
    <3> QED BY <2>7, <2>10, <3>1
  <2>13. Upto(q, m) <= Len(q.units)
    <3>1. Upto(q, m) = Upto(p, c) /\ Upto(p, c) <= Upto(p, m) /\ Upto(p, m) <= Len(p.units)
      <4>1. m \in c .. m
        BY <2>2
      <4>2. Upto(p, c) <= Upto(p, m)
        BY <2>1, <2>2, PayloadNumbers
      <4> QED BY <2>1, <2>10, <4>1, <4>2 DEF Inflates
    <3>2. PICK x, y, z : x = Upto(p, c) /\ y = Upto(p, m) /\ z = Len(p.units)
      OBVIOUS
    <3>3. x \in Nat /\ y \in Nat /\ z \in Nat
      <4>1. m \in 0 .. m
        BY <2>2
      <4> QED BY <2>2, <2>3, <3>2, <4>1, PayloadNumbers
    <3> QED BY <2>7, <3>1, <3>2, <3>3
  <2>14. Inflates(q)
    BY <2>7, <2>8, <2>11, <2>12, <2>13 DEF Inflates
  <2> QED BY <2>1, <2>7, <2>8, <2>10, <2>14
<1> QED BY <1>1, <1>2

(* A call that has returned, or crashed, leaves a chain that fits.         *)
LEMMA Stays ==
  ASSUME stream' \in Streams, view' \in Payload, Inflates(view'), Fits(view', chain'),
         pc' \in {"idle", "crashed", "copy", "header"}
  PROVE  LoopInv'
BY DEF LoopInv, Running

LEMMA CheckStays ==
  ASSUME LoopInv, NEW o, NEW r, Fits(view, r), CheckIntegrity(o, r)
  PROVE  LoopInv' /\ pc' \in {"idle", "crashed"}
<1>1. PICK p : p = view
  OBVIOUS
<1>2. p \in Payload /\ Inflates(p) /\ Fits(p, r) /\ stream \in Streams
  BY <1>1 DEF LoopInv
<1>3. CASE chain' = r /\ stream' = stream /\ view' = view /\ pc' = "idle"
  BY <1>1, <1>2, <1>3, Stays
<1>4. CASE /\ ~r.derr /\ stream' = stream /\ view' = view /\ pc' \in {"idle", "crashed"}
           /\ chain' = [r EXCEPT !.at = Cells(view)]
  <2>1. PICK w : w = [r EXCEPT !.at = Cells(p)]
    OBVIOUS
  <2>2. /\ IsChain(w) /\ w.derr = r.derr /\ w.eof = r.eof /\ w.pos = r.pos /\ w.data = r.data
        /\ w.block = r.block /\ w.at = Cells(p) /\ w.out = r.out
    BY <1>2, <2>1 DEF Fits, IsChain, Fields
  <2>3. w.at \in 0 .. Cells(p) /\ r.at \in 0 .. Cells(p) /\ r.out \in Nat /\ r.out <= Upto(p, r.at)
    BY <1>2, <1>4, <2>2, PayloadNumbers DEF Fits
  <2>4. PICK x, y, z : x = r.out /\ y = Upto(p, r.at) /\ z = Upto(p, w.at)
    OBVIOUS
  <2>5. x \in Nat /\ y \in Nat /\ z \in Nat /\ x <= y /\ y <= z
    BY <1>2, <2>2, <2>3, <2>4, PayloadNumbers
  <2>6. w.out <= Upto(p, w.at)
    BY <2>2, <2>4, <2>5
  <2>7. Fits(p, w)
    BY <1>2, <2>2, <2>3, <2>6 DEF Fits
  <2> QED BY <1>1, <1>2, <1>4, <2>1, <2>7, Stays
<1>5. CASE /\ ~r.derr /\ stream' = stream /\ pc' = "idle"
           /\ \E at \in r.at .. Cells(view), lost \in {r.lost, TRUE}, derr \in BOOLEAN :
                /\ chain' = [r EXCEPT !.at = at, !.lost = lost, !.derr = derr, !.fault = TRUE]
                /\ view' = IF at = r.at /\ ~lost THEN view ELSE Missing(view, r.at)
  <2>1. PICK at \in r.at .. Cells(p), lost \in {r.lost, TRUE}, derr \in BOOLEAN :
          /\ chain' = [r EXCEPT !.at = at, !.lost = lost, !.derr = derr, !.fault = TRUE]
          /\ view' = IF at = r.at /\ ~lost THEN p ELSE Missing(p, r.at)
    BY <1>1, <1>5
  <2>2. PICK w : w = chain'
    OBVIOUS
  <2>3. /\ IsChain(w) /\ w.derr = derr /\ w.eof = r.eof /\ w.pos = r.pos /\ w.data = r.data
        /\ w.block = r.block /\ w.at = at /\ w.out = r.out
    BY <1>2, <2>1, <2>2 DEF Fits, IsChain, Fields
  <2>4. PICK c : c = r.at /\ c \in 0 .. Cells(p) /\ r.out \in Nat /\ r.out <= Upto(p, c)
    BY <1>2, <1>5 DEF Fits
  <2>5. Cells(p) \in Nat /\ at \in c .. Cells(p) /\ at \in 0 .. Cells(p)
    BY <1>2, <2>4, PayloadNumbers
  <2>6. CASE view' = p /\ at = c
    <3>1. Fits(p, w)
      BY <1>2, <2>3, <2>4, <2>6 DEF Fits
    <3> QED BY <1>2, <1>5, <2>2, <2>6, <3>1, Stays
  <2>7. CASE view' = Missing(p, c)
    <3>1. PICK q : q = Missing(p, c)
      OBVIOUS
    <3>2. /\ q \in Payload /\ Inflates(q) /\ Cells(q) = Cells(p)
          /\ Upto(q, at) = Upto(p, c) \/ q = p
      BY <1>2, <2>4, <2>5, <3>1, MissingInflates
    <3>3. r.out <= Upto(q, at)
      <4>1. CASE Upto(q, at) = Upto(p, c)
        BY <2>4, <4>1
      <4>2. CASE q = p
        <5>1. PICK x, y, z : x = r.out /\ y = Upto(p, c) /\ z = Upto(p, at)
          OBVIOUS
        <5>2. x \in Nat /\ y \in Nat /\ z \in Nat /\ x <= y
          BY <1>2, <2>4, <2>5, <5>1, PayloadNumbers
        <5>3. y <= z
          BY <1>2, <2>4, <2>5, <5>1 DEF Inflates
        <5> QED BY <4>2, <5>1, <5>2, <5>3
      <4> QED BY <3>2, <4>1, <4>2
    <3>4. Fits(q, w)
      BY <1>2, <2>3, <2>4, <2>5, <3>2, <3>3 DEF Fits
    <3> QED BY <1>2, <1>5, <2>2, <2>7, <3>1, <3>2, <3>4, Stays
  <2> QED BY <2>1, <2>4, <2>6, <2>7
<1> QED BY <1>3, <1>4, <1>5 DEF CheckIntegrity, Crash, Return

(* A step of a loop after which the call goes on.                          *)
Descends == LoopInv' /\ (pc' \in Running => Lowers)

LEMMA EndDescends ==
  ASSUME LoopInv', pc' \in {"idle", "crashed"}
  PROVE  Descends
BY DEF Descends, Running

LEMMA RankType ==
  ASSUME LoopInv
  PROVE  RoundsLeft \in Nat
BY DEF LoopInv, RoundsLeft, Running

(* Less is left to put out.                                                *)
LEMMA OutputDescends ==
  ASSUME LoopInv', OutputLeft' < OutputLeft
  PROVE  Descends
BY DEF Descends, Lowers

(* Not more is left, and the loop is nearer to its end.                    *)
LEMMA RoundDescends ==
  ASSUME LoopInv, LoopInv', OutputLeft' <= OutputLeft, RoundsLeft' < RoundsLeft
  PROVE  Descends
<1>1. OutputLeft \in Nat
  BY LeftNat DEF LoopInv, OutputLeft
<1>2. OutputLeft' \in Nat
  BY LeftNat DEF LoopInv, OutputLeft
<1> QED BY <1>1, <1>2 DEF Descends, Lowers

LEMMA UseFreedDescends ==
  ASSUME LoopInv, NEW o, UseFreed(o)
  PROVE  Descends
<1>1. stream' = stream /\ view' = view /\ chain' = chain /\ pc' = "crashed"
  BY DEF UseFreed, Crash
<1>2. LoopInv'
  BY <1>1 DEF LoopInv, Running
<1> QED BY <1>1, <1>2, EndDescends

LEMMA FinishDescends ==
  ASSUME LoopInv, NEW o, NEW r, Fits(view, r), Finish(o, r)
  PROVE  Descends
<1>1. stream' = stream /\ view' = view /\ chain' = r /\ pc' = "idle"
  BY DEF Finish, Return
<1>2. LoopInv'
  BY <1>1, Stays DEF LoopInv
<1> QED BY <1>1, <1>2, EndDescends

(* The amount of a round of skip.                                          *)
LEMMA AskedType ==
  ASSUME NEW t \in Nat \ {0}
  PROVE  (IF t < BUFFER THEN t ELSE BUFFER) \in 1 .. t
BY InputAssumption

LEMMA AtBlockFits ==
  ASSUME NEW p, NEW r, Fits(p, r)
  PROVE  /\ Fits(p, AtBlock(r)) /\ Left(p, AtBlock(r)) = Left(p, r)
         /\ Fits(p, [AtBlock(r) EXCEPT !.terr = TRUE])
<1>1. PICK v, w : v = AtBlock(r) /\ w = [v EXCEPT !.terr = TRUE]
  OBVIOUS
<1>2. /\ IsChain(v) /\ v.derr = r.derr /\ v.eof = r.eof /\ v.pos = 0 /\ v.data = 0
      /\ v.block = 0 /\ v.at = r.at /\ v.out = r.out
  BY <1>1 DEF Fits, IsChain, Fields, AtBlock
<1>3. /\ IsChain(w) /\ w.derr = v.derr /\ w.eof = v.eof /\ w.pos = v.pos /\ w.data = v.data
      /\ w.block = v.block /\ w.at = v.at /\ w.out = v.out
  BY <1>1, <1>2 DEF IsChain, Fields
<1>4. 0 \in Int
  OBVIOUS
<1>5. Fits(p, v)
  BY <1>2, <1>4 DEF Fits
<1>6. Left(p, v) = Left(p, r)
  BY <1>2 DEF Left
<1>7. Fits(p, w)
  BY <1>3, <1>5 DEF Fits
<1> QED BY <1>1, <1>5, <1>6, <1>7

(* A round of skip, of either kind, that returned v.                       *)
LEMMA SkipDescends ==
  ASSUME LoopInv, pc \in {"skip", "skipAux"}, stream' = stream, view' = view,
         NEW asked \in 1 .. todo, NEW k, NEW v, Fits(view, v), Left(view, v) <= Left(view, chain),
         \/ k = ERR \/ (k \in 0 .. asked /\ Left(view, v) = Left(view, chain) - k),
         NEW w, Fits(view, w), Left(view, w) = Left(view, v),
         IF k < asked \/ k = todo THEN pc' = "header" /\ chain' = w
         ELSE pc' = pc /\ chain' = v /\ todo' = todo - k
  PROVE  Descends
<1>1. PICK p, t, l, m, n : /\ p = view /\ t = todo /\ l = OutputLeft /\ m = OutputLeft'
                           /\ n = Left(p, v)
  OBVIOUS
<1>2. p \in Payload /\ Inflates(p) /\ Fits(p, chain) /\ stream \in Streams /\ t \in Nat \ {0}
  BY <1>1 DEF LoopInv
<1>3. l \in Nat /\ l = Left(p, chain)
  BY <1>1, <1>2, LeftNat DEF OutputLeft
<1>4. n \in Nat /\ n <= l /\ (k = ERR \/ (k \in 0 .. asked /\ n = l - k))
  BY <1>1, <1>2, <1>3, LeftNat
<1>5. m = Left(p, chain')
  BY <1>1 DEF OutputLeft
<1>6. CASE k < asked \/ k = todo
  <2>1. pc' = "header" /\ chain' = w
    BY <1>6
  <2>2. LoopInv'
    BY <1>1, <1>2, <2>1, Stays
  <2>3. m <= l
    BY <1>1, <1>4, <1>5, <2>1
  <2>4. RoundsLeft' = 1 /\ RoundsLeft \in {2, 3}
    BY <2>1 DEF RoundsLeft, Running
  <2>5. RoundsLeft' < RoundsLeft
    BY <2>4
  <2> QED BY <1>1, <2>2, <2>3, <2>5, RoundDescends
<1>7. CASE ~(k < asked \/ k = todo)
  <2>1. pc' = pc /\ chain' = v /\ todo' = t - k
    BY <1>1, <1>7
  <2>2. k \in 1 .. asked /\ asked \in 1 .. t /\ k < t
    <3>1. k # ERR
      BY <1>1, <1>2, <1>7 DEF ERR
    <3> QED BY <1>1, <1>2, <1>4, <1>7, <3>1
  <2>3. todo' \in Nat \ {0}
    BY <1>2, <2>1, <2>2
  <2>4. LoopInv'
    BY <1>1, <1>2, <2>1, <2>3 DEF LoopInv, Running
  <2>5. m < l
    BY <1>1, <1>2, <1>3, <1>4, <1>5, <2>1, <2>2 DEF ERR
  <2> QED BY <1>1, <2>4, <2>5, OutputDescends
<1> QED BY <1>6, <1>7

LEMMA SkipRoundDescends ==
  ASSUME LoopInv, SkipRound
  PROVE  Descends
<1>1. PICK p, r, f, t, c : /\ p = view /\ r = chain /\ f = MayFail /\ c = op
                           /\ t = IF todo < BUFFER THEN todo ELSE BUFFER
  OBVIOUS
<1>2. p \in Payload /\ Inflates(p) /\ Fits(p, r) /\ pc = "skip" /\ todo \in Nat \ {0}
  BY <1>1 DEF LoopInv, SkipRound
<1>3. t \in 1 .. todo /\ t \in Nat \ {0}
  BY <1>1, <1>2, AskedType
<1>4. PICK o \in ZRead(p, r, t, f) :
        \/ CheckIntegrity(c, [AtBlock(o.r) EXCEPT !.terr = TRUE])
        \/ /\ pc'    = IF SkipEnds(o, t) THEN "header" ELSE pc
           /\ chain' = IF SkipEnds(o, t) THEN AtBlock(o.r) ELSE o.r
           /\ todo'  = IF SkipEnds(o, t) THEN 0 ELSE todo - o.n
           /\ stream' = stream /\ view' = view
  BY <1>1 DEF SkipRound
<1>5. PICK k, v : o = [n |-> k, r |-> v] /\ Goes(p, r, t, k, v)
  BY <1>2, <1>3, ZReadGoes
<1>6. PICK w : w = AtBlock(v)
  OBVIOUS
<1>7. /\ Fits(p, v) /\ Fits(p, w) /\ Left(p, w) = Left(p, v) /\ Left(p, v) <= Left(p, r)
      /\ Fits(p, [w EXCEPT !.terr = TRUE])
  BY <1>5, <1>6, AtBlockFits DEF Goes
<1>8. CASE CheckIntegrity(c, [w EXCEPT !.terr = TRUE])
  BY <1>1, <1>7, <1>8, CheckStays, EndDescends
<1>9. CASE /\ pc'    = IF SkipEnds(o, t) THEN "header" ELSE pc
           /\ chain' = IF SkipEnds(o, t) THEN w ELSE v
           /\ todo'  = IF SkipEnds(o, t) THEN 0 ELSE todo - o.n
           /\ stream' = stream /\ view' = view
  <2>1. o.n = k /\ (SkipEnds(o, t) <=> k < t \/ k = todo)
    BY <1>5 DEF SkipEnds
  <2>2. IF k < t \/ k = todo THEN pc' = "header" /\ chain' = w
        ELSE pc' = pc /\ chain' = v /\ todo' = todo - k
    BY <1>9, <2>1
  <2>3. \/ k = ERR \/ (k \in 0 .. t /\ Left(view, v) = Left(view, chain) - k)
    BY <1>1, <1>5 DEF Goes
  <2>4. /\ Fits(view, v) /\ Left(view, v) <= Left(view, chain)
        /\ Fits(view, w) /\ Left(view, w) = Left(view, v)
    BY <1>1, <1>7
  <2> QED BY <1>2, <1>3, <1>9, <2>2, <2>3, <2>4, SkipDescends
<1> QED BY <1>4, <1>5, <1>6, <1>8, <1>9

LEMMA SkipAuxRoundDescends ==
  ASSUME LoopInv, SkipAuxRound
  PROVE  Descends
<1>1. PICK p, r, f, t : /\ p = view /\ r = chain /\ f = MayFail
                        /\ t = IF todo < BUFFER THEN todo ELSE BUFFER
  OBVIOUS
<1>2. p \in Payload /\ Inflates(p) /\ Fits(p, r) /\ pc = "skipAux" /\ todo \in Nat \ {0}
  BY <1>1 DEF LoopInv, SkipAuxRound
<1>3. t \in 1 .. todo /\ t \in Nat \ {0}
  BY <1>1, <1>2, AskedType
<1>4. PICK o \in ZRead(p, r, t, f) :
        /\ pc'    = IF SkipEnds(o, t) THEN "header" ELSE pc
        /\ chain' = o.r
        /\ todo'  = IF SkipEnds(o, t) THEN 0 ELSE todo - o.n
        /\ stream' = stream /\ view' = view
  BY <1>1 DEF SkipAuxRound
<1>5. PICK k, v : o = [n |-> k, r |-> v] /\ Goes(p, r, t, k, v)
  BY <1>2, <1>3, ZReadGoes
<1>6. o.n = k /\ o.r = v /\ (SkipEnds(o, t) <=> k < t \/ k = todo)
  BY <1>5 DEF SkipEnds
<1>7. IF k < t \/ k = todo THEN pc' = "header" /\ chain' = v
      ELSE pc' = pc /\ chain' = v /\ todo' = todo - k
  BY <1>4, <1>6
<1>8. \/ k = ERR \/ (k \in 0 .. t /\ Left(view, v) = Left(view, chain) - k)
  BY <1>1, <1>5 DEF Goes
<1>9. Fits(view, v) /\ Left(view, v) <= Left(view, chain) /\ Left(view, v) = Left(view, v)
  BY <1>1, <1>5 DEF Goes
<1> QED BY <1>2, <1>3, <1>4, <1>7, <1>8, <1>9, SkipDescends

LEMMA HeaderRoundDescends ==
  ASSUME LoopInv, HeaderRound
  PROVE  Descends
<1>1. PICK p, r, f, c : p = view /\ r = chain /\ f = MayFail /\ c = op
  OBVIOUS
<1>2. p \in Payload /\ Inflates(p) /\ Fits(p, r) /\ stream \in Streams
  BY <1>1 DEF LoopInv
<1>3. PICK h \in NextHeader(p, r, f) :
        \/ h.what = "file" /\ Opens(h.f, h.r)
        \/ CheckIntegrity(c, h.r)
        \/ Finish(c, h.r)
        \/ chain' = h.r /\ pc' = "idle" /\ stream' = stream /\ view' = view
        \/ /\ h.what = "aux"
           /\ chain' = h.r /\ todo' = h.f + Padding(h.f)
           /\ pc' = IF todo' > 0 THEN "skipAux" ELSE "header"
           /\ stream' = stream /\ view' = view
  BY <1>1 DEF HeaderRound, Return
<1>4. FoundGoes(p, r, h)
  BY <1>2, NextHeaderGoes
<1>5. PICK w, i, v : /\ h = Found(w, i, v) /\ Fits(p, v) /\ Left(p, v) <= Left(p, r)
                     /\ w = "file" => Left(p, v) < Left(p, r)
                     /\ w = "aux" => Left(p, v) < Left(p, r) /\ i \in Nat
  BY <1>4 DEF FoundGoes
<1>6. h.what = w /\ h.f = i /\ h.r = v
  BY <1>5 DEF Found
<1>7. CASE w = "file" /\ Opens(i, v)
  <2>1. stream' = stream /\ view' = view /\ chain' = v /\ pc' \in {"copy", "idle"}
    BY <1>7 DEF Opens, Return
  <2>2. LoopInv'
    BY <1>1, <1>2, <1>5, <2>1, Stays
  <2>3. OutputLeft' < OutputLeft
    BY <1>1, <1>5, <1>7, <2>1 DEF OutputLeft
  <2> QED BY <2>2, <2>3, OutputDescends
<1>8. CASE CheckIntegrity(c, v)
  BY <1>1, <1>5, <1>8, CheckStays, EndDescends
<1>9. CASE Finish(c, v)
  BY <1>1, <1>5, <1>9, FinishDescends
<1>10. CASE chain' = v /\ pc' = "idle" /\ stream' = stream /\ view' = view
  <2>1. LoopInv'
    BY <1>1, <1>2, <1>5, <1>10, Stays
  <2> QED BY <1>10, <2>1, EndDescends
<1>11. CASE /\ w = "aux" /\ chain' = v /\ todo' = i + Padding(i)
            /\ pc' = IF todo' > 0 THEN "skipAux" ELSE "header"
            /\ stream' = stream /\ view' = view
  <2>1. i \in Nat /\ Padding(i) \in Nat
    BY <1>5, <1>11, PaddingNat
  <2>2. todo' \in Nat
    BY <1>11, <2>1
  <2>3. pc' \in {"skipAux", "header"} /\ (pc' = "skipAux" => todo' > 0)
    BY <1>11
  <2>4. LoopInv'
    BY <1>1, <1>2, <1>5, <1>11, <2>2, <2>3 DEF LoopInv, Running
  <2>5. OutputLeft' < OutputLeft
    BY <1>1, <1>5, <1>11 DEF OutputLeft
  <2> QED BY <2>4, <2>5, OutputDescends
<1> QED BY <1>3, <1>6, <1>7, <1>8, <1>9, <1>10, <1>11

(* next skips only what is left of a file.                                 *)
LEMMA EnterStays ==
  ASSUME LoopInv, EnterNext, stream' = stream, view' = view, chain' = chain
  PROVE  LoopInv' /\ pc' \in {"skip", "header"}
<1>1. PICK x, y : x = chain.pos /\ y = chain.block
  OBVIOUS
<1>2. x \in Int /\ y \in Int
  BY <1>1 DEF LoopInv, Fits
<1>3. CASE x < y
  <2>1. pc' = "skip" /\ todo' = y - x
    BY <1>1, <1>3 DEF EnterNext
  <2>2. todo' \in Nat \ {0}
    BY <1>2, <1>3, <2>1
  <2> QED BY <2>1, <2>2 DEF LoopInv, Running
<1>4. CASE ~(x < y)
  <2>1. pc' = "header"
    BY <1>1, <1>4 DEF EnterNext
  <2> QED BY <2>1 DEF LoopInv, Running
<1> QED BY <1>3, <1>4

LEMMA CopyRank == pc = "copy" => RoundsLeft = IF chain.eof THEN 4 ELSE 5
BY DEF RoundsLeft, Running

LEMMA CopyRankAfter == pc' = "copy" => RoundsLeft' = IF chain'.eof THEN 4 ELSE 5
BY DEF RoundsLeft, Running

LEMMA CopyRoundDescends ==
  ASSUME LoopInv, CopyRound
  PROVE  Descends
<1>1. PICK p, r, f : p = view /\ r = chain /\ f = MayFail
  OBVIOUS
<1>2. p \in Payload /\ Inflates(p) /\ Fits(p, r) /\ stream \in Streams /\ pc = "copy"
  BY <1>1 DEF LoopInv, CopyRound
<1>3. CASE chain.eof
  <2>1. EnterNext /\ stream' = stream /\ view' = view /\ chain' = chain
    BY <1>3 DEF CopyRound
  <2>2. LoopInv' /\ pc' \in {"skip", "header"}
    BY <2>1, EnterStays
  <2>3. OutputLeft' = OutputLeft
    BY <2>1 DEF OutputLeft
  <2>4. OutputLeft' <= OutputLeft
    <3>1. OutputLeft \in Nat
      BY LeftNat DEF LoopInv, OutputLeft
    <3> QED BY <2>3, <3>1
  <2>5. RoundsLeft = 4
    BY <1>2, <1>3, CopyRank
  <2>6. RoundsLeft' \in {1, 3}
    BY <2>2 DEF RoundsLeft, Running
  <2>7. RoundsLeft' < RoundsLeft
    BY <2>5, <2>6
  <2> QED BY <2>2, <2>4, <2>7, RoundDescends
<1>4. CASE ~chain.eof
  <2>1. PICK o \in TarRead(p, r, BUFFER, f) :
          /\ chain' = o.r /\ stream' = stream /\ view' = view
          /\ pc' = "idle" \/ (o.n # ERR /\ pc' = pc)
    BY <1>1, <1>4 DEF CopyRound, Return
  <2>2. BUFFER \in Nat \ {0}
    BY InputAssumption
  <2>3. PICK k, v : o = [n |-> k, r |-> v] /\ Reads(p, r, k, v)
    BY <1>2, <2>2, TarReadGoes
  <2>4. o.n = k /\ chain' = v /\ pc' \in {"idle", "copy"}
    BY <1>2, <2>1, <2>3
  <2>5. LoopInv'
    BY <1>1, <1>2, <2>1, <2>3, <2>4, Stays DEF Reads
  <2>6. CASE pc' = "idle"
    BY <2>5, <2>6, EndDescends
  <2>7. CASE pc' = "copy" /\ k = 0 /\ v.eof = TRUE
    <3>1. OutputLeft' <= OutputLeft
      BY <1>1, <2>1, <2>3, <2>4 DEF OutputLeft, Reads
    <3>2. RoundsLeft = 5
      BY <1>2, <1>4, CopyRank
    <3>3. RoundsLeft' = 4
      <4>1. chain'.eof
        BY <2>4, <2>7
      <4> QED BY <2>7, <4>1, CopyRankAfter
    <3>4. RoundsLeft' < RoundsLeft
      BY <3>2, <3>3
    <3> QED BY <2>5, <3>1, <3>4, RoundDescends
  <2>8. CASE k \in Nat \ {0} /\ Left(p, v) < Left(p, r)
    <3>1. OutputLeft' < OutputLeft
      BY <1>1, <2>1, <2>4, <2>8 DEF OutputLeft
    <3> QED BY <2>5, <3>1, OutputDescends
  <2>9. pc' = "copy" => k # ERR
    BY <2>1, <2>3
  <2> QED BY <2>3, <2>4, <2>6, <2>7, <2>8, <2>9 DEF Reads
<1> QED BY <1>3, <1>4

LEMMA LoopDescends ==
  ASSUME LoopInv, Loop
  PROVE  Descends
<1>1. CASE LoopCrashes
  <2>1. PICK c : UseFreed(c)
    BY <1>1 DEF LoopCrashes
  <2> QED BY <2>1, UseFreedDescends
<1> QED BY <1>1, SkipRoundDescends, SkipAuxRoundDescends, HeaderRoundDescends, CopyRoundDescends DEF Loop

(* The calls of the application.                                           *)
LEMMA BeginStays ==
  ASSUME LoopInv, NEW o, NEW key, Begin(o, key)
  PROVE  LoopInv'
<1>1. CASE pc' = "idle" /\ UNCHANGED <<stream, view, chain, todo>>
  BY <1>1 DEF LoopInv, Running
<1>2. CASE /\ stream' = stream /\ view' \in {stream, Garbled(stream)}
           /\ pc' \in {"idle", "header"}
           /\ \/ \E b \in BOOLEAN : chain' = NewChain(b)
              \/ chain' = [chain EXCEPT !.derr = TRUE, !.fault = TRUE]
  <2>1. stream \in Streams /\ stream \in Payload /\ Inflates(stream)
    BY StreamAssumption, InflateAssumption DEF LoopInv
  <2>2. view' \in Payload /\ Inflates(view')
    BY <1>2, <2>1, GarbledInflates
  <2>3. PICK q : q = view'
    OBVIOUS
  <2>4. Fits(q, chain')
    <3>1. CASE \E b \in BOOLEAN : chain' = NewChain(b)
      <4>1. PICK b \in BOOLEAN : chain' = NewChain(b)
        BY <3>1
      <4>2. PICK v : v = NewChain(b)
        OBVIOUS
      <4>3. /\ IsChain(v) /\ v.derr = b /\ v.eof = FALSE /\ v.pos = 0 /\ v.data = 0
            /\ v.block = 0 /\ v.at = 0 /\ v.out = 0
        BY <4>2 DEF NewChain, IsChain, Fields
      <4>4. v.at \in 0 .. Cells(q) /\ v.out \in Nat /\ v.out <= Upto(q, v.at)
        <5>1. Cells(q) \in Nat
          BY <2>2, <2>3, PayloadNumbers
        <5>2. Upto(q, 0) = 0
          BY DEF Upto
        <5> QED BY <4>3, <5>1, <5>2
      <4>5. v.pos \in Int /\ v.data \in Int /\ v.block \in Int
        BY <4>3
      <4>6. v.derr \in BOOLEAN /\ v.eof \in BOOLEAN
        BY <4>3
      <4> QED BY <4>1, <4>2, <4>3, <4>4, <4>5, <4>6 DEF Fits
    <3>2. CASE chain' = [chain EXCEPT !.derr = TRUE, !.fault = TRUE]
      <4>1. PICK r, v : r = chain /\ v = chain'
        OBVIOUS
      <4>2. Fits(view, r)
        BY <4>1 DEF LoopInv
      <4>3. /\ IsChain(v) /\ v.derr = TRUE /\ v.eof = r.eof /\ v.pos = r.pos /\ v.data = r.data
            /\ v.block = r.block
        BY <3>2, <4>1, <4>2 DEF Fits, IsChain, Fields
      <4>4. Fits(q, v)
        BY <4>2, <4>3 DEF Fits
      <4> QED BY <4>1, <4>4
    <3> QED BY <1>2, <3>1, <3>2
  <2> QED BY <1>2, <2>1, <2>2, <2>3, <2>4, Stays
<1>3. CASE \E w : Reject(o, w)
  BY <1>1, <1>3 DEF Reject, Return
<1>4. CASE BeginFails(o) \/ BeginSucceeds(o)
  <2>1. /\ pc' \in {"idle", "header"}
        /\ \/ \E b \in BOOLEAN : chain' = NewChain(b)
           \/ chain' = [chain EXCEPT !.derr = TRUE, !.fault = TRUE]
    BY <1>4 DEF BeginFails, BeginSucceeds, Return
  <2>2. CASE stream' = stream /\ view' \in {stream, Garbled(stream)}
    BY <1>2, <2>1, <2>2
  <2> QED BY <1>3, <1>4, <2>2 DEF Begin
<1> QED BY <1>3, <1>4 DEF Begin

LEMMA CallStays ==
  ASSUME LoopInv, Calls
  PROVE  LoopInv'
<1>1. PICK p, r, f : p = view /\ r = chain /\ f = MayFail
  OBVIOUS
<1>2. p \in Payload /\ Inflates(p) /\ Fits(p, r) /\ stream \in Streams
  BY <1>1 DEF LoopInv
<1>3. ASSUME NEW o, NEW w, Reject(o, w) PROVE LoopInv'
  BY <1>3 DEF Reject, Return, LoopInv, Running
<1>4. ASSUME NEW o, UseFreed(o) PROVE LoopInv'
  BY <1>4, UseFreedDescends DEF Descends
<1>5. CASE \E key \in Keys : BeginDecryption(key) \/ Decrypt(key)
  BY <1>5, BeginStays DEF BeginDecryption, Decrypt
<1>6. CASE NextFile
  <2>1. CASE EnterNext /\ stream' = stream /\ view' = view /\ chain' = chain
    BY <2>1, EnterStays
  <2> QED BY <1>3, <1>6, <2>1 DEF NextFile, NeedsChain
<1>7. CASE FinishDecryption
  <2>1. CASE Finish("finishDecryption", chain)
    <3>1. Finish("finishDecryption", r)
      BY <1>1, <2>1
    <3> QED BY <1>1, <1>2, <3>1, FinishDescends DEF Descends
  <2> QED BY <1>3, <1>4, <1>7, <2>1 DEF FinishDecryption, NeedsChain
<1>8. ASSUME NEW n \in Amounts, ReadData(n) PROVE LoopInv'
  <2>1. n \in Nat \ {0}
    BY InputAssumption
  <2>2. CASE \E o \in TarRead(p, r, n, f) :
               \/ CheckIntegrity("readData", o.r)
               \/ chain' = o.r /\ pc' = "idle" /\ stream' = stream /\ view' = view
    <3>1. PICK o \in TarRead(p, r, n, f) :
            \/ CheckIntegrity("readData", o.r)
            \/ chain' = o.r /\ pc' = "idle" /\ stream' = stream /\ view' = view
      BY <2>2
    <3>2. PICK k, v : o = [n |-> k, r |-> v] /\ Reads(p, r, k, v)
      BY <1>2, <2>1, TarReadGoes
    <3>3. o.r = v /\ Fits(p, v)
      BY <3>2 DEF Reads
    <3>4. CASE CheckIntegrity("readData", v)
      BY <1>1, <3>3, <3>4, CheckStays
    <3>5. CASE chain' = v /\ pc' = "idle" /\ stream' = stream /\ view' = view
      BY <1>1, <1>2, <3>3, <3>5, Stays
    <3> QED BY <3>1, <3>3, <3>4, <3>5
  <2>3. CASE pc = "idle" /\ open
    <3>1. \/ UseFreed("readData")
          \/ \E o \in TarRead(p, r, n, f) :
               \/ CheckIntegrity("readData", o.r)
               \/ chain' = o.r /\ pc' = "idle" /\ stream' = stream /\ view' = view
      BY <1>1, <1>8, <2>3 DEF ReadData, NeedsChain, Return
    <3> QED BY <1>4, <2>2, <3>1
  <2> QED BY <1>3, <1>8, <2>3 DEF ReadData, NeedsChain
<1> QED BY <1>5, <1>6, <1>7, <1>8 DEF Calls

LEMMA LoopInit == Init => LoopInv
<1> SUFFICES ASSUME Init PROVE LoopInv
  OBVIOUS
<1>1. stream \in Streams /\ view = stream /\ chain = NewChain(FALSE) /\ pc = "idle"
  BY DEF Init
<1>2. view \in Payload /\ Inflates(view)
  BY <1>1, StreamAssumption, InflateAssumption
<1>3. PICK v : v = NewChain(FALSE)
  OBVIOUS
<1>4. /\ IsChain(v) /\ v.derr = FALSE /\ v.eof = FALSE /\ v.pos = 0 /\ v.data = 0
      /\ v.block = 0 /\ v.at = 0 /\ v.out = 0
  BY <1>3 DEF NewChain, IsChain, Fields
<1>5. v.at \in 0 .. Cells(view) /\ v.out \in Nat /\ v.out <= Upto(view, v.at)
  <2>1. Cells(view) \in Nat
    BY <1>2, PayloadNumbers
  <2>2. Upto(view, 0) = 0
    BY DEF Upto
  <2> QED BY <1>4, <2>1, <2>2
<1>6. v.pos \in Int /\ v.data \in Int /\ v.block \in Int
  BY <1>4
<1>7. v.derr \in BOOLEAN /\ v.eof \in BOOLEAN
  BY <1>4
<1>8. Fits(view, v)
  BY <1>4, <1>5, <1>6, <1>7 DEF Fits
<1> QED BY <1>1, <1>2, <1>3, <1>8 DEF LoopInv, Running

(* No call of the reader goes on for ever, whatever the container holds    *)
(* and whatever fails: each round of its loops after which it goes on      *)
(* lowers a pair of numbers, of which the second may rise only when the    *)
(* first falls.                                                            *)
THEOREM ReaderRoundsEnd == Spec => []LoopCounted /\ [][RoundsLower]_vars
<1>1. Init => LoopInv
  BY LoopInit
<1>2. LoopInv /\ [Next]_vars => LoopInv'
  <2> SUFFICES ASSUME LoopInv, [Next]_vars PROVE LoopInv'
    OBVIOUS
  <2>1. CASE UNCHANGED vars
    BY <2>1 DEF LoopInv, vars
  <2> QED BY <2>1, CallStays, LoopDescends DEF Next, Descends
<1>3. LoopInv => LoopCounted
  BY RankType, LeftNat DEF LoopInv, LoopCounted, OutputLeft
<1>4. LoopInv /\ [Next]_vars => [RoundsLower]_vars
  <2> SUFFICES ASSUME LoopInv, Next, pc \in Running, pc' \in Running PROVE Lowers
    BY DEF RoundsLower
  <2>1. CASE Loop
    BY <2>1, LoopDescends DEF Descends
  <2>2. CASE Calls
    <3>1. pc = "idle"
      BY <2>2 DEF Calls, BeginDecryption, Decrypt, Begin, NextFile, ReadData, FinishDecryption, NeedsChain
    <3> QED BY <3>1 DEF Running
  <2> QED BY <2>1, <2>2 DEF Next
<1> QED BY <1>1, <1>2, <1>3, <1>4, PTL DEF Spec
=============================================================================
