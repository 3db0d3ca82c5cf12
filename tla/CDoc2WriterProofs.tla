------------------------- MODULE CDoc2WriterProofs -------------------------
(***************************************************************************)
(* The safety properties of CDoc2Writer, for every number of recipients,   *)
(* files, attempts and errors, every block size and every dst.             *)
(*                                                                         *)
(* First what the calls of the chain of filters guarantee, one layer at a  *)
(* time.  Then the inductive invariant Inv, which says, besides the        *)
(* properties, what dst holds while the chain is open (Good) and where a   *)
(* refusal has been noted by then.                                         *)
(***************************************************************************)
EXTENDS CDoc2Writer, SequenceTheorems, WellFoundedInduction, TLAPS

----------------------------------------------------------------------------
(* THE CHAIN OF FILTERS                                                    *)

(* A refusal leaves its mark on dst, and only a dst with a file refuses.     *)
SinkOK(s) == (s.refused => s.bad) /\ (s.refused => s.kind # "unopened")

Wf(w) == w \in PipeType /\ SinkOK(w.sink)

(* As long as dst has refused nothing, it holds pre and what the cipher    *)
(* has processed, which is a, except what deflate still holds back.        *)
Good(w, pre, a) ==
  w.sink.kind # "unopened" /\ ~w.sink.refused =>
    /\ ~w.cerr
    /\ w.sink.data = pre \o w.sealed
    /\ w.sealed \o w.zbuf = a

(* The chunks of dst's header fields, of the archive and the tag are items. *)
LEMMA ItemSeq ==
  ASSUME NEW c \in Seq(Chunk)
  PROVE  c \in Seq(Item) /\ <<Tag(c)>> \in Seq(Item)
<1>1. Chunk \subseteq Item /\ Tag(c) \in Item
  BY DEF Item, Tag, TagItem
<1>2. \A i \in 1 .. Len(c) : c[i] \in Item
  BY <1>1
<1> QED BY <1>1, <1>2

(* What has reached dst, in any order.                                     *)
Elements(t) == {t[i] : i \in DOMAIN t}
Reached(s)  == Elements(s.data)

LEMMA ReachedConcat ==
  ASSUME NEW t \in Seq(Item), NEW u \in Seq(Item)
  PROVE  Elements(t \o u) \subseteq Elements(t) \cup Elements(u)
<1>1. SUFFICES ASSUME NEW i \in 1 .. Len(t \o u)
              PROVE  (t \o u)[i] \in Elements(t) \cup Elements(u)
  BY DEF Elements
<1>2. CASE i <= Len(t)
  BY <1>2 DEF Elements
<1>3. CASE i > Len(t)
  <2>1. (t \o u)[i] = u[i - Len(t)] /\ i - Len(t) \in DOMAIN u
    BY <1>3
  <2> QED BY <2>1 DEF Elements
<1> QED BY <1>2, <1>3

LEMMA ChunkElements ==
  ASSUME NEW c \in Seq(Chunk)
  PROVE  Elements(c) \subseteq Chunk
  BY DEF Elements

(* DataConsumer::write: an accepted block is appended to dst, a refused    *)
(* one leaves its mark, and a bad stream accepts nothing.                  *)
LEMMA SinkWriteOutcome ==
  ASSUME NEW s \in SinkType(Item), SinkOK(s), NEW items \in Seq(Item),
         NEW o \in SinkWrite(s, items)
  PROVE  /\ o.rv \in {OK, ERR} /\ o.sink \in SinkType(Item) /\ SinkOK(o.sink)
         /\ o.sink.kind = s.kind
         /\ s.refused => o.sink.refused
         /\ o.rv = OK => /\ o.sink.refused = s.refused
                         /\ o.sink.bad = s.bad
                         /\ s.kind = "stream" => ~s.bad
                         /\ s.kind # "unopened" => o.sink.data = s.data \o items
         /\ o.rv # OK => o.sink.refused
<1> DEFINE accepted == [s EXCEPT !.data = @ \o items]
<1> USE DEF OK, ERR
<1>1. /\ s.data \in Seq(Item) /\ s.data \o items \in Seq(Item)
      /\ s.kind \in SinkKind /\ s.bad \in BOOLEAN /\ s.refused \in BOOLEAN
  BY DEF SinkType
<1>2. CASE o = [rv |-> OK, sink |-> s] /\ s.kind = "unopened"
  BY <1>1, <1>2
<1>3. CASE o = [rv |-> OK, sink |-> accepted] /\ s.kind # "unopened" /\ ~Stuck(s)
  <2>1. /\ o.rv = OK /\ o.sink = accepted
        /\ accepted.data = s.data \o items /\ accepted.kind = s.kind
        /\ accepted.bad = s.bad /\ accepted.refused = s.refused
        /\ accepted \in SinkType(Item)
    BY <1>1, <1>3 DEF SinkType
  <2> QED BY <1>1, <1>3, <2>1 DEF SinkOK, Stuck
<1>4. ASSUME NEW v \in SinkType(Item), v.kind = s.kind, s.kind # "unopened",
             o = [rv |-> ERR, sink |-> Failed(v)]
      PROVE  /\ o.rv = ERR /\ o.sink \in SinkType(Item) /\ SinkOK(o.sink)
             /\ o.sink.kind = s.kind /\ o.sink.refused
  BY <1>1, <1>4 DEF Failed, SinkType, SinkOK
<1>5. ASSUME NEW n \in 1 .. Len(items) - 1
      PROVE  Taken(s, items, n) \in SinkType(Item) /\ Taken(s, items, n).kind = s.kind
  <2>1. s.data \o SubSeq(items, 1, n) \in Seq(Item)
    BY <1>1, SubSeqProperties
  <2> QED BY <2>1 DEF Taken, SinkType
<1>6. \/ o = [rv |-> OK, sink |-> s] /\ s.kind = "unopened"
      \/ o = [rv |-> OK, sink |-> accepted] /\ s.kind # "unopened" /\ ~Stuck(s)
      \/ /\ s.kind # "unopened"
         /\ \E v \in SinkType(Item) : v.kind = s.kind /\ o = [rv |-> ERR, sink |-> Failed(v)]
  BY <1>1, <1>5 DEF SinkWrite, Unopened
<1> QED BY <1>2, <1>3, <1>4, <1>6

(* Accepted or refused, only what was offered reaches dst.                 *)
LEMMA SinkWriteReached ==
  ASSUME NEW s \in SinkType(Item), NEW items \in Seq(Item), NEW o \in SinkWrite(s, items)
  PROVE  Reached(o.sink) \subseteq Reached(s) \cup Elements(items)
<1>1. s.data \in Seq(Item)
  BY DEF SinkType
<1>2. ASSUME NEW n \in 1 .. Len(items) - 1
      PROVE  Elements(s.data \o SubSeq(items, 1, n)) \subseteq Reached(s) \cup Elements(items)
  <2>1. PICK t : t = SubSeq(items, 1, n)
    OBVIOUS
  <2>2. t \in Seq(Item) /\ Elements(t) \subseteq Elements(items)
    BY <2>1, SubSeqProperties DEF Elements
  <2>3. Elements(s.data \o t) \subseteq Elements(s.data) \cup Elements(t)
    BY <1>1, <2>2, ReachedConcat
  <2> QED BY <2>1, <2>2, <2>3 DEF Reached
<1>3. \/ o.sink.data = s.data
      \/ o.sink.data = s.data \o items
      \/ \E n \in 1 .. Len(items) - 1 : o.sink.data = s.data \o SubSeq(items, 1, n)
  <2>1. \/ o = [rv |-> OK, sink |-> s]
        \/ o = [rv |-> ERR, sink |-> Failed(s)]
        \/ o = [rv |-> OK, sink |-> [s EXCEPT !.data = @ \o items]]
        \/ \E n \in 1 .. Len(items) - 1 : o = [rv |-> ERR, sink |-> Failed(Taken(s, items, n))]
    BY DEF SinkWrite
  <2>2. Failed(s).data = s.data /\ [s EXCEPT !.data = @ \o items].data = s.data \o items
    BY DEF Failed, SinkType
  <2>3. ASSUME NEW n PROVE Failed(Taken(s, items, n)).data = s.data \o SubSeq(items, 1, n)
    BY DEF Failed, Taken, SinkType
  <2>4. ASSUME NEW v, NEW rv, o = [rv |-> rv, sink |-> v] PROVE o.sink = v
    BY <2>4
  <2> QED BY <2>1, <2>2, <2>3, <2>4, Zenon
<1>4. Elements(s.data \o items) \subseteq Elements(s.data) \cup Elements(items)
  BY <1>1, ReachedConcat
<1> QED BY <1>2, <1>3, <1>4 DEF Reached

----------------------------------------------------------------------------
(* o is an outcome of a call on w that adds the chunks c to the archive    *)
(* when it succeeds.  An error has a refusal to show for it.               *)
Sound(w, o, c) ==
  /\ o.rv \in {OK, ERR} /\ Wf(o.w)
  /\ o.w.cerr = w.cerr /\ o.w.sink.kind = w.sink.kind
  /\ w.sink.refused => o.w.sink.refused
  /\ Reached(o.w.sink) \subseteq Reached(w.sink) \cup Chunk
  /\ o.rv = OK => o.w.sink.refused = w.sink.refused
  /\ o.rv # OK => w.cerr \/ o.w.sink.refused
  /\ o.rv = OK => \A pre \in Seq(Item), a \in Seq(Chunk) :
                    Good(w, pre, a) => Good(o.w, pre, a \o c)

(* The fields of a pipe, for provers that do not look into record sets.    *)
LEMMA PipeFields ==
  ASSUME NEW w \in PipeType
  PROVE  /\ w.size \in Int /\ w.written \in Nat /\ w.file \in Nat
         /\ w.zbuf \in Seq(Chunk) /\ w.cerr \in BOOLEAN /\ w.sealed \in Seq(Chunk)
         /\ w.sink \in SinkType(Item)
         /\ w.sink.kind \in SinkKind /\ w.sink.refused \in BOOLEAN
         /\ w.sink.data \in Seq(Item)
  BY DEF PipeType, SinkType

(* EncryptionConsumer::write: the tag covers a block even when dst refuses *)
(* it, and an error of the constructor makes every write fail.             *)
LEMMA CipherWriteOutcome ==
  ASSUME NEW w, Wf(w), NEW c \in Seq(Chunk), NEW o \in CipherWrite(w, c)
  PROVE  /\ o.rv \in {OK, ERR}
         /\ o.w = Put(w, w.zbuf, o.w.sealed, o.w.sink)
         /\ o.w.sealed \in Seq(Chunk) /\ o.w.sink \in SinkType(Item) /\ SinkOK(o.w.sink)
         /\ o.w.sink.kind = w.sink.kind
         /\ w.sink.refused => o.w.sink.refused
         /\ Reached(o.w.sink) \subseteq Reached(w.sink) \cup Chunk
         /\ o.rv = OK => /\ ~w.cerr
                         /\ o.w.sealed = w.sealed \o c
                         /\ o.w.sink.refused = w.sink.refused
                         /\ w.sink.kind # "unopened" => o.w.sink.data = w.sink.data \o c
         /\ o.rv # OK => w.cerr \/ o.w.sink.refused
<1>1. w \in PipeType /\ SinkOK(w.sink) /\ c \in Seq(Item) /\ w.sealed \o c \in Seq(Chunk)
  BY ItemSeq, PipeFields DEF Wf
<1>2. CASE w.cerr
  <2>1. o = [rv |-> ERR, w |-> w]
    BY <1>2 DEF CipherWrite
  <2>2. w = Put(w, w.zbuf, w.sealed, w.sink)
    BY <1>1 DEF PipeType, Put
  <2> QED BY <1>1, <1>2, <2>1, <2>2, PipeFields DEF OK, ERR
<1>3. CASE ~w.cerr
  <2>1. PICK p \in SinkWrite(w.sink, c) :
          o = [rv |-> p.rv, w |-> Put(w, w.zbuf, w.sealed \o c, p.sink)]
    BY <1>3 DEF CipherWrite
  <2>2. /\ o.rv = p.rv /\ o.w.sealed = w.sealed \o c /\ o.w.sink = p.sink
        /\ o.w = Put(w, w.zbuf, o.w.sealed, o.w.sink)
    BY <1>1, <2>1 DEF PipeType, Put
  <2>3. w.sink \in SinkType(Item)
    BY <1>1, PipeFields
  <2>4. /\ p.rv \in {OK, ERR} /\ p.sink \in SinkType(Item) /\ SinkOK(p.sink)
        /\ p.sink.kind = w.sink.kind
        /\ w.sink.refused => p.sink.refused
        /\ p.rv = OK => /\ p.sink.refused = w.sink.refused
                        /\ w.sink.kind # "unopened" => p.sink.data = w.sink.data \o c
        /\ p.rv # OK => p.sink.refused
    BY <1>1, <2>3, SinkWriteOutcome
  <2>5. Reached(p.sink) \subseteq Reached(w.sink) \cup Elements(c)
    BY <1>1, <2>3, SinkWriteReached
  <2> QED BY <1>1, <1>3, <2>2, <2>4, <2>5, ChunkElements
<1> QED BY <1>2, <1>3

LEMMA ChunkAssociative ==
  ASSUME NEW s \in Seq(Chunk), NEW t \in Seq(Chunk), NEW u \in Seq(Chunk)
  PROVE  (s \o t) \o u = s \o (t \o u)
  OBVIOUS

(* The same, by name: what is concatenated need not be looked into.        *)
Associate(s, t, u) == (s \o t) \o u = s \o (t \o u)

LEMMA ChunksAssociate ==
  ASSUME NEW s \in Seq(Chunk), NEW t \in Seq(Chunk), NEW u \in Seq(Chunk)
  PROVE  Associate(s, t, u)
  BY ChunkAssociative DEF Associate

(* An outcome that keeps what Good speaks of is sound and adds nothing.    *)
LEMMA SoundDone ==
  ASSUME NEW w, Wf(w), NEW v, Wf(v), v.cerr = w.cerr, v.sink = w.sink,
         v.sealed = w.sealed, NEW c \in Seq(Chunk), v.zbuf = w.zbuf \o c
  PROVE  Sound(w, Done(v), c)
<1>1. /\ w.zbuf \in Seq(Chunk) /\ w.sealed \in Seq(Chunk)
  BY PipeFields DEF Wf
<1>2. v.sealed \o v.zbuf = (w.sealed \o w.zbuf) \o c
  <2>1. (w.sealed \o w.zbuf) \o c = w.sealed \o (w.zbuf \o c)
    BY <1>1, ChunkAssociative
  <2> QED BY <2>1, Zenon
<1>3. ASSUME NEW pre \in Seq(Item), NEW a \in Seq(Chunk), Good(w, pre, a)
      PROVE  Good(v, pre, a \o c)
  <2>1. w.sink.kind # "unopened" /\ ~w.sink.refused <=> v.sink.kind # "unopened" /\ ~v.sink.refused
    OBVIOUS
  <2> QED BY <1>2, <1>3, <2>1 DEF Good
<1> QED BY <1>3 DEF Sound, Done, OK, ERR

LEMMA ItemAssociative ==
  ASSUME NEW s \in Seq(Item), NEW t \in Seq(Item), NEW u \in Seq(Item)
  PROVE  (s \o t) \o u = s \o (t \o u)
  OBVIOUS

SameFile(w, v) == v.size = w.size /\ v.written = w.written /\ v.file = w.file

(* A sequence cut after its first n elements.                              *)
LEMMA Cut ==
  ASSUME NEW h \in Seq(Chunk), NEW n \in 1 .. Len(h), NEW m \in 0 .. Len(h)
  PROVE  /\ SubSeq(h, 1, n) \in Seq(Chunk) /\ SubSeq(h, n + 1, m) \in Seq(Chunk)
         /\ SubSeq(h, 1, n) \o SubSeq(h, n + 1, Len(h)) = h
  OBVIOUS

LEMMA Whole ==
  ASSUME NEW h \in Seq(Chunk)
  PROVE  SubSeq(h, 1, Len(h)) = h
  OBVIOUS

LEMMA PutFields ==
  ASSUME NEW w \in PipeType, NEW z \in Seq(Chunk), NEW q \in Seq(Chunk),
         NEW s \in SinkType(Item)
  PROVE  /\ Put(w, z, q, s) \in PipeType /\ SameFile(w, Put(w, z, q, s))
         /\ Put(w, z, q, s).cerr = w.cerr /\ Put(w, z, q, s).zbuf = z
         /\ Put(w, z, q, s).sealed = q /\ Put(w, z, q, s).sink = s
  BY DEF PipeType, SameFile, Put

(* deflate emits e and keeps z of what it held and was given.              *)
LEMMA EmitSound ==
  ASSUME NEW w, Wf(w), NEW c \in Seq(Chunk), NEW e \in Seq(Chunk), NEW z \in Seq(Chunk),
         NEW p \in CipherWrite(w, e), p.rv = OK => e \o z = w.zbuf \o c,
         NEW v, v = Put(w, z, p.w.sealed, p.w.sink)
  PROVE  Sound(w, [rv |-> p.rv, w |-> v], c) /\ SameFile(w, v)
<1>1. /\ w \in PipeType /\ SinkOK(w.sink) /\ w.zbuf \in Seq(Chunk) /\ w.sealed \in Seq(Chunk)
  BY PipeFields DEF Wf
<1>2. /\ p.rv \in {OK, ERR}
      /\ p.w.sealed \in Seq(Chunk) /\ p.w.sink \in SinkType(Item) /\ SinkOK(p.w.sink)
      /\ p.w.sink.kind = w.sink.kind
      /\ w.sink.refused => p.w.sink.refused
      /\ Reached(p.w.sink) \subseteq Reached(w.sink) \cup Chunk
      /\ p.rv = OK => /\ ~w.cerr
                      /\ p.w.sealed = w.sealed \o e
                      /\ p.w.sink.refused = w.sink.refused
                      /\ w.sink.kind # "unopened" => p.w.sink.data = w.sink.data \o e
      /\ p.rv # OK => w.cerr \/ p.w.sink.refused
  BY CipherWriteOutcome
<1>3. /\ v \in PipeType /\ SameFile(w, v) /\ v.cerr = w.cerr
      /\ v.zbuf = z /\ v.sealed = p.w.sealed /\ v.sink = p.w.sink
  <2>1. w \in PipeType /\ p.w.sealed \in Seq(Chunk) /\ p.w.sink \in SinkType(Item)
    BY <1>1, <1>2
  <2>2. v \in PipeType
    BY <2>1 DEF PipeType, Put
  <2>3. SameFile(w, v) /\ v.cerr = w.cerr
    BY <2>1 DEF PipeType, SameFile, Put
  <2>4. v.zbuf = z /\ v.sealed = p.w.sealed /\ v.sink = p.w.sink
    BY <2>1 DEF PipeType, Put
  <2> QED BY <2>2, <2>3, <2>4
<1>4. ASSUME p.rv = OK, NEW pre \in Seq(Item), NEW a \in Seq(Chunk), Good(w, pre, a)
      PROVE  Good(v, pre, a \o c)
  <2>1. SUFFICES ASSUME w.sink.kind # "unopened", ~w.sink.refused
                 PROVE  /\ ~w.cerr
                        /\ p.w.sink.data = pre \o p.w.sealed
                        /\ p.w.sealed \o z = a \o c
    BY <1>2, <1>3, <1>4 DEF Good
  <2>2. ~w.cerr /\ w.sink.data = pre \o w.sealed /\ w.sealed \o w.zbuf = a
    BY <1>4, <2>1 DEF Good
  <2>3. p.w.sink.data = pre \o (w.sealed \o e)
    <3>1. w.sealed \in Seq(Item) /\ e \in Seq(Item)
      BY <1>1, ItemSeq
    <3>2. (pre \o w.sealed) \o e = pre \o (w.sealed \o e)
      BY <3>1, ItemAssociative
    <3> QED BY <1>2, <1>4, <2>1, <2>2, <3>2
  <2>4. w.sealed \in Seq(Chunk) /\ w.zbuf \in Seq(Chunk)
    BY <1>1
  <2>7. Associate(w.sealed, e, z) /\ Associate(w.sealed, w.zbuf, c)
    BY <2>4, ChunksAssociate
  <2>5. (w.sealed \o e) \o z = w.sealed \o (e \o z)
    BY <2>7, Zenon DEF Associate
  <2>6. (w.sealed \o w.zbuf) \o c = w.sealed \o (w.zbuf \o c)
    BY <2>7, Zenon DEF Associate
  <2> QED BY <1>2, <1>4, <2>2, <2>3, <2>5, <2>6
<1> DEFINE o == [rv |-> p.rv, w |-> v]
<1>5. o.rv = p.rv /\ o.w = v
  OBVIOUS
<1> HIDE DEF o
<1>6. Sound(w, o, c)
  BY <1>2, <1>3, <1>4, <1>5 DEF Sound, Wf
<1> QED BY <1>3, <1>6 DEF o

(* ZConsumer::write: whatever part of its input deflate emits, nothing is  *)
(* lost or reordered as long as dst refuses nothing.                       *)
LEMMA DeflateWriteOutcome ==
  ASSUME NEW w, Wf(w), NEW c \in Seq(Chunk), NEW o \in DeflateWrite(w, c)
  PROVE  Sound(w, o, c) /\ SameFile(w, o.w)
<1>1. PICK h : h = w.zbuf \o c
  OBVIOUS
<1>2. /\ w \in PipeType /\ w.zbuf \in Seq(Chunk) /\ w.sealed \in Seq(Chunk)
      /\ w.sink \in SinkType(Item) /\ h \in Seq(Chunk) /\ Len(h) \in Nat
  BY <1>1, PipeFields DEF Wf
<1> DEFINE Kept(p)      == IF p.rv = OK THEN {Len(h)} ELSE 0 .. Len(h)
           Out(p, n, m) == [rv |-> p.rv,
                            w |-> Put(w, SubSeq(h, n + 1, m), p.w.sealed, p.w.sink)]
           Emit(n)      == UNION {{Out(p, n, m) : m \in Kept(p)}
                                    : p \in CipherWrite(w, SubSeq(h, 1, n))}
<1>3. o \in {Done(Put(w, h, w.sealed, w.sink))} \cup UNION {Emit(n) : n \in 1 .. Len(h)}
  BY <1>1 DEF DeflateWrite
<1>4. CASE o = Done(Put(w, h, w.sealed, w.sink))
  <2>1. PICK v : v = Put(w, h, w.sealed, w.sink)
    OBVIOUS
  <2>2. /\ v \in PipeType /\ SameFile(w, v) /\ v.cerr = w.cerr
        /\ v.zbuf = h /\ v.sealed = w.sealed /\ v.sink = w.sink
    <3>1. w \in PipeType /\ w.sealed \in Seq(Chunk) /\ w.sink \in SinkType(Item) /\ h \in Seq(Chunk)
      BY <1>2
    <3> HIDE DEF Kept, Out, Emit
    <3> QED BY <2>1, <3>1, PutFields, SMT
  <2>3. Sound(w, Done(v), c)
    BY <1>1, <2>2, SoundDone DEF Wf
  <2> QED BY <1>4, <2>1, <2>2, <2>3 DEF Done
<1>5. ASSUME NEW n \in 1 .. Len(h), o \in Emit(n)
      PROVE  Sound(w, o, c) /\ SameFile(w, o.w)
  <2>1. PICK p \in CipherWrite(w, SubSeq(h, 1, n)) : o \in {Out(p, n, m) : m \in Kept(p)}
    BY <1>5, Zenon
  <2>2. PICK m \in Kept(p) : o = Out(p, n, m)
    BY <2>1, Zenon
  <2>3. m \in 0 .. Len(h) /\ (p.rv = OK => m = Len(h))
    BY <1>2
  <2>4. PICK e, z, v : /\ e = SubSeq(h, 1, n) /\ z = SubSeq(h, n + 1, m)
                       /\ v = Put(w, z, p.w.sealed, p.w.sink)
    OBVIOUS
  <2>5. o = [rv |-> p.rv, w |-> v]
    BY <2>2, <2>4
  <2> HIDE DEF Kept, Out, Emit
  <2>6. e \in Seq(Chunk) /\ z \in Seq(Chunk) /\ (m = Len(h) => e \o z = h)
    BY <1>2, <2>3, <2>4, Cut
  <2>7. p \in CipherWrite(w, e) /\ (p.rv = OK => e \o z = w.zbuf \o c)
    BY <1>1, <2>3, <2>4, <2>6
  <2>8. Sound(w, [rv |-> p.rv, w |-> v], c) /\ SameFile(w, v)
    BY <2>4, <2>6, <2>7, EmitSound
  <2> QED BY <2>5, <2>8
<1> QED BY <1>3, <1>4, <1>5, Zenon

----------------------------------------------------------------------------
(* Two calls in a row, the first of which succeeds.                        *)
LEMMA Compose ==
  ASSUME NEW w, NEW c \in Seq(Chunk), NEW d \in Seq(Chunk),
         NEW p, Sound(w, p, c), p.rv = OK, NEW o, Sound(p.w, o, d)
  PROVE  Sound(w, o, c \o d)
<1>1. ASSUME o.rv = OK, NEW pre \in Seq(Item), NEW a \in Seq(Chunk), Good(w, pre, a)
      PROVE  Good(o.w, pre, a \o (c \o d))
  <2>1. Good(p.w, pre, a \o c) /\ a \o c \in Seq(Chunk)
    BY <1>1 DEF Sound
  <2>2. Good(o.w, pre, (a \o c) \o d)
    BY <1>1, <2>1 DEF Sound
  <2>3. (a \o c) \o d = a \o (c \o d)
    BY ChunkAssociative
  <2> QED BY <2>2, <2>3
<1>2. /\ o.rv \in {OK, ERR} /\ Wf(o.w)
      /\ o.w.cerr = w.cerr /\ o.w.sink.kind = w.sink.kind
      /\ w.sink.refused => o.w.sink.refused
      /\ Reached(o.w.sink) \subseteq Reached(w.sink) \cup Chunk
      /\ o.rv = OK => o.w.sink.refused = w.sink.refused
      /\ o.rv # OK => w.cerr \/ o.w.sink.refused
  BY DEF Sound
<1> QED BY <1>1, <1>2 DEF Sound

(* A call that fails adds nothing, whatever it was to add.                 *)
LEMMA Fails ==
  ASSUME NEW w, NEW c, NEW d, NEW o, Sound(w, o, c), o.rv # OK
  PROVE  Sound(w, o, d)
  BY DEF Sound

(* TarConsumer's account of the current file is no concern of the layers   *)
(* below.                                                                  *)
LEMMA Account ==
  ASSUME NEW w, NEW v, v.cerr = w.cerr, v.sink = w.sink, v.zbuf = w.zbuf,
         v.sealed = w.sealed, NEW c, NEW o, Sound(v, o, c)
  PROVE  Sound(w, o, c)
<1>1. w.sink.kind # "unopened" /\ ~w.sink.refused <=> v.sink.kind # "unopened" /\ ~v.sink.refused
  OBVIOUS
<1>2. \A pre, a : Good(w, pre, a) => Good(v, pre, a)
  BY <1>1 DEF Good
<1> QED BY <1>2 DEF Sound

LEMMA ChunkTypes ==
  ASSUME NEW w, Wf(w)
  PROVE  /\ PadChunks(w) \in Seq(Chunk) /\ HeadChunks(w) \in Seq(Chunk)
         /\ \A pax : PaxChunks(w, pax) \in Seq(Chunk)
         /\ \A n \in Nat : DataChunks(w, n) \in Seq(Chunk)
         /\ <<NullChunk>> \in Seq(Chunk) /\ <<Trailer>> \in Seq(Chunk)
<1>1. w.size \in Int /\ w.written \in Nat /\ w.file \in Nat
  BY PipeFields DEF Wf
<1>2. Padding(w.written) \in Int
  BY <1>1, BlockAssumption DEF Padding
<1>3. \A k \in Kinds, n \in Int : [k |-> k, file |-> w.file, n |-> n] \in Chunk
  BY <1>1 DEF Chunk
<1>4. PadChunks(w) \in Seq(Chunk)
  BY <1>2, <1>3 DEF PadChunks, Kinds
<1>5. HeadChunks(w) \in Seq(Chunk) /\ \A pax : PaxChunks(w, pax) \in Seq(Chunk)
  BY <1>1, <1>3 DEF HeadChunks, PaxChunks, Kinds
<1>6. ASSUME NEW n \in Nat PROVE DataChunks(w, n) \in Seq(Chunk)
  <2>1. \A i \in 1 .. n : [k |-> "data", file |-> w.file, n |-> w.written + i] \in Chunk
    BY <1>1, <1>3 DEF Kinds
  <2> QED BY <2>1 DEF DataChunks
<1>7. NullChunk \in Chunk /\ Trailer \in Chunk
  BY DEF NullChunk, Trailer, Chunk, Kinds
<1> QED BY <1>4, <1>5, <1>6, <1>7

LEMMA NoPadding == Padding(0) = 0
  BY BlockAssumption DEF Padding

(* The padding of the last file, if there is one.                          *)
LEMMA WritePaddingOutcome ==
  ASSUME NEW w, Wf(w), NEW o \in WritePadding(w)
  PROVE  Sound(w, o, PadChunks(w)) /\ SameFile(w, o.w)
<1>1. CASE w.written > 0
  BY <1>1, ChunkTypes, DeflateWriteOutcome DEF WritePadding
<1>2. CASE ~(w.written > 0)
  <2>1. w.written = 0 /\ w.zbuf \in Seq(Chunk) /\ o = Done(w)
    BY <1>2, PipeFields DEF Wf, WritePadding
  <2>2. PadChunks(w) = <<>> /\ w.zbuf = w.zbuf \o <<>>
    BY <2>1, NoPadding DEF PadChunks
  <2>3. Sound(w, Done(w), PadChunks(w))
    BY <2>2, SoundDone, ChunkTypes
  <2> QED BY <2>1, <2>3 DEF SameFile, Done
<1> QED BY <1>1, <1>2

LEMMA NewFileType ==
  ASSUME NEW w \in PipeType, NEW size \in Int
  PROVE  NewFile(w, size) \in PipeType
<1>1. w.file + 1 \in Nat /\ 0 \in Nat
  BY PipeFields
<1> QED BY <1>1 DEF NewFile, PipeType

(* TarConsumer::open, once it has found the last file complete.            *)
LEMMA TarOpenOutcome ==
  ASSUME NEW w, Wf(w), NEW size \in Int, NEW pax \in BOOLEAN, ~Short(w),
         NEW o \in TarOpen(w, size, pax)
  PROVE  Sound(w, o, OpenChunks(w, size, pax))
<1> DEFINE Header(v) == DeflateWrite(v, HeadChunks(v))
           Pax(v)    == IF pax THEN DeflateWrite(v, PaxChunks(v, pax)) ELSE {Done(v)}
           New(v)    == Bind(Pax(NewFile(v, size)), Header)
<1>1. PICK p \in WritePadding(w) : IF p.rv = OK THEN o \in New(p.w) ELSE o = p
  BY DEF TarOpen, Bind
<1>2. Sound(w, p, PadChunks(w)) /\ SameFile(w, p.w)
  BY WritePaddingOutcome
<1>3. CASE p.rv # OK
  BY <1>1, <1>2, <1>3, Fails
<1>4. CASE p.rv = OK
  <2>1. PICK v : v = NewFile(p.w, size)
    OBVIOUS
  <2>2. PICK q \in Pax(v) : IF q.rv = OK THEN o \in Header(q.w) ELSE o = q
    BY <1>1, <1>4, <2>1 DEF Bind
  <2>3. p.w \in PipeType /\ SinkOK(p.w.sink) /\ w \in PipeType
    BY <1>2 DEF Sound, Wf
  <2>4. /\ Wf(v) /\ v.cerr = p.w.cerr /\ v.sink = p.w.sink /\ v.zbuf = p.w.zbuf
        /\ v.sealed = p.w.sealed
    <3> HIDE DEF Header, Pax, New
    <3>1. v \in PipeType
      BY <2>1, <2>3, NewFileType
    <3>2. v.cerr = p.w.cerr /\ v.sink = p.w.sink
      BY <2>1, <2>3 DEF NewFile, PipeType
    <3>3. v.zbuf = p.w.zbuf /\ v.sealed = p.w.sealed
      BY <2>1, <2>3 DEF NewFile, PipeType
    <3> QED BY <2>3, <3>1, <3>2, <3>3 DEF Wf
  <2>5. SameFile(NewFile(w, size), v)
    BY <1>2, <2>1, <2>3 DEF SameFile, NewFile, PipeType
  <2>6. PICK x, y, z : x = PadChunks(w) /\ y = PaxChunks(v, pax) /\ z = HeadChunks(v)
    OBVIOUS
  <2>7. x \in Seq(Chunk) /\ y \in Seq(Chunk) /\ z \in Seq(Chunk)
    BY <2>4, <2>6, ChunkTypes
  <2>8. Sound(v, q, y) /\ SameFile(v, q.w)
    <3>1. CASE pax
      <4>1. q \in DeflateWrite(v, y)
        BY <2>2, <2>6, <3>1
      <4> HIDE DEF Header, Pax, New
      <4> QED BY <2>4, <2>7, <4>1, DeflateWriteOutcome
    <3>2. CASE ~pax
      <4>1. q = Done(v) /\ y = <<>> /\ v.zbuf \in Seq(Chunk)
        BY <2>2, <2>4, <2>6, <3>2, PipeFields DEF PaxChunks, Wf
      <4>2. v.zbuf = v.zbuf \o y
        BY <4>1
      <4> HIDE DEF Header, Pax, New
      <4>3. Sound(v, Done(v), y)
        BY <2>4, <2>7, <4>2, SoundDone
      <4> QED BY <4>1, <4>3 DEF Done, SameFile
    <3> QED BY <3>1, <3>2
  <2>9. OpenChunks(w, size, pax) = (x \o y) \o z
    <3>1. PaxChunks(NewFile(w, size), pax) = y /\ HeadChunks(NewFile(w, size)) = z
      BY <2>5, <2>6 DEF SameFile, PaxChunks, HeadChunks
    <3> QED BY <2>6, <3>1 DEF OpenChunks
  <2>10. Sound(v, o, y \o z)
    <3>1. CASE q.rv # OK
      BY <2>2, <2>8, <3>1, Fails
    <3>2. CASE q.rv = OK
      <4>1. Wf(q.w) /\ HeadChunks(q.w) = z
        BY <2>6, <2>8 DEF Sound, SameFile, HeadChunks
      <4>2. o \in DeflateWrite(q.w, z)
        BY <2>2, <3>2, <4>1
      <4> HIDE DEF Header, Pax, New
      <4>3. Sound(q.w, o, z)
        BY <2>7, <4>1, <4>2, DeflateWriteOutcome
      <4> QED BY <2>7, <2>8, <3>2, <4>3, Compose
    <3> QED BY <3>1, <3>2
  <2> HIDE DEF Header, Pax, New
  <2>11. Sound(p.w, o, y \o z)
    BY <2>4, <2>10, Account
  <2>12. y \o z \in Seq(Chunk) /\ (x \o y) \o z = x \o (y \o z)
    BY <2>7, ChunkAssociative
  <2>13. Sound(w, p, x)
    BY <1>2, <2>6
  <2>14. Sound(w, o, x \o (y \o z))
    BY <1>4, <2>7, <2>11, <2>12, <2>13, Compose
  <2> QED BY <2>9, <2>12, <2>14
<1> QED BY <1>3, <1>4

(* TarConsumer::write, once it has found that the data fits.               *)
LEMMA TarWriteOutcome ==
  ASSUME NEW w, Wf(w), NEW n \in Nat, ~(w.size >= 0 /\ w.written + n > w.size),
         NEW o \in TarWrite(w, n)
  PROVE  Sound(w, o, DataChunks(w, n))
<1>1. PICK v : v = [w EXCEPT !.written = @ + n]
  OBVIOUS
<1>2. w \in PipeType /\ SinkOK(w.sink)
  BY DEF Wf
<1>3. /\ Wf(v) /\ v.cerr = w.cerr /\ v.sink = w.sink /\ v.zbuf = w.zbuf
      /\ v.sealed = w.sealed
  <2>1. w.written + n \in Nat
    BY <1>2, PipeFields
  <2>2. v \in PipeType
    BY <1>1, <1>2, <2>1 DEF PipeType
  <2>3. /\ v.cerr = w.cerr /\ v.sink = w.sink /\ v.zbuf = w.zbuf /\ v.sealed = w.sealed
    BY <1>1, <1>2 DEF PipeType
  <2> QED BY <1>2, <2>2, <2>3 DEF Wf
<1>4. o \in DeflateWrite(v, DataChunks(w, n))
  BY <1>1 DEF TarWrite
<1>5. Sound(v, o, DataChunks(w, n))
  BY <1>3, <1>4, ChunkTypes, DeflateWriteOutcome
<1> QED BY <1>3, <1>5, Account

(* TarConsumer::open that succeeds has found the last file complete and    *)
(* accounts for the new one.                                               *)
LEMMA TarOpenAccount ==
  ASSUME NEW w, Wf(w), NEW size \in Int, NEW pax \in BOOLEAN,
         NEW o \in TarOpen(w, size, pax), o.rv = OK
  PROVE  ~Short(w) /\ SameFile(NewFile(w, size), o.w)
<1> DEFINE Header(v) == DeflateWrite(v, HeadChunks(v))
           Pax(v)    == IF pax THEN DeflateWrite(v, PaxChunks(v, pax)) ELSE {Done(v)}
           New(v)    == Bind(Pax(NewFile(v, size)), Header)
<1>1. ~Short(w)
  BY DEF TarOpen, OK, ERR
<1>2. PICK p \in WritePadding(w) : IF p.rv = OK THEN o \in New(p.w) ELSE o = p
  BY <1>1 DEF TarOpen, Bind
<1>3. p.rv = OK /\ o \in New(p.w) /\ Wf(p.w) /\ SameFile(w, p.w)
  BY <1>2, WritePaddingOutcome DEF Sound
<1>4. PICK v : v = NewFile(p.w, size)
  OBVIOUS
<1>5. PICK q \in Pax(v) : IF q.rv = OK THEN o \in Header(q.w) ELSE o = q
  BY <1>3, <1>4 DEF Bind
<1>6. q.rv = OK /\ o \in DeflateWrite(q.w, HeadChunks(q.w))
  BY <1>5
<1>7. p.w \in PipeType /\ w \in PipeType /\ SinkOK(p.w.sink)
  BY <1>3 DEF Wf
<1>8. Wf(v) /\ SameFile(NewFile(w, size), v)
  <2> HIDE DEF Header, Pax, New
  <2>1. v \in PipeType
    BY <1>4, <1>7, NewFileType
  <2>2. v.sink = p.w.sink
    BY <1>4, <1>7 DEF NewFile, PipeType
  <2>3. SameFile(NewFile(w, size), v)
    BY <1>3, <1>4, <1>7 DEF SameFile, NewFile, PipeType
  <2> QED BY <1>7, <2>1, <2>2, <2>3 DEF Wf
<1>9. Wf(q.w) /\ SameFile(v, q.w)
  <2>1. CASE pax
    <3>1. q \in DeflateWrite(v, PaxChunks(v, pax)) /\ PaxChunks(v, pax) \in Seq(Chunk)
      BY <1>5, <1>8, <2>1, ChunkTypes
    <3> HIDE DEF Header, Pax, New
    <3> QED BY <1>8, <3>1, DeflateWriteOutcome DEF Sound
  <2>2. CASE ~pax
    <3>1. q.w = v
      BY <1>5, <2>2 DEF Done
    <3> QED BY <1>8, <3>1 DEF SameFile
  <2> QED BY <2>1, <2>2
<1>10. SameFile(q.w, o.w)
  BY <1>6, <1>9, ChunkTypes, DeflateWriteOutcome
<1> QED BY <1>1, <1>8, <1>9, <1>10 DEF SameFile

(* TarConsumer::write that succeeds stays within the declared size.         *)
LEMMA TarWriteAccount ==
  ASSUME NEW w, Wf(w), NEW n \in Nat, NEW o \in TarWrite(w, n), o.rv = OK
  PROVE  /\ w.size >= 0 => w.written + n <= w.size
         /\ o.w.size = w.size /\ o.w.written = w.written + n /\ o.w.file = w.file
<1>1. PICK v : v = [w EXCEPT !.written = @ + n]
  OBVIOUS
<1>2. w \in PipeType /\ SinkOK(w.sink) /\ w.size \in Int /\ w.written \in Nat
  BY PipeFields DEF Wf
<1>3. ~(w.size >= 0 /\ w.written + n > w.size)
  BY DEF TarWrite, OK, ERR
<1>4. o \in DeflateWrite(v, DataChunks(w, n))
  BY <1>1, <1>3 DEF TarWrite
<1>5. v \in PipeType /\ v.sink = w.sink
  BY <1>1, <1>2 DEF PipeType
<1>6. v.size = w.size /\ v.written = w.written + n /\ v.file = w.file
  BY <1>1, <1>2 DEF PipeType
<1>7. SameFile(v, o.w)
  <2>1. Wf(v) /\ DataChunks(w, n) \in Seq(Chunk)
    BY <1>2, <1>5, ChunkTypes DEF Wf
  <2> QED BY <1>4, <2>1, DeflateWriteOutcome
<1> QED BY <1>2, <1>3, <1>6, <1>7 DEF SameFile

----------------------------------------------------------------------------
(* o is an outcome of closing w that adds the chunks c to the archive: when *)
(* it succeeds, dst ends in the tag over the whole archive, and a sticky    *)
(* dst has never failed.                                                    *)
Closes(w, o, c) ==
  /\ o.rv \in {OK, ERR} /\ o.w.sink \in SinkType(Item) /\ SinkOK(o.w.sink)
  /\ o.w.sink.kind = w.sink.kind
  /\ Reached(o.w.sink) \subseteq Reached(w.sink) \cup Chunk \cup TagItem
  /\ o.rv = OK =>
       /\ ~w.cerr
       /\ o.w.sink.refused = w.sink.refused
       /\ w.sink.kind = "stream" => ~o.w.sink.bad
       /\ \A pre \in Seq(Item), a \in Seq(Chunk) :
            Good(w, pre, a) /\ w.sink.kind # "unopened" /\ ~w.sink.refused =>
              o.w.sink.data = pre \o (a \o c) \o <<Tag(a \o c)>>

(* A block of EncryptionConsumer::close.                                   *)
LEMMA CipherBlockOutcome ==
  ASSUME NEW w, Wf(w), NEW items \in Seq(Item), NEW o \in CipherBlock(w, items)
  PROVE  /\ o.rv \in {OK, ERR} /\ Wf(o.w)
         /\ o.w.sealed = w.sealed /\ o.w.sink.kind = w.sink.kind
         /\ Reached(o.w.sink) \subseteq Reached(w.sink) \cup Elements(items)
         /\ o.rv = OK => /\ o.w.sink.refused = w.sink.refused
                         /\ w.sink.kind = "stream" => ~o.w.sink.bad
                         /\ w.sink.kind # "unopened" => o.w.sink.data = w.sink.data \o items
<1>1. w \in PipeType /\ SinkOK(w.sink) /\ w.sink \in SinkType(Item)
  BY PipeFields DEF Wf
<1>2. PICK p \in SinkWrite(w.sink, items) :
        o = [rv |-> p.rv, w |-> Put(w, w.zbuf, w.sealed, p.sink)]
  BY DEF CipherBlock
<1>3. /\ p.rv \in {OK, ERR} /\ p.sink \in SinkType(Item) /\ SinkOK(p.sink)
      /\ p.sink.kind = w.sink.kind
      /\ p.rv = OK => /\ p.sink.refused = w.sink.refused
                      /\ p.sink.bad = w.sink.bad
                      /\ w.sink.kind = "stream" => ~w.sink.bad
                      /\ w.sink.kind # "unopened" => p.sink.data = w.sink.data \o items
  BY <1>1, SinkWriteOutcome
<1>7. Reached(p.sink) \subseteq Reached(w.sink) \cup Elements(items)
  BY <1>1, SinkWriteReached
<1>4. o.rv = p.rv /\ o.w = Put(w, w.zbuf, w.sealed, p.sink)
  BY <1>2
<1>5. o.w \in PipeType
  BY <1>1, <1>3, <1>4 DEF PipeType, Put
<1>6. o.w.sealed = w.sealed /\ o.w.sink = p.sink
  BY <1>1, <1>4 DEF PipeType, Put
<1> QED BY <1>3, <1>4, <1>5, <1>6, <1>7 DEF Wf

(* EncryptionConsumer::close: the tag is the last thing written.           *)
LEMMA CipherCloseOutcome ==
  ASSUME NEW w, Wf(w), NEW o \in CipherClose(w)
  PROVE  /\ o.rv \in {OK, ERR} /\ Wf(o.w)
         /\ o.w.sink.kind = w.sink.kind
         /\ Reached(o.w.sink) \subseteq Reached(w.sink) \cup TagItem
         /\ o.rv = OK => /\ o.w.sink.refused = w.sink.refused
                         /\ w.sink.kind = "stream" => ~o.w.sink.bad
                         /\ w.sink.kind # "unopened" => o.w.sink.data = w.sink.data \o <<Tag(w.sealed)>>
<1>1. PICK p \in CipherBlock(w, <<>>) : IF p.rv = OK THEN o \in CipherTag(p.w) ELSE o = p
  BY DEF CipherClose, Bind
<1>2. <<>> \in Seq(Item) /\ w.sink.data \in Seq(Item)
  BY PipeFields DEF Wf
<1>3. /\ p.rv \in {OK, ERR} /\ Wf(p.w)
      /\ p.w.sealed = w.sealed /\ p.w.sink.kind = w.sink.kind
      /\ Reached(p.w.sink) \subseteq Reached(w.sink)
      /\ p.rv = OK => /\ p.w.sink.refused = w.sink.refused
                      /\ w.sink.kind # "unopened" => p.w.sink.data = w.sink.data \o <<>>
  <2>1. Elements(<<>>) = {}
    BY DEF Elements
  <2> QED BY <1>2, <2>1, CipherBlockOutcome
<1>4. CASE p.rv = OK
  <2>1. o \in CipherBlock(p.w, <<Tag(w.sealed)>>)
    BY <1>1, <1>3, <1>4 DEF CipherTag
  <2>2. <<Tag(w.sealed)>> \in Seq(Item)
    BY ItemSeq, PipeFields DEF Wf
  <2>3. /\ o.rv \in {OK, ERR} /\ Wf(o.w) /\ o.w.sink.kind = p.w.sink.kind
        /\ Reached(o.w.sink) \subseteq Reached(p.w.sink) \cup Elements(<<Tag(w.sealed)>>)
        /\ o.rv = OK => /\ o.w.sink.refused = p.w.sink.refused
                        /\ p.w.sink.kind = "stream" => ~o.w.sink.bad
                        /\ p.w.sink.kind # "unopened" =>
                             o.w.sink.data = p.w.sink.data \o <<Tag(w.sealed)>>
    BY <1>3, <2>1, <2>2, CipherBlockOutcome
  <2>4. w.sink.data \o <<>> = w.sink.data
    BY <1>2
  <2>5. Elements(<<Tag(w.sealed)>>) \subseteq TagItem
    <3>1. w.sealed \in Seq(Chunk)
      BY PipeFields DEF Wf
    <3> QED BY <3>1 DEF Elements, Tag, TagItem
  <2> QED BY <1>3, <1>4, <2>3, <2>4, <2>5
<1>5. CASE p.rv # OK
  BY <1>1, <1>3, <1>5
<1> QED BY <1>4, <1>5

(* ZConsumer::close: what deflate holds and its trailer come out first.    *)
LEMMA DeflateCloseOutcome ==
  ASSUME NEW w, Wf(w), NEW o \in DeflateClose(w)
  PROVE  Closes(w, o, <<Trailer>>)
<1>1. PICK v, e : v = Put(w, <<>>, w.sealed, w.sink) /\ e = Append(w.zbuf, Trailer)
  OBVIOUS
<1>2. PICK p \in CipherWrite(v, e) : IF p.rv = OK THEN o \in CipherClose(p.w) ELSE o = p
  BY <1>1 DEF DeflateClose, Bind
<1>3. /\ w \in PipeType /\ SinkOK(w.sink) /\ w.zbuf \in Seq(Chunk) /\ w.sealed \in Seq(Chunk)
      /\ w.sink \in SinkType(Item) /\ Trailer \in Chunk
  BY PipeFields, ChunkTypes DEF Wf
<1>4. v \in PipeType
  <2>1. <<>> \in Seq(Chunk)
    OBVIOUS
  <2> QED BY <1>1, <1>3, <2>1, PutFields
<1>5. v.sink = w.sink /\ v.sealed = w.sealed /\ v.cerr = w.cerr
  BY <1>1, <1>3 DEF Put, PipeType
<1>6. Wf(v) /\ e \in Seq(Chunk)
  BY <1>1, <1>3, <1>4, <1>5 DEF Wf
<1>7. /\ p.rv \in {OK, ERR} /\ p.w = Put(v, v.zbuf, p.w.sealed, p.w.sink)
      /\ p.w.sealed \in Seq(Chunk) /\ p.w.sink \in SinkType(Item) /\ SinkOK(p.w.sink)
      /\ p.w.sink.kind = v.sink.kind
      /\ Reached(p.w.sink) \subseteq Reached(v.sink) \cup Chunk
      /\ p.rv = OK => /\ ~v.cerr
                      /\ p.w.sealed = v.sealed \o e
                      /\ p.w.sink.refused = v.sink.refused
                      /\ v.sink.kind # "unopened" => p.w.sink.data = v.sink.data \o e
  BY <1>6, CipherWriteOutcome
<1>8. /\ p.w.sink.kind = w.sink.kind
      /\ Reached(p.w.sink) \subseteq Reached(w.sink) \cup Chunk
      /\ p.rv = OK => /\ ~w.cerr
                      /\ p.w.sealed = w.sealed \o e
                      /\ p.w.sink.refused = w.sink.refused
                      /\ w.sink.kind # "unopened" => p.w.sink.data = w.sink.data \o e
  BY <1>5, <1>7
<1>9. CASE p.rv # OK
  BY <1>2, <1>7, <1>8, <1>9 DEF Closes
<1>10. CASE p.rv = OK
  <2>1. Wf(p.w)
    <3>1. p.w \in PipeType
      BY <1>4, <1>7 DEF Put, PipeType
    <3> QED BY <1>7, <3>1 DEF Wf
  <2>2. /\ o.rv \in {OK, ERR} /\ Wf(o.w) /\ o.w.sink.kind = w.sink.kind
        /\ Reached(o.w.sink) \subseteq Reached(p.w.sink) \cup TagItem
        /\ o.rv = OK => /\ o.w.sink.refused = w.sink.refused
                        /\ w.sink.kind = "stream" => ~o.w.sink.bad
                        /\ w.sink.kind # "unopened" =>
                             o.w.sink.data = p.w.sink.data \o <<Tag(p.w.sealed)>>
    <3>1. o \in CipherClose(p.w)
      BY <1>2, <1>10
    <3>2. /\ o.rv \in {OK, ERR} /\ Wf(o.w) /\ o.w.sink.kind = p.w.sink.kind
          /\ Reached(o.w.sink) \subseteq Reached(p.w.sink) \cup TagItem
          /\ o.rv = OK => /\ o.w.sink.refused = p.w.sink.refused
                          /\ p.w.sink.kind = "stream" => ~o.w.sink.bad
                          /\ p.w.sink.kind # "unopened" =>
                               o.w.sink.data = p.w.sink.data \o <<Tag(p.w.sealed)>>
      BY <2>1, <3>1, CipherCloseOutcome
    <3>3. p.w.sink.kind = w.sink.kind /\ p.w.sink.refused = w.sink.refused
      BY <1>8, <1>10
    <3> QED BY <3>2, <3>3
  <2>3. ASSUME o.rv = OK, NEW pre \in Seq(Item), NEW a \in Seq(Chunk), Good(w, pre, a),
               w.sink.kind # "unopened", ~w.sink.refused
        PROVE  o.w.sink.data = pre \o (a \o <<Trailer>>) \o <<Tag(a \o <<Trailer>>)>>
    <3>1. w.sink.data = pre \o w.sealed /\ w.sealed \o w.zbuf = a
      BY <2>3 DEF Good
    <3>2. e = w.zbuf \o <<Trailer>> /\ <<Trailer>> \in Seq(Chunk)
      <4>1. Append(w.zbuf, Trailer) = w.zbuf \o <<Trailer>>
        BY <1>3, AppendIsConcat
      <4>2. <<Trailer>> \in Seq(Chunk)
        BY <1>3
      <4> QED BY <1>1, <4>1, <4>2
    <3>3. (w.sealed \o w.zbuf) \o <<Trailer>> = w.sealed \o e
      BY <1>3, <3>2, ChunkAssociative
    <3>4. p.w.sealed = a \o <<Trailer>>
      BY <1>8, <1>10, <3>1, <3>3
    <3>5. (pre \o w.sealed) \o e = pre \o (w.sealed \o e)
      <4>1. w.sealed \in Seq(Item) /\ e \in Seq(Item)
        BY <1>3, <1>6, ItemSeq, Zenon
      <4> QED BY <4>1, ItemAssociative, Zenon
    <3>6. p.w.sink.data = pre \o (a \o <<Trailer>>)
      BY <1>8, <1>10, <2>3, <3>1, <3>3, <3>5
    <3> QED BY <2>2, <2>3, <3>4, <3>6
  <2>4. o.w.sink \in SinkType(Item) /\ SinkOK(o.w.sink)
    BY <2>2, PipeFields DEF Wf
  <2> QED BY <1>8, <1>10, <2>2, <2>3, <2>4 DEF Closes
<1> QED BY <1>9, <1>10

(* Closing after a call that succeeded.                                    *)
LEMMA ComposeClose ==
  ASSUME NEW w, NEW c \in Seq(Chunk), NEW d \in Seq(Chunk),
         NEW p, Sound(w, p, c), p.rv = OK, NEW o, Closes(p.w, o, d)
  PROVE  Closes(w, o, c \o d)
<1>1. ASSUME o.rv = OK, NEW pre \in Seq(Item), NEW a \in Seq(Chunk), Good(w, pre, a),
             w.sink.kind # "unopened", ~w.sink.refused
      PROVE  o.w.sink.data = pre \o (a \o (c \o d)) \o <<Tag(a \o (c \o d))>>
  <2>1. Good(p.w, pre, a \o c) /\ a \o c \in Seq(Chunk) /\ p.w.sink.kind # "unopened" /\ ~p.w.sink.refused
    BY <1>1 DEF Sound
  <2>2. o.w.sink.data = pre \o ((a \o c) \o d) \o <<Tag((a \o c) \o d)>>
    BY <1>1, <2>1 DEF Closes
  <2>3. (a \o c) \o d = a \o (c \o d)
    BY ChunkAssociative
  <2> QED BY <2>2, <2>3
<1> QED BY <1>1 DEF Sound, Closes

(* TarConsumer::close of a complete archive.                               *)
LEMMA TarCloseOutcome ==
  ASSUME NEW w, Wf(w), ~Short(w), NEW o \in TarClose(w)
  PROVE  Closes(w, o, CloseChunks(w))
<1> DEFINE Null(v) == DeflateWrite(v, <<NullChunk>>)
<1>1. PICK nl, tr, x : nl = <<NullChunk>> /\ tr = <<Trailer>> /\ x = PadChunks(w)
  OBVIOUS
<1>2. nl \in Seq(Chunk) /\ tr \in Seq(Chunk) /\ x \in Seq(Chunk)
  BY <1>1, ChunkTypes
<1>3. CloseChunks(w) = ((x \o nl) \o nl) \o tr
  BY <1>1 DEF CloseChunks
<1>4. PICK r \in Bind(Bind(WritePadding(w), Null), Null) :
        IF r.rv = OK THEN o \in DeflateClose(r.w) ELSE o = r
  BY DEF TarClose, Bind
<1>5. PICK q \in Bind(WritePadding(w), Null) : IF q.rv = OK THEN r \in Null(q.w) ELSE r = q
  BY DEF Bind
<1>6. PICK p \in WritePadding(w) : IF p.rv = OK THEN q \in Null(p.w) ELSE q = p
  BY DEF Bind
<1>7. Sound(w, p, x)
  BY <1>1, WritePaddingOutcome
<1>8. Sound(w, q, x \o nl)
  <2>1. CASE p.rv = OK
    <3>1. q \in DeflateWrite(p.w, nl) /\ Wf(p.w)
      BY <1>1, <1>6, <1>7, <2>1 DEF Sound
    <3> HIDE DEF Null
    <3>2. Sound(p.w, q, nl)
      BY <1>2, <3>1, DeflateWriteOutcome
    <3> QED BY <1>2, <1>7, <2>1, <3>2, Compose
  <2>2. CASE p.rv # OK
    BY <1>6, <1>7, <2>2, Fails
  <2> QED BY <2>1, <2>2
<1>9. Sound(w, r, (x \o nl) \o nl)
  <2>1. CASE q.rv = OK
    <3>1. r \in DeflateWrite(q.w, nl) /\ Wf(q.w)
      BY <1>1, <1>5, <1>8, <2>1 DEF Sound
    <3> HIDE DEF Null
    <3>2. Sound(q.w, r, nl)
      BY <1>2, <3>1, DeflateWriteOutcome
    <3>3. x \o nl \in Seq(Chunk)
      BY <1>2
    <3> QED BY <1>2, <1>8, <2>1, <3>2, <3>3, Compose
  <2>2. CASE q.rv # OK
    BY <1>5, <1>8, <2>2, Fails
  <2> QED BY <2>1, <2>2
<1>10. PICK y : y = (x \o nl) \o nl
  OBVIOUS
<1>11. y \in Seq(Chunk) /\ y \o tr = CloseChunks(w)
  BY <1>2, <1>3, <1>10
<1> HIDE DEF Null
<1>12. Wf(r.w) /\ r.rv \in {OK, ERR} /\ Sound(w, r, y)
  BY <1>9, <1>10 DEF Sound
<1>13. CASE r.rv = OK
  <2>1. Closes(r.w, o, tr)
    BY <1>1, <1>4, <1>12, <1>13, DeflateCloseOutcome
  <2>2. Closes(w, o, y \o tr)
    BY <1>2, <1>11, <1>12, <1>13, <2>1, ComposeClose
  <2> QED BY <1>11, <2>2
<1>14. CASE r.rv # OK
  <2>1. /\ o = r /\ r.w.sink \in SinkType(Item) /\ SinkOK(r.w.sink) /\ r.w.sink.kind = w.sink.kind
        /\ Reached(r.w.sink) \subseteq Reached(w.sink) \cup Chunk
    BY <1>4, <1>12, <1>14, PipeFields DEF Wf, Sound
  <2> QED BY <1>12, <1>14, <2>1 DEF Closes
<1> QED BY <1>13, <1>14

(* Closing a chain whose last file is short fails, whatever dst does.      *)
LEMMA TarCloseShort ==
  ASSUME NEW w, Wf(w), Short(w), NEW o \in TarClose(w)
  PROVE  /\ o.rv = ERR /\ o.w.sink \in SinkType(Item) /\ SinkOK(o.w.sink)
         /\ o.w.sink.kind = w.sink.kind
         /\ Reached(o.w.sink) \subseteq Reached(w.sink) \cup Chunk \cup TagItem
<1>1. PICK p \in DeflateClose(w) : o = [rv |-> ERR, w |-> p.w]
  BY DEF TarClose
<1> QED BY <1>1, DeflateCloseOutcome DEF Closes

----------------------------------------------------------------------------
(* THE WRITER                                                              *)

(* The states the guards leave reachable.                                  *)
Shape ==
  /\ SinkOK(pipe.sink)
  /\ finished => ~tar
  /\ pulling # "no" => tar
  /\ \A c \in server : c[1] <= attempt

(* While the chain is open, dst and deflate together hold the archive.     *)
Holds == tar => Good(pipe, Preamble, archive)

(* A refusal has been reported, was ignored by writeHeader, or waits in    *)
(* EncryptionConsumer::error to be reported.                               *)
Noted == tar /\ pipe.sink.refused => errors > 0 \/ hdrLost \/ pipe.cerr

Finals == FinishExact /\ StickyFinish /\ NoSilentLoss

Inv == TypeOK /\ Shape /\ Holds /\ Noted /\ OpenCapsules /\ Finals

----------------------------------------------------------------------------
(* The header.                                                             *)

(* s0 after items were offered to it: if it refused none, it has them all. *)
Offered(s0, s, items) ==
  /\ s \in SinkType(Item) /\ SinkOK(s) /\ s.kind = s0.kind
  /\ s0.refused => s.refused
  /\ s.kind # "unopened" /\ ~s.refused => s.data = s0.data \o items

LEMMA OfferNext ==
  ASSUME NEW s0 \in SinkType(Item), NEW s, NEW items \in Seq(Item), Offered(s0, s, items),
         NEW item \in Item, NEW o \in SinkWrite(s, <<item>>)
  PROVE  /\ Offered(s0, o.sink, items \o <<item>>) /\ o.rv \in {OK, ERR}
         /\ o.rv = OK => o.sink.refused = s.refused
         /\ o.rv # OK => o.sink.refused
<1>1. s \in SinkType(Item) /\ SinkOK(s) /\ <<item>> \in Seq(Item)
  BY DEF Offered
<1>2. /\ o.rv \in {OK, ERR} /\ o.sink \in SinkType(Item) /\ SinkOK(o.sink)
      /\ o.sink.kind = s.kind
      /\ s.refused => o.sink.refused
      /\ o.rv = OK => /\ o.sink.refused = s.refused
                      /\ s.kind # "unopened" => o.sink.data = s.data \o <<item>>
      /\ o.rv # OK => o.sink.refused
  BY <1>1, SinkWriteOutcome, ZenonT(60)
<1>3. ASSUME o.sink.kind # "unopened", ~o.sink.refused
      PROVE  o.sink.data = s0.data \o (items \o <<item>>)
  <2>1. o.sink.data = s.data \o <<item>> /\ s.data = s0.data \o items
    BY <1>2, <1>3 DEF Offered
  <2>2. s0.data \in Seq(Item)
    BY DEF SinkType
  <2>3. (s0.data \o items) \o <<item>> = s0.data \o (items \o <<item>>)
    BY <1>1, <2>2, ItemAssociative
  <2> QED BY <2>1, <2>3
<1> QED BY <1>2, <1>3 DEF Offered

LEMMA IgnoredWrite ==
  ASSUME NEW s0 \in SinkType(Item), NEW items \in Seq(Item), NEW item \in Item, NEW S,
         \A t \in S : Offered(s0, t, items), NEW s \in Ignored(S, item)
  PROVE  Offered(s0, s, items \o <<item>>)
<1>1. PICK t \in S : \E o \in SinkWrite(t, <<item>>) : s = o.sink
  BY DEF Ignored
<1>2. PICK o \in SinkWrite(t, <<item>>) : s = o.sink
  BY <1>1
<1> QED BY <1>2, OfferNext

LEMMA FieldType ==
  ASSUME NEW a \in Nat, NEW caps \in SUBSET Capsule
  PROVE  /\ Field("label", a, {}) \in Item /\ Field("len", a, {}) \in Item
         /\ Field("header", a, caps) \in Item /\ Field("hmac", a, {}) \in Item
         /\ Nonce(a) \in Item
  BY DEF Field, Nonce, Item, HeaderPart, Capsule

LEMMA HeaderType ==
  ASSUME NEW a \in Nat, NEW caps \in SUBSET Capsule
  PROVE  HeaderFields(a, caps) \in Seq(Item)
  BY FieldType DEF HeaderFields

(* writeHeader ignores the results of its writes; dst remembers them.      *)
LEMMA WriteFieldsOutcome ==
  ASSUME NEW s0 \in SinkType(Item), SinkOK(s0), NEW a \in Nat, NEW caps \in SUBSET Capsule,
         NEW s \in WriteFields(s0, a, caps)
  PROVE  Offered(s0, s, HeaderFields(a, caps))
<1>1. PICK f1, f2, f3, f4 : /\ f1 = Field("label", a, {}) /\ f2 = Field("len", a, {})
                            /\ f3 = Field("header", a, caps) /\ f4 = Field("hmac", a, {})
  OBVIOUS
<1>2. f1 \in Item /\ f2 \in Item /\ f3 \in Item /\ f4 \in Item
  BY <1>1, FieldType
<1>3. PICK S1, S2, S3 : /\ S1 = Ignored({s0}, f1) /\ S2 = Ignored(S1, f2)
                        /\ S3 = Ignored(S2, f3)
  OBVIOUS
<1>4. s \in Ignored(S3, f4)
  BY <1>1, <1>3 DEF WriteFields
<1>5. Offered(s0, s0, <<>>)
  <2>1. s0.data \in Seq(Item)
    BY DEF SinkType
  <2>2. s0.data = s0.data \o <<>>
    BY <2>1
  <2> QED BY <2>2 DEF Offered
<1>6. \A t \in S1 : Offered(s0, t, <<>> \o <<f1>>)
  <2>1. <<>> \in Seq(Item) /\ \A t \in {s0} : Offered(s0, t, <<>>)
    BY <1>5
  <2> QED BY <1>2, <1>3, <2>1, IgnoredWrite
<1>7. <<>> \o <<f1>> = <<f1>> /\ <<f1>> \in Seq(Item)
  BY <1>2
<1>8. \A t \in S2 : Offered(s0, t, <<f1>> \o <<f2>>)
  BY <1>2, <1>3, <1>6, <1>7, IgnoredWrite
<1>9. <<f1>> \o <<f2>> \in Seq(Item) /\ <<f1>> \o <<f2>> \o <<f3>> \in Seq(Item)
  BY <1>2
<1>10. \A t \in S3 : Offered(s0, t, <<f1>> \o <<f2>> \o <<f3>>)
  BY <1>2, <1>3, <1>8, <1>9, IgnoredWrite
<1>11. Offered(s0, s, <<f1>> \o <<f2>> \o <<f3>> \o <<f4>>)
  BY <1>2, <1>4, <1>9, <1>10, IgnoredWrite
<1> QED BY <1>1, <1>11 DEF HeaderFields

LEMMA CapsulesType ==
  ASSUME NEW rcpts \in Seq(RecipientKind), NEW a \in Nat, NEW n \in 0 .. Len(rcpts)
  PROVE  /\ Capsules(rcpts, a, n) \in SUBSET Capsule
         /\ \A c \in Capsules(rcpts, a, n) : c[1] = a
  BY DEF Capsules, Capsule

LEMMA BuildHeaderType ==
  ASSUME NEW rcpts \in Seq(RecipientKind), NEW a \in Nat, NEW b \in BuildHeader(rcpts, a)
  PROVE  /\ b.caps \in SUBSET Capsule /\ \A c \in b.caps : c[1] = a
         /\ b.rv = OK => b.caps = Capsules(rcpts, a, Len(rcpts))
<1>1. Len(rcpts) \in Nat /\ Len(rcpts) \in 0 .. Len(rcpts)
  OBVIOUS
<1>2. CASE b = [rv |-> OK, caps |-> Capsules(rcpts, a, Len(rcpts))]
  BY <1>1, <1>2, CapsulesType
<1>3. ASSUME NEW n \in 0 .. Len(rcpts), b = [rv |-> ERR, caps |-> Capsules(rcpts, a, n)]
      PROVE  /\ b.caps \in SUBSET Capsule /\ \A c \in b.caps : c[1] = a
             /\ b.rv # OK
  BY <1>3, CapsulesType DEF OK, ERR
<1> QED BY <1>2, <1>3 DEF BuildHeader

LEMMA SinkCloseOutcome ==
  ASSUME NEW s \in SinkType(Item), SinkOK(s), NEW c \in SinkClose(s)
  PROVE  /\ c.sink \in SinkType(Item) /\ SinkOK(c.sink)
         /\ c.sink.data = s.data /\ c.sink.kind = s.kind /\ c.sink.refused = s.refused
<1>1. CASE c = [rv |-> OK, sink |-> [s EXCEPT !.flushed = ~Unopened(s)]]
  BY <1>1 DEF SinkType, SinkOK
<1>2. CASE c = [rv |-> ERR, sink |-> [s EXCEPT !.bad = TRUE]]
  BY <1>2 DEF SinkType, SinkOK
<1> QED BY <1>1, <1>2 DEF SinkClose

(* The chain with nothing in it.                                           *)
LEMMA NewPipeType ==
  ASSUME NEW o, o.sink \in SinkType(Item), SinkOK(o.sink)
  PROVE  /\ Wf(NewPipe(o)) /\ NewPipe(o).sink = o.sink
         /\ NewPipe(o).cerr = (o.rv # OK)
         /\ NewPipe(o).sealed = <<>> /\ NewPipe(o).zbuf = <<>>
  BY DEF NewPipe, PipeType, Wf

LEMMA NoPipeType ==
  ASSUME NEW s \in SinkType(Item), SinkOK(s)
  PROVE  Wf(NoPipe(s)) /\ NoPipe(s).sink = s
<1>1. PICK o : o = [rv |-> OK, sink |-> s]
  OBVIOUS
<1> QED BY <1>1, NewPipeType DEF NoPipe

LEMMA NewSinkType ==
  ASSUME NEW kind \in SinkKind
  PROVE  NewSink(kind) \in SinkType(Item) /\ SinkOK(NewSink(kind))
  BY DEF NewSink, SinkType, SinkOK

----------------------------------------------------------------------------
(* The steps.                                                              *)

(* What applications send is what the writer's calls take.                 *)
LEMMA NextInputs ==
  ASSUME Inv, Next
  PROVE  \/ \E kind \in RecipientKind : AddRecipient(kind)
         \/ BeginEncryption
         \/ \E size \in Int, pax \in BOOLEAN : AddFile(size, pax) \/ PullFile(size, pax)
         \/ \E n \in Nat \ {0} : WriteData(n) \/ PullData(n)
         \/ FinishEncryption
         \/ \E keys \in Seq(RecipientKind) : EncryptBegin(keys)
         \/ PullEof
         \/ PullError
         \/ PullEnd
<1>1. pipe.sink.kind \in SinkKind
  BY DEF Inv, TypeOK, PipeType, SinkType
<1>2. PICK g : g = Given
  OBVIOUS
<1>3. /\ g.kinds \subseteq RecipientKind /\ g.sizes \subseteq Int /\ g.amounts \subseteq Nat \ {0}
      /\ g.pax \subseteq BOOLEAN /\ g.recipients \in Nat
  BY <1>1, <1>2, LoadAssumption DEF Given
<1>4. SeqOf(g.kinds, g.recipients) \subseteq Seq(RecipientKind)
  BY <1>3 DEF SeqOf
<1> QED BY <1>2, <1>3, <1>4 DEF Next

LEMMA ReturnType ==
  ASSUME NEW op \in Ops, NEW rv \in {OK, ERR}
  PROVE  [op |-> op, rv |-> rv] \in [op : Ops, rv : {OK, ERR}]
  OBVIOUS

LEMMA InitInv == Init => Inv
<1> SUFFICES ASSUME Init PROVE Inv
  OBVIOUS
<1> USE DEF Init
<1>1. PICK kind \in DstKinds : pipe = NoPipe(NewSink(kind))
  OBVIOUS
<1>2. Wf(pipe)
  BY <1>1, NewSinkType, NoPipeType, DstAssumption
<1>3. TypeOK
  <2>1. ret \in [op : Ops, rv : {OK, ERR}]
    <3>1. ret = [op |-> "create", rv |-> OK] /\ "create" \in Ops
      BY DEF Ops
    <3> QED BY <3>1, ReturnType
  <2>2. /\ recipients \in Seq(RecipientKind \ {"invalid"}) /\ files \in Seq(File)
        /\ archive \in Seq(Chunk) /\ base \in Seq(Item)
    OBVIOUS
  <2>3. tar \in BOOLEAN /\ finished \in BOOLEAN /\ hdrLost \in BOOLEAN
    OBVIOUS
  <2>4. pulling \in {"no", "next", "copy"} /\ attempt \in Nat /\ errors \in Nat
    OBVIOUS
  <2>5. server \in SUBSET Capsule /\ failed \in SUBSET Nat
    OBVIOUS
  <2>6. pipe \in PipeType
    BY <1>2 DEF Wf
  <2> QED BY <2>1, <2>2, <2>3, <2>4, <2>5, <2>6 DEF TypeOK
<1>4. Shape
  BY <1>2 DEF Shape, Wf
<1> QED BY <1>3, <1>4 DEF Inv, Holds, Noted, OpenCapsules, Finals, FinishExact, StickyFinish,
       NoSilentLoss, FinishedOK

(* Where no container has just been finished, nothing is claimed of it.    *)
LEMMA NotFinal ==
  ASSUME ~(finished' /\ ret'.rv = OK)
  PROVE  Finals'
  BY DEF Finals, FinishExact, StickyFinish, NoSilentLoss, FinishedOK

LEMMA RefuseStep ==
  ASSUME Inv, NEW op \in Ops, Refuse(op)
  PROVE  Inv'
<1> USE DEF Inv, Refuse, Return, history
<1>1. TypeOK'
  BY DEF TypeOK
<1>2. Shape' /\ Noted' /\ OpenCapsules'
  BY DEF Shape, Noted, OpenCapsules, Stored
<1>3. Holds'
  BY DEF Holds, Preamble, Stored
<1>4. Finals'
  BY NotFinal DEF OK, ERR
<1> QED BY <1>1, <1>2, <1>3, <1>4

(* Recipients are only added while the chain is closed.                    *)
LEMMA AddStep ==
  ASSUME Inv, ~tar, ~finished, recipients' \in Seq(RecipientKind \ {"invalid"}),
         NEW op \in Ops, NEW rv \in {OK, ERR}, Return(op, rv),
         UNCHANGED <<tar, pipe, finished, pulling, attempt, server, history>>
  PROVE  Inv'
<1> USE DEF Inv, Return, history
<1>1. TypeOK'
  BY DEF TypeOK
<1>2. Shape' /\ Noted' /\ OpenCapsules' /\ Holds'
  BY DEF Shape, Noted, OpenCapsules, Holds
<1>3. Finals'
  BY NotFinal
<1> QED BY <1>1, <1>2, <1>3

(* writeHeader: with dst accepting everything, the container starts with   *)
(* the header of this attempt; a refused nonce is remembered.              *)
LEMMA HeaderStep ==
  ASSUME Inv, ~tar, ~finished, pulling = "no", NEW op \in Ops,
         NEW rcpts \in Seq(RecipientKind \ {"invalid"}), NEW loop \in {"no", "next"},
         WriteHeader(op, rcpts, loop)
  PROVE  Inv'
<1> DEFINE a == attempt + 1
<1>1. PICK b \in BuildHeader(rcpts, a) :
        /\ server' = server \cup b.caps
        /\ IF b.rv # OK
           THEN /\ Return(op, ERR)
                /\ UNCHANGED <<tar, pipe, pulling, history>>
           ELSE \E s \in WriteFields(Fresh(pipe.sink), a, b.caps) :
                \E o \in SinkWrite(s, <<Nonce(a)>>) :
                  /\ base' = pipe.sink.data
                  /\ hdrLost' = s.refused
                  /\ files' = <<>> /\ archive' = <<>>
                  /\ \/ /\ tar' = TRUE
                        /\ pipe' = NewPipe(o)
                        /\ errors' = 0
                        /\ pulling' = loop
                        /\ IF loop = "no" THEN Return(op, OK) ELSE UNCHANGED ret
                        /\ UNCHANGED failed
                     \/ /\ \E v \in {s, o.sink} : pipe' = NoPipe(v)
                        /\ errors' = errors + 1
                        /\ failed' = failed \cup {a}
                        /\ Return(op, ERR)
                        /\ UNCHANGED <<tar, pulling>>
  BY DEF WriteHeader
<1>2. attempt' = a /\ recipients' = rcpts /\ finished' = finished
  BY DEF WriteHeader
<1>3. attempt \in Nat /\ a \in Nat /\ rcpts \in Seq(RecipientKind)
  BY DEF Inv, TypeOK
<1>4. /\ b.caps \in SUBSET Capsule /\ \A c \in b.caps : c[1] = a
      /\ b.rv = OK => b.caps = Capsules(rcpts, a, Len(rcpts))
  BY <1>3, BuildHeaderType
<1>5. server' \in SUBSET Capsule /\ \A c \in server' : c[1] <= a
  BY <1>1, <1>3, <1>4 DEF Inv, TypeOK, Shape, Capsule
<1>6. pipe \in PipeType /\ SinkOK(pipe.sink) /\ pipe.sink \in SinkType(Item)
      /\ pipe.sink.data \in Seq(Item)
  BY PipeFields DEF Inv, TypeOK, Shape
<1>7. Finals'
  BY <1>2, NotFinal
<1>8. CASE b.rv # OK
  <2>1. Return(op, ERR) /\ UNCHANGED <<tar, pipe, pulling, history>>
    BY <1>1, <1>8
  <2>2. ret' \in [op : Ops, rv : {OK, ERR}]
    BY <2>1, ReturnType DEF Return
  <2>3. TypeOK'
    BY <1>2, <1>3, <1>5, <2>1, <2>2 DEF Inv, TypeOK, history
  <2>4. Shape' /\ Holds' /\ Noted' /\ OpenCapsules'
    BY <1>2, <1>5, <2>1 DEF Inv, Shape, Holds, Noted, OpenCapsules, history
  <2> QED BY <1>7, <2>3, <2>4 DEF Inv
<1>9. CASE b.rv = OK
  <2>0. PICK s \in WriteFields(Fresh(pipe.sink), a, b.caps) :
        \E o \in SinkWrite(s, <<Nonce(a)>>) :
          /\ base' = pipe.sink.data
          /\ hdrLost' = s.refused
          /\ files' = <<>> /\ archive' = <<>>
          /\ \/ /\ tar' = TRUE
                /\ pipe' = NewPipe(o)
                /\ errors' = 0
                /\ pulling' = loop
                /\ IF loop = "no" THEN Return(op, OK) ELSE UNCHANGED ret
                /\ UNCHANGED failed
             \/ /\ \E v \in {s, o.sink} : pipe' = NoPipe(v)
                /\ errors' = errors + 1
                /\ failed' = failed \cup {a}
                /\ Return(op, ERR)
                /\ UNCHANGED <<tar, pulling>>
    BY <1>1, <1>9
  <2>1. PICK o \in SinkWrite(s, <<Nonce(a)>>) :
          /\ base' = pipe.sink.data
          /\ hdrLost' = s.refused
          /\ files' = <<>> /\ archive' = <<>>
          /\ \/ /\ tar' = TRUE
                /\ pipe' = NewPipe(o)
                /\ errors' = 0
                /\ pulling' = loop
                /\ IF loop = "no" THEN Return(op, OK) ELSE UNCHANGED ret
                /\ UNCHANGED failed
             \/ /\ \E v \in {s, o.sink} : pipe' = NoPipe(v)
                /\ errors' = errors + 1
                /\ failed' = failed \cup {a}
                /\ Return(op, ERR)
                /\ UNCHANGED <<tar, pulling>>
    BY <2>0
  <2>2. PICK s0 : s0 = Fresh(pipe.sink)
    OBVIOUS
  <2>3. s0 \in SinkType(Item) /\ SinkOK(s0) /\ s0.data = pipe.sink.data
    BY <1>6, <2>2 DEF Fresh, SinkType, SinkOK
  <2>4. PICK h : h = HeaderFields(a, b.caps)
    OBVIOUS
  <2>5. h \in Seq(Item) /\ Nonce(a) \in Item
    BY <1>3, <1>4, <2>4, HeaderType, FieldType
  <2>6. Offered(s0, s, h)
    BY <1>3, <1>4, <2>2, <2>3, <2>4, WriteFieldsOutcome
  <2>7. /\ Offered(s0, o.sink, h \o <<Nonce(a)>>) /\ o.rv \in {OK, ERR}
        /\ o.rv = OK => o.sink.refused = s.refused
        /\ o.rv # OK => o.sink.refused
    BY <2>1, <2>3, <2>5, <2>6, OfferNext
  <2>8. /\ s \in SinkType(Item) /\ SinkOK(s) /\ s.refused \in BOOLEAN
        /\ o.sink \in SinkType(Item) /\ SinkOK(o.sink)
    BY <2>6, <2>7 DEF Offered, SinkType
  <2>9. Wf(pipe') /\ ret' \in [op : Ops, rv : {OK, ERR}]
    <3>1. CASE pipe' = NewPipe(o) /\ (IF loop = "no" THEN Return(op, OK) ELSE UNCHANGED ret)
      BY <2>8, <3>1, NewPipeType, ReturnType DEF Inv, TypeOK, Return
    <3>2. CASE (\E v \in {s, o.sink} : pipe' = NoPipe(v)) /\ Return(op, ERR)
      BY <2>8, <3>2, NoPipeType, ReturnType DEF Return
    <3> QED BY <2>1, <3>1, <3>2
  <2>10. TypeOK'
    <3>1. tar' \in BOOLEAN /\ pulling' \in {"no", "next", "copy"}
      BY <2>1 DEF Inv, TypeOK
    <3>4. errors' \in Nat
      <4>1. errors \in Nat /\ (errors' = 0 \/ errors' = errors + 1)
        BY <2>1 DEF Inv, TypeOK
      <4> QED BY <4>1
    <3>5. failed' \in SUBSET Nat
      <4>1. failed \in SUBSET Nat /\ (failed' = failed \/ failed' = failed \cup {a})
        BY <2>1 DEF Inv, TypeOK
      <4> QED BY <1>3, <4>1
    <3>2. files' \in Seq(File) /\ archive' \in Seq(Chunk) /\ base' \in Seq(Item)
      BY <1>6, <2>1
    <3>3. pipe' \in PipeType /\ hdrLost' \in BOOLEAN /\ finished' \in BOOLEAN
      BY <1>2, <2>1, <2>8, <2>9 DEF Wf, Inv, TypeOK
    <3> QED BY <1>2, <1>3, <1>5, <2>9, <3>1, <3>2, <3>3, <3>4, <3>5 DEF TypeOK
  <2>11. Shape'
    <3>1. SinkOK(pipe'.sink)
      BY <2>9 DEF Wf
    <3>2. pulling' # "no" => tar'
      BY <2>1
    <3> QED BY <1>2, <1>5, <3>1, <3>2 DEF Shape
  <2>12. CASE ~tar'
    BY <1>7, <2>10, <2>11, <2>12 DEF Inv, Holds, Noted, OpenCapsules
  <2>13. CASE tar'
    <3>1. pipe' = NewPipe(o) /\ errors' = 0
      BY <2>1, <2>13
    <3>2. /\ pipe'.sink = o.sink /\ pipe'.cerr = (o.rv # OK)
          /\ pipe'.sealed = <<>> /\ pipe'.zbuf = <<>>
      BY <2>8, <3>1, NewPipeType
    <3>3. Stored(attempt)' = b.caps
      <4>1. \A c \in server : c[1] # a
        <5>1. \A c \in server : c[1] \in Nat /\ c[1] <= attempt
          BY DEF Inv, TypeOK, Shape, Capsule
        <5> QED BY <1>3, <5>1
      <4> QED BY <1>1, <1>2, <1>4, <4>1 DEF Stored
    <3>4. OpenCapsules'
      BY <1>2, <1>4, <1>9, <3>3 DEF OpenCapsules, Stored
    <3>5. Noted'
      BY <2>1, <2>7, <3>2 DEF Noted
    <3>6. Preamble' = (base' \o h) \o <<Nonce(a)>>
      BY <1>2, <2>4, <3>3 DEF Preamble, Stored
    <3>7. ASSUME o.sink.kind # "unopened", ~o.sink.refused
          PROVE  o.sink.data = Preamble' \o <<>>
      <4>1. o.sink.data = s0.data \o (h \o <<Nonce(a)>>)
        BY <2>7, <3>7 DEF Offered
      <4>2. base' = s0.data /\ base' \in Seq(Item) /\ <<Nonce(a)>> \in Seq(Item)
        BY <1>6, <2>1, <2>3, <2>5
      <4>3. (base' \o h) \o <<Nonce(a)>> = base' \o (h \o <<Nonce(a)>>)
        BY <2>5, <4>2, ItemAssociative
      <4>4. Preamble' \in Seq(Item)
        BY <2>5, <3>6, <4>2
      <4>5. Preamble' \o <<>> = Preamble'
        BY <4>4
      <4> QED BY <3>6, <4>1, <4>2, <4>3, <4>5
    <3>8. Holds'
      <4>1. archive' = <<>> /\ <<>> \o <<>> = archive'
        BY <2>1
      <4>2. pipe'.sink.kind # "unopened" /\ ~pipe'.sink.refused => o.sink.kind # "unopened" /\ ~o.sink.refused
        BY <3>2
      <4> QED BY <2>7, <3>2, <3>7, <4>1, <4>2 DEF Holds, Good
    <3> QED BY <1>7, <2>10, <2>11, <3>4, <3>5, <3>8 DEF Inv
  <2> QED BY <2>12, <2>13
<1> QED BY <1>8, <1>9

----------------------------------------------------------------------------
(* What an outcome of TarConsumer::open and write may be: what the layers  *)
(* below did, or a refusal that changes nothing.                           *)
Proceeds(w, o, c) == Sound(w, o, c) \/ (o.rv = ERR /\ o.w = w)

LEMMA OpenProceeds ==
  ASSUME Inv, NEW size \in Int, NEW pax \in BOOLEAN, NEW o \in TarOpen(pipe, size, pax)
  PROVE  /\ Proceeds(pipe, o, OpenChunks(pipe, size, pax))
         /\ OpenChunks(pipe, size, pax) \in Seq(Chunk) /\ Opened(size, pax) \in Seq(File)
<1>1. Wf(pipe) /\ size \in Int /\ pax \in BOOLEAN
  BY DEF Inv, TypeOK, Shape, Wf
<1>2. Proceeds(pipe, o, OpenChunks(pipe, size, pax))
  <2>1. CASE Short(pipe)
    <3>1. o = [rv |-> ERR, w |-> pipe]
      BY <2>1 DEF TarOpen
    <3> QED BY <3>1 DEF Proceeds
  <2>2. CASE ~Short(pipe)
    BY <1>1, <2>2, TarOpenOutcome DEF Proceeds
  <2> QED BY <2>1, <2>2
<1>3. OpenChunks(pipe, size, pax) \in Seq(Chunk)
  <2>1. PICK v : v = NewFile(pipe, size)
    OBVIOUS
  <2>2. Wf(v)
    <3>1. v \in PipeType
      BY <1>1, <2>1, NewFileType DEF Wf
    <3>2. v.sink = pipe.sink
      BY <1>1, <2>1 DEF NewFile, Wf, PipeType
    <3> QED BY <1>1, <3>1, <3>2 DEF Wf
  <2>3. /\ PadChunks(pipe) \in Seq(Chunk) /\ HeadChunks(v) \in Seq(Chunk)
        /\ PaxChunks(v, pax) \in Seq(Chunk)
    BY <1>1, <2>2, ChunkTypes
  <2> QED BY <2>1, <2>3 DEF OpenChunks
<1>4. Opened(size, pax) \in Seq(File)
  <2>1. [size |-> size, len |-> 0, pax |-> pax] \in File /\ files \in Seq(File)
    BY <1>1 DEF File, Inv, TypeOK
  <2> QED BY <2>1 DEF Opened
<1> QED BY <1>2, <1>3, <1>4

LEMMA WriteProceeds ==
  ASSUME Inv, NEW n \in Nat \ {0}, NEW o \in TarWrite(pipe, n)
  PROVE  /\ Proceeds(pipe, o, DataChunks(pipe, n))
         /\ DataChunks(pipe, n) \in Seq(Chunk) /\ Grown(n) \in Seq(File)
<1>1. Wf(pipe) /\ n \in Nat
  BY DEF Inv, TypeOK, Shape, Wf
<1>2. Proceeds(pipe, o, DataChunks(pipe, n))
  <2>1. CASE pipe.size >= 0 /\ pipe.written + n > pipe.size
    <3>1. o = [rv |-> ERR, w |-> pipe]
      BY <2>1 DEF TarWrite
    <3> QED BY <3>1 DEF Proceeds
  <2>2. CASE ~(pipe.size >= 0 /\ pipe.written + n > pipe.size)
    BY <1>1, <2>2, TarWriteOutcome DEF Proceeds
  <2> QED BY <2>1, <2>2
<1>3. Grown(n) \in Seq(File)
  <2>1. files \in Seq(File)
    BY DEF Inv, TypeOK
  <2>2. CASE files = <<>>
    BY <2>1, <2>2 DEF Grown
  <2>3. CASE files # <<>>
    <3>1. Len(files) \in 1 .. Len(files) /\ files[Len(files)] \in File
      BY <2>1, <2>3
    <3>2. [files[Len(files)] EXCEPT !.len = @ + n] \in File
      BY <1>1, <3>1 DEF File
    <3>3. Grown(n) = [files EXCEPT ![Len(files)] = [files[Len(files)] EXCEPT !.len = @ + n]]
      BY <2>3 DEF Grown
    <3> QED BY <2>1, <3>1, <3>2, <3>3
  <2> QED BY <2>2, <2>3
<1> QED BY <1>1, <1>2, <1>3, ChunkTypes

LEMMA PreambleType ==
  ASSUME Inv
  PROVE  Preamble \in Seq(Item)
<1>1. attempt \in Nat /\ base \in Seq(Item) /\ Stored(attempt) \in SUBSET Capsule
  BY DEF Inv, TypeOK, Stored
<1>2. HeaderFields(attempt, Stored(attempt)) \in Seq(Item) /\ Nonce(attempt) \in Item
  BY <1>1, HeaderType, FieldType
<1> QED BY <1>1, <1>2 DEF Preamble

(* A step of the open chain: dst and deflate still hold the archive        *)
(* between them, unless dst refused something and an error says so.        *)
LEMMA ChainStep ==
  ASSUME Inv, tar, NEW o, NEW fs \in Seq(File), NEW c \in Seq(Chunk),
         Proceeds(pipe, o, c), Chain(o, fs, c), ret' \in [op : Ops, rv : {OK, ERR}],
         pulling' \in {"no", "next", "copy"}, UNCHANGED <<recipients, tar, finished, failed>>
  PROVE  Inv'
<1>1. /\ Wf(pipe) /\ Wf(o.w) /\ o.rv \in {OK, ERR} /\ ~finished
      /\ o.w.cerr = pipe.cerr /\ o.w.sink.kind = pipe.sink.kind
      /\ pipe.sink.refused => o.w.sink.refused
      /\ o.rv = OK => o.w.sink.refused = pipe.sink.refused
  BY DEF Inv, TypeOK, Shape, Wf, Proceeds, Sound, OK, ERR
<1>2. /\ pipe' = o.w /\ errors' = IF o.rv = OK THEN errors ELSE errors + 1
      /\ files' = IF o.rv = OK THEN fs ELSE files
      /\ archive' = IF o.rv = OK THEN archive \o c ELSE archive
      /\ UNCHANGED <<attempt, server, base, hdrLost>>
  BY DEF Chain
<1>3. /\ errors \in Nat /\ files \in Seq(File) /\ archive \in Seq(Chunk)
  BY DEF Inv, TypeOK
<1>4. TypeOK'
  <2>1. errors' \in Nat /\ files' \in Seq(File) /\ archive' \in Seq(Chunk)
    BY <1>2, <1>3
  <2>2. pipe' \in PipeType
    BY <1>1, <1>2 DEF Wf
  <2> QED BY <1>2, <2>1, <2>2 DEF Inv, TypeOK
<1>5. Shape'
  BY <1>1, <1>2 DEF Inv, Shape, Wf
<1>6. Preamble' = Preamble /\ OpenCapsules'
  BY <1>2 DEF Preamble, Stored, Inv, OpenCapsules
<1>7. Noted'
  <2>1. CASE o.rv = OK
    BY <1>1, <1>2, <2>1 DEF Inv, Noted
  <2>2. CASE o.rv # OK
    <3>1. errors' > 0
      BY <1>2, <1>3, <2>2
    <3> QED BY <3>1 DEF Noted
  <2> QED BY <2>1, <2>2
<1>8. Good(pipe', Preamble, archive')
  <2>1. Good(pipe, Preamble, archive)
    BY DEF Inv, Holds
  <2>2. CASE o.rv = OK
    <3>1. Sound(pipe, o, c)
      BY <2>2 DEF Proceeds, OK, ERR
    <3> QED BY <1>2, <1>3, <2>1, <2>2, <3>1, PreambleType DEF Sound
  <2>3. CASE o.rv # OK
    <3>1. archive' = archive
      BY <1>2, <2>3
    <3>2. CASE o.w = pipe
      BY <1>2, <2>1, <3>1, <3>2
    <3>3. CASE pipe.cerr \/ o.w.sink.refused
      BY <1>1, <1>2, <2>1, <3>3 DEF Good
    <3> QED BY <2>3, <3>2, <3>3 DEF Proceeds, Sound
  <2> QED BY <2>2, <2>3
<1>9. Holds'
  BY <1>6, <1>8 DEF Holds
<1>10. Finals'
  BY <1>1, NotFinal
<1> QED BY <1>4, <1>5, <1>6, <1>7, <1>9, <1>10 DEF Inv

(* encrypt gives up: dst stays as it is and no chain is left.              *)
LEMMA AbortStep ==
  ASSUME Inv, tar, NEW w, Wf(w), Abort(w)
  PROVE  Inv'
<1>1. ~finished /\ ~finished' /\ ~tar' /\ pulling' = "no" /\ pipe' = NoPipe(w.sink)
  BY DEF Abort, Inv, Shape
<1>2. w.sink \in SinkType(Item) /\ SinkOK(w.sink)
  BY PipeFields DEF Wf
<1>3. Wf(pipe')
  BY <1>1, <1>2, NoPipeType
<1>4. TypeOK'
  <2>1. ret' \in [op : Ops, rv : {OK, ERR}]
    <3>1. "encrypt" \in Ops
      BY DEF Ops
    <3> QED BY <3>1, ReturnType DEF Abort, Return
  <2>2. errors' \in Nat
    BY DEF Abort, Inv, TypeOK
  <2>3. failed' \in SUBSET Nat
    <3>1. failed \in SUBSET Nat /\ attempt \in Nat /\ failed' = failed \cup {attempt}
      BY DEF Abort, Inv, TypeOK
    <3> QED BY <3>1
  <2>4. pipe' \in PipeType
    BY <1>3 DEF Wf
  <2>5. tar' \in BOOLEAN /\ pulling' \in {"no", "next", "copy"}
    BY DEF Abort
  <2> QED BY <2>1, <2>2, <2>3, <2>4, <2>5 DEF Abort, Inv, TypeOK
<1>5. Shape'
  BY <1>1, <1>3 DEF Abort, Inv, Shape, Wf
<1>6. Holds' /\ Noted' /\ OpenCapsules'
  BY <1>1 DEF Holds, Noted, OpenCapsules
<1>7. Finals'
  BY <1>1, NotFinal
<1> QED BY <1>4, <1>5, <1>6, <1>7 DEF Inv

LEMMA CloseChunksType ==
  ASSUME NEW w, Wf(w)
  PROVE  CloseChunks(w) \in Seq(Chunk)
<1>1. /\ PadChunks(w) \in Seq(Chunk) /\ <<NullChunk>> \in Seq(Chunk)
      /\ <<Trailer>> \in Seq(Chunk)
  BY ChunkTypes
<1> QED BY <1>1 DEF CloseChunks

(* finishEncryption: a successful close of the chain leaves dst with all   *)
(* of the archive and its tag, or has been preceded by an error.           *)
LEMMA FinishStep ==
  ASSUME Inv, tar, NEW op \in Ops, Finish(op)
  PROVE  Inv'
<1>1. PICK o \in TarClose(pipe) :
        \E s \in CloseOwned(o.w.sink) :
          /\ Chain([rv |-> o.rv, w |-> NoPipe(s)], files, CloseChunks(pipe))
          /\ Return(op, o.rv)
          /\ tar' = FALSE
          /\ recipients' = <<>>
          /\ finished' = TRUE
          /\ pulling' = "no"
          /\ UNCHANGED failed
  BY DEF Finish
<1>2. PICK s \in CloseOwned(o.w.sink) :
          /\ Chain([rv |-> o.rv, w |-> NoPipe(s)], files, CloseChunks(pipe))
          /\ Return(op, o.rv)
          /\ tar' = FALSE
          /\ recipients' = <<>>
          /\ finished' = TRUE
          /\ pulling' = "no"
          /\ UNCHANGED failed
  BY <1>1
<1>3. PICK c : c = CloseChunks(pipe)
  OBVIOUS
<1>4. Wf(pipe)
  BY DEF Inv, TypeOK, Shape, Wf
<1>5. c \in Seq(Chunk)
  BY <1>3, <1>4, CloseChunksType
<1>6. /\ o.rv \in {OK, ERR} /\ o.w.sink \in SinkType(Item) /\ SinkOK(o.w.sink)
      /\ o.w.sink.kind = pipe.sink.kind
      /\ o.rv = OK => Closes(pipe, o, c)
  <2>1. CASE Short(pipe)
    BY <1>4, <2>1, TarCloseShort DEF OK, ERR
  <2>2. CASE ~Short(pipe)
    BY <1>3, <1>4, <2>2, TarCloseOutcome DEF Closes
  <2> QED BY <2>1, <2>2
<1>7. /\ s \in SinkType(Item) /\ SinkOK(s)
      /\ s.data = o.w.sink.data /\ s.kind = o.w.sink.kind
      /\ s.refused = o.w.sink.refused
  <2>1. CASE s = o.w.sink
    BY <1>6, <2>1
  <2>2. ASSUME NEW d \in SinkClose(o.w.sink), s = d.sink
        PROVE  <1>7!1 /\ <1>7!2 /\ <1>7!3
    BY <1>6, <2>2, SinkCloseOutcome
  <2> QED BY <1>2, <2>1, <2>2 DEF CloseOwned
<1>8. /\ pipe' = NoPipe(s) /\ errors' = IF o.rv = OK THEN errors ELSE errors + 1
      /\ files' = files /\ archive' = IF o.rv = OK THEN archive \o c ELSE archive
      /\ UNCHANGED <<attempt, server, base, hdrLost>>
  BY <1>2, <1>3 DEF Chain
<1>9. Wf(pipe') /\ pipe'.sink = s
  BY <1>7, <1>8, NoPipeType
<1>10. /\ errors \in Nat /\ archive \in Seq(Chunk)
  BY DEF Inv, TypeOK
<1>11. ret' = [op |-> op, rv |-> o.rv]
  BY <1>2 DEF Return
<1>12. TypeOK'
  <2>1. errors' \in Nat /\ archive' \in Seq(Chunk)
    BY <1>5, <1>8, <1>10
  <2>2. ret' \in [op : Ops, rv : {OK, ERR}]
    BY <1>6, <1>11, ReturnType
  <2>3. pipe' \in PipeType
    BY <1>9 DEF Wf
  <2>4. tar' \in BOOLEAN /\ finished' \in BOOLEAN /\ pulling' \in {"no", "next", "copy"}
    BY <1>2
  <2>5. recipients' \in Seq(RecipientKind \ {"invalid"})
    <3>1. recipients' = <<>>
      BY <1>2
    <3> QED BY <3>1
  <2> QED BY <1>2, <1>8, <2>1, <2>2, <2>3, <2>4, <2>5 DEF Inv, TypeOK
<1>13. Shape' /\ Holds' /\ Noted' /\ OpenCapsules'
  BY <1>2, <1>8, <1>9 DEF Inv, Shape, Holds, Noted, OpenCapsules, Wf
<1>14. CASE ret'.rv # OK
  BY <1>12, <1>13, <1>14, NotFinal DEF Inv
<1>15. CASE ret'.rv = OK
  <2>1. o.rv = OK
    BY <1>11, <1>15
  <2>2. Closes(pipe, o, c)
    BY <1>6, <2>1
  <2>3. /\ ~pipe.cerr /\ pipe'.sink.refused = pipe.sink.refused
        /\ pipe'.sink.kind = pipe.sink.kind /\ pipe'.sink.data = o.w.sink.data
        /\ pipe.sink.kind = "stream" => ~o.w.sink.bad
    BY <1>6, <1>7, <1>9, <2>1, <2>2 DEF Closes
  <2>4. StickyFinish'
    <3>1. pipe.sink.kind \in SinkKind
      BY DEF Inv, TypeOK, PipeType, SinkType
    <3>2. pipe'.sink.refused => pipe.sink.kind \notin {"stream", "unopened"}
      BY <1>6, <1>7, <1>9, <2>3 DEF SinkOK
    <3> QED BY <2>3, <3>1, <3>2 DEF StickyFinish, SinkKind
  <2>5. NoSilentLoss'
    BY <1>8, <2>1, <2>3 DEF NoSilentLoss, Inv, Noted
  <2>6. Preamble' = Preamble /\ archive' = archive \o c
    BY <1>8, <2>1 DEF Preamble, Stored
  <2>7. ASSUME pipe'.sink.kind # "unopened", ~pipe'.sink.refused
        PROVE  pipe'.sink.data = Preamble' \o archive' \o <<Tag(archive')>>
    <3>1. pipe.sink.kind # "unopened" /\ ~pipe.sink.refused /\ Good(pipe, Preamble, archive)
      BY <2>3, <2>7 DEF Inv, Holds
    <3>2. o.w.sink.data = Preamble \o (archive \o c) \o <<Tag(archive \o c)>>
      BY <1>10, <2>1, <2>2, <3>1, PreambleType DEF Closes
    <3> QED BY <2>3, <2>6, <3>2
  <2>8. FinishExact'
    BY <2>7 DEF FinishExact, Unopened
  <2> QED BY <1>12, <1>13, <2>4, <2>5, <2>8 DEF Inv, Finals
<1> QED BY <1>14, <1>15

(* encrypt: recipients are added up to the first that is refused.          *)
LEMMA EncryptStep ==
  ASSUME Inv, NEW keys \in Seq(RecipientKind), EncryptBegin(keys)
  PROVE  Inv'
<1>1. "encrypt" \in Ops /\ pulling = "no" /\ ERR \in {OK, ERR}
  BY DEF EncryptBegin, Ops
<1>2. CASE finished \/ tar
  BY <1>1, <1>2, RefuseStep DEF EncryptBegin
<1>3. CASE ~(finished \/ tar)
  <2>1. PICK n \in 0 .. Len(keys) :
          /\ Accepts(keys, n)
          /\ LET rcpts == recipients \o SubSeq(keys, 1, n)
             IN  IF n < Len(keys) \/ rcpts = <<>>
                 THEN /\ recipients' = rcpts
                      /\ Return("encrypt", ERR)
                      /\ UNCHANGED <<tar, pipe, finished, pulling, attempt, server, history>>
                 ELSE WriteHeader("encrypt", rcpts, "next")
    BY <1>3 DEF EncryptBegin, EncryptKeys
  <2>2. PICK rcpts : rcpts = recipients \o SubSeq(keys, 1, n)
    OBVIOUS
  <2>3. rcpts \in Seq(RecipientKind \ {"invalid"})
    <3>1. \A i \in 1 .. n : keys[i] \in RecipientKind \ {"invalid"}
      BY <2>1 DEF Accepts
    <3>2. SubSeq(keys, 1, n) \in Seq(RecipientKind \ {"invalid"})
      BY <2>1, <3>1
    <3>3. recipients \in Seq(RecipientKind \ {"invalid"})
      BY DEF Inv, TypeOK
    <3> QED BY <2>2, <3>2, <3>3
  <2>4. CASE /\ recipients' = rcpts
             /\ Return("encrypt", ERR)
             /\ UNCHANGED <<tar, pipe, finished, pulling, attempt, server, history>>
    BY <1>1, <1>3, <2>3, <2>4, AddStep
  <2>5. CASE WriteHeader("encrypt", rcpts, "next")
    BY <1>1, <1>3, <2>3, <2>5, HeaderStep
  <2> QED BY <2>1, <2>2, <2>4, <2>5
<1> QED BY <1>2, <1>3

(* One step per action of Next.                                            *)
LEMMA NextInv == Inv /\ [Next]_vars => Inv'
<1> SUFFICES ASSUME Inv, [Next]_vars PROVE Inv'
  OBVIOUS
<1>1. Ops = {"create", "addRecipient", "beginEncryption", "addFile", "writeData",
             "finishEncryption", "encrypt"}
  BY DEF Ops
<1>2. "beginEncryption" \in Ops /\ "addFile" \in Ops /\ "writeData" \in Ops
      /\ "finishEncryption" \in Ops /\ "encrypt" \in Ops /\ "addRecipient" \in Ops
  BY <1>1
<1>3. Wf(pipe) /\ (pulling # "no" => tar) /\ OK \in {OK, ERR} /\ ERR \in {OK, ERR}
  BY DEF Inv, TypeOK, Shape, Wf
<1>4. ret \in [op : Ops, rv : {OK, ERR}] /\ pulling \in {"no", "next", "copy"}
  BY DEF Inv, TypeOK
<1>5. ASSUME NEW w, NEW o, NEW c, Proceeds(w, o, c), Wf(w)
      PROVE  Wf(o.w) /\ o.rv \in {OK, ERR}
  BY <1>3, <1>5 DEF Proceeds, Sound
<1>6. ASSUME NEW kind \in RecipientKind, AddRecipient(kind)
      PROVE  Inv'
  <2>1. CASE finished \/ tar \/ kind = "invalid"
    BY <1>2, <1>6, <2>1, RefuseStep DEF AddRecipient
  <2>2. CASE ~(finished \/ tar \/ kind = "invalid")
    <3>1. recipients' = Append(recipients, kind)
      BY <1>6, <2>2 DEF AddRecipient, Added
    <3>2. recipients' \in Seq(RecipientKind \ {"invalid"})
      BY <2>2, <3>1 DEF Inv, TypeOK
    <3> QED BY <1>2, <1>3, <1>6, <2>2, <3>2, AddStep DEF AddRecipient, Added
  <2> QED BY <2>1, <2>2
<1>7. ASSUME BeginEncryption
      PROVE  Inv'
  <2>1. CASE finished \/ recipients = <<>> \/ tar
    BY <1>2, <1>7, <2>1, RefuseStep DEF BeginEncryption
  <2>2. CASE ~(finished \/ recipients = <<>> \/ tar)
    <3>1. recipients \in Seq(RecipientKind \ {"invalid"})
      BY DEF Inv, TypeOK
    <3> QED BY <1>2, <1>7, <2>2, <3>1, HeaderStep DEF BeginEncryption
  <2> QED BY <2>1, <2>2
<1>8. ASSUME NEW size \in Int, NEW pax \in BOOLEAN, AddFile(size, pax)
      PROVE  Inv'
  <2>1. CASE finished \/ ~tar \/ size < 0
    BY <1>2, <1>8, <2>1, RefuseStep DEF AddFile
  <2>2. CASE ~(finished \/ ~tar \/ size < 0)
    <3>1. PICK o \in TarOpen(pipe, size, pax) :
            /\ Chain(o, Opened(size, pax), OpenChunks(pipe, size, pax))
            /\ Return("addFile", o.rv)
            /\ UNCHANGED <<recipients, tar, finished, pulling, failed>>
      BY <1>8, <2>2 DEF AddFile
    <3>2. /\ Proceeds(pipe, o, OpenChunks(pipe, size, pax))
          /\ OpenChunks(pipe, size, pax) \in Seq(Chunk) /\ Opened(size, pax) \in Seq(File)
      BY <1>8, <3>1, OpenProceeds
    <3>3. ret' \in [op : Ops, rv : {OK, ERR}]
      BY <1>2, <1>3, <1>5, <3>1, <3>2, ReturnType DEF Return
    <3> QED BY <1>4, <2>2, <3>1, <3>2, <3>3, ChainStep
  <2> QED BY <2>1, <2>2
<1>9. ASSUME NEW n \in Nat \ {0}, WriteData(n)
      PROVE  Inv'
  <2>1. CASE finished \/ ~tar
    BY <1>2, <1>9, <2>1, RefuseStep DEF WriteData
  <2>2. CASE ~(finished \/ ~tar)
    <3>1. PICK o \in TarWrite(pipe, n) :
            /\ Chain(o, Grown(n), DataChunks(pipe, n))
            /\ Return("writeData", o.rv)
            /\ UNCHANGED <<recipients, tar, finished, pulling, failed>>
      BY <1>9, <2>2 DEF WriteData
    <3>2. /\ Proceeds(pipe, o, DataChunks(pipe, n))
          /\ DataChunks(pipe, n) \in Seq(Chunk) /\ Grown(n) \in Seq(File)
      BY <1>9, <3>1, WriteProceeds
    <3>3. ret' \in [op : Ops, rv : {OK, ERR}]
      BY <1>2, <1>3, <1>5, <3>1, <3>2, ReturnType DEF Return
    <3> QED BY <1>4, <2>2, <3>1, <3>2, <3>3, ChainStep
  <2> QED BY <2>1, <2>2
<1>10. ASSUME FinishEncryption
       PROVE  Inv'
  <2>1. CASE finished \/ ~tar
    BY <1>2, <1>10, <2>1, RefuseStep DEF FinishEncryption
  <2>2. CASE ~(finished \/ ~tar)
    BY <1>2, <1>10, <2>2, FinishStep DEF FinishEncryption
  <2> QED BY <2>1, <2>2
<1>11. ASSUME NEW keys \in Seq(RecipientKind), EncryptBegin(keys)
       PROVE  Inv'
  BY <1>11, EncryptStep
<1>12. ASSUME NEW size \in Int, NEW pax \in BOOLEAN, PullFile(size, pax)
       PROVE  Inv'
  <2>1. PICK o \in TarOpen(pipe, size, pax) :
          IF o.rv # OK THEN Abort(o.w)
          ELSE /\ Chain(o, Opened(size, pax), OpenChunks(pipe, size, pax))
               /\ pulling' = "copy"
               /\ UNCHANGED <<recipients, tar, finished, ret, failed>>
    BY <1>12 DEF PullFile
  <2>2. /\ Proceeds(pipe, o, OpenChunks(pipe, size, pax))
        /\ OpenChunks(pipe, size, pax) \in Seq(Chunk) /\ Opened(size, pax) \in Seq(File)
    BY <1>12, <2>1, OpenProceeds
  <2>3. tar /\ Wf(o.w)
    BY <1>3, <1>5, <1>12, <2>2 DEF PullFile
  <2>4. CASE o.rv # OK
    BY <2>1, <2>3, <2>4, AbortStep
  <2>5. CASE o.rv = OK
    BY <1>4, <2>1, <2>2, <2>3, <2>5, ChainStep
  <2> QED BY <2>4, <2>5
<1>13. ASSUME NEW n \in Nat \ {0}, PullData(n)
       PROVE  Inv'
  <2>1. PICK o \in TarWrite(pipe, n) :
          IF o.rv # OK THEN Abort(o.w)
          ELSE /\ Chain(o, Grown(n), DataChunks(pipe, n))
               /\ UNCHANGED <<recipients, tar, finished, pulling, ret, failed>>
    BY <1>13 DEF PullData
  <2>2. /\ Proceeds(pipe, o, DataChunks(pipe, n))
        /\ DataChunks(pipe, n) \in Seq(Chunk) /\ Grown(n) \in Seq(File)
    BY <1>13, <2>1, WriteProceeds
  <2>3. tar /\ Wf(o.w)
    BY <1>3, <1>5, <1>13, <2>2 DEF PullData
  <2>4. CASE o.rv # OK
    BY <2>1, <2>3, <2>4, AbortStep
  <2>5. CASE o.rv = OK
    BY <1>4, <2>1, <2>2, <2>3, <2>5, ChainStep
  <2> QED BY <2>4, <2>5
<1>14. CASE PullEof
  <2>1. tar /\ UNCHANGED <<recipients, tar, pipe, finished, attempt, server, ret, history>>
        /\ pulling' \in {"no", "next", "copy"}
    BY <1>3, <1>14 DEF PullEof
  <2>2. TypeOK' /\ Shape'
    BY <2>1 DEF Inv, TypeOK, Shape, history
  <2>3. Holds' /\ Noted' /\ OpenCapsules'
    BY <2>1 DEF Inv, Holds, Preamble, Stored, Noted, OpenCapsules, history
  <2>4. ~finished'
    BY <2>1 DEF Inv, Shape
  <2> QED BY <2>2, <2>3, <2>4, NotFinal DEF Inv
<1>15. CASE PullError
  BY <1>3, <1>15, AbortStep DEF PullError
<1>16. CASE PullEnd
  BY <1>2, <1>3, <1>16, FinishStep DEF PullEnd
<1>17. CASE UNCHANGED vars
  <2>1. TypeOK' /\ Shape'
    BY <1>17 DEF Inv, TypeOK, Shape, vars, history
  <2>2. Holds' /\ Noted' /\ OpenCapsules'
    BY <1>17 DEF Inv, Holds, Preamble, Stored, Noted, OpenCapsules, vars, history
  <2>3. Finals'
    BY <1>17 DEF Inv, Finals, FinishExact, StickyFinish, NoSilentLoss, FinishedOK, Preamble,
                 Stored, vars, history
  <2> QED BY <2>1, <2>2, <2>3 DEF Inv
<1> QED BY <1>6, <1>7, <1>8, <1>9, <1>10, <1>11, <1>12, <1>13, <1>14, <1>15, <1>16, <1>17,
        NextInputs

----------------------------------------------------------------------------
(* What has reached dst since the writer was created: headers of failed    *)
(* attempts and of the current one, and a tag only when the writer has     *)
(* finished.  A failed attempt is one whose chain is gone.                 *)
Started(a) == (tar \/ finished) /\ a = attempt
HeadersKnown ==
  \A x \in Reached(pipe.sink) : x \in HeaderPart => x.attempt \in failed \/ Started(x.attempt)
TagIsFinal == \A x \in Reached(pipe.sink) : x \in TagItem => finished

TraceInv == HeadersKnown /\ TagIsFinal

HeadersOf(a) == {x \in HeaderPart : x.attempt = a}

(* The parts of a container can be told apart.                             *)
LEMMA KindsApart ==
  /\ \A x \in Chunk : x \notin HeaderPart /\ x \notin TagItem
  /\ \A x \in HeaderPart : x \notin TagItem
<1>1. \A x \in Chunk : DOMAIN x = {"k", "file", "n"}
  BY DEF Chunk
<1>2. \A x \in HeaderPart : DOMAIN x = {"part", "attempt", "caps"}
  BY DEF HeaderPart
<1>3. \A x \in TagItem : DOMAIN x = {"tag"}
  BY DEF TagItem
<1> QED BY <1>1, <1>2, <1>3

(* writeHeader adds fields of its own attempt, and no others.              *)
LEMMA IgnoredReached ==
  ASSUME NEW R, NEW a, NEW item \in Item, item \in HeadersOf(a), HeadersOf(a) \subseteq R, NEW S,
         \A t \in S : t \in SinkType(Item) /\ SinkOK(t) /\ Reached(t) \subseteq R,
         NEW s \in Ignored(S, item)
  PROVE  s \in SinkType(Item) /\ SinkOK(s) /\ Reached(s) \subseteq R
<1>1. PICK t \in S : \E o \in SinkWrite(t, <<item>>) : s = o.sink
  BY DEF Ignored
<1>2. PICK o \in SinkWrite(t, <<item>>) : s = o.sink
  BY <1>1
<1>3. <<item>> \in Seq(Item) /\ Elements(<<item>>) = {item}
  BY DEF Elements
<1>4. t \in SinkType(Item) /\ SinkOK(t) /\ Reached(t) \subseteq R
  BY <1>1
<1>5. o.sink \in SinkType(Item) /\ SinkOK(o.sink)
  BY <1>3, <1>4, SinkWriteOutcome
<1>6. Reached(o.sink) \subseteq Reached(t) \cup Elements(<<item>>)
  BY <1>3, <1>4, SinkWriteReached
<1> QED BY <1>2, <1>3, <1>4, <1>5, <1>6

LEMMA WriteFieldsReached ==
  ASSUME NEW s0 \in SinkType(Item), SinkOK(s0), NEW a \in Nat, NEW caps \in SUBSET Capsule,
         NEW s \in WriteFields(s0, a, caps)
  PROVE  s \in SinkType(Item) /\ SinkOK(s) /\ Reached(s) \subseteq Reached(s0) \cup HeadersOf(a)
<1>1. PICK f1, f2, f3, f4 : /\ f1 = Field("label", a, {}) /\ f2 = Field("len", a, {})
                            /\ f3 = Field("header", a, caps) /\ f4 = Field("hmac", a, {})
  OBVIOUS
<1>2. /\ f1 \in Item /\ f2 \in Item /\ f3 \in Item /\ f4 \in Item
      /\ f1 \in HeadersOf(a) /\ f2 \in HeadersOf(a) /\ f3 \in HeadersOf(a) /\ f4 \in HeadersOf(a)
  BY <1>1, FieldType DEF HeadersOf, Field, HeaderPart, Capsule
<1>3. PICK R, S0, S1, S2, S3 : /\ S0 = {s0} /\ S1 = Ignored(S0, f1) /\ S2 = Ignored(S1, f2)
                               /\ S3 = Ignored(S2, f3) /\ R = Reached(s0) \cup HeadersOf(a)
  OBVIOUS
<1>4. s \in Ignored(S3, f4) /\ HeadersOf(a) \subseteq R
  BY <1>1, <1>3 DEF WriteFields
<1>5. \A t \in S0 : t \in SinkType(Item) /\ SinkOK(t) /\ Reached(t) \subseteq R
  BY <1>3
<1>6. \A t \in S1 : t \in SinkType(Item) /\ SinkOK(t) /\ Reached(t) \subseteq R
  BY <1>2, <1>3, <1>4, <1>5, IgnoredReached
<1>7. \A t \in S2 : t \in SinkType(Item) /\ SinkOK(t) /\ Reached(t) \subseteq R
  BY <1>2, <1>3, <1>4, <1>6, IgnoredReached
<1>8. \A t \in S3 : t \in SinkType(Item) /\ SinkOK(t) /\ Reached(t) \subseteq R
  BY <1>2, <1>3, <1>4, <1>7, IgnoredReached
<1> QED BY <1>2, <1>3, <1>4, <1>8, IgnoredReached

LEMMA NoPipeSink == ASSUME NEW s PROVE NoPipe(s).sink = s
BY DEF NoPipe, NewPipe

(* Steps that leave dst and the course of the attempts as they are.        *)
LEMMA TraceKept ==
  ASSUME TraceInv, UNCHANGED <<pipe, tar, finished, attempt, failed>>
  PROVE  TraceInv'
BY DEF TraceInv, HeadersKnown, TagIsFinal, Started

LEMMA TraceHeader ==
  ASSUME Inv, TraceInv, ~tar, ~finished, NEW op, NEW rcpts \in Seq(RecipientKind \ {"invalid"}),
         NEW loop, WriteHeader(op, rcpts, loop)
  PROVE  TraceInv'
<1> DEFINE a == attempt + 1
<1>1. PICK b \in BuildHeader(rcpts, a) :
        IF b.rv # OK THEN UNCHANGED <<tar, pipe, history>>
        ELSE \E s \in WriteFields(Fresh(pipe.sink), a, b.caps) :
             \E o \in SinkWrite(s, <<Nonce(a)>>) :
               \/ tar' = TRUE /\ pipe' = NewPipe(o) /\ failed' = failed
               \/ /\ \E v \in {s, o.sink} : pipe' = NoPipe(v)
                  /\ failed' = failed \cup {a} /\ tar' = tar
  BY DEF WriteHeader
<1>2. attempt' = a /\ finished' = finished /\ attempt \in Nat /\ a \in Nat
  BY DEF WriteHeader, Inv, TypeOK
<1>3. \A x \in Reached(pipe.sink) : /\ x \in HeaderPart => x.attempt \in failed
                                    /\ x \notin TagItem
  BY DEF TraceInv, HeadersKnown, TagIsFinal, Started
<1>4. CASE b.rv # OK
  BY <1>1, <1>2, <1>3, <1>4 DEF TraceInv, HeadersKnown, TagIsFinal, Started, history
<1>5. CASE b.rv = OK
  <2>1. PICK s \in WriteFields(Fresh(pipe.sink), a, b.caps) :
             \E o \in SinkWrite(s, <<Nonce(a)>>) :
               \/ tar' = TRUE /\ pipe' = NewPipe(o) /\ failed' = failed
               \/ /\ \E v \in {s, o.sink} : pipe' = NoPipe(v)
                  /\ failed' = failed \cup {a} /\ tar' = tar
    BY <1>1, <1>5
  <2>2. PICK o \in SinkWrite(s, <<Nonce(a)>>) :
               \/ tar' = TRUE /\ pipe' = NewPipe(o) /\ failed' = failed
               \/ /\ \E v \in {s, o.sink} : pipe' = NoPipe(v)
                  /\ failed' = failed \cup {a} /\ tar' = tar
    BY <2>1
  <2>3. PICK s0 : s0 = Fresh(pipe.sink)
    OBVIOUS
  <2>4. pipe.sink \in SinkType(Item) /\ SinkOK(pipe.sink)
    BY PipeFields DEF Inv, TypeOK, Shape
  <2>5. s0 \in SinkType(Item) /\ SinkOK(s0) /\ Reached(s0) = Reached(pipe.sink)
    BY <2>3, <2>4 DEF Fresh, SinkType, SinkOK, Reached
  <2>6. b.caps \in SUBSET Capsule
    <3>1. rcpts \in Seq(RecipientKind)
      OBVIOUS
    <3> QED BY <1>2, <3>1, BuildHeaderType
  <2>7. s \in SinkType(Item) /\ SinkOK(s) /\ Reached(s) \subseteq Reached(s0) \cup HeadersOf(a)
    BY <1>2, <2>1, <2>3, <2>5, <2>6, WriteFieldsReached
  <2>8. /\ Nonce(a) \in Item /\ <<Nonce(a)>> \in Seq(Item)
        /\ Elements(<<Nonce(a)>>) \subseteq HeadersOf(a)
    <3>1. PICK x : x = Nonce(a)
      OBVIOUS
    <3>2. x \in Item /\ x \in HeadersOf(a)
      BY <1>2, <3>1, FieldType DEF HeadersOf, HeaderPart, Nonce, Field
    <3> QED BY <3>1, <3>2 DEF Elements
  <2>9. Reached(o.sink) \subseteq Reached(s) \cup Elements(<<Nonce(a)>>)
    BY <2>2, <2>7, <2>8, SinkWriteReached
  <2>10. pipe'.sink \in {s, o.sink}
    BY <2>2, NoPipeSink DEF NewPipe
  <2>11. Reached(pipe'.sink) \subseteq Reached(pipe.sink) \cup HeadersOf(a)
    BY <2>5, <2>7, <2>8, <2>9, <2>10
  <2>12. TagIsFinal'
    BY <1>3, <2>11, KindsApart DEF TagIsFinal, HeadersOf
  <2>13. HeadersKnown'
    BY <1>2, <1>3, <2>2, <2>11 DEF HeadersKnown, HeadersOf, Started
  <2> QED BY <2>12, <2>13 DEF TraceInv
<1> QED BY <1>4, <1>5

(* Chunks are all that the open chain brings to dst.                       *)
LEMMA TraceChain ==
  ASSUME TraceInv, Reached(pipe'.sink) \subseteq Reached(pipe.sink) \cup Chunk,
         finished' = finished, attempt' = attempt,
         \/ tar' = tar /\ failed' = failed
         \/ ~finished /\ failed' = failed \cup {attempt}
  PROVE  TraceInv'
BY KindsApart DEF TraceInv, HeadersKnown, TagIsFinal, Started

LEMMA TraceFinish ==
  ASSUME Inv, TraceInv, tar, NEW op, Finish(op)
  PROVE  TraceInv'
<1>1. PICK o \in TarClose(pipe) :
        \E s \in CloseOwned(o.w.sink) :
          /\ pipe' = NoPipe(s) /\ finished' = TRUE /\ UNCHANGED <<attempt, failed>>
  BY DEF Finish, Chain
<1>2. PICK s \in CloseOwned(o.w.sink) :
          /\ pipe' = NoPipe(s) /\ finished' = TRUE /\ UNCHANGED <<attempt, failed>>
  BY <1>1
<1>3. Wf(pipe)
  BY DEF Inv, TypeOK, Shape, Wf
<1>4. /\ o.w.sink \in SinkType(Item) /\ SinkOK(o.w.sink)
      /\ Reached(o.w.sink) \subseteq Reached(pipe.sink) \cup Chunk \cup TagItem
  <2>1. CASE Short(pipe)
    BY <1>3, <2>1, TarCloseShort
  <2>2. CASE ~Short(pipe)
    BY <1>3, <2>2, TarCloseOutcome DEF Closes
  <2> QED BY <2>1, <2>2
<1>5. s.data = o.w.sink.data
  <2>1. CASE s = o.w.sink
    BY <2>1
  <2>2. ASSUME NEW d \in SinkClose(o.w.sink), s = d.sink PROVE s.data = o.w.sink.data
    BY <1>4, <2>2, SinkCloseOutcome
  <2> QED BY <1>2, <2>1, <2>2 DEF CloseOwned
<1>6. pipe'.sink = s /\ Reached(s) = Reached(o.w.sink)
  BY <1>2, <1>5, NoPipeSink DEF Reached
<1> QED BY <1>2, <1>4, <1>6, KindsApart DEF TraceInv, HeadersKnown, TagIsFinal, Started

LEMMA TraceStep ==
  ASSUME Inv, TraceInv, [Next]_vars
  PROVE  TraceInv'
<1>1. Wf(pipe) /\ (pulling # "no" => tar) /\ (tar => ~finished)
  BY DEF Inv, TypeOK, Shape, Wf
<1>2. ASSUME NEW o, NEW c, Proceeds(pipe, o, c)
      PROVE  Reached(o.w.sink) \subseteq Reached(pipe.sink) \cup Chunk
  BY <1>2 DEF Proceeds, Sound
<1>3. ASSUME NEW o, NEW fs, NEW c, NEW d, Proceeds(pipe, o, d), Chain(o, fs, c),
             UNCHANGED <<tar, finished, failed>>
      PROVE  TraceInv'
  BY <1>2, <1>3, TraceChain DEF Chain
<1>4. ASSUME NEW w, Reached(w.sink) \subseteq Reached(pipe.sink) \cup Chunk, tar, Abort(w)
      PROVE  TraceInv'
  BY <1>1, <1>4, NoPipeSink, TraceChain DEF Abort
<1>5. ASSUME NEW kind \in RecipientKind, AddRecipient(kind)
      PROVE  TraceInv'
  BY <1>5, TraceKept DEF AddRecipient, Refuse, Added, history
<1>6. CASE BeginEncryption
  <2>1. CASE finished \/ recipients = <<>> \/ tar
    BY <1>6, <2>1, TraceKept DEF BeginEncryption, Refuse, history
  <2>2. CASE ~(finished \/ recipients = <<>> \/ tar)
    BY <1>6, <2>2, TraceHeader DEF BeginEncryption, Inv, TypeOK
  <2> QED BY <2>1, <2>2
<1>7. ASSUME NEW size \in Int, NEW pax \in BOOLEAN, AddFile(size, pax) \/ PullFile(size, pax)
      PROVE  TraceInv'
  <2>1. CASE Refuse("addFile")
    BY <2>1, TraceKept DEF Refuse, history
  <2>2. ASSUME NEW o \in TarOpen(pipe, size, pax), tar,
               \/ /\ Chain(o, Opened(size, pax), OpenChunks(pipe, size, pax))
                  /\ UNCHANGED <<tar, finished, failed>>
               \/ Abort(o.w)
        PROVE  TraceInv'
    BY <1>2, <1>3, <1>4, <2>2, OpenProceeds
  <2> QED BY <1>1, <1>7, <2>1, <2>2 DEF AddFile, PullFile
<1>8. ASSUME NEW k \in Nat \ {0}, WriteData(k) \/ PullData(k)
      PROVE  TraceInv'
  <2>1. CASE Refuse("writeData")
    BY <2>1, TraceKept DEF Refuse, history
  <2>2. ASSUME NEW o \in TarWrite(pipe, k), tar,
               \/ /\ Chain(o, Grown(k), DataChunks(pipe, k))
                  /\ UNCHANGED <<tar, finished, failed>>
               \/ Abort(o.w)
        PROVE  TraceInv'
    BY <1>2, <1>3, <1>4, <2>2, WriteProceeds
  <2> QED BY <1>1, <1>8, <2>1, <2>2 DEF WriteData, PullData
<1>9. CASE FinishEncryption \/ PullEnd
  <2>1. CASE Refuse("finishEncryption")
    BY <2>1, TraceKept DEF Refuse, history
  <2> QED BY <1>1, <1>9, <2>1, TraceFinish DEF FinishEncryption, PullEnd
<1>10. ASSUME NEW keys \in Seq(RecipientKind), EncryptBegin(keys)
       PROVE  TraceInv'
  <2>1. CASE finished \/ tar
    BY <1>10, <2>1, TraceKept DEF EncryptBegin, Refuse, history
  <2>2. CASE ~(finished \/ tar)
    <3>1. PICK m \in 0 .. Len(keys) :
            /\ Accepts(keys, m)
            /\ \/ UNCHANGED <<tar, pipe, finished, pulling, attempt, server, history>>
               \/ WriteHeader("encrypt", recipients \o SubSeq(keys, 1, m), "next")
      BY <1>10, <2>2 DEF EncryptBegin, EncryptKeys
    <3>2. keys \in Seq(RecipientKind)
      OBVIOUS
    <3>3. recipients \o SubSeq(keys, 1, m) \in Seq(RecipientKind \ {"invalid"})
      <4>1. \A i \in 1 .. m : keys[i] \in RecipientKind \ {"invalid"}
        BY <3>1, <3>2 DEF Accepts
      <4>2. SubSeq(keys, 1, m) \in Seq(RecipientKind \ {"invalid"})
        BY <3>1, <3>2, <4>1
      <4>3. recipients \in Seq(RecipientKind \ {"invalid"})
        BY DEF Inv, TypeOK
      <4> QED BY <4>2, <4>3
    <3> QED BY <2>2, <3>1, <3>3, TraceKept, TraceHeader DEF history
  <2> QED BY <2>1, <2>2
<1>11. CASE PullEof \/ UNCHANGED vars
  BY <1>11, TraceKept DEF PullEof, vars, history
<1>12. CASE PullError
  BY <1>1, <1>4, <1>12 DEF PullError
<1> QED BY <1>5, <1>6, <1>7, <1>8, <1>9, <1>10, <1>11, <1>12, NextInputs

(* A writer that has finished refuses every call.                          *)
LEMMA FinalDst ==
  ASSUME Inv, TraceInv, [Next]_vars, HasTag(pipe.sink)
  PROVE  pipe' = pipe
<1>1. finished /\ ~tar /\ pulling = "no"
  BY DEF HasTag, TraceInv, TagIsFinal, Reached, Elements, Inv, TypeOK, Shape
<1>2. CASE UNCHANGED vars
  BY <1>2 DEF vars
<1> QED BY <1>1, <1>2 DEF Next, AddRecipient, BeginEncryption, AddFile, WriteData, FinishEncryption,
       EncryptBegin, PullFile, PullData, PullEof, PullError, PullEnd, Refuse

----------------------------------------------------------------------------
(* The archive: FlattenSeq, then the chunks of the files one after the     *)
(* other.                                                                  *)

(* Every set of numbers has a least member: what stands for induction in   *)
(* the lemmas on FlattenSeq.                                               *)
LEMMA LeastNumber ==
  ASSUME NEW S \in SUBSET Nat, S # {}
  PROVE  \E m \in S : \A n \in S : m <= n
<1>1. PICK m \in S : \A n \in S : ~ (<<n, m>> \in OpToRel(<, Nat))
  BY WFMin, NatLessThanWellFounded
<1>2. ASSUME NEW n \in S PROVE m <= n
  <2>1. ~ (n < m)
    BY <1>1 DEF OpToRel
  <2> QED BY <2>1
<1> QED BY <1>2

(* What FlattenSeq computes: f[i] is the concatenation of the first i.     *)
Flattens(f, ss, n) ==
  f = [i \in 1 .. n |-> IF i = 1 THEN ss[i] ELSE f[i - 1] \o ss[i]]

(* There is such a function for every sequence.                            *)
LEMMA FlattensExists ==
  ASSUME NEW ss, NEW n \in Nat
  PROVE  \E f : Flattens(f, ss, n)
<1> DEFINE S == {m \in Nat : ~\E f : Flattens(f, ss, m)}
<1>1. SUFFICES ASSUME S # {} PROVE FALSE
  OBVIOUS
<1>2. PICK m \in S : \A k \in S : m <= k
  BY <1>1, LeastNumber
<1>3. m # 0
  <2>1. Flattens(<<>>, ss, 0)
    BY DEF Flattens
  <2> QED BY <2>1
<1>4. m - 1 \in Nat /\ m - 1 \notin S
  BY <1>2, <1>3
<1>5. PICK f : Flattens(f, ss, m - 1)
  BY <1>4
<1> DEFINE g == [i \in 1 .. m |-> IF i = m THEN (IF i = 1 THEN ss[i] ELSE f[i - 1] \o ss[i]) ELSE f[i]]
<1>6. \A i \in 1 .. m - 1 : g[i] = f[i]
  BY <1>2
<1>7. \A i \in 1 .. m - 1 : f[i] = IF i = 1 THEN ss[i] ELSE f[i - 1] \o ss[i]
  BY <1>5 DEF Flattens
<1>8. ASSUME NEW i \in 1 .. m
      PROVE  g[i] = IF i = 1 THEN ss[i] ELSE g[i - 1] \o ss[i]
  <2>1. i # 1 => i - 1 \in 1 .. m - 1
    BY <1>2
  <2>2. CASE i = m
    <3>1. g[i] = IF i = 1 THEN ss[i] ELSE f[i - 1] \o ss[i]
      BY <2>2
    <3> HIDE DEF g
    <3> QED BY <1>6, <2>1, <3>1
  <2>3. CASE i # m
    <3>1. i \in 1 .. m - 1
      BY <1>2, <2>3
    <3> HIDE DEF g
    <3> QED BY <1>6, <1>7, <2>1, <3>1
  <2> QED BY <2>2, <2>3
<1>9. Flattens(g, ss, m)
  <2>1. DOMAIN g = 1 .. m /\ g = [i \in DOMAIN g |-> g[i]]
    OBVIOUS
  <2> HIDE DEF g
  <2> QED BY <1>8, <2>1 DEF Flattens
<1> QED BY <1>2, <1>9

(* Its elements, one at a time.                                            *)
LEMMA FlattensAt ==
  ASSUME NEW ss, NEW n, NEW f, Flattens(f, ss, n), NEW i \in 1 .. n
  PROVE  f[i] = IF i = 1 THEN ss[i] ELSE f[i - 1] \o ss[i]
<1> DEFINE h == [k \in 1 .. n |-> IF k = 1 THEN ss[k] ELSE f[k - 1] \o ss[k]]
<1>1. f = h
  BY DEF Flattens
<1>2. h[i] = IF i = 1 THEN ss[i] ELSE f[i - 1] \o ss[i]
  OBVIOUS
<1> HIDE DEF h
<1> QED BY <1>1, <1>2

(* tt starts with the first n elements of ss.                              *)
Continues(ss, tt, n) == \A i \in 1 .. n : ss[i] = tt[i]

(* Longer sequences continue what shorter ones have.                       *)
LEMMA FlattensAgree ==
  ASSUME NEW ss, NEW tt, NEW n \in Nat, NEW m \in Nat, n <= m, Continues(ss, tt, n),
         NEW f, Flattens(f, ss, n), NEW g, Flattens(g, tt, m)
  PROVE  Continues(f, g, n)
<1> DEFINE S == {i \in 1 .. n : f[i] # g[i]}
<1>1. SUFFICES ASSUME S # {} PROVE FALSE
  BY DEF Continues
<1>2. S \in SUBSET Nat
  OBVIOUS
<1>3. PICK i \in S : \A k \in S : i <= k
  <2> HIDE DEF S
  <2> QED BY <1>1, <1>2, LeastNumber
<1>4. i \in 1 .. n /\ i \in 1 .. m
  OBVIOUS
<1>5. /\ f[i] = IF i = 1 THEN ss[i] ELSE f[i - 1] \o ss[i]
      /\ g[i] = IF i = 1 THEN tt[i] ELSE g[i - 1] \o tt[i]
  BY <1>4, FlattensAt
<1>6. i # 1 => i - 1 \in 1 .. n /\ i - 1 \notin S
  BY <1>3, <1>4
<1>7. f[i] = g[i]
  BY <1>4, <1>5, <1>6 DEF Continues
<1> QED BY <1>7

(* FlattenSeq of a sequence that is not empty is its last element.         *)
LEMMA FlattenIs ==
  ASSUME NEW X, NEW ss \in Seq(X), ss # <<>>
  PROVE  \E f : Flattens(f, ss, Len(ss)) /\ FlattenSeq(ss) = f[Len(ss)]
<1>1. Len(ss) \in Nat /\ Len(ss) # 0
  BY EmptySeq
<1> DEFINE F == CHOOSE f : Flattens(f, ss, Len(ss))
<1>2. Flattens(F, ss, Len(ss))
  BY <1>1, FlattensExists
<1>3. FlattenSeq(ss) = F[Len(ss)]
  BY <1>1 DEF FlattenSeq, Flattens
<1> QED BY <1>2, <1>3

(* Sequences over X are concatenated to a sequence over X.                 *)
LEMMA FlattenType ==
  ASSUME NEW X, NEW ss \in Seq(Seq(X))
  PROVE  FlattenSeq(ss) \in Seq(X)
<1>1. PICK n : n = Len(ss)
  OBVIOUS
<1>2. n \in Nat /\ \A i \in 1 .. n : ss[i] \in Seq(X)
  BY <1>1
<1>3. CASE n = 0
  <2>1. Len(ss) = 0
    BY <1>1, <1>3
  <2>2. FlattenSeq(ss) = ss
    BY <2>1 DEF FlattenSeq
  <2>3. ss = <<>>
    BY <2>1, EmptySeq
  <2> QED BY <2>2, <2>3
<1>4. CASE n # 0
  <2>1. ss # <<>>
    BY <1>1, <1>4
  <2>2. PICK f : Flattens(f, ss, n) /\ FlattenSeq(ss) = f[n]
    BY <1>1, <2>1, FlattenIs
  <2> DEFINE S == {i \in 1 .. n : f[i] \notin Seq(X)}
  <2>3. S = {}
    <3>1. SUFFICES ASSUME S # {} PROVE FALSE
      OBVIOUS
    <3>2. S \in SUBSET Nat
      BY <1>2
    <3>3. PICK i \in S : \A k \in S : i <= k
      <4> HIDE DEF S
      <4> QED BY <3>1, <3>2, LeastNumber
    <3>4. i \in 1 .. n
      OBVIOUS
    <3>5. f[i] = IF i = 1 THEN ss[i] ELSE f[i - 1] \o ss[i]
      <4>1. Flattens(f, ss, n)
        BY <2>2
      <4> QED BY <3>4, <4>1, FlattensAt
    <3>6. i # 1 => i - 1 \in 1 .. n /\ i - 1 \notin S
      BY <1>2, <3>3, <3>4
    <3>7. f[i] \in Seq(X)
      BY <1>2, <3>4, <3>5, <3>6
    <3> QED BY <3>7
  <2>4. n \in 1 .. n
    BY <1>2, <1>4
  <2> QED BY <2>2, <2>3, <2>4
<1> QED BY <1>3, <1>4

(* The concatenation grows by what is appended.                            *)
LEMMA FlattenAppend ==
  ASSUME NEW X, NEW ss \in Seq(Seq(X)), NEW s \in Seq(X)
  PROVE  FlattenSeq(Append(ss, s)) = FlattenSeq(ss) \o s
<1>1. PICK tt : tt = Append(ss, s)
  OBVIOUS
<1>2. PICK n : n = Len(ss)
  OBVIOUS
<1>3. PICK m : m = n + 1
  OBVIOUS
<1>4. /\ tt \in Seq(Seq(X)) /\ Len(tt) = m /\ n \in Nat /\ m \in Nat /\ tt # <<>>
      /\ tt[m] = s /\ \A i \in 1 .. n : ss[i] = tt[i]
  BY <1>1, <1>2, <1>3
<1>5. n <= m /\ m \in 1 .. m /\ m - 1 = n /\ (m = 1 <=> n = 0)
  BY <1>3, <1>4
<1>6. PICK g : Flattens(g, tt, m) /\ FlattenSeq(tt) = g[m]
  BY <1>4, FlattenIs
<1>7. g[m] = IF m = 1 THEN tt[m] ELSE g[m - 1] \o tt[m]
  <2>1. Flattens(g, tt, m)
    BY <1>6
  <2> QED BY <1>5, <2>1, FlattensAt
<1>8. CASE n = 0
  <2>1. Len(ss) = 0
    BY <1>2, <1>8
  <2>2. ss = <<>>
    BY <2>1, EmptySeq
  <2>3. FlattenSeq(ss) = ss
    BY <2>1 DEF FlattenSeq
  <2>4. ss \o s = s
    BY <2>2
  <2> QED BY <1>1, <1>4, <1>5, <1>6, <1>7, <1>8, <2>3, <2>4
<1>9. CASE n # 0
  <2>1. ss # <<>>
    BY <1>2, <1>9
  <2>2. PICK f : Flattens(f, ss, n) /\ FlattenSeq(ss) = f[n]
    BY <1>2, <2>1, FlattenIs
  <2>3. \A i \in 1 .. n : f[i] = g[i]
    <3>1. Flattens(f, ss, n)
      BY <2>2
    <3>2. Flattens(g, tt, m)
      BY <1>6
    <3>3. n \in Nat /\ m \in Nat /\ n <= m /\ Continues(ss, tt, n)
      BY <1>4, <1>5 DEF Continues
    <3>4. Continues(f, g, n)
      BY <3>1, <3>2, <3>3, FlattensAgree
    <3> QED BY <3>4 DEF Continues
  <2>4. f[n] = g[n]
    BY <1>4, <1>9, <2>3
  <2> QED BY <1>1, <1>4, <1>5, <1>6, <1>7, <1>9, <2>2, <2>4
<1> QED BY <1>4, <1>8, <1>9
(* The only multiple of b between -b and b is zero.                        *)
LEMMA Between ==
  ASSUME NEW b \in Nat \ {0}, NEW k \in Int, -b < b * k, b * k < b
  PROVE  k = 0
<1>1. k >= 1 => b * k >= b
  <2>1. ASSUME k >= 1 PROVE b * k >= b
    <3>1. PICK j \in Nat : k = j + 1
      <4>1. k - 1 \in Nat /\ k = (k - 1) + 1
        BY <2>1
      <4> QED BY <4>1
    <3>2. b * k = b * j + b /\ b * j >= 0
      BY <3>1
    <3> QED BY <3>2
  <2> QED BY <2>1
<1>2. k <= -1 => b * k <= -b
  <2>1. ASSUME k <= -1 PROVE b * k <= -b
    <3>1. PICK j \in Nat : k = -(j + 1)
      <4>1. -k - 1 \in Nat /\ k = -((-k - 1) + 1)
        BY <2>1
      <4> QED BY <4>1
    <3>2. b * k = -(b * j) - b /\ b * j >= 0
      BY <3>1
    <3> QED BY <3>2
  <2> QED BY <2>1
<1> QED BY <1>1, <1>2

(* padding() of Tar.cpp is the distance to the next block boundary.        *)
LEMMA PaddingToBlock ==
  ASSUME NEW n \in Nat
  PROVE  Padding(n) = ToBlock(n) /\ Padding(n) \in Nat
<1>1. Block \in Nat \ {0}
  BY BlockAssumption
<1>2. PICK q : q = (n + Block - 1) \div Block
  OBVIOUS
<1>3. q \in Int /\ Block * q <= n + Block - 1 /\ n + Block - 1 < Block * q + Block
  BY <1>1, <1>2
<1>4. PICK d : d = (-n) \div Block
  OBVIOUS
<1>5. d \in Int /\ ToBlock(n) = -n - Block * d /\ 0 <= ToBlock(n) /\ ToBlock(n) < Block
  BY <1>1, <1>4 DEF ToBlock
<1>6. Padding(n) = Block * q - n
  BY <1>2 DEF Padding
<1>7. Block * q \in Int /\ Block * d \in Int /\ Block * (q + d) = Block * q + Block * d
  BY <1>1, <1>3, <1>5
<1>8. -Block < Block * (q + d) /\ Block * (q + d) < Block
  BY <1>1, <1>3, <1>5, <1>7
<1>9. q + d = 0
  BY <1>1, <1>3, <1>5, <1>8, Between
<1>10. Block * (q + d) = 0
  BY <1>1, <1>9
<1> QED BY <1>1, <1>3, <1>5, <1>6, <1>7, <1>10

(* The data of two writes, one after the other, is that of one write.      *)
LEMMA DataChunksAppend ==
  ASSUME NEW v, NEW w, w.file = v.file, v.written = 0, w.written \in Nat, v.file \in Nat, NEW n \in Nat
  PROVE  DataChunks(v, w.written + n) = DataChunks(v, w.written) \o DataChunks(w, n)
<1>1. PICK l : l = w.written
  OBVIOUS
<1>2. PICK f : f = v.file
  OBVIOUS
<1> DEFINE c(i) == [k |-> "data", file |-> f, n |-> i]
           a == [i \in 1 .. l + n |-> c(i)]
           b == [i \in 1 .. l |-> c(i)]
           d == [i \in 1 .. n |-> c(l + i)]
<1>3. l \in Nat /\ \A i : c(i) \in {c(j) : j \in {i}}
  BY <1>1
<1>4. a = b \o d
  <2> DEFINE T == {c(i) : i \in Nat}
  <2> HIDE DEF c
  <2>1. a \in Seq(T) /\ Len(a) = l + n /\ \A i \in 1 .. l + n : a[i] = c(i)
    BY <1>3
  <2>2. b \in Seq(T) /\ Len(b) = l /\ \A i \in 1 .. l : b[i] = c(i)
    BY <1>3
  <2>3. d \in Seq(T) /\ Len(d) = n /\ \A i \in 1 .. n : d[i] = c(l + i)
    BY <1>3
  <2> HIDE DEF a, b, d, T
  <2>4. b \o d \in Seq(T) /\ Len(b \o d) = l + n
    BY <2>2, <2>3
  <2>5. ASSUME NEW i \in 1 .. l + n PROVE a[i] = (b \o d)[i]
    <3>0. i \in Int /\ l \in Int /\ n \in Int
      BY <1>3
    <3>1. CASE i <= l
      BY <1>3, <2>1, <2>2, <2>3, <3>1
    <3>2. CASE ~(i <= l)
      <4>1. i - l \in 1 .. n /\ l + (i - l) = i
        BY <3>0, <3>2
      <4>2. (b \o d)[i] = d[i - l]
        BY <3>0, <2>2, <2>3, <3>2
      <4> QED BY <2>1, <2>3, <4>1, <4>2
    <3> QED BY <3>0, <3>1, <3>2
  <2> QED BY <2>1, <2>4, <2>5, SeqEqual
<1>5. DataChunks(v, l + n) = a /\ DataChunks(v, l) = b
  <2>1. \A i \in Nat : v.written + i = i
    OBVIOUS
  <2> QED BY <1>2, <1>3, <2>1 DEF DataChunks
<1>6. DataChunks(w, n) = d
  BY <1>1, <1>2 DEF DataChunks
<1> HIDE DEF a, b, d
<1> QED BY <1>1, <1>4, <1>5, <1>6

----------------------------------------------------------------------------
(* The archive of the files fs, without and with the padding of the last.  *)
Begun(f, i) ==
  LET w == [size |-> f.size, written |-> 0, file |-> i]
  IN  PaxChunks(w, f.pax) \o HeadChunks(w) \o DataChunks(w, f.len)
Pads(f, i) ==
  IF ToBlock(f.len) = 0 THEN <<>> ELSE <<[k |-> "pad", file |-> i, n |-> ToBlock(f.len)]>>
Padded(f, i) == Begun(f, i) \o Pads(f, i)
Archived(fs) == FlattenSeq([i \in DOMAIN fs |-> Padded(fs[i], i)])
Sofar(fs) == IF fs = <<>> THEN <<>> ELSE Archived(Front(fs)) \o Begun(fs[Len(fs)], Len(fs))

(* The parts of the archive of a file are chunks.                          *)
LEMMA BegunParts ==
  ASSUME NEW f \in File, NEW i \in Nat, NEW w, w = [size |-> f.size, written |-> 0, file |-> i]
  PROVE  /\ PaxChunks(w, f.pax) \in Seq(Chunk) /\ HeadChunks(w) \in Seq(Chunk)
         /\ DataChunks(w, f.len) \in Seq(Chunk)
<1>1. f.size \in Int /\ f.len \in Nat /\ f.pax \in BOOLEAN
  BY DEF File
<1>2. w.size = f.size /\ w.written = 0 /\ w.file = i
  OBVIOUS
<1>3. PaxChunks(w, f.pax) \in Seq(Chunk)
  <2>1. [k |-> "pax", file |-> w.file, n |-> w.size] \in Chunk
    BY <1>1, <1>2 DEF Chunk, Kinds
  <2>2. <<[k |-> "pax", file |-> w.file, n |-> w.size]>> \in Seq(Chunk) /\ <<>> \in Seq(Chunk)
    BY <2>1
  <2> QED BY <2>2 DEF PaxChunks
<1>4. HeadChunks(w) \in Seq(Chunk)
  BY <1>1, <1>2 DEF HeadChunks, Chunk, Kinds
<1>5. DataChunks(w, f.len) \in Seq(Chunk)
  <2>1. \A k \in 1 .. f.len : [k |-> "data", file |-> w.file, n |-> w.written + k] \in Chunk
    BY <1>1, <1>2 DEF Chunk, Kinds
  <2> QED BY <1>1, <2>1 DEF DataChunks
<1> QED BY <1>3, <1>4, <1>5

(* What has been written of a file, and its padding, are chunks.           *)
LEMMA BegunType ==
  ASSUME NEW f \in File, NEW i \in Nat
  PROVE  Begun(f, i) \in Seq(Chunk) /\ Pads(f, i) \in Seq(Chunk)
<1>1. Begun(f, i) \in Seq(Chunk)
  <2>1. PICK w : w = [size |-> f.size, written |-> 0, file |-> i]
    OBVIOUS
  <2> QED BY <2>1, BegunParts DEF Begun
<1>2. Pads(f, i) \in Seq(Chunk)
  <2>1. ToBlock(f.len) \in Nat
    BY PaddingToBlock DEF File
  <2>2. [k |-> "pad", file |-> i, n |-> ToBlock(f.len)] \in Chunk
    BY <2>1 DEF Chunk, Kinds
  <2>3. <<[k |-> "pad", file |-> i, n |-> ToBlock(f.len)]>> \in Seq(Chunk) /\ <<>> \in Seq(Chunk)
    BY <2>2
  <2> QED BY <2>3 DEF Pads
<1> QED BY <1>1, <1>2

(* A file with its padding is a sequence of chunks.                        *)
LEMMA PaddedType ==
  ASSUME NEW f \in File, NEW i \in Nat
  PROVE  Padded(f, i) \in Seq(Chunk)
BY BegunType DEF Padded

(* One more file adds its own chunks to the archive.                       *)
LEMMA ArchivedAppend ==
  ASSUME NEW fs \in Seq(File), NEW f \in File
  PROVE  Archived(Append(fs, f)) = Archived(fs) \o Padded(f, Len(fs) + 1)
<1>1. PICK n : n = Len(fs)
  OBVIOUS
<1>2. PICK gs : gs = Append(fs, f)
  OBVIOUS
<1>3. n \in Nat /\ gs \in Seq(File) /\ Len(gs) = n + 1 /\ gs[n + 1] = f
      /\ \A i \in 1 .. n : gs[i] = fs[i] /\ fs[i] \in File
  BY <1>1, <1>2
<1>4. PICK ss : ss = [i \in DOMAIN fs |-> Padded(fs[i], i)]
  OBVIOUS
<1>5. PICK tt : tt = [i \in DOMAIN gs |-> Padded(gs[i], i)]
  OBVIOUS
<1>6. PICK s : s = Padded(f, n + 1)
  OBVIOUS
<1>7. s \in Seq(Chunk)
  BY <1>3, <1>6, PaddedType
<1>8. DOMAIN fs = 1 .. n /\ DOMAIN gs = 1 .. n + 1
  BY <1>1, <1>3
<1>9. \A i \in 1 .. n : ss[i] \in Seq(Chunk)
  <2>1. ASSUME NEW i \in 1 .. n PROVE ss[i] \in Seq(Chunk)
    <3>1. i \in Nat /\ fs[i] \in File /\ ss[i] = Padded(fs[i], i)
      BY <1>3, <1>4, <1>8
    <3> QED BY <3>1, PaddedType
  <2> QED BY <2>1
<1>10. ss \in Seq(Seq(Chunk)) /\ Len(ss) = n
  <2>1. ss = [i \in 1 .. n |-> ss[i]]
    BY <1>4, <1>8
  <2> QED BY <1>3, <1>9, <2>1
<1>11. tt \in Seq(Seq(Chunk)) /\ Len(tt) = n + 1 /\ tt[n + 1] = s /\ \A i \in 1 .. n : tt[i] = ss[i]
  <2>1. \A i \in 1 .. n : tt[i] = ss[i]
    BY <1>3, <1>4, <1>5, <1>8
  <2>2. tt[n + 1] = s
    BY <1>3, <1>5, <1>6, <1>8
  <2>3. \A i \in 1 .. n + 1 : tt[i] \in Seq(Chunk)
    BY <1>3, <1>7, <1>9, <2>1, <2>2
  <2>4. tt = [i \in 1 .. n + 1 |-> tt[i]]
    BY <1>5, <1>8
  <2>5. n + 1 \in Nat
    BY <1>3
  <2>6. tt \in [1 .. n + 1 -> Seq(Chunk)]
    BY <2>3, <2>4
  <2>7. tt \in Seq(Seq(Chunk)) /\ Len(tt) = n + 1
    BY <2>5, <2>6
  <2> QED BY <2>1, <2>2, <2>7
<1>12. tt = Append(ss, s)
  BY <1>3, <1>7, <1>10, <1>11
<1>13. FlattenSeq(tt) = FlattenSeq(ss) \o s
  BY <1>7, <1>10, <1>12, FlattenAppend
<1> QED BY <1>1, <1>2, <1>4, <1>5, <1>6, <1>13 DEF Archived

(* The account TarConsumer keeps fits the files, of which all but the last *)
(* are complete, and a is their archive so far.                            *)
Follows(w, fs, a) ==
  /\ w.file = Len(fs)
  /\ w.written = IF fs = <<>> THEN 0 ELSE fs[Len(fs)].len
  /\ w.size = IF fs = <<>> THEN 0 ELSE fs[Len(fs)].size
  /\ w.size >= 0 => w.written <= w.size
  /\ \A i \in 1 .. Len(fs) - 1 : fs[i].size >= 0 => fs[i].len = fs[i].size
  /\ a = Sofar(fs)

(* The archive of any files is a sequence of chunks.                       *)
LEMMA ArchivedType ==
  ASSUME NEW fs \in Seq(File)
  PROVE  Archived(fs) \in Seq(Chunk)
<1>1. PICK ss : ss = [i \in DOMAIN fs |-> Padded(fs[i], i)]
  OBVIOUS
<1>2. Len(fs) \in Nat /\ DOMAIN fs = 1 .. Len(fs)
  OBVIOUS
<1>3. ASSUME NEW i \in DOMAIN fs PROVE ss[i] \in Seq(Chunk)
  <2>1. i \in Nat /\ fs[i] \in File /\ ss[i] = Padded(fs[i], i)
    BY <1>1, <1>2
  <2> QED BY <2>1, PaddedType
<1>4. ss \in Seq(Seq(Chunk))
  <2>1. ss = [i \in 1 .. Len(fs) |-> ss[i]]
    BY <1>1, <1>2
  <2>2. ss \in [1 .. Len(fs) -> Seq(Chunk)]
    BY <1>2, <1>3, <2>1
  <2> QED BY <1>2, <2>2
<1> QED BY <1>1, <1>4, FlattenType DEF Archived

(* Padding the last file completes the archive of the files so far.        *)
LEMMA SofarPadded ==
  ASSUME NEW w, Wf(w), NEW fs \in Seq(File), NEW a, Follows(w, fs, a)
  PROVE  a \o PadChunks(w) = Archived(fs) /\ a \in Seq(Chunk)
<1>0. Padding(w.written) = ToBlock(w.written)
  BY PipeFields, PaddingToBlock DEF Wf
<1>1. CASE fs = <<>>
  <2>1. a = <<>> /\ w.written = 0
    BY <1>1 DEF Follows, Sofar
  <2>2. PadChunks(w) = <<>>
    BY <2>1, NoPadding DEF PadChunks
  <2>3. DOMAIN fs = {}
    BY <1>1
  <2>4. [i \in DOMAIN fs |-> Padded(fs[i], i)] = <<>>
    BY <2>3
  <2>5. Archived(fs) = <<>>
    BY <2>4 DEF Archived, FlattenSeq
  <2> QED BY <2>1, <2>2, <2>5
<1>2. CASE fs # <<>>
  <2>1. PICK n : n = Len(fs)
    OBVIOUS
  <2>2. PICK f : f = fs[n]
    OBVIOUS
  <2>3. n \in Nat \ {0} /\ f \in File
    BY <1>2, <2>1, <2>2
  <2>4. PICK gs : gs = SubSeq(fs, 1, n - 1)
    OBVIOUS
  <2>5. gs \in Seq(File) /\ Len(gs) = n - 1 /\ fs = Append(gs, f)
    BY <2>1, <2>2, <2>3, <2>4
  <2>6. a = Archived(gs) \o Begun(f, n) /\ w.file = n /\ w.written = f.len
    BY <1>2, <2>1, <2>2, <2>4 DEF Follows, Sofar, Front
  <2>7. PadChunks(w) = Pads(f, n)
    BY <1>0, <2>6 DEF PadChunks, Pads
  <2>8. Begun(f, n) \in Seq(Chunk) /\ Pads(f, n) \in Seq(Chunk) /\ Archived(gs) \in Seq(Chunk)
    BY <2>3, <2>5, BegunType, ArchivedType
  <2>9. Archived(fs) = Archived(gs) \o Padded(f, n)
    <3>1. Len(gs) + 1 = n
      BY <2>3, <2>5
    <3> QED BY <2>3, <2>5, <3>1, ArchivedAppend
  <2>10. (Archived(gs) \o Begun(f, n)) \o Pads(f, n) = Archived(gs) \o (Begun(f, n) \o Pads(f, n))
    BY <2>8, ChunkAssociative
  <2> QED BY <2>6, <2>7, <2>8, <2>9, <2>10 DEF Padded
<1> QED BY <1>1, <1>2

(* A new file starts after the padded archive of those before it.          *)
LEMMA SofarAppend ==
  ASSUME NEW fs \in Seq(File), NEW f \in File
  PROVE  Sofar(Append(fs, f)) = Archived(fs) \o Begun(f, Len(fs) + 1)
<1>1. PICK gs : gs = Append(fs, f)
  OBVIOUS
<1>2. gs # <<>> /\ Len(gs) = Len(fs) + 1 /\ gs[Len(gs)] = f
  BY <1>1
<1>3. SubSeq(gs, 1, Len(gs) - 1) = fs
  <2>1. PICK hs : hs = SubSeq(gs, 1, Len(gs) - 1)
    OBVIOUS
  <2>2. hs \in Seq(File) /\ Len(hs) = Len(fs) /\ \A i \in 1 .. Len(fs) : hs[i] = fs[i]
    BY <1>1, <2>1
  <2> QED BY <2>1, <2>2, SeqEqual
<1> QED BY <1>1, <1>2, <1>3 DEF Sofar, Front

(* TarConsumer::open.                                                      *)
LEMMA FollowsOpen ==
  ASSUME NEW w, Wf(w), ~Short(w), NEW fs \in Seq(File), NEW a, Follows(w, fs, a),
         NEW size \in Int, NEW pax \in BOOLEAN, NEW v, SameFile(NewFile(w, size), v)
  PROVE  Follows(v, Append(fs, [size |-> size, len |-> 0, pax |-> pax]), a \o OpenChunks(w, size, pax))
<1>1. PICK f : f = [size |-> size, len |-> 0, pax |-> pax]
  OBVIOUS
<1>2. f \in File /\ f.size = size /\ f.len = 0 /\ f.pax = pax
  BY <1>1 DEF File
<1>3. PICK gs : gs = Append(fs, f)
  OBVIOUS
<1>4. PICK n : n = Len(fs)
  OBVIOUS
<1>5. /\ n \in Nat /\ gs # <<>> /\ Len(gs) = n + 1 /\ gs[n + 1] = f
      /\ \A i \in 1 .. n : gs[i] = fs[i]
  BY <1>2, <1>3, <1>4
<1>6. w \in PipeType /\ w.file = n
  BY <1>4 DEF Wf, Follows
<1>7. PICK u : u = NewFile(w, size)
  OBVIOUS
<1>8. u.size = size /\ u.written = 0 /\ u.file = n + 1
  BY <1>6, <1>7 DEF NewFile, PipeType
<1>9. v.size = size /\ v.written = 0 /\ v.file = n + 1
  BY <1>7, <1>8 DEF SameFile
<1>10. \A i \in 1 .. n : gs[i].size >= 0 => gs[i].len = gs[i].size
  <2>1. ASSUME NEW i \in 1 .. n, fs[i].size >= 0 PROVE fs[i].len = fs[i].size
    <3>1. CASE i = n
      <4>1. fs # <<>>
        BY <1>4, <1>5, <3>1
      <4>2. w.written = fs[n].len /\ w.size = fs[n].size /\ w.written <= w.size
        BY <1>4, <2>1, <3>1, <4>1 DEF Follows
      <4>3. w.size \in Int /\ w.written \in Nat /\ ~(w.written < w.size)
        BY <1>6, <2>1, <3>1, <4>2, PipeFields DEF Short
      <4> QED BY <3>1, <4>2, <4>3
    <3>2. CASE i # n
      <4>1. i \in 1 .. Len(fs) - 1
        BY <1>4, <1>5, <3>2
      <4> QED BY <2>1, <4>1 DEF Follows
    <3> QED BY <3>1, <3>2
  <2> QED BY <1>5, <2>1
<1>11. a \o OpenChunks(w, size, pax) = Sofar(gs)
  <2>1. PICK x, y, z : x = PadChunks(w) /\ y = PaxChunks(u, pax) /\ z = HeadChunks(u)
    OBVIOUS
  <2>2. OpenChunks(w, size, pax) = (x \o y) \o z
    BY <1>7, <2>1 DEF OpenChunks
  <2>3. Begun(f, n + 1) = y \o z
    <3>1. PICK r : r = [size |-> f.size, written |-> 0, file |-> n + 1]
      OBVIOUS
    <3>2. r.size = u.size /\ r.file = u.file
      BY <1>2, <1>8, <3>1
    <3>3. PaxChunks(r, f.pax) = y /\ HeadChunks(r) = z
      BY <1>2, <2>1, <3>2 DEF PaxChunks, HeadChunks
    <3>4. DataChunks(r, f.len) = <<>>
      BY <1>2 DEF DataChunks
    <3>5. y \o z \in Seq(Chunk)
      <4>1. Wf(u)
        <5>1. u \in PipeType /\ u.sink = w.sink
          BY <1>6, <1>7, NewFileType DEF NewFile, PipeType
        <5> QED BY <5>1 DEF Wf
      <4> QED BY <2>1, <4>1, ChunkTypes
    <3>6. (y \o z) \o <<>> = y \o z
      BY <3>5
    <3> QED BY <3>1, <3>3, <3>4, <3>6 DEF Begun
  <2>4. x \in Seq(Chunk) /\ y \in Seq(Chunk) /\ z \in Seq(Chunk)
    <3>1. Wf(u)
      <4>1. u \in PipeType /\ u.sink = w.sink
        BY <1>6, <1>7, NewFileType DEF NewFile, PipeType
      <4> QED BY <4>1 DEF Wf
    <3> QED BY <2>1, <3>1, ChunkTypes
  <2>5. a \o x = Archived(fs) /\ a \in Seq(Chunk)
    BY <2>1, SofarPadded
  <2>6. a \o ((x \o y) \o z) = (a \o x) \o (y \o z)
    <3>1. PICK t : t = y \o z
      OBVIOUS
    <3>2. (x \o y) \o z = x \o t /\ t \in Seq(Chunk)
      BY <2>4, <3>1, ChunkAssociative
    <3>3. (a \o x) \o t = a \o (x \o t)
      BY <2>4, <2>5, <3>2, ChunkAssociative
    <3> QED BY <3>1, <3>2, <3>3
  <2>7. Sofar(gs) = Archived(fs) \o Begun(f, n + 1)
    BY <1>2, <1>3, <1>4, SofarAppend
  <2> QED BY <2>2, <2>3, <2>5, <2>6, <2>7
<1>12. Follows(v, gs, a \o OpenChunks(w, size, pax))
  BY <1>2, <1>5, <1>9, <1>10, <1>11 DEF Follows
<1> QED BY <1>1, <1>3, <1>12

(* TarConsumer::write.                                                     *)
LEMMA FollowsWrite ==
  ASSUME NEW w, Wf(w), NEW fs \in Seq(File), fs # <<>>, NEW a, Follows(w, fs, a),
         NEW n \in Nat, w.size >= 0 => w.written + n <= w.size,
         NEW v, v.size = w.size, v.written = w.written + n, v.file = w.file
  PROVE  Follows(v, [fs EXCEPT ![Len(fs)].len = @ + n], a \o DataChunks(w, n))
<1>1. PICK l : l = Len(fs)
  OBVIOUS
<1>2. PICK f : f = fs[l]
  OBVIOUS
<1>3. PICK g : g = [f EXCEPT !.len = @ + n]
  OBVIOUS
<1>4. PICK gs : gs = [fs EXCEPT ![l].len = @ + n]
  OBVIOUS
<1>5. l \in Nat \ {0} /\ f \in File /\ f.len \in Nat /\ f.size \in Int /\ f.pax \in BOOLEAN
  <2>1. l \in Nat \ {0} /\ f \in File
    BY <1>1, <1>2
  <2> QED BY <2>1 DEF File
<1>6. g \in File /\ g.size = f.size /\ g.len = f.len + n /\ g.pax = f.pax
  <2>1. PICK k : k = f.len + n
    OBVIOUS
  <2>2. k \in Nat /\ g = [f EXCEPT !.len = k]
    BY <1>3, <1>5, <2>1
  <2>3. g.size = f.size /\ g.len = k /\ g.pax = f.pax
    BY <1>5, <2>2 DEF File
  <2>4. g \in File
    BY <1>5, <2>2 DEF File
  <2> QED BY <2>1, <2>3, <2>4
<1>7. gs = [fs EXCEPT ![l] = g]
  BY <1>2, <1>3, <1>4
<1>8. /\ gs \in Seq(File) /\ Len(gs) = l /\ gs[l] = g /\ gs # <<>>
      /\ \A i \in 1 .. l - 1 : gs[i] = fs[i]
  BY <1>1, <1>5, <1>6, <1>7
<1>9. w.file = l /\ w.written = f.len /\ w.size = f.size /\ a = Archived(SubSeq(fs, 1, l - 1)) \o Begun(f, l)
  BY <1>1, <1>2 DEF Follows, Sofar, Front
<1>10. SubSeq(gs, 1, l - 1) = SubSeq(fs, 1, l - 1)
  <2>1. PICK s, t : s = SubSeq(gs, 1, l - 1) /\ t = SubSeq(fs, 1, l - 1)
    OBVIOUS
  <2>2. s \in Seq(File) /\ t \in Seq(File) /\ Len(s) = l - 1 /\ Len(t) = l - 1
    BY <1>1, <1>5, <1>8, <2>1
  <2>3. \A i \in 1 .. l - 1 : s[i] = gs[i] /\ t[i] = fs[i]
    BY <1>1, <1>5, <1>8, <2>1
  <2> QED BY <1>8, <2>1, <2>2, <2>3, SeqEqual
<1>11. Begun(g, l) = Begun(f, l) \o DataChunks(w, n)
  <2>1. PICK u : u = [size |-> f.size, written |-> 0, file |-> l]
    OBVIOUS
  <2>2. PICK y, z : y = PaxChunks(u, f.pax) \o HeadChunks(u) /\ z = DataChunks(u, f.len)
    OBVIOUS
  <2>3. u.size = f.size /\ u.written = 0 /\ u.file = l /\ l \in Nat
    BY <1>5, <2>1
  <2>4. DataChunks(u, g.len) = z \o DataChunks(w, n)
    <3>1. w.file = u.file /\ w.written \in Nat /\ u.file \in Nat
      BY <1>5, <1>9, <2>3
    <3>2. DataChunks(u, w.written + n) = DataChunks(u, w.written) \o DataChunks(w, n)
      BY <2>3, <3>1, DataChunksAppend
    <3> QED BY <1>6, <1>9, <2>2, <3>2
  <2>5. Begun(f, l) = y \o z /\ Begun(g, l) = y \o DataChunks(u, g.len)
    BY <1>6, <2>1, <2>2 DEF Begun
  <2>6. y \in Seq(Chunk) /\ z \in Seq(Chunk) /\ DataChunks(w, n) \in Seq(Chunk)
    <3>1. PaxChunks(u, f.pax) \in Seq(Chunk) /\ HeadChunks(u) \in Seq(Chunk) /\ z \in Seq(Chunk)
      BY <1>5, <2>1, <2>2, BegunParts
    <3> QED BY <2>2, <3>1, ChunkTypes
  <2>7. PICK d : d = DataChunks(w, n)
    OBVIOUS
  <2>8. y \o (z \o d) = (y \o z) \o d
    BY <2>6, <2>7, ChunkAssociative
  <2> QED BY <2>4, <2>5, <2>7, <2>8
<1>12. a \o DataChunks(w, n) = Sofar(gs)
  <2>1. PICK x : x = Archived(SubSeq(fs, 1, l - 1))
    OBVIOUS
  <2>2. x \in Seq(Chunk) /\ Begun(f, l) \in Seq(Chunk) /\ DataChunks(w, n) \in Seq(Chunk)
    <3>1. SubSeq(fs, 1, l - 1) \in Seq(File)
      BY <1>1, <1>5
    <3> QED BY <1>5, <2>1, <3>1, ArchivedType, BegunType, ChunkTypes
  <2>3. Sofar(gs) = x \o Begun(g, l)
    BY <1>8, <1>10, <2>1 DEF Sofar, Front
  <2>4. PICK b, d : b = Begun(f, l) /\ d = DataChunks(w, n)
    OBVIOUS
  <2>5. (x \o b) \o d = x \o (b \o d)
    BY <2>2, <2>4, ChunkAssociative
  <2>6. a = x \o b /\ Begun(g, l) = b \o d
    BY <1>9, <1>11, <2>1, <2>4
  <2> QED BY <2>3, <2>4, <2>5, <2>6
<1>13. Follows(v, gs, a \o DataChunks(w, n))
  BY <1>1, <1>5, <1>6, <1>8, <1>9, <1>12 DEF Follows
<1> QED BY <1>1, <1>4, <1>13

(* While the chain is open and dst has refused nothing, what the chain     *)
(* accepted is the archive of the files, and a refused nonce has been      *)
(* noticed.                                                                *)
ArchiveInv ==
  /\ tar /\ ~pipe.sink.refused => ~pipe.cerr /\ Follows(pipe, files, archive)
  /\ ArchiveWellFormed

(* Where no chain is open and no container just finished, nothing is       *)
(* claimed.                                                                *)
LEMMA ArchiveIdle ==
  ASSUME ~tar', ~(finished' /\ ret'.rv = OK)
  PROVE  ArchiveInv'
BY DEF ArchiveInv, ArchiveWellFormed, FinishedOK

(* Steps that leave the chain alone keep the invariant.                    *)
LEMMA ArchiveKept ==
  ASSUME ArchiveInv, UNCHANGED <<pipe, tar, files, archive>>, ~(finished' /\ ret'.rv = OK)
  PROVE  ArchiveInv'
BY DEF ArchiveInv, ArchiveWellFormed, FinishedOK

(* A new chain starts with an empty archive; a refused nonce marks dst.    *)
LEMMA ArchiveHeader ==
  ASSUME Inv, ArchiveInv, ~tar, ~finished, NEW op, NEW rcpts \in Seq(RecipientKind \ {"invalid"}),
         NEW loop, WriteHeader(op, rcpts, loop)
  PROVE  ArchiveInv'
<1>1. ~finished'
  BY DEF WriteHeader
<1>2. PICK b \in BuildHeader(rcpts, attempt + 1) :
        IF b.rv # OK THEN UNCHANGED tar
        ELSE \E s \in WriteFields(Fresh(pipe.sink), attempt + 1, b.caps) :
             \E o \in SinkWrite(s, <<Nonce(attempt + 1)>>) :
               \/ tar' = TRUE /\ pipe' = NewPipe(o) /\ files' = <<>> /\ archive' = <<>>
               \/ UNCHANGED tar
  BY DEF WriteHeader
<1>3. CASE ~tar'
  BY <1>1, <1>3, ArchiveIdle
<1>4. CASE tar'
  <2>1. PICK s \in WriteFields(Fresh(pipe.sink), attempt + 1, b.caps) :
             \E o \in SinkWrite(s, <<Nonce(attempt + 1)>>) :
               pipe' = NewPipe(o) /\ files' = <<>> /\ archive' = <<>>
    BY <1>2, <1>4
  <2>2. PICK o \in SinkWrite(s, <<Nonce(attempt + 1)>>) :
               pipe' = NewPipe(o) /\ files' = <<>> /\ archive' = <<>>
    BY <2>1
  <2>3. /\ pipe'.cerr = (o.rv # OK) /\ pipe'.sink = o.sink
        /\ pipe'.size = 0 /\ pipe'.written = 0 /\ pipe'.file = 0
    BY <2>2 DEF NewPipe
  <2>4. o.rv # OK => o.sink.refused
    <3>1. PICK s0 : s0 = Fresh(pipe.sink)
      OBVIOUS
    <3>2. pipe.sink \in SinkType(Item) /\ SinkOK(pipe.sink)
      BY PipeFields DEF Inv, TypeOK, Shape
    <3>3. s0 \in SinkType(Item) /\ SinkOK(s0)
      BY <3>1, <3>2 DEF Fresh, SinkType, SinkOK
    <3>4. attempt + 1 \in Nat /\ rcpts \in Seq(RecipientKind)
      BY DEF Inv, TypeOK
    <3>5. b.caps \in SUBSET Capsule
      BY <3>4, BuildHeaderType
    <3>6. PICK h : h = HeaderFields(attempt + 1, b.caps)
      OBVIOUS
    <3>7. h \in Seq(Item) /\ Nonce(attempt + 1) \in Item
      BY <3>4, <3>5, <3>6, HeaderType, FieldType
    <3>8. Offered(s0, s, h)
      BY <3>1, <3>3, <3>4, <3>5, <3>6, WriteFieldsOutcome
    <3> QED BY <3>3, <3>7, <3>8, OfferNext
  <2>5. Follows(pipe', files', archive')
    BY <2>2, <2>3 DEF Follows, Sofar
  <2> QED BY <1>1, <2>3, <2>4, <2>5 DEF ArchiveInv, ArchiveWellFormed, FinishedOK
<1> QED BY <1>3, <1>4

(* An error of the chain that dst knows nothing of changes nothing.        *)
LEMMA ArchiveError ==
  ASSUME Inv, ArchiveInv, tar, NEW o, NEW c, Proceeds(pipe, o, c), o.rv # OK,
         NEW fs, NEW chunks, Chain(o, fs, chunks), tar' = tar, finished' = finished
  PROVE  ArchiveInv'
<1>1. ~finished /\ pipe' = o.w /\ files' = files /\ archive' = archive
  BY DEF Inv, Shape, Chain
<1>2. CASE o.w = pipe
  BY <1>1, <1>2, ArchiveKept
<1>3. CASE o.w # pipe
  <2>1. /\ pipe.sink.refused => o.w.sink.refused
        /\ pipe.cerr \/ o.w.sink.refused
    BY <1>3 DEF Proceeds, Sound
  <2>2. pipe'.sink.refused
    BY <1>1, <2>1 DEF ArchiveInv
  <2> QED BY <1>1, <2>2 DEF ArchiveInv, ArchiveWellFormed, FinishedOK
<1> QED BY <1>2, <1>3

(* A step of the chain that succeeds leaves the marks of dst as they were. *)
LEMMA ArchiveGrows ==
  ASSUME Inv, ArchiveInv, tar, NEW o, NEW c, Proceeds(pipe, o, c), o.rv = OK,
         ~pipe.sink.refused => Follows(pipe', files', archive'),
         pipe' = o.w, tar' = tar, finished' = finished
  PROVE  ArchiveInv'
<1>1. o.w.cerr = pipe.cerr /\ o.w.sink.refused = pipe.sink.refused /\ ~finished
  BY DEF Proceeds, Sound, Inv, Shape, OK, ERR
<1> QED BY <1>1 DEF ArchiveInv, ArchiveWellFormed, FinishedOK

(* addFile and the opening of a file by encrypt.                           *)
LEMMA ArchiveOpen ==
  ASSUME Inv, ArchiveInv, tar, NEW size \in Int, NEW pax \in BOOLEAN,
         NEW o \in TarOpen(pipe, size, pax),
         Chain(o, Opened(size, pax), OpenChunks(pipe, size, pax)), tar' = tar, finished' = finished
  PROVE  ArchiveInv'
<1>1. Proceeds(pipe, o, OpenChunks(pipe, size, pax))
  BY OpenProceeds
<1>2. CASE o.rv # OK
  BY <1>1, <1>2, ArchiveError
<1>3. CASE o.rv = OK
  <2>1. pipe' = o.w /\ files' = Opened(size, pax) /\ archive' = archive \o OpenChunks(pipe, size, pax)
    BY <1>3 DEF Chain
  <2>2. Wf(pipe) /\ size \in Int /\ pax \in BOOLEAN /\ files \in Seq(File)
    BY DEF Inv, TypeOK, Shape, Wf
  <2>3. ~Short(pipe) /\ SameFile(NewFile(pipe, size), o.w)
    BY <1>3, <2>2, TarOpenAccount
  <2>4. ASSUME ~pipe.sink.refused PROVE Follows(pipe', files', archive')
    <3>1. Follows(pipe, files, archive)
      BY <2>4 DEF ArchiveInv
    <3> QED BY <2>1, <2>2, <2>3, <3>1, FollowsOpen DEF Opened
  <2> QED BY <1>1, <1>3, <2>1, <2>4, ArchiveGrows
<1> QED BY <1>2, <1>3

(* writeData and a round of writeAll.                                      *)
LEMMA ArchiveWrite ==
  ASSUME Inv, ArchiveInv, tar, NEW n \in Nat \ {0}, NEW o \in TarWrite(pipe, n),
         Chain(o, Grown(n), DataChunks(pipe, n)), tar' = tar, finished' = finished
  PROVE  ArchiveInv'
<1>1. Proceeds(pipe, o, DataChunks(pipe, n))
  BY WriteProceeds
<1>2. CASE o.rv # OK
  BY <1>1, <1>2, ArchiveError
<1>3. CASE o.rv = OK
  <2>1. pipe' = o.w /\ files' = Grown(n) /\ archive' = archive \o DataChunks(pipe, n)
    BY <1>3 DEF Chain
  <2>2. Wf(pipe) /\ n \in Nat \ {0} /\ n \in Nat /\ files \in Seq(File)
    BY DEF Inv, TypeOK, Shape, Wf
  <2>3. /\ pipe.size >= 0 => pipe.written + n <= pipe.size
        /\ o.w.size = pipe.size /\ o.w.written = pipe.written + n /\ o.w.file = pipe.file
    BY <1>3, <2>2, TarWriteAccount
  <2>4. ASSUME ~pipe.sink.refused PROVE Follows(pipe', files', archive')
    <3>1. Follows(pipe, files, archive)
      BY <2>4 DEF ArchiveInv
    <3>2. files # <<>>
      BY <2>2, <2>3, <3>1 DEF Follows
    <3>3. Grown(n) = [files EXCEPT ![Len(files)].len = @ + n]
      BY <3>2 DEF Grown
    <3>4. PICK w, v, fs, a : w = pipe /\ v = o.w /\ fs = files /\ a = archive
      OBVIOUS
    <3>5. Wf(w) /\ fs \in Seq(File) /\ fs # <<>> /\ Follows(w, fs, a)
      BY <2>2, <3>1, <3>2, <3>4
    <3>6. /\ w.size >= 0 => w.written + n <= w.size
          /\ v.size = w.size /\ v.written = w.written + n /\ v.file = w.file
      BY <2>3, <3>4
    <3>7. Follows(v, [fs EXCEPT ![Len(fs)].len = @ + n], a \o DataChunks(w, n))
      BY <2>2, <3>5, <3>6, FollowsWrite
    <3> QED BY <2>1, <3>3, <3>4, <3>7
  <2> QED BY <1>1, <1>3, <2>1, <2>4, ArchiveGrows
<1> QED BY <1>2, <1>3

(* finishEncryption succeeds only when the last file is complete too.      *)
LEMMA ArchiveFinish ==
  ASSUME Inv, ArchiveInv, tar, NEW op, Finish(op)
  PROVE  ArchiveInv'
<1>1. PICK o \in TarClose(pipe) :
        \E s \in CloseOwned(o.w.sink) :
          /\ pipe' = NoPipe(s) /\ tar' = FALSE /\ files' = files
          /\ archive' = IF o.rv = OK THEN archive \o CloseChunks(pipe) ELSE archive
          /\ ret' = [op |-> op, rv |-> o.rv]
  BY DEF Finish, Chain, Return
<1>2. PICK s \in CloseOwned(o.w.sink) :
          /\ pipe' = NoPipe(s) /\ tar' = FALSE /\ files' = files
          /\ archive' = IF o.rv = OK THEN archive \o CloseChunks(pipe) ELSE archive
          /\ ret' = [op |-> op, rv |-> o.rv]
  BY <1>1
<1>3. Wf(pipe) /\ files \in Seq(File)
  BY DEF Inv, TypeOK, Shape, Wf
<1>4. CASE o.rv # OK
  BY <1>2, <1>4, ArchiveIdle
<1>5. CASE o.rv = OK
  <2>1. ~Short(pipe)
    BY <1>3, <1>5, TarCloseShort DEF OK, ERR
  <2>2. Closes(pipe, o, CloseChunks(pipe))
    BY <1>3, <2>1, TarCloseOutcome
  <2>3. /\ o.w.sink \in SinkType(Item) /\ SinkOK(o.w.sink)
        /\ o.w.sink.refused = pipe.sink.refused
    BY <1>5, <2>2 DEF Closes
  <2>4. s.refused = pipe.sink.refused
    <3>1. CASE s = o.w.sink
      BY <2>3, <3>1
    <3>2. ASSUME NEW d \in SinkClose(o.w.sink), s = d.sink PROVE s.refused = pipe.sink.refused
      BY <2>3, <3>2, SinkCloseOutcome
    <3> QED BY <1>2, <3>1, <3>2 DEF CloseOwned
  <2>5. pipe'.sink.refused = pipe.sink.refused
    BY <1>2, <2>4, NoPipeSink
  <2>6. ASSUME ~pipe.sink.refused
        PROVE  /\ archive' = Archived(files) \o <<NullChunk, NullChunk, Trailer>>
               /\ \A i \in DOMAIN files : files[i].size >= 0 => files[i].len = files[i].size
    <3>1. Follows(pipe, files, archive)
      BY <2>6 DEF ArchiveInv
    <3>2. archive \o PadChunks(pipe) = Archived(files) /\ archive \in Seq(Chunk)
      BY <1>3, <3>1, SofarPadded
    <3>3. PICK x, y, z : x = PadChunks(pipe) /\ y = <<NullChunk>> /\ z = <<Trailer>>
      OBVIOUS
    <3>4. x \in Seq(Chunk) /\ y \in Seq(Chunk) /\ z \in Seq(Chunk)
      BY <1>3, <3>3, ChunkTypes
    <3>5. archive' = archive \o (((x \o y) \o y) \o z)
      BY <1>2, <1>5, <3>3 DEF CloseChunks
    <3>6. ((x \o y) \o y) \o z = x \o ((y \o y) \o z)
      BY <3>4
    <3>7. (y \o y) \o z = <<NullChunk, NullChunk, Trailer>>
      <4>1. PICK p, q : p = NullChunk /\ q = Trailer
        OBVIOUS
      <4>2. p \in Chunk /\ q \in Chunk
        BY <4>1 DEF NullChunk, Trailer, Chunk, Kinds
      <4>3. y = <<p>> /\ z = <<q>>
        BY <3>3, <4>1
      <4>4. PICK t, u : t = (y \o y) \o z /\ u = <<p, p, q>>
        OBVIOUS
      <4>5. t \in Seq(Chunk) /\ Len(t) = 3 /\ t[1] = p /\ t[2] = p /\ t[3] = q
        <5>1. Len(y) = 1 /\ y[1] = p /\ Len(z) = 1 /\ z[1] = q
          BY <4>3
        <5>2. PICK x2 : x2 = y \o y
          OBVIOUS
        <5>3. x2 \in Seq(Chunk) /\ Len(x2) = 2 /\ x2[1] = p /\ x2[2] = p
          <6>1. x2 \in Seq(Chunk) /\ Len(x2) = Len(y) + Len(y)
            BY <3>4, <5>2, ConcatProperties
          <6>2. x2[1] = p
            BY <3>4, <5>1, <5>2
          <6>3. x2[2] = y[2 - Len(y)]
            <7>1. \A i \in 1 .. Len(y) + Len(y) : x2[i] = IF i <= Len(y) THEN y[i] ELSE y[i - Len(y)]
              BY <3>4, <5>2, ConcatProperties
            <7>2. 2 \in 1 .. Len(y) + Len(y) /\ ~(2 <= Len(y))
              BY <5>1
            <7> QED BY <7>1, <7>2
          <6> QED BY <5>1, <6>1, <6>2, <6>3
        <5> QED BY <3>4, <4>4, <5>1, <5>2, <5>3
      <4>6. u \in Seq(Chunk) /\ Len(u) = 3 /\ u[1] = p /\ u[2] = p /\ u[3] = q
        BY <4>2, <4>4
      <4>7. \A i \in 1 .. 3 : t[i] = u[i]
        BY <4>5, <4>6
      <4> QED BY <4>1, <4>4, <4>5, <4>6, <4>7, SeqEqual
    <3>8. archive \o (x \o ((y \o y) \o z)) = (archive \o x) \o ((y \o y) \o z)
      <4>1. (y \o y) \o z \in Seq(Chunk)
        BY <3>4
      <4> QED BY <3>2, <3>4, <4>1, ChunkAssociative
    <3>9. archive' = Archived(files) \o <<NullChunk, NullChunk, Trailer>>
      BY <3>2, <3>3, <3>5, <3>6, <3>7, <3>8
    <3>10. ASSUME NEW i \in DOMAIN files, files[i].size >= 0 PROVE files[i].len = files[i].size
      <4>1. Len(files) \in Nat /\ i \in 1 .. Len(files)
        BY <1>3
      <4>2. CASE i = Len(files)
        <5>1. files # <<>>
          BY <4>1
        <5>2. pipe.written = files[i].len /\ pipe.size = files[i].size /\ pipe.written <= pipe.size
          BY <3>1, <3>10, <4>2, <5>1 DEF Follows
        <5>3. pipe.size \in Int /\ pipe.written \in Nat /\ ~(pipe.written < pipe.size)
          BY <1>3, <2>1, <3>10, <5>2, PipeFields DEF Short, Wf
        <5> QED BY <5>2, <5>3
      <4>3. CASE i # Len(files)
        <5>1. i \in 1 .. Len(files) - 1
          BY <4>1, <4>3
        <5> QED BY <3>1, <3>10, <5>1 DEF Follows
      <4> QED BY <4>2, <4>3
    <3> QED BY <3>9, <3>10
  <2>7. Archived(files) = FlattenSeq([i \in DOMAIN files |-> FileChunks(i)])'
    <3>1. Archived(files)' = FlattenSeq([i \in DOMAIN files |-> FileChunks(i)])'
      BY DEF Archived, Padded, Begun, Pads, FileChunks
    <3> QED BY <1>2, <3>1
  <2> QED BY <1>2, <2>5, <2>6, <2>7 DEF ArchiveInv, ArchiveWellFormed
<1> QED BY <1>4, <1>5

(* The recipients accepted by encrypt are valid.                           *)
LEMMA AcceptedType ==
  ASSUME Inv, NEW keys \in Seq(RecipientKind), NEW m \in 0 .. Len(keys), Accepts(keys, m)
  PROVE  recipients \o SubSeq(keys, 1, m) \in Seq(RecipientKind \ {"invalid"})
<1>1. \A i \in 1 .. m : keys[i] \in RecipientKind \ {"invalid"}
  BY DEF Accepts
<1>2. SubSeq(keys, 1, m) \in Seq(RecipientKind \ {"invalid"})
  BY <1>1
<1>3. recipients \in Seq(RecipientKind \ {"invalid"})
  BY DEF Inv, TypeOK
<1> QED BY <1>2, <1>3

(* One case per action of Next.                                            *)
LEMMA ArchiveStep ==
  ASSUME Inv, ArchiveInv, [Next]_vars
  PROVE  ArchiveInv'
<1>1. (pulling # "no" => tar) /\ (tar => ~finished)
  BY DEF Inv, Shape
<1>2. ASSUME NEW op, Refuse(op)
      PROVE  ArchiveInv'
  <2>1. ret'.rv # OK
    BY <1>2 DEF Refuse, Return, OK, ERR
  <2> QED BY <1>2, <2>1, ArchiveKept DEF Refuse, history
<1>3. ASSUME NEW w, tar, Abort(w)
      PROVE  ArchiveInv'
  BY <1>1, <1>3, ArchiveIdle DEF Abort
<1>4. ASSUME NEW kind \in RecipientKind, AddRecipient(kind)
      PROVE  ArchiveInv'
  <2>1. CASE finished \/ tar \/ kind = "invalid"
    BY <1>2, <1>4, <2>1 DEF AddRecipient
  <2>2. CASE ~(finished \/ tar \/ kind = "invalid")
    BY <1>4, <2>2, ArchiveKept DEF AddRecipient, Added, history
  <2> QED BY <2>1, <2>2
<1>5. CASE BeginEncryption
  <2>1. CASE finished \/ recipients = <<>> \/ tar
    BY <1>2, <1>5, <2>1 DEF BeginEncryption
  <2>2. CASE ~(finished \/ recipients = <<>> \/ tar)
    BY <1>5, <2>2, ArchiveHeader DEF BeginEncryption, Inv, TypeOK
  <2> QED BY <2>1, <2>2
<1>6. ASSUME NEW size \in Int, NEW pax \in BOOLEAN, AddFile(size, pax) \/ PullFile(size, pax)
      PROVE  ArchiveInv'
  <2>1. ASSUME NEW o \in TarOpen(pipe, size, pax), tar,
               \/ /\ Chain(o, Opened(size, pax), OpenChunks(pipe, size, pax))
                  /\ UNCHANGED <<tar, finished>>
               \/ Abort(o.w)
        PROVE  ArchiveInv'
    BY <1>3, <2>1, ArchiveOpen
  <2> QED BY <1>1, <1>2, <1>6, <2>1 DEF AddFile, PullFile
<1>7. ASSUME NEW k \in Nat \ {0}, WriteData(k) \/ PullData(k)
      PROVE  ArchiveInv'
  <2>1. ASSUME NEW o \in TarWrite(pipe, k), tar,
               \/ /\ Chain(o, Grown(k), DataChunks(pipe, k))
                  /\ UNCHANGED <<tar, finished>>
               \/ Abort(o.w)
        PROVE  ArchiveInv'
    BY <1>3, <2>1, ArchiveWrite
  <2> QED BY <1>1, <1>2, <1>7, <2>1 DEF WriteData, PullData
<1>8. CASE FinishEncryption \/ PullEnd
  <2>1. CASE Refuse("finishEncryption")
    BY <1>2, <2>1
  <2> QED BY <1>1, <1>8, <2>1, ArchiveFinish DEF FinishEncryption, PullEnd
<1>9. ASSUME NEW keys \in Seq(RecipientKind), EncryptBegin(keys)
      PROVE  ArchiveInv'
  <2>1. CASE finished \/ tar
    BY <1>2, <1>9, <2>1 DEF EncryptBegin
  <2>2. CASE ~(finished \/ tar)
    <3>1. keys \in Seq(RecipientKind)
      OBVIOUS
    <3>2. PICK m \in 0 .. Len(keys) :
            /\ Accepts(keys, m)
            /\ \/ UNCHANGED <<tar, pipe, finished, pulling, attempt, server, history>>
               \/ WriteHeader("encrypt", recipients \o SubSeq(keys, 1, m), "next")
      BY <1>9, <2>2 DEF EncryptBegin, EncryptKeys
    <3>3. recipients \o SubSeq(keys, 1, m) \in Seq(RecipientKind \ {"invalid"})
      BY <3>1, <3>2, AcceptedType
    <3>4. CASE UNCHANGED <<tar, pipe, finished, pulling, attempt, server, history>>
      BY <2>2, <3>4, ArchiveKept DEF history
    <3>5. CASE WriteHeader("encrypt", recipients \o SubSeq(keys, 1, m), "next")
      BY <2>2, <3>3, <3>5, ArchiveHeader
    <3> QED BY <3>2, <3>4, <3>5
  <2> QED BY <2>1, <2>2
<1>10. CASE PullEof
  BY <1>1, <1>10, ArchiveKept DEF PullEof, history
<1>11. CASE PullError
  BY <1>1, <1>3, <1>11 DEF PullError
<1>12. CASE UNCHANGED vars
  BY <1>12 DEF vars, history, ArchiveInv, ArchiveWellFormed, FinishedOK, FileChunks
<1> QED BY <1>4, <1>5, <1>6, <1>7, <1>8, <1>9, <1>10, <1>11, <1>12, NextInputs

----------------------------------------------------------------------------
LEMMA SpecInv == Spec => []Inv
BY InitInv, NextInv, PTL DEF Spec

(* The state of the writer has the types declared for it.                  *)
THEOREM WriterTypes == Spec => []TypeOK
<1>1. Inv => TypeOK
  BY DEF Inv
<1> QED BY <1>1, SpecInv, PTL

(* finishEncryption and encrypt return OK over a dst that refused nothing  *)
(* only when it holds a complete container, tag included, of everything    *)
(* the chain accepted, wherever deflate cut its output.                    *)
THEOREM WriterFinishExact == Spec => []FinishExact
<1>1. Inv => FinishExact
  BY DEF Inv, Finals
<1> QED BY <1>1, SpecInv, PTL

(* An output stream that refused anything, the ignored header writes       *)
(* included, makes finishEncryption and encrypt fail.                      *)
THEOREM WriterStickyFinish == Spec => []StickyFinish
<1>1. Inv => StickyFinish
  BY DEF Inv, Finals
<1> QED BY <1>1, SpecInv, PTL

(* On any dst, what is refused after the header fields is reported by some *)
(* call of the container.                                                  *)
THEOREM WriterNoSilentLoss == Spec => []NoSilentLoss
<1>1. Inv => NoSilentLoss
  BY DEF Inv, Finals
<1> QED BY <1>1, SpecInv, PTL

(* While a container is open the key server has this attempt's capsules of *)
(* all its key-server recipients and no others.                            *)
THEOREM WriterOpenCapsules == Spec => []OpenCapsules
<1>1. Inv => OpenCapsules
  BY DEF Inv
<1> QED BY <1>1, SpecInv, PTL

LEMMA SpecTrace == Spec => []TraceInv
<1>1. Init => TraceInv
  <2>1. ASSUME Init PROVE Reached(pipe.sink) = {}
    <3>1. PICK kind : pipe = NoPipe(NewSink(kind))
      BY <2>1 DEF Init
    <3> QED BY <3>1, NoPipeSink DEF NewSink, Reached, Elements
  <2> QED BY <2>1 DEF TraceInv, HeadersKnown, TagIsFinal
<1>2. Inv /\ TraceInv /\ [Next]_vars => TraceInv'
  BY TraceStep
<1> QED BY <1>1, <1>2, SpecInv, PTL DEF Spec

(* However often an application retries, every header in dst is that of    *)
(* the last attempt or of one it was told had failed.                      *)
THEOREM WriterOneContainer == Spec => []OneContainer
<1>1. TraceInv => OneContainer
  BY DEF TraceInv, HeadersKnown, Started, OneContainer, Reached, Elements
<1> QED BY <1>1, SpecTrace, PTL

(* Nothing follows a tag in dst, whatever is called after it.              *)
THEOREM WriterTagIsLast == Spec => TagIsLast
<1>1. Inv /\ TraceInv /\ [Next]_vars => [HasTag(pipe.sink) => pipe'.sink.data = pipe.sink.data]_vars
  BY FinalDst
<1> QED BY <1>1, SpecInv, SpecTrace, PTL DEF Spec, TagIsLast

(* What the open chain accepted is the archive of the files.               *)
LEMMA SpecArchive == Spec => []ArchiveInv
<1>1. Init => ArchiveInv
  BY DEF Init, ArchiveInv, ArchiveWellFormed, FinishedOK
<1>2. Inv /\ ArchiveInv /\ [Next]_vars => ArchiveInv'
  BY ArchiveStep
<1> QED BY <1>1, <1>2, SpecInv, PTL DEF Spec

(* A container finished without a refusal holds the tar of the files as    *)
(* the application wrote them, every one of its declared size.             *)
THEOREM WriterArchive == Spec => []ArchiveWellFormed
<1>1. ArchiveInv => ArchiveWellFormed
  BY DEF ArchiveInv
<1> QED BY <1>1, SpecArchive, PTL
=============================================================================
