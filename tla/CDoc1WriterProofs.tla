------------------------- MODULE CDoc1WriterProofs -------------------------
(***************************************************************************)
(* The safety properties of CDoc1Writer, for every number of recipients,   *)
(* files, documents and errors, every source, and every way libxml2's text *)
(* writers may flush: what the chain of XmlPipeline guarantees, one layer  *)
(* at a time, then the inductive invariant Inv, which says what the chain  *)
(* holds at each step of writeDocument.                                    *)
(***************************************************************************)
EXTENDS CDoc1Writer, SequenceTheorems, WellFoundedInduction, TLAPS

----------------------------------------------------------------------------
(* FlattenSeq, by which the properties say what follows what.              *)

(* Every set of numbers has a least member: what stands for induction in   *)
(* the lemmas on FlattenSeq.                                               *)
LEMMA LeastNumber ==
  ASSUME NEW S \in SUBSET Nat, S # {}
  PROVE  \E m \in S : \A n \in S : m <= n
<1>1. PICK m \in S : \A n \in S : ~ (<<n, m>> \in OpToRel(<, Nat))
  BY WFMin, NatLessThanWellFounded
<1>2. ASSUME NEW n \in S PROVE m <= n
  <2>1. ~ (n < m)
    BY <1>1 DEF OpToRel
  <2> QED BY <2>1
<1> QED BY <1>2

(* What FlattenSeq computes: f[i] is the concatenation of the first i.     *)
Flattens(f, ss, n) ==
  f = [i \in 1 .. n |-> IF i = 1 THEN ss[i] ELSE f[i - 1] \o ss[i]]

(* There is such a function for every sequence.                            *)
LEMMA FlattensExists ==
  ASSUME NEW ss, NEW n \in Nat
  PROVE  \E f : Flattens(f, ss, n)
<1> DEFINE S == {m \in Nat : ~\E f : Flattens(f, ss, m)}
<1>1. SUFFICES ASSUME S # {} PROVE FALSE
  OBVIOUS
<1>2. PICK m \in S : \A k \in S : m <= k
  BY <1>1, LeastNumber
<1>3. m # 0
  <2>1. Flattens(<<>>, ss, 0)
    BY DEF Flattens
  <2> QED BY <2>1
<1>4. m - 1 \in Nat /\ m - 1 \notin S
  BY <1>2, <1>3
<1>5. PICK f : Flattens(f, ss, m - 1)
  BY <1>4
<1> DEFINE g == [i \in 1 .. m |-> IF i = m THEN (IF i = 1 THEN ss[i] ELSE f[i - 1] \o ss[i]) ELSE f[i]]
<1>6. \A i \in 1 .. m - 1 : g[i] = f[i]
  BY <1>2
<1>7. \A i \in 1 .. m - 1 : f[i] = IF i = 1 THEN ss[i] ELSE f[i - 1] \o ss[i]
  BY <1>5 DEF Flattens
<1>8. ASSUME NEW i \in 1 .. m
      PROVE  g[i] = IF i = 1 THEN ss[i] ELSE g[i - 1] \o ss[i]
  <2>1. i # 1 => i - 1 \in 1 .. m - 1
    BY <1>2
  <2>2. CASE i = m
    <3>1. g[i] = IF i = 1 THEN ss[i] ELSE f[i - 1] \o ss[i]
      BY <2>2
    <3> HIDE DEF g
    <3> QED BY <1>6, <2>1, <3>1
  <2>3. CASE i # m
    <3>1. i \in 1 .. m - 1
      BY <1>2, <2>3
    <3> HIDE DEF g
    <3> QED BY <1>6, <1>7, <2>1, <3>1
  <2> QED BY <2>2, <2>3
<1>9. Flattens(g, ss, m)
  <2>1. DOMAIN g = 1 .. m /\ g = [i \in DOMAIN g |-> g[i]]
    OBVIOUS
  <2> HIDE DEF g
  <2> QED BY <1>8, <2>1 DEF Flattens
<1> QED BY <1>2, <1>9

(* Its elements, one at a time.                                            *)
LEMMA FlattensAt ==
  ASSUME NEW ss, NEW n, NEW f, Flattens(f, ss, n), NEW i \in 1 .. n
  PROVE  f[i] = IF i = 1 THEN ss[i] ELSE f[i - 1] \o ss[i]
<1> DEFINE h == [k \in 1 .. n |-> IF k = 1 THEN ss[k] ELSE f[k - 1] \o ss[k]]
<1>1. f = h
  BY DEF Flattens
<1>2. h[i] = IF i = 1 THEN ss[i] ELSE f[i - 1] \o ss[i]
  OBVIOUS
<1> HIDE DEF h
<1> QED BY <1>1, <1>2

(* tt starts with the first n elements of ss.                              *)
Continues(ss, tt, n) == \A i \in 1 .. n : ss[i] = tt[i]

(* Longer sequences continue what shorter ones have.                       *)
LEMMA FlattensAgree ==
  ASSUME NEW ss, NEW tt, NEW n \in Nat, NEW m \in Nat, n <= m, Continues(ss, tt, n),
         NEW f, Flattens(f, ss, n), NEW g, Flattens(g, tt, m)
  PROVE  Continues(f, g, n)
<1> DEFINE S == {i \in 1 .. n : f[i] # g[i]}
<1>1. SUFFICES ASSUME S # {} PROVE FALSE
  BY DEF Continues
<1>2. S \in SUBSET Nat
  OBVIOUS
<1>3. PICK i \in S : \A k \in S : i <= k
  <2> HIDE DEF S
  <2> QED BY <1>1, <1>2, LeastNumber
<1>4. i \in 1 .. n /\ i \in 1 .. m
  OBVIOUS
<1>5. /\ f[i] = IF i = 1 THEN ss[i] ELSE f[i - 1] \o ss[i]
      /\ g[i] = IF i = 1 THEN tt[i] ELSE g[i - 1] \o tt[i]
  BY <1>4, FlattensAt
<1>6. i # 1 => i - 1 \in 1 .. n /\ i - 1 \notin S
  BY <1>3, <1>4
<1>7. f[i] = g[i]
  BY <1>4, <1>5, <1>6 DEF Continues
<1> QED BY <1>7

(* FlattenSeq of a sequence that is not empty is its last element.         *)
LEMMA FlattenIs ==
  ASSUME NEW X, NEW ss \in Seq(X), ss # <<>>
  PROVE  \E f : Flattens(f, ss, Len(ss)) /\ FlattenSeq(ss) = f[Len(ss)]
<1>1. Len(ss) \in Nat /\ Len(ss) # 0
  BY EmptySeq
<1> DEFINE F == CHOOSE f : Flattens(f, ss, Len(ss))
<1>2. Flattens(F, ss, Len(ss))
  BY <1>1, FlattensExists
<1>3. FlattenSeq(ss) = F[Len(ss)]
  BY <1>1 DEF FlattenSeq, Flattens
<1> QED BY <1>2, <1>3

(* Sequences over X are concatenated to a sequence over X.                 *)
LEMMA FlattenType ==
  ASSUME NEW X, NEW ss \in Seq(Seq(X))
  PROVE  FlattenSeq(ss) \in Seq(X)
<1>1. PICK n : n = Len(ss)
  OBVIOUS
<1>2. n \in Nat /\ \A i \in 1 .. n : ss[i] \in Seq(X)
  BY <1>1
<1>3. CASE n = 0
  <2>1. Len(ss) = 0
    BY <1>1, <1>3
  <2>2. FlattenSeq(ss) = ss
    BY <2>1 DEF FlattenSeq
  <2>3. ss = <<>>
    BY <2>1, EmptySeq
  <2> QED BY <2>2, <2>3
<1>4. CASE n # 0
  <2>1. ss # <<>>
    BY <1>1, <1>4
  <2>2. PICK f : Flattens(f, ss, n) /\ FlattenSeq(ss) = f[n]
    BY <1>1, <2>1, FlattenIs
  <2> DEFINE S == {i \in 1 .. n : f[i] \notin Seq(X)}
  <2>3. S = {}
    <3>1. SUFFICES ASSUME S # {} PROVE FALSE
      OBVIOUS
    <3>2. S \in SUBSET Nat
      BY <1>2
    <3>3. PICK i \in S : \A k \in S : i <= k
      <4> HIDE DEF S
      <4> QED BY <3>1, <3>2, LeastNumber
    <3>4. i \in 1 .. n
      OBVIOUS
    <3>5. f[i] = IF i = 1 THEN ss[i] ELSE f[i - 1] \o ss[i]
      <4>1. Flattens(f, ss, n)
        BY <2>2
      <4> QED BY <3>4, <4>1, FlattensAt
    <3>6. i # 1 => i - 1 \in 1 .. n /\ i - 1 \notin S
      BY <1>2, <3>3, <3>4
    <3>7. f[i] \in Seq(X)
      BY <1>2, <3>4, <3>5, <3>6
    <3> QED BY <3>7
  <2>4. n \in 1 .. n
    BY <1>2, <1>4
  <2> QED BY <2>2, <2>3, <2>4
<1> QED BY <1>3, <1>4

(* The concatenation grows by what is appended.                            *)
LEMMA FlattenAppend ==
  ASSUME NEW X, NEW ss \in Seq(Seq(X)), NEW s \in Seq(X)
  PROVE  FlattenSeq(Append(ss, s)) = FlattenSeq(ss) \o s
<1>1. PICK tt : tt = Append(ss, s)
  OBVIOUS
<1>2. PICK n : n = Len(ss)
  OBVIOUS
<1>3. PICK m : m = n + 1
  OBVIOUS
<1>4. /\ tt \in Seq(Seq(X)) /\ Len(tt) = m /\ n \in Nat /\ m \in Nat /\ tt # <<>>
      /\ tt[m] = s /\ \A i \in 1 .. n : ss[i] = tt[i]
  BY <1>1, <1>2, <1>3
<1>5. n <= m /\ m \in 1 .. m /\ m - 1 = n /\ (m = 1 <=> n = 0)
  BY <1>3, <1>4
<1>6. PICK g : Flattens(g, tt, m) /\ FlattenSeq(tt) = g[m]
  BY <1>4, FlattenIs
<1>7. g[m] = IF m = 1 THEN tt[m] ELSE g[m - 1] \o tt[m]
  <2>1. Flattens(g, tt, m)
    BY <1>6
  <2> QED BY <1>5, <2>1, FlattensAt
<1>8. CASE n = 0
  <2>1. Len(ss) = 0
    BY <1>2, <1>8
  <2>2. ss = <<>>
    BY <2>1, EmptySeq
  <2>3. FlattenSeq(ss) = ss
    BY <2>1 DEF FlattenSeq
  <2>4. ss \o s = s
    BY <2>2
  <2> QED BY <1>1, <1>4, <1>5, <1>6, <1>7, <1>8, <2>3, <2>4
<1>9. CASE n # 0
  <2>1. ss # <<>>
    BY <1>2, <1>9
  <2>2. PICK f : Flattens(f, ss, n) /\ FlattenSeq(ss) = f[n]
    BY <1>2, <2>1, FlattenIs
  <2>3. \A i \in 1 .. n : f[i] = g[i]
    <3>1. Flattens(f, ss, n)
      BY <2>2
    <3>2. Flattens(g, tt, m)
      BY <1>6
    <3>3. n \in Nat /\ m \in Nat /\ n <= m /\ Continues(ss, tt, n)
      BY <1>4, <1>5 DEF Continues
    <3>4. Continues(f, g, n)
      BY <3>1, <3>2, <3>3, FlattensAgree
    <3> QED BY <3>4 DEF Continues
  <2>4. f[n] = g[n]
    BY <1>4, <1>9, <2>3
  <2> QED BY <1>1, <1>4, <1>5, <1>6, <1>7, <1>9, <2>2, <2>4
<1> QED BY <1>4, <1>8, <1>9

----------------------------------------------------------------------------
(* What the chain holds.                                                   *)

Kinds == {"begin", "key", "badkey", "cipher", "nonce", "ddoc", "file", "data", "endfile", "endddoc",
          "tag", "endcipher", "orig", "end"}
ItemType == [k : Kinds, f : Nat, n : Int]

DocumentType == [text : Seq(ItemType), terr : BOOLEAN, open : Int, held : Seq(ItemType),
                 cerr : BOOLEAN, ddoc : Seq(ItemType), derr : BOOLEAN, sink : SinkType(ItemType)]

(* A refusal leaves its mark on the open file.                             *)
SinkSane(s) == s \in SinkType(ItemType) /\ s.kind = DstKind /\ (s.refused => s.bad)

(* No writer of the chain has an error of its own.                         *)
Sane(v) ==
  /\ v \in DocumentType /\ SinkSane(v.sink)
  /\ v.terr \/ v.cerr \/ v.derr => v.sink.refused

(* What the file has and the text writer holds, with what Base64Consumer   *)
(* holds back, and with what DDOCWriter holds.                             *)
Out(v)     == v.sink.data \o v.text
Encoded(v) == Out(v) \o v.held
All(v)     == Encoded(v) \o v.ddoc

LEMMA ItemAssociative ==
  ASSUME NEW s \in Seq(ItemType), NEW t \in Seq(ItemType), NEW u \in Seq(ItemType)
  PROVE  (s \o t) \o u = s \o (t \o u)
  OBVIOUS

(* The same, by name: what is concatenated need not be looked into.        *)
Associate(s, t, u) == (s \o t) \o u = s \o (t \o u)

LEMMA ItemsAssociate ==
  ASSUME NEW s \in Seq(ItemType), NEW t \in Seq(ItemType), NEW u \in Seq(ItemType)
  PROVE  Associate(s, t, u)
  BY ItemAssociative DEF Associate

LEMMA ItemConcat ==
  ASSUME NEW s \in Seq(ItemType), NEW t \in Seq(ItemType)
  PROVE  s \o t \in Seq(ItemType)
  OBVIOUS

LEMMA ItemIs ==
  ASSUME NEW k \in Kinds, NEW f \in Nat, NEW n \in Int
  PROVE  /\ Item(k, f, n) \in ItemType /\ Item(k, f, n).k = k
         /\ Item(k, f, n).f = f /\ Item(k, f, n).n = n
  BY DEF Item, ItemType

LEMMA PartIs ==
  ASSUME NEW k \in Kinds
  PROVE  Part(k) \in ItemType /\ <<Part(k)>> \in Seq(ItemType)
<1>1. Part(k) \in ItemType
  BY ItemIs DEF Part
<1> QED BY <1>1

LEMMA DocumentFields ==
  ASSUME NEW v \in DocumentType
  PROVE  /\ v.text \in Seq(ItemType) /\ v.terr \in BOOLEAN /\ v.open \in Int
         /\ v.held \in Seq(ItemType) /\ v.cerr \in BOOLEAN
         /\ v.ddoc \in Seq(ItemType) /\ v.derr \in BOOLEAN
         /\ v.sink \in SinkType(ItemType) /\ v.sink.refused \in BOOLEAN
         /\ v.sink.data \in Seq(ItemType)
  BY DEF DocumentType, SinkType

LEMMA ContentType ==
  ASSUME NEW v \in DocumentType
  PROVE  Out(v) \in Seq(ItemType) /\ Encoded(v) \in Seq(ItemType) /\ All(v) \in Seq(ItemType)
<1>1. Out(v) \in Seq(ItemType)
  BY DocumentFields, ItemConcat DEF Out
<1>2. Encoded(v) \in Seq(ItemType)
  BY <1>1, DocumentFields, ItemConcat DEF Encoded
<1> QED BY <1>1, <1>2, DocumentFields, ItemConcat DEF All

(* A sequence cut after its first n elements.                              *)
LEMMA Cut ==
  ASSUME NEW h \in Seq(ItemType), NEW n \in 1 .. Len(h)
  PROVE  /\ SubSeq(h, 1, n) \in Seq(ItemType) /\ SubSeq(h, n + 1, Len(h)) \in Seq(ItemType)
         /\ SubSeq(h, 1, n) \o SubSeq(h, n + 1, Len(h)) = h
  OBVIOUS

(* DataConsumer::write on an open file: an accepted block is appended, a   *)
(* refused one leaves its mark.                                            *)
LEMMA SinkWriteOutcome ==
  ASSUME NEW s, SinkSane(s), NEW items \in Seq(ItemType), NEW o \in SinkWrite(s, items)
  PROVE  /\ o.rv \in {OK, ERR} /\ SinkSane(o.sink)
         /\ o.rv = OK => o.sink.refused = s.refused /\ o.sink.data = s.data \o items
         /\ o.rv # OK => o.sink.refused
<1> DEFINE grown == [s EXCEPT !.data = @ \o items]
<1> USE DEF OK, ERR
<1>1. /\ s \in SinkType(ItemType) /\ s.data \in Seq(ItemType) /\ s.data \o items \in Seq(ItemType)
      /\ s.kind = DstKind /\ DstKind \in SinkKind /\ ~Unopened(s)
      /\ s.bad \in BOOLEAN /\ s.refused \in BOOLEAN
  BY InputAssumption DEF SinkSane, SinkType, Unopened
<1>2. CASE o = [rv |-> OK, sink |-> grown]
  <2>1. /\ o.rv = OK /\ o.sink = grown
        /\ grown.data = s.data \o items /\ grown.kind = s.kind
        /\ grown.bad = s.bad /\ grown.refused = s.refused
        /\ grown \in SinkType(ItemType)
    BY <1>1, <1>2 DEF SinkType
  <2> QED BY <1>1, <2>1 DEF SinkSane
<1>3. ASSUME NEW v \in SinkType(ItemType), v.kind = DstKind, o = [rv |-> ERR, sink |-> Failed(v)]
      PROVE  o.rv = ERR /\ SinkSane(o.sink) /\ o.sink.refused
  BY <1>3 DEF Failed, SinkType, SinkSane
<1>4. ASSUME NEW n \in 1 .. Len(items) - 1
      PROVE  Taken(s, items, n) \in SinkType(ItemType) /\ Taken(s, items, n).kind = DstKind
  <2>1. s.data \o SubSeq(items, 1, n) \in Seq(ItemType)
    BY <1>1, SubSeqProperties
  <2> QED BY <1>1, <2>1 DEF Taken, SinkType
<1>5. \/ o = [rv |-> OK, sink |-> grown]
      \/ \E v \in SinkType(ItemType) : v.kind = DstKind /\ o = [rv |-> ERR, sink |-> Failed(v)]
  BY <1>1, <1>4 DEF SinkWrite
<1> QED BY <1>2, <1>3, <1>5

----------------------------------------------------------------------------
(* The calls.  o is an outcome of a call on v that adds items to what the  *)
(* text writer has, with what Base64Consumer and DDOCWriter hold.  Every   *)
(* error has a refusal of the file to show for it.                         *)

Kept(v, o) ==
  /\ o.rv \in {OK, ERR} /\ Sane(o.w) /\ o.w.open = v.open
  /\ v.sink.refused => o.w.sink.refused
  /\ o.rv # OK => o.w.sink.refused

TextGrows(v, o, items) ==
  /\ Kept(v, o) /\ o.w.held = v.held /\ o.w.ddoc = v.ddoc /\ o.w.derr = v.derr
  /\ ~o.w.sink.refused => Out(o.w) = Out(v) \o items

CodeGrows(v, o, items) ==
  /\ Kept(v, o) /\ o.w.ddoc = v.ddoc /\ o.w.derr = v.derr
  /\ ~o.w.sink.refused => Encoded(o.w) = Encoded(v) \o items

Grows(v, o, items) ==
  Kept(v, o) /\ (~o.w.sink.refused => All(o.w) = All(v) \o items)

LEMMA DoneIs ==
  ASSUME NEW v
  PROVE  Done(v).rv = OK /\ Done(v).w = v
  BY DEF Done

LEMMA FlushesIn ==
  ASSUME NEW m \in Nat, NEW n \in Flushes(m)
  PROVE  n \in 0 .. m
<1>1. CASE m > 0
  BY <1>1 DEF Flushes
<1>2. CASE m = 0
  BY <1>2 DEF Flushes
<1> QED BY <1>1, <1>2

(* A call of libxml2's text writer, however much of it is flushed.         *)
LEMMA TextWriteOutcome ==
  ASSUME NEW v, Sane(v), NEW items \in Seq(ItemType), NEW o \in TextWrite(v, items)
  PROVE  TextGrows(v, o, items)
<1>1. v \in DocumentType /\ SinkSane(v.sink)
  BY DEF Sane
<1>2. /\ v.text \in Seq(ItemType) /\ v.sink.data \in Seq(ItemType) /\ v.terr \in BOOLEAN
  BY <1>1, DocumentFields
<1>3. PICK all : all = v.text \o items
  OBVIOUS
<1>4. all \in Seq(ItemType) /\ Len(all) \in Nat
  BY <1>2, <1>3
<1>5. v.sink.data \o all = Out(v) \o items
  BY <1>2, <1>3, ItemAssociative DEF Out
<1> DEFINE Flushed(a, n, p) == [rv |-> p.rv, w |-> [v EXCEPT !.text = SubSeq(a, n + 1, Len(a)),
                                                             !.terr = p.rv # OK, !.sink = p.sink]]
           Flush(a, n) == IF n = 0 THEN {Done([v EXCEPT !.text = a])}
                          ELSE {Flushed(a, n, p) : p \in SinkWrite(v.sink, SubSeq(a, 1, n))}
<1>6. CASE v.terr
  <2>1. o = [rv |-> ERR, w |-> v]
    BY <1>6 DEF TextWrite
  <2> QED BY <1>6, <2>1 DEF TextGrows, Kept, Sane
<1>7. CASE ~v.terr
  <2>0. o \in UNION {Flush(v.text \o items, n) : n \in Flushes(Len(v.text \o items))}
    BY <1>7, Zenon DEF TextWrite
  <2>1. PICK n \in Flushes(Len(v.text \o items)) : o \in Flush(v.text \o items, n)
    BY <2>0
  <2>2. n \in Flushes(Len(all)) /\ o \in Flush(all, n)
    BY <1>3, <2>1
  <2>3. n \in 0 .. Len(all)
    BY <1>4, <2>2, FlushesIn
  <2>4. CASE n = 0
    <3>1. PICK u : u = [v EXCEPT !.text = all]
      OBVIOUS
    <3>2. o.rv = OK /\ o.w = u
      BY <2>2, <2>4, <3>1, DoneIs
    <3>3. /\ u \in DocumentType /\ u.text = all /\ u.sink = v.sink /\ u.open = v.open
          /\ u.held = v.held /\ u.ddoc = v.ddoc
          /\ u.terr = v.terr /\ u.cerr = v.cerr /\ u.derr = v.derr
      BY <1>1, <1>4, <3>1 DEF DocumentType
    <3>4. Kept(v, o)
      BY <3>2, <3>3 DEF Kept, Sane
    <3> QED BY <1>5, <3>2, <3>3, <3>4 DEF TextGrows, Out
  <2>5. CASE n # 0
    <3>1. PICK p \in SinkWrite(v.sink, SubSeq(all, 1, n)) : o = Flushed(all, n, p)
      BY <2>2, <2>5
    <3>2. PICK h, t : h = SubSeq(all, 1, n) /\ t = SubSeq(all, n + 1, Len(all))
      OBVIOUS
    <3>3. h \in Seq(ItemType) /\ t \in Seq(ItemType) /\ h \o t = all
      <4>1. n \in 1 .. Len(all)
        BY <2>3, <2>5
      <4> QED BY <1>4, <3>2, <4>1, Cut
    <3>4. /\ p.rv \in {OK, ERR} /\ SinkSane(p.sink)
          /\ p.rv = OK => p.sink.refused = v.sink.refused /\ p.sink.data = v.sink.data \o h
          /\ p.rv # OK => p.sink.refused
      BY <1>1, <3>1, <3>2, <3>3, SinkWriteOutcome
    <3>5. PICK u, e : u = [v EXCEPT !.text = t, !.terr = e, !.sink = p.sink] /\ e = (p.rv # OK)
      OBVIOUS
    <3>6. o.rv = p.rv /\ o.w = u
      BY <3>1, <3>2, <3>5
    <3>7. /\ u \in DocumentType /\ u.text = t /\ u.sink = p.sink /\ u.open = v.open
          /\ u.held = v.held /\ u.ddoc = v.ddoc
          /\ u.terr = e /\ u.cerr = v.cerr /\ u.derr = v.derr
      <4>1. p.sink \in SinkType(ItemType) /\ e \in BOOLEAN
        BY <3>4, <3>5 DEF SinkSane
      <4> QED BY <1>1, <3>3, <3>5, <4>1 DEF DocumentType
    <3>8. Sane(u)
      BY <3>4, <3>5, <3>7 DEF Sane
    <3>9. Kept(v, o)
      BY <3>4, <3>6, <3>7, <3>8 DEF Kept
    <3>10. ASSUME ~u.sink.refused PROVE Out(u) = Out(v) \o items
      <4>1. p.sink.data = v.sink.data \o h
        BY <3>4, <3>7, <3>10
      <4>2. (v.sink.data \o h) \o t = v.sink.data \o (h \o t)
        <5>1. PICK x : x = v.sink.data
          OBVIOUS
        <5>2. x \in Seq(ItemType) /\ h \in Seq(ItemType) /\ t \in Seq(ItemType)
          BY <1>2, <3>3, <5>1
        <5>3. (x \o h) \o t = x \o (h \o t)
          BY <5>2, ItemAssociative
        <5> QED BY <5>1, <5>3
      <4> QED BY <1>5, <3>3, <3>7, <4>1, <4>2 DEF Out
    <3> QED BY <3>6, <3>7, <3>9, <3>10 DEF TextGrows
  <2> QED BY <2>4, <2>5
<1> QED BY <1>2, <1>6, <1>7

LEMMA TextWriteIs ==
  ASSUME NEW v, NEW items, NEW o \in TextWrite(v, items)
  PROVE  \E rv, u : o = [rv |-> rv, w |-> u]
<1> DEFINE Flushed(a, n, p) == [rv |-> p.rv, w |-> [v EXCEPT !.text = SubSeq(a, n + 1, Len(a)),
                                                             !.terr = p.rv # OK, !.sink = p.sink]]
           Flush(a, n) == IF n = 0 THEN {Done([v EXCEPT !.text = a])}
                          ELSE {Flushed(a, n, p) : p \in SinkWrite(v.sink, SubSeq(a, 1, n))}
<1>1. CASE v.terr
  <2>1. o = [rv |-> ERR, w |-> v]
    BY <1>1 DEF TextWrite
  <2> QED BY <2>1
<1>2. CASE ~v.terr
  <2>1. o \in UNION {Flush(v.text \o items, n) : n \in Flushes(Len(v.text \o items))}
    BY <1>2, Zenon DEF TextWrite
  <2>2. PICK n \in Flushes(Len(v.text \o items)) : o \in Flush(v.text \o items, n)
    BY <2>1
  <2> QED BY <2>2 DEF Done
<1> QED BY <1>1, <1>2

(* v with other bytes held back.                                           *)
IsHeld(u, v, h) ==
  /\ Sane(u) /\ u.held = h /\ Out(u) = Out(v) /\ u.ddoc = v.ddoc /\ u.open = v.open
  /\ u.sink = v.sink /\ u.derr = v.derr

LEMMA SetHeld ==
  ASSUME NEW v, Sane(v), NEW h \in Seq(ItemType), NEW u, u = [v EXCEPT !.held = h]
  PROVE  IsHeld(u, v, h)
<1>1. v \in DocumentType
  BY DEF Sane
<1>2. /\ u \in DocumentType /\ u.text = v.text /\ u.sink = v.sink /\ u.open = v.open
      /\ u.held = h /\ u.ddoc = v.ddoc
      /\ u.terr = v.terr /\ u.cerr = v.cerr /\ u.derr = v.derr
  BY <1>1 DEF DocumentType
<1> QED BY <1>2 DEF Sane, Out, IsHeld

LEMMA SetHeldNone ==
  ASSUME NEW v, Sane(v), NEW u, u = [v EXCEPT !.held = <<>>]
  PROVE  IsHeld(u, v, <<>>)
<1>1. PICK h : h = <<>>
  OBVIOUS
<1>2. h \in Seq(ItemType) /\ u = [v EXCEPT !.held = h]
  BY <1>1
<1>3. IsHeld(u, v, h)
  BY <1>2, SetHeld
<1> QED BY <1>1, <1>3

LEMMA KeptDone ==
  ASSUME NEW v, Sane(v)
  PROVE  Kept(v, Done(v))
  BY DoneIs DEF Kept

LEMMA GrowsNot ==
  ASSUME NEW v, Sane(v)
  PROVE  CodeGrows(v, Done(v), <<>>) /\ Grows(v, Done(v), <<>>)
<1>1. v \in DocumentType
  BY DEF Sane
<1>2. Encoded(v) = Encoded(v) \o <<>> /\ All(v) = All(v) \o <<>>
  BY <1>1, ContentType
<1> QED BY <1>2, DoneIs, KeptDone DEF CodeGrows, Grows

(* Base64Consumer::write: what is not a whole triple waits.                *)
LEMMA Base64WriteOutcome ==
  ASSUME NEW v, Sane(v), NEW items \in Seq(ItemType), NEW o \in Base64Write(v, items)
  PROVE  CodeGrows(v, o, items)
<1> DEFINE Hold(a, n, h) == TextWrite([v EXCEPT !.held = SubSeq(a, n - h + 1, n)], SubSeq(a, 1, n - h))
<1>1. CASE items = <<>>
  <2>1. o = Done(v)
    BY <1>1 DEF Base64Write
  <2> QED BY <1>1, <2>1, GrowsNot
<1>2. CASE items # <<>>
  <2>1. PICK all, n : all = v.held \o items /\ n = Len(v.held \o items)
    OBVIOUS
  <2>2. v \in DocumentType /\ v.held \in Seq(ItemType) /\ Out(v) \in Seq(ItemType)
        /\ Encoded(v) \in Seq(ItemType)
    BY DocumentFields, ContentType DEF Sane
  <2>3. all \in Seq(ItemType) /\ n = Len(all) /\ n \in Nat /\ n >= 1
    BY <1>2, <2>1, <2>2, EmptySeq
  <2>4. o \in Hold(v.held \o items, Len(v.held \o items), 0)
              \cup Hold(v.held \o items, Len(v.held \o items), 1)
    BY <1>2, Zenon DEF Base64Write
  <2>5. PICK h \in {0, 1} : o \in Hold(all, n, h)
    BY <2>1, <2>4
  <2>6. PICK a, b : a = SubSeq(all, 1, n - h) /\ b = SubSeq(all, n - h + 1, n)
    OBVIOUS
  <2>7. a \in Seq(ItemType) /\ b \in Seq(ItemType) /\ a \o b = all
    <3>1. CASE h = 0
      BY <2>3, <2>6, <3>1
    <3>2. CASE h = 1
      BY <2>3, <2>6, <3>2
    <3> QED BY <3>1, <3>2
  <2>8. PICK u : u = [v EXCEPT !.held = b]
    OBVIOUS
  <2>9. /\ Sane(u) /\ u.held = b /\ Out(u) = Out(v) /\ u.ddoc = v.ddoc /\ u.open = v.open
        /\ u.sink = v.sink /\ u.derr = v.derr
    <3>1. IsHeld(u, v, b)
      BY <2>7, <2>8, SetHeld
    <3> QED BY <3>1 DEF IsHeld
  <2>10. o \in TextWrite(u, a)
    BY <2>5, <2>6, <2>8
  <2>11. TextGrows(u, o, a)
    BY <2>7, <2>9, <2>10, TextWriteOutcome
  <2>12. ASSUME ~o.w.sink.refused PROVE Encoded(o.w) = Encoded(v) \o items
    <3>1. Out(o.w) = Out(v) \o a /\ o.w.held = b
      BY <2>9, <2>11, <2>12 DEF TextGrows
    <3>4. PICK x, y : x = Out(v) /\ y = v.held
      OBVIOUS
    <3>5. x \in Seq(ItemType) /\ y \in Seq(ItemType) /\ a \in Seq(ItemType) /\ b \in Seq(ItemType)
      BY <2>2, <2>7, <3>4
    <3>9. Associate(x, a, b) /\ Associate(x, y, items)
      BY <3>5, ItemsAssociate
    <3>2. (x \o a) \o b = x \o (a \o b)
      BY <3>9, Zenon DEF Associate
    <3>3. (x \o y) \o items = x \o (y \o items)
      BY <3>9, Zenon DEF Associate
    <3>6. Encoded(v) = x \o y /\ Encoded(o.w) = (x \o a) \o b
      BY <3>1, <3>4 DEF Encoded
    <3>7. a \o b = y \o items
      BY <2>1, <2>7, <3>4, Zenon
    <3>8. Encoded(o.w) = x \o (y \o items)
      BY <3>2, <3>6, <3>7, Zenon
    <3> QED BY <3>3, <3>6, <3>8, Zenon
  <2>13. Kept(v, o)
    BY <2>9, <2>11 DEF TextGrows, Kept
  <2> QED BY <2>9, <2>11, <2>12, <2>13 DEF TextGrows, CodeGrows
<1> QED BY <1>1, <1>2

(* Base64Consumer::close writes the rest.                                  *)
LEMMA Base64CloseOutcome ==
  ASSUME NEW v, Sane(v), NEW o \in Base64Close(v)
  PROVE  /\ CodeGrows(v, o, <<>>)
         /\ ~o.w.sink.refused => o.w.held = <<>>
<1>1. CASE v.held = <<>>
  <2>1. o = Done(v)
    BY <1>1 DEF Base64Close
  <2> QED BY <1>1, <2>1, GrowsNot, DoneIs
<1>2. CASE v.held # <<>>
  <2>1. PICK u : u = [v EXCEPT !.held = <<>>]
    OBVIOUS
  <2>2. v \in DocumentType /\ v.held \in Seq(ItemType) /\ Out(v) \in Seq(ItemType)
    BY DocumentFields, ContentType DEF Sane
  <2>3. /\ Sane(u) /\ u.held = <<>> /\ Out(u) = Out(v) /\ u.ddoc = v.ddoc /\ u.open = v.open
        /\ u.sink = v.sink /\ u.derr = v.derr
    <3>1. IsHeld(u, v, <<>>)
      BY <2>1, SetHeldNone
    <3> QED BY <3>1 DEF IsHeld
  <2>4. o \in TextWrite(u, v.held)
    BY <1>2, <2>1 DEF Base64Close
  <2>5. TextGrows(u, o, v.held)
    BY <2>2, <2>3, <2>4, TextWriteOutcome
  <2>6. ASSUME ~o.w.sink.refused PROVE Encoded(o.w) = Encoded(v) \o <<>>
    <3>1. Out(o.w) = Out(v) \o v.held /\ o.w.held = <<>>
      BY <2>3, <2>5, <2>6 DEF TextGrows
    <3> QED BY <3>1 DEF Encoded
  <2>7. Kept(v, o)
    BY <2>3, <2>5 DEF TextGrows, Kept
  <2> QED BY <2>3, <2>5, <2>6, <2>7 DEF TextGrows, CodeGrows
<1> QED BY <1>1, <1>2

LEMMA CipherWriteOutcome ==
  ASSUME NEW v, Sane(v), NEW items \in Seq(ItemType), NEW o \in CipherWrite(v, items)
  PROVE  CodeGrows(v, o, items)
<1>1. CASE v.cerr /\ items # <<>>
  <2>1. o = [rv |-> ERR, w |-> v]
    BY <1>1 DEF CipherWrite
  <2> QED BY <1>1, <2>1 DEF CodeGrows, Kept, Sane
<1>2. CASE ~(v.cerr /\ items # <<>>)
  BY <1>2, Base64WriteOutcome DEF CipherWrite
<1> QED BY <1>1, <1>2

LEMMA CodeGrowsThen ==
  ASSUME NEW v, Sane(v), NEW a \in Seq(ItemType), NEW p, CodeGrows(v, p, a),
         NEW b \in Seq(ItemType), NEW o, CodeGrows(p.w, o, b)
  PROVE  CodeGrows(v, o, a \o b)
<1>1. Kept(v, o) /\ o.w.ddoc = v.ddoc /\ o.w.derr = v.derr
  BY DEF CodeGrows, Kept
<1>2. ASSUME ~o.w.sink.refused PROVE Encoded(o.w) = Encoded(v) \o (a \o b)
  <2>1. Encoded(p.w) = Encoded(v) \o a /\ Encoded(o.w) = Encoded(p.w) \o b
    BY <1>2 DEF CodeGrows, Kept
  <2>2. Encoded(v) \in Seq(ItemType)
    BY ContentType DEF Sane
  <2>3. (Encoded(v) \o a) \o b = Encoded(v) \o (a \o b)
    BY <2>2, ItemAssociative, Zenon
  <2> QED BY <2>1, <2>3
<1> QED BY <1>1, <1>2 DEF CodeGrows

LEMMA GrowsThen ==
  ASSUME NEW v, Sane(v), NEW a \in Seq(ItemType), NEW p, Grows(v, p, a),
         NEW b \in Seq(ItemType), NEW o, Grows(p.w, o, b)
  PROVE  Grows(v, o, a \o b)
<1>1. Kept(v, o)
  BY DEF Grows, Kept
<1>2. ASSUME ~o.w.sink.refused PROVE All(o.w) = All(v) \o (a \o b)
  <2>1. All(p.w) = All(v) \o a /\ All(o.w) = All(p.w) \o b
    BY <1>2 DEF Grows, Kept
  <2>2. All(v) \in Seq(ItemType)
    BY ContentType DEF Sane
  <2>3. (All(v) \o a) \o b = All(v) \o (a \o b)
    BY <2>2, ItemAssociative, Zenon
  <2> QED BY <2>1, <2>3
<1> QED BY <1>1, <1>2 DEF Grows

(* With nothing inside them, what one writer gets they all have.           *)
LEMMA TextIsAll ==
  ASSUME NEW v, Sane(v), NEW items \in Seq(ItemType), NEW o, TextGrows(v, o, items),
         ~o.w.sink.refused => v.held = <<>> /\ v.ddoc = <<>>
  PROVE  /\ Grows(v, o, items)
         /\ ~o.w.sink.refused => o.w.held = <<>> /\ o.w.ddoc = <<>>
<1>1. ASSUME ~o.w.sink.refused PROVE All(o.w) = All(v) \o items
  <2>1. v.held = <<>> /\ v.ddoc = <<>> /\ o.w.held = <<>> /\ o.w.ddoc = <<>>
        /\ Out(o.w) = Out(v) \o items
    BY <1>1 DEF TextGrows
  <2>2. Out(v) \in Seq(ItemType) /\ Out(o.w) \in Seq(ItemType)
    BY ContentType DEF TextGrows, Kept, Sane
  <2>3. \A s \in Seq(ItemType) : (s \o <<>>) \o <<>> = s
    OBVIOUS
  <2> QED BY <2>1, <2>2, <2>3 DEF All, Encoded
<1> QED BY <1>1 DEF TextGrows, Grows

LEMMA CodeIsAll ==
  ASSUME NEW v, Sane(v), NEW items \in Seq(ItemType), NEW o, CodeGrows(v, o, items),
         ~o.w.sink.refused => v.ddoc = <<>>
  PROVE  /\ Grows(v, o, items)
         /\ ~o.w.sink.refused => o.w.ddoc = <<>>
<1>1. ASSUME ~o.w.sink.refused PROVE All(o.w) = All(v) \o items
  <2>1. v.ddoc = <<>> /\ o.w.ddoc = <<>> /\ Encoded(o.w) = Encoded(v) \o items
    BY <1>1 DEF CodeGrows
  <2>2. Encoded(v) \in Seq(ItemType) /\ Encoded(o.w) \in Seq(ItemType)
    BY ContentType DEF CodeGrows, Kept, Sane
  <2>3. \A s \in Seq(ItemType) : s \o <<>> = s
    OBVIOUS
  <2> QED BY <2>1, <2>2, <2>3 DEF All
<1> QED BY <1>1 DEF CodeGrows, Grows

(* EncryptionConsumer's constructor: a refused nonce is kept in error.     *)
LEMMA CipherOpenOutcome ==
  ASSUME NEW v, Sane(v), NEW o \in CipherOpen(v)
  PROVE  /\ Kept(v, o) /\ o.rv = OK
         /\ (~v.sink.refused => v.held = <<>>) => CodeGrows(v, o, <<Part("nonce")>>)
<1> DEFINE items == <<Part("nonce")>>
<1>1. items \in Seq(ItemType)
  BY PartIs DEF Kinds
<1> HIDE DEF items
<1>3. PICK u : u = [v EXCEPT !.held = <<>>]
  OBVIOUS
<1>4. /\ Sane(u) /\ u.held = <<>> /\ Out(u) = Out(v) /\ u.ddoc = v.ddoc /\ u.open = v.open
      /\ u.sink = v.sink /\ u.derr = v.derr
  <2>1. IsHeld(u, v, <<>>)
    BY <1>3, SetHeldNone
  <2> QED BY <2>1 DEF IsHeld
<1>5. PICK p \in Base64Write(u, items) : o = Done([p.w EXCEPT !.cerr = p.rv # OK])
  BY <1>3 DEF CipherOpen, items
<1>6. CodeGrows(u, p, items)
  BY <1>1, <1>4, <1>5, Base64WriteOutcome
<1>7. PICK x, e : x = [p.w EXCEPT !.cerr = e] /\ e = (p.rv # OK)
  OBVIOUS
<1>8. o.rv = OK /\ o.w = x
  BY <1>5, <1>7, DoneIs
<1>9. p.w \in DocumentType /\ e \in BOOLEAN
  BY <1>6, <1>7 DEF CodeGrows, Kept, Sane
<1>10. /\ x \in DocumentType /\ x.sink = p.w.sink /\ x.open = p.w.open /\ x.text = p.w.text
       /\ x.held = p.w.held /\ x.ddoc = p.w.ddoc
       /\ x.terr = p.w.terr /\ x.cerr = e /\ x.derr = p.w.derr
  BY <1>7, <1>9 DEF DocumentType
<1>11. Sane(x)
  BY <1>6, <1>7, <1>10 DEF CodeGrows, Kept, Sane
<1>12. Kept(v, o)
  BY <1>4, <1>6, <1>8, <1>10, <1>11 DEF CodeGrows, Kept
<1>13. ASSUME ~v.sink.refused => v.held = <<>>, ~o.w.sink.refused
       PROVE  Encoded(o.w) = Encoded(v) \o items
  <2>1. Encoded(p.w) = Encoded(u) \o items
    BY <1>6, <1>8, <1>10, <1>13 DEF CodeGrows
  <2>2. Encoded(u) = Encoded(v) /\ Encoded(o.w) = Encoded(p.w)
    <3>1. v.held = <<>>
      BY <1>12, <1>13 DEF Kept
    <3> QED BY <1>4, <1>8, <1>10, <3>1 DEF Encoded, Out
  <2> QED BY <2>1, <2>2
<1>14. o.w.ddoc = v.ddoc /\ o.w.derr = v.derr
  BY <1>4, <1>6, <1>8, <1>10 DEF CodeGrows
<1> QED BY <1>8, <1>12, <1>13, <1>14 DEF CodeGrows, items

(* EncryptionConsumer::close: the tag, then what Base64Consumer has left.  *)
LEMMA CipherCloseOutcome ==
  ASSUME NEW v, Sane(v), NEW o \in CipherClose(v)
  PROVE  /\ CodeGrows(v, o, <<Part("tag")>>)
         /\ o.rv = OK /\ ~o.w.sink.refused => o.w.held = <<>>
<1> DEFINE items == <<Part("tag")>>
<1>1. items \in Seq(ItemType) /\ <<>> \in Seq(ItemType) /\ items \o <<>> = items
  BY PartIs DEF Kinds
<1> HIDE DEF items
<1>2. PICK p \in Base64Write(v, items) : o \in IF p.rv = OK THEN Base64Close(p.w) ELSE {p}
  BY DEF CipherClose, Bind, items
<1>3. CodeGrows(v, p, items)
  BY <1>1, <1>2, Base64WriteOutcome
<1>4. CASE p.rv = OK
  <2>1. o \in Base64Close(p.w) /\ Sane(p.w)
    BY <1>2, <1>3, <1>4 DEF CodeGrows, Kept
  <2>2. CodeGrows(p.w, o, <<>>) /\ (~o.w.sink.refused => o.w.held = <<>>)
    BY <2>1, Base64CloseOutcome
  <2>3. CodeGrows(v, o, items)
    BY <1>1, <1>3, <2>2, CodeGrowsThen
  <2> QED BY <2>2, <2>3 DEF items
<1>5. CASE p.rv # OK
  BY <1>2, <1>3, <1>5 DEF items
<1> QED BY <1>4, <1>5

(* v with another buffer of DDOCWriter.                                    *)
IsDdoc(u, v, b) ==
  /\ Sane(u) /\ u.ddoc = b /\ Encoded(u) = Encoded(v) /\ u.open = v.open
  /\ u.sink = v.sink

LEMMA SetDdoc ==
  ASSUME NEW v, Sane(v), NEW b \in Seq(ItemType), NEW rv, rv # OK => v.sink.refused,
         NEW u, u = [v EXCEPT !.ddoc = b, !.derr = rv # OK]
  PROVE  IsDdoc(u, v, b)
<1>0. PICK e \in BOOLEAN : e = (rv # OK)
  OBVIOUS
<1>1. v \in DocumentType
  BY DEF Sane
<1>2. /\ u \in DocumentType /\ u.text = v.text /\ u.sink = v.sink /\ u.open = v.open
      /\ u.held = v.held /\ u.ddoc = b
      /\ u.terr = v.terr /\ u.cerr = v.cerr /\ u.derr = e
  <2>1. u = [v EXCEPT !.ddoc = b, !.derr = e]
    BY <1>0
  <2> QED BY <1>1, <2>1 DEF DocumentType
<1> QED BY <1>0, <1>2 DEF Sane, Out, Encoded, IsDdoc

LEMMA ClearDdoc ==
  ASSUME NEW v, Sane(v), NEW rv, rv # OK => v.sink.refused,
         NEW u, u = [v EXCEPT !.ddoc = <<>>, !.derr = rv # OK]
  PROVE  IsDdoc(u, v, <<>>)
<1>1. PICK b : b = <<>>
  OBVIOUS
<1>2. b \in Seq(ItemType) /\ u = [v EXCEPT !.ddoc = b, !.derr = rv # OK]
  BY <1>1
<1>3. IsDdoc(u, v, b)
  BY <1>2, SetDdoc
<1> QED BY <1>1, <1>3

(* A call of DDOCWriter's text writer, however much of it is flushed.      *)
LEMMA DdocWriteOutcome ==
  ASSUME NEW v, Sane(v), NEW items \in Seq(ItemType), NEW o \in DdocWrite(v, items)
  PROVE  Grows(v, o, items)
<1>1. v \in DocumentType
  BY DEF Sane
<1>2. v.ddoc \in Seq(ItemType) /\ v.derr \in BOOLEAN /\ Encoded(v) \in Seq(ItemType)
  BY <1>1, DocumentFields, ContentType
<1>3. PICK all : all = v.ddoc \o items
  OBVIOUS
<1>4. all \in Seq(ItemType) /\ Len(all) \in Nat
  BY <1>2, <1>3
<1>5. Encoded(v) \o all = All(v) \o items
  BY <1>2, <1>3, ItemAssociative DEF All
<1> DEFINE Flushed(a, n, p) == [rv |-> p.rv, w |-> [p.w EXCEPT !.ddoc = SubSeq(a, n + 1, Len(a)),
                                                               !.derr = p.rv # OK]]
           Flush(a, n) == IF n = 0 THEN {Done([v EXCEPT !.ddoc = a])}
                          ELSE {Flushed(a, n, p) : p \in CipherWrite(v, SubSeq(a, 1, n))}
<1>6. CASE v.derr
  <2>1. o = [rv |-> ERR, w |-> v]
    BY <1>6 DEF DdocWrite
  <2> QED BY <1>6, <2>1 DEF Grows, Kept, Sane
<1>7. CASE ~v.derr
  <2>0. o \in UNION {Flush(v.ddoc \o items, n) : n \in Flushes(Len(v.ddoc \o items))}
    BY <1>7, Zenon DEF DdocWrite
  <2>1. PICK n \in Flushes(Len(v.ddoc \o items)) : o \in Flush(v.ddoc \o items, n)
    BY <2>0
  <2>2. n \in Flushes(Len(all)) /\ o \in Flush(all, n)
    BY <1>3, <2>1
  <2>3. n \in 0 .. Len(all)
    BY <1>4, <2>2, FlushesIn
  <2>4. CASE n = 0
    <3>1. PICK u : u = [v EXCEPT !.ddoc = all]
      OBVIOUS
    <3>2. o.rv = OK /\ o.w = u
      BY <2>2, <2>4, <3>1, DoneIs
    <3>3. u = [v EXCEPT !.ddoc = all, !.derr = OK # OK]
      BY <1>1, <1>7, <3>1 DEF DocumentType
    <3>4. /\ Sane(u) /\ u.ddoc = all /\ Encoded(u) = Encoded(v) /\ u.open = v.open
          /\ u.sink = v.sink
      <4>1. IsDdoc(u, v, all)
        BY <1>4, <3>3, SetDdoc
      <4> QED BY <4>1 DEF IsDdoc
    <3>5. All(u) = All(v) \o items
      BY <1>5, <3>4 DEF All
    <3> QED BY <3>2, <3>4, <3>5 DEF Grows, Kept
  <2>5. CASE n # 0
    <3>1. PICK p \in CipherWrite(v, SubSeq(all, 1, n)) : o = Flushed(all, n, p)
      BY <2>2, <2>5
    <3>2. PICK h, t : h = SubSeq(all, 1, n) /\ t = SubSeq(all, n + 1, Len(all))
      OBVIOUS
    <3>3. h \in Seq(ItemType) /\ t \in Seq(ItemType) /\ h \o t = all
      <4>1. n \in 1 .. Len(all)
        BY <2>3, <2>5
      <4> QED BY <1>4, <3>2, <4>1, Cut
    <3>4. CodeGrows(v, p, h)
      BY <3>1, <3>2, <3>3, CipherWriteOutcome
    <3>5. PICK u, x, rv : u = [x EXCEPT !.ddoc = t, !.derr = rv # OK] /\ x = p.w /\ rv = p.rv
      OBVIOUS
    <3>6. o.rv = p.rv /\ o.w = u
      BY <3>1, <3>2, <3>5
    <3>7. /\ Sane(u) /\ u.ddoc = t /\ Encoded(u) = Encoded(p.w) /\ u.open = p.w.open
          /\ u.sink = p.w.sink
      <4>1. (rv # OK => x.sink.refused) /\ Sane(x)
        BY <3>4, <3>5 DEF CodeGrows, Kept
      <4>2. IsDdoc(u, x, t)
        BY <3>3, <3>5, <4>1, SetDdoc
      <4> QED BY <3>5, <4>2 DEF IsDdoc
    <3>8. Kept(v, o)
      BY <3>4, <3>6, <3>7 DEF CodeGrows, Kept
    <3>9. ASSUME ~u.sink.refused PROVE All(u) = All(v) \o items
      <4>1. Encoded(p.w) = Encoded(v) \o h
        BY <3>4, <3>7, <3>9 DEF CodeGrows
      <4>5. Associate(Encoded(v), h, t)
        BY <1>2, <3>3, ItemsAssociate
      <4>2. (Encoded(v) \o h) \o t = Encoded(v) \o (h \o t)
        BY <4>5, Zenon DEF Associate
      <4>3. All(u) = (Encoded(v) \o h) \o t
        BY <3>7, <4>1, Zenon DEF All
      <4>4. All(u) = Encoded(v) \o all
        BY <3>3, <4>2, <4>3, Zenon
      <4> QED BY <1>5, <4>4, Zenon
    <3> QED BY <3>6, <3>8, <3>9 DEF Grows
  <2> QED BY <2>4, <2>5
<1> QED BY <1>2, <1>6, <1>7

(* DDOCWriter's constructor.                                               *)
LEMMA DdocOpenOutcome ==
  ASSUME NEW v, Sane(v), NEW o \in DdocOpen(v)
  PROVE  /\ Kept(v, o) /\ o.rv = OK
         /\ (~v.sink.refused => v.ddoc = <<>>) => Grows(v, o, <<Part("ddoc")>>)
<1> DEFINE items == <<Part("ddoc")>>
<1>1. items \in Seq(ItemType) /\ <<>> \in Seq(ItemType)
  BY PartIs DEF Kinds
<1> HIDE DEF items
<1>2. PICK u : u = [v EXCEPT !.ddoc = <<>>, !.derr = FALSE]
  OBVIOUS
<1>3. /\ Sane(u) /\ u.ddoc = <<>> /\ Encoded(u) = Encoded(v) /\ u.open = v.open
      /\ u.sink = v.sink
  <2>1. u = [v EXCEPT !.ddoc = <<>>, !.derr = OK # OK]
    BY <1>2
  <2>2. IsDdoc(u, v, <<>>)
    BY <2>1, ClearDdoc
  <2> QED BY <2>2 DEF IsDdoc
<1>4. PICK p \in DdocWrite(u, items) : o = Done(p.w)
  BY <1>2 DEF DdocOpen, items
<1>5. Grows(u, p, items) /\ o.rv = OK /\ o.w = p.w
  BY <1>1, <1>3, <1>4, DdocWriteOutcome, DoneIs
<1>6. Kept(v, o)
  BY <1>3, <1>5 DEF Grows, Kept
<1>7. ASSUME ~v.sink.refused => v.ddoc = <<>>, ~o.w.sink.refused
      PROVE  All(o.w) = All(v) \o items
  <2>1. v.ddoc = <<>>
    BY <1>7, <1>6 DEF Kept
  <2>2. All(u) = All(v)
    BY <1>3, <2>1 DEF All
  <2> QED BY <1>5, <1>7, <2>2 DEF Grows
<1> QED BY <1>5, <1>6, <1>7 DEF Grows, items

(* DDOCWriter's destructor: the end, and what is buffered.                 *)
LEMMA DdocCloseOutcome ==
  ASSUME NEW v, Sane(v), NEW o \in DdocClose(v)
  PROVE  /\ Grows(v, o, <<Part("endddoc")>>) /\ o.rv = OK
         /\ ~o.w.sink.refused => o.w.ddoc = <<>>
<1> DEFINE item == Part("endddoc")
<1>1. item \in ItemType /\ <<item>> \in Seq(ItemType) /\ <<>> \in Seq(ItemType)
  BY PartIs DEF Kinds
<1> HIDE DEF item
<1>2. v.ddoc \in Seq(ItemType) /\ v.derr \in BOOLEAN /\ Encoded(v) \in Seq(ItemType)
  BY DocumentFields, ContentType DEF Sane
<1>3. CASE v.derr
  <2>1. o = Done(v)
    BY <1>3 DEF DdocClose
  <2> QED BY <1>3, <2>1, DoneIs DEF Grows, Kept, Sane
<1>4. CASE ~v.derr
  <2>1. PICK all : all = Append(v.ddoc, item)
    OBVIOUS
  <2>2. all \in Seq(ItemType) /\ all = v.ddoc \o <<item>>
    BY <1>1, <1>2, <2>1
  <2>3. PICK p \in CipherWrite(v, all) : o = Done([p.w EXCEPT !.ddoc = <<>>, !.derr = p.rv # OK])
    BY <1>4, <2>1 DEF DdocClose, item
  <2>4. CodeGrows(v, p, all)
    BY <2>2, <2>3, CipherWriteOutcome
  <2>5. PICK u, x, rv : u = [x EXCEPT !.ddoc = <<>>, !.derr = rv # OK] /\ x = p.w /\ rv = p.rv
    OBVIOUS
  <2>6. o.rv = OK /\ o.w = u
    BY <2>3, <2>5, DoneIs
  <2>7. /\ Sane(u) /\ u.ddoc = <<>> /\ Encoded(u) = Encoded(p.w) /\ u.open = p.w.open
        /\ u.sink = p.w.sink
    <3>1. (rv # OK => x.sink.refused) /\ Sane(x)
      BY <2>4, <2>5 DEF CodeGrows, Kept
    <3>2. IsDdoc(u, x, <<>>)
      BY <2>5, <3>1, ClearDdoc
    <3> QED BY <2>5, <3>2 DEF IsDdoc
  <2>8. Kept(v, o)
    <3>1. v.sink.refused => u.sink.refused
      BY <2>4, <2>7 DEF CodeGrows, Kept
    <3> QED BY <2>4, <2>6, <2>7, <3>1 DEF CodeGrows, Kept
  <2>9. ASSUME ~u.sink.refused PROVE All(u) = All(v) \o <<item>>
    <3>1. Encoded(u) = Encoded(v) \o (v.ddoc \o <<item>>)
      BY <2>2, <2>4, <2>7, <2>9 DEF CodeGrows
    <3>2. (Encoded(v) \o v.ddoc) \o <<item>> = Encoded(v) \o (v.ddoc \o <<item>>)
      BY <1>1, <1>2, ItemAssociative, Zenon
    <3>3. Encoded(u) \in Seq(ItemType)
      BY <2>7, ContentType DEF Sane
    <3>4. Encoded(u) \o <<>> = Encoded(u)
      BY <3>3
    <3> QED BY <2>7, <3>1, <3>2, <3>4 DEF All
  <2> QED BY <2>6, <2>7, <2>8, <2>9 DEF Grows, item
<1> QED BY <1>2, <1>3, <1>4

(* XMLWriter's destructor, with every element ended: the file has it all,  *)
(* or it has refused.                                                      *)
LEMMA EndsType ==
  ASSUME NEW n \in Int
  PROVE  [i \in 1 .. n |-> Part("end")] \in Seq(ItemType)
<1>1. Part("end") \in ItemType
  BY PartIs DEF Kinds
<1>2. CASE n >= 0
  BY <1>1, <1>2
<1>3. CASE ~(n >= 0)
  <2>1. 1 .. n = 1 .. 0
    BY <1>3
  <2>2. [i \in 1 .. 0 |-> Part("end")] \in Seq(ItemType)
    BY <1>1
  <2> QED BY <2>1, <2>2
<1> QED BY <1>2, <1>3

LEMMA TextCloseOutcome ==
  ASSUME NEW v, Sane(v), NEW o \in TextClose(v)
  PROVE  /\ Sane(o.w)
         /\ v.sink.refused => o.w.sink.refused
         /\ v.open = 0 /\ ~o.w.sink.refused => o.w.sink.data = Out(v)
<1>1. v \in DocumentType /\ SinkSane(v.sink)
  BY DEF Sane
<1>2. /\ v.text \in Seq(ItemType) /\ v.sink.data \in Seq(ItemType) /\ v.open \in Int
      /\ v.terr \in BOOLEAN
  BY <1>1, DocumentFields
<1>3. PICK ends : ends = [i \in 1 .. v.open |-> Part("end")]
  OBVIOUS
<1>4. ends \in Seq(ItemType)
  BY <1>2, <1>3, EndsType
<1>5. PICK all : all = v.text \o ends
  OBVIOUS
<1>6. all \in Seq(ItemType)
  BY <1>2, <1>4, <1>5
<1>7. ASSUME v.open = 0 PROVE all = v.text
  <2>1. ends = <<>>
    BY <1>3, <1>7
  <2> QED BY <1>2, <1>5, <2>1
<1>8. CASE v.terr
  <2>1. o = Done(v)
    BY <1>8 DEF TextClose
  <2> QED BY <1>8, <2>1, DoneIs DEF Sane
<1>9. CASE ~v.terr /\ all = <<>>
  <2>1. o = Done(v)
    BY <1>3, <1>5, <1>9 DEF TextClose
  <2>2. v.open = 0 => v.sink.data = Out(v)
    <3>1. v.open = 0 => v.text = <<>>
      BY <1>7, <1>9
    <3>2. v.sink.data \o <<>> = v.sink.data
      BY <1>2
    <3> QED BY <3>1, <3>2 DEF Out
  <2> QED BY <2>1, <2>2, DoneIs
<1>10. CASE ~v.terr /\ all # <<>>
  <2>1. PICK p \in SinkWrite(v.sink, all) :
          o = Done([v EXCEPT !.text = <<>>, !.open = 0, !.terr = p.rv # OK, !.sink = p.sink])
    BY <1>3, <1>5, <1>10 DEF TextClose
  <2>2. /\ p.rv \in {OK, ERR} /\ SinkSane(p.sink)
        /\ p.rv = OK => p.sink.refused = v.sink.refused /\ p.sink.data = v.sink.data \o all
        /\ p.rv # OK => p.sink.refused
    BY <1>1, <1>6, <2>1, SinkWriteOutcome
  <2>0. PICK z : z = <<>>
    OBVIOUS
  <2>3. PICK u, e : u = [v EXCEPT !.text = z, !.open = 0, !.terr = e, !.sink = p.sink]
                    /\ e = (p.rv # OK)
    OBVIOUS
  <2>4. o.w = u
    BY <2>0, <2>1, <2>3, DoneIs
  <2>5. /\ u \in DocumentType /\ u.sink = p.sink
        /\ u.terr = e /\ u.cerr = v.cerr /\ u.derr = v.derr
    <3>1. p.sink \in SinkType(ItemType) /\ e \in BOOLEAN /\ z \in Seq(ItemType)
      BY <2>0, <2>2, <2>3 DEF SinkSane
    <3>2. u.sink = p.sink /\ u.terr = e /\ u.cerr = v.cerr /\ u.derr = v.derr
      BY <1>1, <2>3 DEF DocumentType
    <3>3. u \in DocumentType
      <4>1. PICK s : s = p.sink
        OBVIOUS
      <4>2. PICK zero : zero = 0
        OBVIOUS
      <4>3. u = [v EXCEPT !.text = z, !.open = zero, !.terr = e, !.sink = s]
        BY <2>3, <4>1, <4>2
      <4>4. s \in SinkType(ItemType) /\ zero \in Int
        BY <3>1, <4>1, <4>2
      <4> QED BY <1>1, <3>1, <4>3, <4>4 DEF DocumentType
    <3> QED BY <3>2, <3>3
  <2>6. Sane(u) /\ (v.sink.refused => u.sink.refused)
    BY <2>2, <2>3, <2>5 DEF Sane
  <2>7. v.open = 0 /\ ~u.sink.refused => u.sink.data = Out(v)
    BY <1>7, <2>2, <2>5 DEF Out
  <2> QED BY <2>4, <2>6, <2>7
<1> QED BY <1>2, <1>8, <1>9, <1>10

----------------------------------------------------------------------------
(* Items but for the sizes.                                                *)

LEMMA BareAt ==
  ASSUME NEW s \in Seq(ItemType)
  PROVE  /\ Bare(s) \in Seq(ItemType) /\ Len(Bare(s)) = Len(s)
         /\ \A i \in 1 .. Len(s) :
              Bare(s)[i] = IF s[i].k = "data" THEN s[i] ELSE [s[i] EXCEPT !.n = 0]
<1> DEFINE bare(x) == IF x.k = "data" THEN x ELSE [x EXCEPT !.n = 0]
<1>1. \A x \in ItemType : bare(x) \in ItemType
  BY DEF ItemType
<1>2. Bare(s) = [i \in 1 .. Len(s) |-> bare(s[i])]
  BY DEF Bare
<1>3. \A i \in 1 .. Len(s) : s[i] \in ItemType
  OBVIOUS
<1>4. \A i \in 1 .. Len(s) : Bare(s)[i] = bare(s[i])
  BY <1>2
<1>5. Bare(s) \in Seq(ItemType) /\ Len(Bare(s)) = Len(s)
  <2> HIDE DEF bare
  <2> QED BY <1>1, <1>2, <1>3
<1> QED BY <1>4, <1>5

LEMMA BareConcat ==
  ASSUME NEW s \in Seq(ItemType), NEW t \in Seq(ItemType)
  PROVE  Bare(s \o t) = Bare(s) \o Bare(t)
<1> DEFINE bare(x) == IF x.k = "data" THEN x ELSE [x EXCEPT !.n = 0]
<1>1. PICK u : u = s \o t
  OBVIOUS
<1>2. u \in Seq(ItemType) /\ Len(u) = Len(s) + Len(t)
  BY <1>1
<1>3. /\ Bare(s) \in Seq(ItemType) /\ Len(Bare(s)) = Len(s)
      /\ \A i \in 1 .. Len(s) : Bare(s)[i] = bare(s[i])
  BY BareAt
<1>4. /\ Bare(t) \in Seq(ItemType) /\ Len(Bare(t)) = Len(t)
      /\ \A i \in 1 .. Len(t) : Bare(t)[i] = bare(t[i])
  BY BareAt
<1>5. /\ Bare(u) \in Seq(ItemType) /\ Len(Bare(u)) = Len(u)
      /\ \A i \in 1 .. Len(u) : Bare(u)[i] = bare(u[i])
  BY <1>2, BareAt
<1> HIDE DEF bare
<1>6. PICK a, b, c : a = Bare(s) /\ b = Bare(t) /\ c = Bare(u)
  OBVIOUS
<1>7. c = a \o b
  <2>1. a \in Seq(ItemType) /\ b \in Seq(ItemType) /\ c \in Seq(ItemType)
        /\ Len(a) = Len(s) /\ Len(b) = Len(t) /\ Len(c) = Len(s) + Len(t)
    BY <1>2, <1>3, <1>4, <1>5, <1>6
  <2>2. ASSUME NEW i \in 1 .. Len(c) PROVE c[i] = (a \o b)[i]
    <3>1. c[i] = bare(u[i])
      BY <1>2, <1>5, <1>6, <2>1
    <3>2. CASE i <= Len(s)
      <4>1. u[i] = s[i] /\ i \in 1 .. Len(s)
        BY <1>1, <2>1, <3>2
      <4>2. a[i] = bare(s[i]) /\ (a \o b)[i] = a[i]
        BY <1>3, <1>6, <2>1, <4>1
      <4> QED BY <3>1, <4>1, <4>2
    <3>3. CASE ~(i <= Len(s))
      <4>1. PICK j : j = i - Len(s)
        OBVIOUS
      <4>2. u[i] = t[j] /\ j \in 1 .. Len(t)
        BY <1>1, <2>1, <3>3, <4>1
      <4>3. b[j] = bare(t[j]) /\ (a \o b)[i] = b[j]
        <5>1. b[j] = bare(t[j])
          BY <1>4, <1>6, <4>2
        <5>2. i = Len(a) + j /\ j \in 1 .. Len(b)
          BY <1>6, <2>1, <4>1, <4>2
        <5>3. (a \o b)[i] = b[j]
          BY <2>1, <5>2
        <5> QED BY <5>1, <5>3
      <4> QED BY <3>1, <4>2, <4>3
    <3> QED BY <3>2, <3>3
  <2>3. a \o b \in Seq(ItemType) /\ Len(a \o b) = Len(c)
    BY <2>1
  <2> QED BY <2>1, <2>2, <2>3
<1> QED BY <1>1, <1>6, <1>7

(* Items that state no size are bare already.                              *)
LEMMA BareAlready ==
  ASSUME NEW s \in Seq(ItemType), \A i \in 1 .. Len(s) : s[i].k = "data" \/ s[i].n = 0
  PROVE  Bare(s) = s
<1>1. /\ Bare(s) \in Seq(ItemType) /\ Len(Bare(s)) = Len(s)
      /\ \A i \in 1 .. Len(s) :
           Bare(s)[i] = IF s[i].k = "data" THEN s[i] ELSE [s[i] EXCEPT !.n = 0]
  BY BareAt
<1>2. \A x \in ItemType : x.n = 0 => [x EXCEPT !.n = 0] = x
  BY DEF ItemType
<1>3. \A i \in 1 .. Len(s) : Bare(s)[i] = s[i]
  <2>1. \A i \in 1 .. Len(s) : s[i] \in ItemType
    OBVIOUS
  <2> QED BY <1>1, <1>2, <2>1
<1> QED BY <1>1, <1>3

LEMMA BarePart ==
  ASSUME NEW k \in Kinds
  PROVE  Bare(<<Part(k)>>) = <<Part(k)>>
<1>1. <<Part(k)>> \in Seq(ItemType) /\ Part(k).n = 0
  BY PartIs, ItemIs DEF Part
<1>2. \A i \in 1 .. Len(<<Part(k)>>) : <<Part(k)>>[i].n = 0
  BY <1>1
<1> QED BY <1>1, <1>2, BareAlready

(* A sequence of items, each with a size, and the same without.            *)
LEMMA BareSized ==
  ASSUME NEW k \in Kinds \ {"data"}, NEW n \in Nat, NEW s,
         DOMAIN s = 1 .. n, s = [i \in 1 .. n |-> s[i]],
         \A i \in 1 .. n : \E size \in Int : s[i] = Item(k, i, size)
  PROVE  s \in Seq(ItemType) /\ Bare(s) = [i \in 1 .. n |-> Item(k, i, 0)]
<1>1. \A i \in 1 .. n : i \in Nat
  OBVIOUS
<1>2. \A i \in 1 .. n : s[i] \in ItemType
  BY <1>1, ItemIs
<1>3. s \in Seq(ItemType) /\ Len(s) = n
  BY <1>2
<1>4. /\ Bare(s) \in Seq(ItemType) /\ Len(Bare(s)) = n
      /\ \A i \in 1 .. n : Bare(s)[i] = IF s[i].k = "data" THEN s[i] ELSE [s[i] EXCEPT !.n = 0]
  BY <1>3, BareAt
<1>5. ASSUME NEW i \in 1 .. n
      PROVE  Bare(s)[i] = Item(k, i, 0)
  <2>1. PICK size \in Int : s[i] = Item(k, i, size)
    OBVIOUS
  <2>2. s[i].k = k /\ k # "data"
    BY <1>1, <2>1, ItemIs
  <2>3. [Item(k, i, size) EXCEPT !.n = 0] = Item(k, i, 0)
    BY DEF Item
  <2> QED BY <1>4, <2>1, <2>2, <2>3
<1>6. Bare(s) = [i \in 1 .. n |-> Bare(s)[i]]
  BY <1>4
<1> QED BY <1>3, <1>5, <1>6

----------------------------------------------------------------------------
(* What is expected of a document, as far as writeDocument has come with   *)
(* it: dd says whether its payload is a DDOC, r how many recipients it     *)
(* has, and F is its files.                                                *)

Only(dd, item)     == IF dd THEN <<item>> ELSE <<>>
Marks(k, n)        == [i \in 1 .. n |-> Item(k, i, 0)]
Blocks(i, m)        == [j \in 1 .. m |-> DataItem(i, j)]
Start(dd, i, m)    == Only(dd, Item("file", i, 0)) \o Blocks(i, m)
Piece(dd, F, i)    == Start(dd, i, F[i].data) \o Only(dd, Item("endfile", i, 0))
Pieces(dd, F, n)   == FlattenSeq([i \in 1 .. n |-> Piece(dd, F, i)])
Keys(r)            == <<Part("begin")>> \o Marks("key", r)
Opened(dd, r)      == Keys(r) \o <<Part("cipher"), Part("nonce")>> \o Only(dd, Part("ddoc"))
Filled(dd, r, F, n) == Opened(dd, r) \o Pieces(dd, F, n)
Closed(dd, r, F)   == Filled(dd, r, F, Len(F)) \o Only(dd, Part("endddoc"))
                        \o <<Part("tag"), Part("endcipher")>>
Whole(dd, r, F)    == Closed(dd, r, F) \o Marks("orig", Len(F)) \o <<Part("end")>>

LEMMA OnlyType ==
  ASSUME NEW dd \in BOOLEAN, NEW item \in ItemType
  PROVE  Only(dd, item) \in Seq(ItemType)
  BY DEF Only

LEMMA MarksType ==
  ASSUME NEW k \in Kinds, NEW n \in Nat
  PROVE  /\ Marks(k, n) \in Seq(ItemType) /\ Len(Marks(k, n)) = n
         /\ Marks(k, n) \o <<Item(k, n + 1, 0)>> = Marks(k, n + 1)
<1>1. \A i \in Nat : Item(k, i, 0) \in ItemType
  BY ItemIs
<1>2. Marks(k, n) \in Seq(ItemType) /\ Len(Marks(k, n)) = n
  BY <1>1 DEF Marks
<1>3. PICK m : m = n + 1
  OBVIOUS
<1>4. Marks(k, m) \in Seq(ItemType) /\ Len(Marks(k, m)) = m /\ Item(k, m, 0) \in ItemType
  BY <1>1, <1>3 DEF Marks
<1>5. \A i \in 1 .. m : Marks(k, m)[i] = (Marks(k, n) \o <<Item(k, m, 0)>>)[i]
  <2>1. /\ \A i \in 1 .. m : Marks(k, m)[i] = Item(k, i, 0)
        /\ \A i \in 1 .. n : Marks(k, n)[i] = Item(k, i, 0)
    BY DEF Marks
  <2>2. PICK a : a = Marks(k, n)
    OBVIOUS
  <2>3. PICK x : x = Item(k, m, 0)
    OBVIOUS
  <2>4. ASSUME NEW i \in 1 .. m PROVE (a \o <<x>>)[i] = IF i = m THEN x ELSE a[i]
    <3>1. a \in Seq(ItemType) /\ Len(a) = n
      BY <1>2, <2>2
    <3> QED BY <1>3, <3>1
  <2>5. \A i \in 1 .. m : i # m => i \in 1 .. n
    BY <1>3
  <2> QED BY <2>1, <2>2, <2>3, <2>4, <2>5
<1>6. PICK a, b : a = Marks(k, m) /\ b = Marks(k, n) \o <<Item(k, m, 0)>>
  OBVIOUS
<1>7. a \in Seq(ItemType) /\ b \in Seq(ItemType) /\ Len(a) = m /\ Len(b) = m
  BY <1>2, <1>3, <1>4, <1>6
<1>8. a = b
  BY <1>5, <1>6, <1>7
<1> QED BY <1>2, <1>3, <1>6, <1>8

LEMMA BlocksType ==
  ASSUME NEW i \in Nat, NEW m \in Nat
  PROVE  /\ Blocks(i, m) \in Seq(ItemType) /\ Bare(Blocks(i, m)) = Blocks(i, m)
         /\ <<DataItem(i, m + 1)>> \in Seq(ItemType)
         /\ Bare(<<DataItem(i, m + 1)>>) = <<DataItem(i, m + 1)>>
         /\ Blocks(i, m) \o <<DataItem(i, m + 1)>> = Blocks(i, m + 1)
<1>1. \A j \in Nat : DataItem(i, j) \in ItemType /\ DataItem(i, j).k = "data"
  <2>1. "data" \in Kinds /\ \A j \in Nat : j \in Int
    BY DEF Kinds
  <2> QED BY <2>1, ItemIs DEF DataItem
<1>2. Blocks(i, m) \in Seq(ItemType) /\ Len(Blocks(i, m)) = m
  BY <1>1 DEF Blocks
<1>3. \A j \in 1 .. m : Blocks(i, m)[j].k = "data"
  BY <1>1 DEF Blocks
<1>4. Bare(Blocks(i, m)) = Blocks(i, m)
  BY <1>2, <1>3, BareAlready
<1>5. PICK n : n = m + 1
  OBVIOUS
<1>6. PICK x : x = DataItem(i, n)
  OBVIOUS
<1>7. x \in ItemType /\ x.k = "data" /\ <<x>> \in Seq(ItemType)
  BY <1>1, <1>5, <1>6
<1>8. Bare(<<x>>) = <<x>>
  <2>1. \A j \in 1 .. Len(<<x>>) : <<x>>[j].k = "data"
    BY <1>7
  <2> QED BY <1>7, <2>1, BareAlready
<1>9. PICK a, b, c : a = Blocks(i, n) /\ b = Blocks(i, m) \o <<x>> /\ c = Blocks(i, m)
  OBVIOUS
<1>10. a \in Seq(ItemType) /\ Len(a) = n /\ c \in Seq(ItemType) /\ Len(c) = m
  BY <1>1, <1>2, <1>5, <1>9 DEF Blocks
<1>11. b \in Seq(ItemType) /\ Len(b) = n
  BY <1>2, <1>5, <1>7, <1>9
<1>12. \A j \in 1 .. n : a[j] = b[j]
  <2>1. /\ \A j \in 1 .. n : a[j] = DataItem(i, j)
        /\ \A j \in 1 .. m : c[j] = DataItem(i, j)
    BY <1>9 DEF Blocks
  <2>2. \A j \in 1 .. n : b[j] = IF j = n THEN x ELSE c[j]
    BY <1>5, <1>9, <1>10
  <2>3. \A j \in 1 .. n : j # n => j \in 1 .. m
    BY <1>5
  <2> QED BY <1>6, <2>1, <2>2, <2>3
<1>13. a = b
  BY <1>10, <1>11, <1>12
<1> QED BY <1>2, <1>4, <1>5, <1>6, <1>7, <1>8, <1>9, <1>13

LEMMA StartType ==
  ASSUME NEW dd \in BOOLEAN, NEW i \in Nat, NEW m \in Nat
  PROVE  /\ Start(dd, i, m) \in Seq(ItemType)
         /\ Start(dd, i, m) \o <<DataItem(i, m + 1)>> = Start(dd, i, m + 1)
<1>1. Item("file", i, 0) \in ItemType
  BY ItemIs DEF Kinds
<1>2. PICK only, a, x : /\ only = Only(dd, Item("file", i, 0)) /\ a = Blocks(i, m)
                        /\ x = <<DataItem(i, m + 1)>>
  OBVIOUS
<1>3. only \in Seq(ItemType) /\ a \in Seq(ItemType) /\ x \in Seq(ItemType)
  BY <1>1, <1>2, OnlyType, BlocksType
<1>4. a \o x = Blocks(i, m + 1)
  BY <1>2, BlocksType
<1>5. (only \o a) \o x = only \o (a \o x)
  BY <1>3, ItemAssociative, Zenon
<1>6. only \o a \in Seq(ItemType)
  BY <1>3, ItemConcat
<1> QED BY <1>2, <1>4, <1>5, <1>6 DEF Start

LEMMA EndType ==
  ASSUME NEW dd \in BOOLEAN, NEW i \in Nat
  PROVE  Only(dd, Item("endfile", i, 0)) \in Seq(ItemType)
<1>1. Item("endfile", i, 0) \in ItemType
  BY ItemIs DEF Kinds
<1> QED BY <1>1, OnlyType

LEMMA PieceType ==
  ASSUME NEW dd \in BOOLEAN, NEW F \in Seq(File), NEW i \in 1 .. Len(F)
  PROVE  Piece(dd, F, i) \in Seq(ItemType)
<1>1. F[i].data \in Nat /\ i \in Nat
  <2>1. F[i] \in File /\ Len(F) \in Nat
    OBVIOUS
  <2> QED BY <2>1 DEF File
<1>2. Start(dd, i, F[i].data) \in Seq(ItemType) /\ Only(dd, Item("endfile", i, 0)) \in Seq(ItemType)
  BY <1>1, StartType, EndType
<1> QED BY <1>2, ItemConcat DEF Piece

LEMMA PiecesType ==
  ASSUME NEW dd \in BOOLEAN, NEW F \in Seq(File), NEW n \in 0 .. Len(F)
  PROVE  /\ Pieces(dd, F, n) \in Seq(ItemType)
         /\ n < Len(F) => Pieces(dd, F, n) \o Piece(dd, F, n + 1) = Pieces(dd, F, n + 1)
<1>1. PICK ss : ss = [i \in 1 .. n |-> Piece(dd, F, i)]
  OBVIOUS
<1>2. ss \in Seq(Seq(ItemType)) /\ Len(ss) = n
  <2>1. \A i \in 1 .. n : Piece(dd, F, i) \in Seq(ItemType)
    BY PieceType
  <2> QED BY <1>1, <2>1
<1>3. Pieces(dd, F, n) \in Seq(ItemType)
  BY <1>1, <1>2, FlattenType DEF Pieces
<1>4. ASSUME n < Len(F)
      PROVE  Pieces(dd, F, n) \o Piece(dd, F, n + 1) = Pieces(dd, F, n + 1)
  <2>1. PICK m : m = n + 1
    OBVIOUS
  <2>2. PICK s : s = Piece(dd, F, m)
    OBVIOUS
  <2>3. s \in Seq(ItemType) /\ m \in Nat
    BY <1>4, <2>1, <2>2, PieceType
  <2>4. PICK tt : tt = [i \in 1 .. m |-> Piece(dd, F, i)]
    OBVIOUS
  <2>5. tt = Append(ss, s)
    <3>1. DOMAIN tt = 1 .. m /\ tt = [i \in 1 .. m |-> tt[i]]
      BY <2>4
    <3>2. \A i \in 1 .. m : tt[i] = Piece(dd, F, i)
      BY <2>4
    <3>3. \A i \in 1 .. n : ss[i] = Piece(dd, F, i)
      BY <1>1
    <3>4. PICK uu : uu = Append(ss, s)
      OBVIOUS
    <3>5. uu \in Seq(Seq(ItemType)) /\ Len(uu) = m /\ \A i \in 1 .. m : uu[i] = IF i = m THEN s ELSE ss[i]
      BY <1>2, <2>1, <2>3, <3>4
    <3>6. \A i \in 1 .. m : i # m => i \in 1 .. n
      BY <2>1
    <3>7. \A i \in 1 .. m : tt[i] = uu[i]
      BY <2>2, <3>2, <3>3, <3>5, <3>6
    <3>8. DOMAIN uu = 1 .. m /\ uu = [i \in 1 .. m |-> uu[i]]
      BY <2>3, <3>5
    <3> QED BY <3>1, <3>4, <3>7, <3>8
  <2>6. FlattenSeq(tt) = FlattenSeq(ss) \o s
    BY <1>2, <2>3, <2>5, FlattenAppend
  <2> QED BY <1>1, <2>1, <2>2, <2>4, <2>6 DEF Pieces
<1> QED BY <1>3, <1>4

LEMMA PartsType ==
  /\ <<Part("begin")>> \in Seq(ItemType) /\ <<Part("end")>> \in Seq(ItemType)
  /\ <<Part("cipher"), Part("nonce")>> \in Seq(ItemType)
  /\ <<Part("tag"), Part("endcipher")>> \in Seq(ItemType)
  /\ Part("ddoc") \in ItemType /\ Part("endddoc") \in ItemType
<1>1. {"begin", "end", "cipher", "nonce", "tag", "endcipher", "ddoc", "endddoc"} \subseteq Kinds
  BY DEF Kinds
<1> QED BY <1>1, PartIs

LEMMA KeysType ==
  ASSUME NEW r \in Nat
  PROVE  Keys(r) \in Seq(ItemType) /\ Keys(r) \o <<Item("key", r + 1, 0)>> = Keys(r + 1)
<1>1. "key" \in Kinds
  BY DEF Kinds
<1>2. Marks("key", r) \in Seq(ItemType) /\ Marks("key", r) \o <<Item("key", r + 1, 0)>> = Marks("key", r + 1)
  BY <1>1, MarksType
<1>3. PICK x : x = Item("key", r + 1, 0)
  OBVIOUS
<1>4. x \in ItemType
  <2>1. r + 1 \in Nat /\ 0 \in Int
    OBVIOUS
  <2> QED BY <1>1, <1>3, <2>1, ItemIs
<1>5. (<<Part("begin")>> \o Marks("key", r)) \o <<x>> = <<Part("begin")>> \o (Marks("key", r) \o <<x>>)
  <2>1. <<x>> \in Seq(ItemType)
    BY <1>4
  <2> QED BY <1>2, <2>1, PartsType, ItemAssociative
<1>6. Keys(r) \in Seq(ItemType)
  BY <1>2, PartsType, ItemConcat DEF Keys
<1> QED BY <1>2, <1>3, <1>5, <1>6 DEF Keys

LEMMA OpenedType ==
  ASSUME NEW dd \in BOOLEAN, NEW r \in Nat
  PROVE  Opened(dd, r) \in Seq(ItemType)
<1>1. /\ Keys(r) \in Seq(ItemType) /\ <<Part("cipher"), Part("nonce")>> \in Seq(ItemType)
      /\ Only(dd, Part("ddoc")) \in Seq(ItemType)
  BY KeysType, PartsType, OnlyType
<1> QED BY <1>1, ItemConcat DEF Opened

(* Each file, with its mark in a DDOC, follows the one before.             *)
LEMMA FilledType ==
  ASSUME NEW dd \in BOOLEAN, NEW r \in Nat, NEW F \in Seq(File), NEW n \in 0 .. Len(F)
  PROVE  /\ Filled(dd, r, F, n) \in Seq(ItemType)
         /\ n < Len(F) => Filled(dd, r, F, n) \o Piece(dd, F, n + 1) = Filled(dd, r, F, n + 1)
<1>1. PICK o, p : o = Opened(dd, r) /\ p = Pieces(dd, F, n)
  OBVIOUS
<1>2. o \in Seq(ItemType) /\ p \in Seq(ItemType)
  BY <1>1, OpenedType, PiecesType
<1>3. ASSUME n < Len(F)
      PROVE  (o \o p) \o Piece(dd, F, n + 1) = o \o Pieces(dd, F, n + 1)
  <2>1. n + 1 \in 1 .. Len(F)
    BY <1>3
  <2>2. Piece(dd, F, n + 1) \in Seq(ItemType)
    BY <2>1, PieceType
  <2>3. p \o Piece(dd, F, n + 1) = Pieces(dd, F, n + 1)
    BY <1>1, <1>3, PiecesType
  <2>4. (o \o p) \o Piece(dd, F, n + 1) = o \o (p \o Piece(dd, F, n + 1))
    BY <1>2, <2>2, ItemAssociative, Zenon
  <2> QED BY <2>3, <2>4
<1>4. o \o p \in Seq(ItemType)
  BY <1>2
<1> QED BY <1>1, <1>3, <1>4 DEF Filled

LEMMA ClosedType ==
  ASSUME NEW dd \in BOOLEAN, NEW r \in Nat, NEW F \in Seq(File)
  PROVE  Closed(dd, r, F) \in Seq(ItemType) /\ Whole(dd, r, F) \in Seq(ItemType)
<1>1. Len(F) \in 0 .. Len(F) /\ Len(F) \in Nat
  OBVIOUS
<1>2. Filled(dd, r, F, Len(F)) \in Seq(ItemType)
  BY <1>1, FilledType
<1>3. /\ Only(dd, Part("endddoc")) \in Seq(ItemType)
      /\ <<Part("tag"), Part("endcipher")>> \in Seq(ItemType)
      /\ Marks("orig", Len(F)) \in Seq(ItemType) /\ <<Part("end")>> \in Seq(ItemType)
  <2>1. "orig" \in Kinds
    BY DEF Kinds
  <2> QED BY <1>1, <2>1, PartsType, OnlyType, MarksType
<1>4. Closed(dd, r, F) \in Seq(ItemType)
  BY <1>2, <1>3, ItemConcat DEF Closed
<1> QED BY <1>3, <1>4, ItemConcat DEF Whole

(* That is the whole of what the property expects.                         *)
LEMMA ExpectedIs ==
  ASSUME NEW dd \in BOOLEAN, NEW keys \in Seq(RecipientKinds), NEW F \in Seq(File)
  PROVE  Expected([keys |-> keys, files |-> F, ddoc |-> dd]) = Whole(dd, Len(keys), F)
<1> DEFINE doc == [keys |-> keys, files |-> F, ddoc |-> dd]
           If(item)   == IF doc.ddoc THEN <<item>> ELSE <<>>
           Of(k, s)   == [i \in DOMAIN s |-> Item(k, i, 0)]
           FileOf(i)  == If(Item("file", i, 0)) \o [j \in 1 .. doc.files[i].data |-> DataItem(i, j)]
                           \o If(Item("endfile", i, 0))
           payload    == If(Part("ddoc")) \o FlattenSeq([i \in DOMAIN doc.files |-> FileOf(i)])
                           \o If(Part("endddoc"))
<1>1. Expected(doc) = <<Part("begin")>> \o Of("key", doc.keys) \o <<Part("cipher"), Part("nonce")>>
                        \o payload \o <<Part("tag"), Part("endcipher")>> \o Of("orig", doc.files)
                        \o <<Part("end")>>
  BY Zenon DEF Expected
<1>2. doc.keys = keys /\ doc.files = F /\ doc.ddoc = dd
  OBVIOUS
<1>3. /\ \A k, s : Of(k, s) = [i \in DOMAIN s |-> Item(k, i, 0)]
      /\ \A item : If(item) = Only(dd, item)
      /\ DOMAIN keys = 1 .. Len(keys) /\ DOMAIN F = 1 .. Len(F)
  BY DEF Only
<1>4. Of("key", doc.keys) = Marks("key", Len(keys)) /\ Of("orig", doc.files) = Marks("orig", Len(F))
  BY <1>2, <1>3 DEF Marks
<1>5. \A i : FileOf(i) = Piece(dd, F, i)
  <2>1. TAKE i
  <2>2. [j \in 1 .. doc.files[i].data |-> DataItem(i, j)] = Blocks(i, F[i].data)
    BY <1>2 DEF Blocks
  <2>3. PICK a, b, e : /\ a = Only(dd, Item("file", i, 0)) /\ b = Blocks(i, F[i].data)
                       /\ e = Only(dd, Item("endfile", i, 0))
    OBVIOUS
  <2>4. FileOf(i) = a \o b \o e
    <3> HIDE DEF If, doc
    <3> QED BY <1>3, <2>2, <2>3
  <2>5. Piece(dd, F, i) = a \o b \o e
    BY <2>3 DEF Piece, Start
  <2> QED BY <2>4, <2>5
<1>6. FlattenSeq([i \in DOMAIN doc.files |-> FileOf(i)]) = Pieces(dd, F, Len(F))
  <2>1. [i \in DOMAIN doc.files |-> FileOf(i)] = [i \in 1 .. Len(F) |-> Piece(dd, F, i)]
    <3> HIDE DEF FileOf
    <3> QED BY <1>2, <1>3, <1>5
  <2> QED BY <2>1 DEF Pieces
<1>7. payload = Only(dd, Part("ddoc")) \o Pieces(dd, F, Len(F)) \o Only(dd, Part("endddoc"))
  <2> HIDE DEF If, FileOf, doc
  <2> QED BY <1>3, <1>6
<1> HIDE DEF doc, If, Of, FileOf, payload
<1>8. PICK p, c, D, P, x, t, m, e :
        /\ p = Keys(Len(keys)) /\ c = <<Part("cipher"), Part("nonce")>>
        /\ D = Only(dd, Part("ddoc")) /\ P = Pieces(dd, F, Len(F)) /\ x = Only(dd, Part("endddoc"))
        /\ t = <<Part("tag"), Part("endcipher")>> /\ m = Marks("orig", Len(F)) /\ e = <<Part("end")>>
  OBVIOUS
<1>9. Expected(doc) = (((p \o c) \o ((D \o P) \o x)) \o t) \o m \o e
  BY <1>1, <1>4, <1>7, <1>8 DEF Keys
<1>10. Whole(dd, Len(keys), F) = ((((((p \o c) \o D) \o P) \o x) \o t) \o m) \o e
  BY <1>8 DEF Whole, Closed, Filled, Opened
<1>11. /\ p \in Seq(ItemType) /\ c \in Seq(ItemType) /\ D \in Seq(ItemType)
       /\ P \in Seq(ItemType) /\ x \in Seq(ItemType)
  <2>1. Len(keys) \in Nat /\ Len(F) \in 0 .. Len(F)
    OBVIOUS
  <2> QED BY <1>8, <2>1, KeysType, PartsType, OnlyType, PiecesType
<1>12. (p \o c) \o ((D \o P) \o x) = (((p \o c) \o D) \o P) \o x
  <2>1. PICK q, u : q = p \o c /\ u = D \o P
    OBVIOUS
  <2>2. /\ q \in Seq(ItemType) /\ u \in Seq(ItemType) /\ D \in Seq(ItemType)
        /\ P \in Seq(ItemType) /\ x \in Seq(ItemType)
    BY <1>11, <2>1
  <2>3. (q \o u) \o x = q \o (u \o x)
    <3>1. q \in Seq(ItemType) /\ u \in Seq(ItemType) /\ x \in Seq(ItemType)
      BY <2>2
    <3> QED BY <3>1, ItemAssociative, Zenon
  <2>4. (q \o D) \o P = q \o (D \o P)
    <3>1. q \in Seq(ItemType) /\ D \in Seq(ItemType) /\ P \in Seq(ItemType)
      BY <2>2
    <3> QED BY <3>1, ItemAssociative, Zenon
  <2> QED BY <2>1, <2>3, <2>4
<1>13. Expected(doc) = Whole(dd, Len(keys), F)
  BY <1>9, <1>10, <1>12
<1> QED BY <1>13 DEF doc

----------------------------------------------------------------------------
(* The inductive invariant.                                                *)

Record == [keys : Seq(RecipientKinds), files : Seq(File), ddoc : BOOLEAN]

Typed ==
  /\ rcpts \in Seq(RecipientKinds) /\ d \in BOOLEAN /\ files \in Seq(File) /\ Sane(w)
  /\ pc \in {"idle", "crashed", "head", "keys", "files", "data", "tail", "props", "done"}
  /\ op \in {"finish", "encrypt"} /\ next \in Nat
  /\ src \in [files : Seq(File), counts : BOOLEAN, got : Nat]
  /\ docs \in Seq(Record) /\ accepted \in Seq(RecipientKinds) /\ given \in Seq(File)
  /\ errors \in Nat /\ replaced \in BOOLEAN

(* Where writeDocument is with its recipients and files.                   *)
Shape ==
  /\ pc \notin {"idle", "crashed"} => d
  /\ pc \in {"idle", "crashed"} => op = "finish"
  /\ pc # "data" => src.got = 0
  /\ pc = "keys" => next - 1 \in 0 .. Len(rcpts)
  /\ pc = "files" => next - 1 \in 0 .. (IF op = "finish" THEN Len(files) ELSE Len(src.files))
  /\ pc = "data" => /\ op = "encrypt" /\ next \in 1 .. Len(src.files)
                    /\ src.got <= src.files[next].data

(* The files encrypt records are those the source has given so far.        *)
Sources1 == IF src.files = <<>> /\ src.counts THEN <<Nameless>> ELSE src.files

Recorded ==
  /\ d => rcpts = accepted
  /\ d /\ op = "finish" => files = given
  /\ op = "encrypt" =>
       /\ given = Sources1
       /\ pc \in {"head", "keys"} => files = <<>>
       /\ pc \in {"files", "data"} => Len(files) = next - 1 /\ (UseDdoc \/ next = 1)
       /\ pc \in {"tail", "props", "done"} => Len(files) = Len(given)

(* The documents that were finished.                                       *)
Base == FlattenSeq([i \in DOMAIN docs |-> Expected(docs[i])])

(* The chain holds base and then items, if the file has refused nothing.   *)
Has(v, base, items) == ~v.sink.refused => Bare(All(v)) = base \o items

(* Nothing is inside the text writer.                                      *)
Plain(v) == ~v.sink.refused => v.held = <<>> /\ v.ddoc = <<>>

Recips == Len(accepted)

Written ==
  /\ pc = "idle" => ~w.sink.refused /\ (~d => Bare(w.sink.data) = Base)
  /\ pc \in {"idle", "head"} /\ d => w.open = 0 /\ Plain(w) /\ Has(w, Base, <<>>)
  /\ pc = "keys" => w.open = 1 /\ Plain(w) /\ Has(w, Base, Keys(next - 1))
  /\ pc \in {"files", "data", "tail"} =>
       w.open = 1 /\ (UseDdoc \/ w.sink.refused \/ w.ddoc = <<>>)
  /\ pc = "files" => Has(w, Base, Filled(UseDdoc, Recips, given, next - 1))
  /\ pc = "data" => Has(w, Base, Filled(UseDdoc, Recips, given, next - 1)
                                   \o Start(UseDdoc, next, src.got))
  /\ pc = "tail" => Has(w, Base, Filled(UseDdoc, Recips, given, Len(given)))
  /\ pc = "props" => w.open = 1 /\ Plain(w) /\ Has(w, Base, Closed(UseDdoc, Recips, given))
  /\ pc = "done" => w.open = 0 /\ Plain(w) /\ Has(w, Base, Whole(UseDdoc, Recips, given))

(* With no failure and no replaced recipients so far.                      *)
Faithful == errors = 0 /\ ~replaced => Recorded /\ Written

Inv == Typed /\ Shape /\ Faithful

----------------------------------------------------------------------------
(* What the steps have in common.                                          *)

LEMMA BaseType ==
  ASSUME docs \in Seq(Record)
  PROVE  /\ Base \in Seq(ItemType)
         /\ \A doc \in Record : docs' = Append(docs, doc) => Base' = Base \o Expected(doc)
<1>1. \A doc \in Record : Expected(doc) \in Seq(ItemType)
  <2>1. SUFFICES ASSUME NEW doc \in Record PROVE Expected(doc) \in Seq(ItemType)
    OBVIOUS
  <2>2. PICK dd \in BOOLEAN, keys \in Seq(RecipientKinds), F \in Seq(File) :
          doc = [keys |-> keys, files |-> F, ddoc |-> dd]
    BY DEF Record
  <2>3. Expected(doc) = Whole(dd, Len(keys), F) /\ Len(keys) \in Nat
    BY <2>2, ExpectedIs
  <2> QED BY <2>3, ClosedType
<1>2. PICK ss : ss = [i \in DOMAIN docs |-> Expected(docs[i])]
  OBVIOUS
<1>3. ss \in Seq(Seq(ItemType)) /\ Len(ss) = Len(docs)
  <2>1. PICK n : n = Len(docs)
    OBVIOUS
  <2>2. n \in Nat /\ DOMAIN docs = 1 .. n /\ \A i \in 1 .. n : docs[i] \in Record
    BY <2>1
  <2>3. ss = [i \in 1 .. n |-> Expected(docs[i])]
    BY <1>2, <2>2
  <2>4. \A i \in 1 .. n : Expected(docs[i]) \in Seq(ItemType)
    BY <1>1, <2>2
  <2>5. ss \in Seq(Seq(ItemType)) /\ Len(ss) = n
    BY <2>2, <2>3, <2>4
  <2> QED BY <2>1, <2>5
<1>4. Base \in Seq(ItemType)
  BY <1>2, <1>3, FlattenType DEF Base
<1>5. ASSUME NEW doc \in Record, docs' = Append(docs, doc)
      PROVE  Base' = Base \o Expected(doc)
  <2>1. PICK all : all = Append(docs, doc)
    OBVIOUS
  <2>2. PICK s : s = Expected(doc)
    OBVIOUS
  <2>3. PICK tt : tt = [i \in DOMAIN all |-> Expected(all[i])]
    OBVIOUS
  <2>4. PICK m : m = Len(docs) + 1
    OBVIOUS
  <2>5. /\ all \in Seq(Record) /\ Len(all) = m /\ all[m] = doc /\ m \in Nat
        /\ \A i \in 1 .. m : i # m => all[i] = docs[i] /\ i \in 1 .. Len(docs)
    BY <2>1, <2>4
  <2>6. tt = Append(ss, s)
    <3>1. DOMAIN tt = 1 .. m /\ tt = [i \in 1 .. m |-> tt[i]]
      BY <2>3, <2>5
    <3>2. \A i \in 1 .. m : tt[i] = Expected(all[i])
      BY <2>3, <2>5
    <3>3. \A i \in 1 .. Len(docs) : ss[i] = Expected(docs[i])
      BY <1>2
    <3>4. PICK uu : uu = Append(ss, s)
      OBVIOUS
    <3>5. uu \in Seq(Seq(ItemType)) /\ Len(uu) = m /\ \A i \in 1 .. m : uu[i] = IF i = m THEN s ELSE ss[i]
      BY <1>1, <1>3, <2>2, <2>4, <3>4
    <3>6. \A i \in 1 .. m : tt[i] = uu[i]
      BY <2>2, <2>5, <3>2, <3>3, <3>5
    <3>7. DOMAIN uu = 1 .. m /\ uu = [i \in 1 .. m |-> uu[i]]
      BY <2>5, <3>5
    <3> QED BY <3>1, <3>4, <3>6, <3>7
  <2>7. s \in Seq(ItemType)
    BY <1>1, <2>2
  <2>8. FlattenSeq(tt) = FlattenSeq(ss) \o s
    BY <1>3, <2>6, <2>7, FlattenAppend
  <2>9. Base' = FlattenSeq(tt)
    BY <1>5, <2>1, <2>3 DEF Base
  <2> QED BY <1>2, <2>2, <2>8, <2>9 DEF Base
<1> QED BY <1>4, <1>5

LEMMA BareEmpty ==
  Bare(<<>>) = <<>>
<1>1. <<>> \in Seq(ItemType) /\ Len(<<>>) = 0
  OBVIOUS
<1>2. Bare(<<>>) \in Seq(ItemType) /\ Len(Bare(<<>>)) = 0
  BY <1>1, BareAt
<1> QED BY <1>2, EmptySeq

LEMMA PairIs ==
  ASSUME NEW j \in Kinds, NEW k \in Kinds
  PROVE  <<Part(j)>> \o <<Part(k)>> = <<Part(j), Part(k)>>
<1>1. PICK x, y : x = Part(j) /\ y = Part(k)
  OBVIOUS
<1>2. x \in ItemType /\ y \in ItemType
  BY <1>1, PartIs
<1>3. PICK a, b : a = <<x>> \o <<y>> /\ b = <<x, y>>
  OBVIOUS
<1>4. a \in Seq(ItemType) /\ Len(a) = 2 /\ a[1] = x /\ a[2] = y
  BY <1>2, <1>3
<1>5. b \in Seq(ItemType) /\ Len(b) = 2 /\ b[1] = x /\ b[2] = y
  BY <1>2, <1>3
<1>6. \A i \in 1 .. 2 : i = 1 \/ i = 2
  OBVIOUS
<1>7. \A i \in 1 .. 2 : a[i] = b[i]
  BY <1>4, <1>5, <1>6
<1>8. a = b
  BY <1>4, <1>5, <1>7
<1> QED BY <1>1, <1>3, <1>8

LEMMA BareTwo ==
  ASSUME NEW j \in Kinds, NEW k \in Kinds
  PROVE  Bare(<<Part(j), Part(k)>>) = <<Part(j), Part(k)>>
<1>1. Bare(<<Part(j)>>) = <<Part(j)>> /\ Bare(<<Part(k)>>) = <<Part(k)>>
  BY BarePart
<1>2. <<Part(j)>> \in Seq(ItemType) /\ <<Part(k)>> \in Seq(ItemType)
  BY PartIs
<1>3. Bare(<<Part(j)>> \o <<Part(k)>>) = <<Part(j)>> \o <<Part(k)>>
  BY <1>1, <1>2, BareConcat
<1> QED BY <1>3, PairIs

LEMMA BareOnly ==
  ASSUME NEW dd \in BOOLEAN, NEW k \in Kinds
  PROVE  /\ Only(dd, Part(k)) \in Seq(ItemType) /\ Bare(Only(dd, Part(k))) = Only(dd, Part(k))
<1>1. Part(k) \in ItemType
  BY PartIs
<1>2. CASE dd
  BY <1>1, <1>2, OnlyType, BarePart DEF Only
<1>3. CASE ~dd
  BY <1>1, <1>3, OnlyType, BareEmpty DEF Only
<1> QED BY <1>2, <1>3

(* The chain holds what was added to it, sizes aside.                      *)
LEMMA HasGrows ==
  ASSUME NEW v, Sane(v), NEW items \in Seq(ItemType), NEW o, Grows(v, o, items),
         NEW base \in Seq(ItemType), NEW stage \in Seq(ItemType), Has(v, base, stage),
         NEW then, stage \o Bare(items) = then
  PROVE  Has(o.w, base, then)
<1> SUFFICES ASSUME ~o.w.sink.refused PROVE Bare(All(o.w)) = base \o then
  BY DEF Has
<1>1. ~v.sink.refused /\ All(o.w) = All(v) \o items
  BY DEF Grows, Kept
<1>2. PICK a, b : a = All(v) /\ b = Bare(items)
  OBVIOUS
<1>3. a \in Seq(ItemType) /\ b \in Seq(ItemType)
  BY <1>2, ContentType, BareAt DEF Sane
<1>4. Bare(a \o items) = Bare(a) \o b
  BY <1>2, <1>3, BareConcat
<1>5. Bare(a) = base \o stage
  BY <1>1, <1>2 DEF Has
<1>11. Associate(base, stage, b)
  BY <1>3, ItemsAssociate
<1>6. (base \o stage) \o b = base \o (stage \o b)
  BY <1>11, Zenon DEF Associate
<1>7. Bare(All(o.w)) = Bare(a \o items)
  BY <1>1, <1>2
<1>8. Bare(a \o items) = (base \o stage) \o b
  BY <1>4, <1>5
<1>9. stage \o b = then
  BY <1>2
<1>10. Bare(All(o.w)) = base \o (stage \o b)
  BY <1>6, <1>7, <1>8, Zenon
<1> QED BY <1>9, <1>10, Zenon

LEMMA HasKept ==
  ASSUME NEW v, NEW u, u.sink.refused = v.sink.refused, All(u) = All(v),
         NEW base, NEW items, Has(v, base, items)
  PROVE  Has(u, base, items)
  BY DEF Has

(* v with another number of open elements.                                 *)
IsOpen(u, v, n) ==
  /\ Sane(u) /\ u.open = n /\ u.sink = v.sink /\ u.held = v.held /\ u.ddoc = v.ddoc
  /\ All(u) = All(v)

LEMMA SetOpen ==
  ASSUME NEW v, Sane(v), NEW n \in Int, NEW u, u = [v EXCEPT !.open = n]
  PROVE  IsOpen(u, v, n)
<1>1. v \in DocumentType
  BY DEF Sane
<1>2. /\ u \in DocumentType /\ u.text = v.text /\ u.sink = v.sink /\ u.open = n
      /\ u.held = v.held /\ u.ddoc = v.ddoc
      /\ u.terr = v.terr /\ u.cerr = v.cerr /\ u.derr = v.derr
  BY <1>1 DEF DocumentType
<1> QED BY <1>2 DEF Sane, Out, Encoded, All, IsOpen

(* A new Private over what the file has.                                   *)
LEMMA NewDocumentIs ==
  ASSUME NEW s, SinkSane(s)
  PROVE  /\ Sane(NewDocument(s)) /\ NewDocument(s).sink = s /\ NewDocument(s).open = 0
         /\ Plain(NewDocument(s)) /\ All(NewDocument(s)) = s.data
<1>1. PICK v : v = NewDocument(s)
  OBVIOUS
<1>2. /\ v.text = <<>> /\ v.held = <<>> /\ v.ddoc = <<>> /\ v.sink = s /\ v.open = 0
      /\ ~v.terr /\ ~v.cerr /\ ~v.derr
  BY <1>1 DEF NewDocument
<1>3. <<>> \in Seq(ItemType) /\ s \in SinkType(ItemType) /\ 0 \in Int /\ FALSE \in BOOLEAN
  BY DEF SinkSane
<1>4. v \in DocumentType
  BY <1>1, <1>3 DEF NewDocument, DocumentType
<1>5. All(v) = s.data
  <2>1. s.data \in Seq(ItemType)
    BY <1>3 DEF SinkType
  <2>2. s.data \o <<>> = s.data
    BY <2>1
  <2> QED BY <1>2, <2>2 DEF All, Encoded, Out
<1> QED BY <1>1, <1>2, <1>4, <1>5 DEF Sane, Plain

----------------------------------------------------------------------------
(* The parts of writeDocument that write the payload.                      *)

LEMMA UseDdocType ==
  ASSUME Typed
  PROVE  UseDdoc \in BOOLEAN
<1>1. (Len(files) > 1) \in BOOLEAN
  OBVIOUS
<1>2. (~src.counts \/ Len(src.files) > 1) \in BOOLEAN
  OBVIOUS
<1>3. CASE op = "finish"
  BY <1>1, <1>3, Zenon DEF UseDdoc
<1>4. CASE op # "finish"
  BY <1>2, <1>4, Zenon DEF UseDdoc
<1> QED BY <1>3, <1>4

(* An element of the document, written by XMLWriter itself.                *)
LEMMA TextPart ==
  ASSUME NEW v, Sane(v), NEW k \in Kinds, NEW o \in TextWrite(v, <<Part(k)>>)
  PROVE  /\ Kept(v, o)
         /\ Plain(v) => Plain(o.w) /\ Grows(v, o, <<Part(k)>>)
<1>1. <<Part(k)>> \in Seq(ItemType)
  BY PartIs
<1>2. TextGrows(v, o, <<Part(k)>>)
  BY <1>1, TextWriteOutcome
<1>3. Kept(v, o)
  BY <1>2 DEF TextGrows
<1>4. ASSUME Plain(v) PROVE Plain(o.w) /\ Grows(v, o, <<Part(k)>>)
  <2>1. ~o.w.sink.refused => v.held = <<>> /\ v.ddoc = <<>>
    BY <1>3, <1>4 DEF Plain, Kept
  <2>2. /\ Grows(v, o, <<Part(k)>>)
        /\ ~o.w.sink.refused => o.w.held = <<>> /\ o.w.ddoc = <<>>
    BY <1>1, <1>2, <2>1, TextIsAll
  <2> QED BY <2>2 DEF Plain
<1> QED BY <1>3, <1>4

(* With one file only, DDOCWriter holds nothing.                           *)
Single == UseDdoc \/ w.sink.refused \/ w.ddoc = <<>>

OpenOutcomes ==
  Bind(Bind(TextWrite(w, <<Part("cipher")>>), CipherOpen),
       LAMBDA v : IF UseDdoc THEN DdocOpen(v) ELSE {Done(v)})

LEMMA OpenOutcome ==
  ASSUME Typed, NEW o \in OpenOutcomes
  PROVE  /\ Kept(w, o)
         /\ o.rv = OK /\ Plain(w) =>
              /\ Grows(w, o, <<Part("cipher"), Part("nonce")>> \o Only(UseDdoc, Part("ddoc")))
              /\ UseDdoc \/ o.w.sink.refused \/ o.w.ddoc = <<>>
<1>1. PICK p \in TextWrite(w, <<Part("cipher")>>) :
      \E q \in IF p.rv = OK THEN CipherOpen(p.w) ELSE {p} :
        o \in IF q.rv = OK THEN (IF UseDdoc THEN DdocOpen(q.w) ELSE {Done(q.w)}) ELSE {q}
  BY DEF OpenOutcomes, Bind
<1>2. PICK q \in IF p.rv = OK THEN CipherOpen(p.w) ELSE {p} :
        o \in IF q.rv = OK THEN (IF UseDdoc THEN DdocOpen(q.w) ELSE {Done(q.w)}) ELSE {q}
  BY <1>1
<1>3. /\ "cipher" \in Kinds /\ "nonce" \in Kinds /\ "ddoc" \in Kinds
      /\ Sane(w) /\ UseDdoc \in BOOLEAN
  BY UseDdocType DEF Kinds, Typed
<1>4. /\ Kept(w, p)
      /\ Plain(w) => Plain(p.w) /\ Grows(w, p, <<Part("cipher")>>)
  BY <1>3, TextPart
<1>5. CASE p.rv # OK
  <2>1. q = p /\ o = p
    BY <1>2, <1>5
  <2> QED BY <1>4, <1>5, <2>1
<1>6. CASE p.rv = OK
  <2>0. Sane(p.w)
    BY <1>4 DEF Kept
  <2>1. /\ Kept(p.w, q) /\ q.rv = OK
        /\ (~p.w.sink.refused => p.w.held = <<>>) => CodeGrows(p.w, q, <<Part("nonce")>>)
    BY <1>2, <1>6, <2>0, CipherOpenOutcome
  <2>2. Sane(q.w)
    BY <2>1 DEF Kept
  <2>3. /\ Kept(q.w, o)
        /\ (~q.w.sink.refused => q.w.ddoc = <<>>) =>
             /\ Grows(q.w, o, Only(UseDdoc, Part("ddoc")))
             /\ UseDdoc \/ o.w.sink.refused \/ o.w.ddoc = <<>>
    <3>1. CASE UseDdoc
      <4>1. o \in DdocOpen(q.w)
        BY <1>2, <2>1, <3>1
      <4>2. /\ Kept(q.w, o)
            /\ (~q.w.sink.refused => q.w.ddoc = <<>>) => Grows(q.w, o, <<Part("ddoc")>>)
        BY <2>2, <4>1, DdocOpenOutcome
      <4> QED BY <3>1, <4>2 DEF Only
    <3>2. CASE ~UseDdoc
      <4>1. o = Done(q.w)
        BY <1>2, <2>1, <3>2
      <4>2. Kept(q.w, o) /\ Grows(q.w, o, <<>>) /\ o.w = q.w
        BY <2>2, <4>1, GrowsNot, KeptDone, DoneIs
      <4> QED BY <3>2, <4>2 DEF Only
    <3> QED BY <3>1, <3>2
  <2>4. Kept(w, o)
    BY <1>4, <2>1, <2>3 DEF Kept
  <2>5. ASSUME Plain(w)
        PROVE  /\ Grows(w, o, <<Part("cipher"), Part("nonce")>> \o Only(UseDdoc, Part("ddoc")))
               /\ UseDdoc \/ o.w.sink.refused \/ o.w.ddoc = <<>>
    <3>1. Plain(p.w) /\ Grows(w, p, <<Part("cipher")>>)
      BY <1>4, <2>5
    <3>2. CodeGrows(p.w, q, <<Part("nonce")>>)
      BY <2>1, <3>1 DEF Plain
    <3>3. <<Part("cipher")>> \in Seq(ItemType) /\ <<Part("nonce")>> \in Seq(ItemType)
          /\ Only(UseDdoc, Part("ddoc")) \in Seq(ItemType)
      BY <1>3, PartIs, BareOnly
    <3>4. ~q.w.sink.refused => p.w.ddoc = <<>>
      BY <2>1, <3>1 DEF Plain, Kept
    <3>5. Grows(p.w, q, <<Part("nonce")>>) /\ (~q.w.sink.refused => q.w.ddoc = <<>>)
      BY <2>0, <3>2, <3>3, <3>4, CodeIsAll
    <3>6. /\ Grows(q.w, o, Only(UseDdoc, Part("ddoc")))
          /\ UseDdoc \/ o.w.sink.refused \/ o.w.ddoc = <<>>
      BY <2>3, <3>5
    <3>7. PICK a, b, c : a = <<Part("cipher")>> /\ b = <<Part("nonce")>>
                         /\ c = Only(UseDdoc, Part("ddoc"))
      OBVIOUS
    <3>8. a \in Seq(ItemType) /\ b \in Seq(ItemType) /\ c \in Seq(ItemType) /\ a \o b \in Seq(ItemType)
      BY <3>3, <3>7
    <3>9. Grows(w, q, a \o b)
      BY <1>3, <3>1, <3>5, <3>7, <3>8, GrowsThen
    <3>10. Grows(w, o, (a \o b) \o c)
      BY <1>3, <3>6, <3>7, <3>8, <3>9, GrowsThen
    <3>11. a \o b = <<Part("cipher"), Part("nonce")>>
      BY <1>3, <3>7, PairIs
    <3> QED BY <3>6, <3>7, <3>10, <3>11
  <2> QED BY <2>4, <2>5
<1> QED BY <1>5, <1>6

(* Data and file elements inside the payload.                              *)
LEMMA PayloadOutcome ==
  ASSUME Typed, NEW items \in Seq(ItemType), NEW o \in PayloadWrite(items)
  PROVE  /\ Kept(w, o)
         /\ o.rv = OK /\ Single =>
              /\ Grows(w, o, items)
              /\ UseDdoc \/ o.w.sink.refused \/ o.w.ddoc = <<>>
<1>1. Sane(w) /\ UseDdoc \in BOOLEAN
  BY UseDdocType DEF Typed
<1>2. CASE ~UseDdoc
  <2>1. o \in CipherWrite(w, items)
    BY <1>2 DEF PayloadWrite
  <2>2. CodeGrows(w, o, items)
    BY <1>1, <2>1, CipherWriteOutcome
  <2>3. Kept(w, o)
    BY <2>2 DEF CodeGrows
  <2>4. ASSUME Single PROVE Grows(w, o, items) /\ (~o.w.sink.refused => o.w.ddoc = <<>>)
    <3>1. ~o.w.sink.refused => w.ddoc = <<>>
      BY <1>2, <2>3, <2>4 DEF Single, Kept
    <3> QED BY <1>1, <2>2, <3>1, CodeIsAll
  <2> QED BY <2>3, <2>4
<1>3. CASE UseDdoc
  <2>1. PICK p \in DdocWrite(w, items) :
          o \in IF p.rv = OK THEN {p} ELSE {[q EXCEPT !.rv = ERR] : q \in DdocClose(p.w)}
    BY <1>3 DEF PayloadWrite
  <2>2. Grows(w, p, items)
    BY <1>1, <2>1, DdocWriteOutcome
  <2>3. CASE p.rv = OK
    BY <1>3, <2>1, <2>2, <2>3 DEF Grows
  <2>4. CASE p.rv # OK
    <3>1. PICK q \in DdocClose(p.w) : o = [q EXCEPT !.rv = ERR]
      BY <2>1, <2>4
    <3>2. Sane(p.w)
      BY <2>2 DEF Grows, Kept
    <3>3. Grows(p.w, q, <<Part("endddoc")>>)
      BY <3>1, <3>2, DdocCloseOutcome
    <3>4. o.rv = ERR /\ o.w = q.w
      <4>1. PICK u : q = Done(u)
        <5>1. CASE p.w.derr
          BY <3>1, <5>1 DEF DdocClose
        <5>2. CASE ~p.w.derr
          BY <3>1, <5>2 DEF DdocClose
        <5> QED BY <5>1, <5>2
      <4> QED BY <3>1, <4>1 DEF Done
    <3>5. Kept(w, o)
      BY <2>2, <2>4, <3>3, <3>4 DEF Grows, Kept
    <3> QED BY <3>4, <3>5 DEF OK, ERR
  <2> QED BY <2>3, <2>4
<1> QED BY <1>1, <1>2, <1>3

CloseOutcomes ==
  Bind(Bind(IF UseDdoc THEN DdocClose(w) ELSE {Done(w)}, CipherClose),
       LAMBDA v : TextWrite(v, <<Part("endcipher")>>))

LEMMA CloseOutcome ==
  ASSUME Typed, NEW o \in CloseOutcomes
  PROVE  /\ Kept(w, o)
         /\ o.rv = OK /\ Single =>
              /\ Grows(w, o, Only(UseDdoc, Part("endddoc")) \o <<Part("tag"), Part("endcipher")>>)
              /\ Plain(o.w)
<1>1. PICK p \in IF UseDdoc THEN DdocClose(w) ELSE {Done(w)} :
      \E q \in IF p.rv = OK THEN CipherClose(p.w) ELSE {p} :
        o \in IF q.rv = OK THEN TextWrite(q.w, <<Part("endcipher")>>) ELSE {q}
  BY DEF CloseOutcomes, Bind
<1>2. PICK q \in IF p.rv = OK THEN CipherClose(p.w) ELSE {p} :
        o \in IF q.rv = OK THEN TextWrite(q.w, <<Part("endcipher")>>) ELSE {q}
  BY <1>1
<1>3. /\ "tag" \in Kinds /\ "endcipher" \in Kinds /\ "endddoc" \in Kinds
      /\ Sane(w) /\ UseDdoc \in BOOLEAN
  BY UseDdocType DEF Kinds, Typed
<1>4. /\ Grows(w, p, Only(UseDdoc, Part("endddoc"))) /\ p.rv = OK
      /\ Single => (~p.w.sink.refused => p.w.ddoc = <<>>)
  <2>1. CASE UseDdoc
    <3>1. /\ Grows(w, p, <<Part("endddoc")>>) /\ p.rv = OK
          /\ ~p.w.sink.refused => p.w.ddoc = <<>>
      BY <1>1, <1>3, <2>1, DdocCloseOutcome
    <3> QED BY <2>1, <3>1 DEF Only
  <2>2. CASE ~UseDdoc
    <3>1. p = Done(w)
      BY <1>1, <2>2
    <3>2. Grows(w, p, <<>>) /\ p.w = w /\ p.rv = OK
      BY <1>3, <3>1, GrowsNot, DoneIs
    <3> QED BY <2>2, <3>2 DEF Only, Single
  <2> QED BY <2>1, <2>2
<1>5. Sane(p.w) /\ q \in CipherClose(p.w)
  BY <1>2, <1>4 DEF Grows, Kept
<1>6. /\ CodeGrows(p.w, q, <<Part("tag")>>)
      /\ q.rv = OK /\ ~q.w.sink.refused => q.w.held = <<>>
  BY <1>5, CipherCloseOutcome
<1>7. CASE q.rv # OK
  <2>1. o = q
    BY <1>2, <1>7
  <2>2. Kept(w, q)
    BY <1>4, <1>6 DEF Grows, CodeGrows, Kept
  <2> QED BY <1>7, <2>1, <2>2
<1>8. CASE q.rv = OK
  <2>1. Sane(q.w) /\ o \in TextWrite(q.w, <<Part("endcipher")>>)
    BY <1>2, <1>6, <1>8 DEF CodeGrows, Kept
  <2>2. /\ Kept(q.w, o)
        /\ Plain(q.w) => Plain(o.w) /\ Grows(q.w, o, <<Part("endcipher")>>)
    BY <1>3, <2>1, TextPart
  <2>3. Kept(w, o)
    BY <1>4, <1>6, <2>2 DEF Grows, CodeGrows, Kept
  <2>4. ASSUME Single
        PROVE  /\ Grows(w, o, Only(UseDdoc, Part("endddoc")) \o <<Part("tag"), Part("endcipher")>>)
               /\ Plain(o.w)
    <3>1. PICK a, b, c : a = Only(UseDdoc, Part("endddoc")) /\ b = <<Part("tag")>>
                         /\ c = <<Part("endcipher")>>
      OBVIOUS
    <3>2. a \in Seq(ItemType) /\ b \in Seq(ItemType) /\ c \in Seq(ItemType) /\ b \o c \in Seq(ItemType)
      BY <1>3, <3>1, PartIs, BareOnly
    <3>3. ~q.w.sink.refused => p.w.ddoc = <<>>
      BY <1>4, <1>6, <2>4 DEF CodeGrows, Kept
    <3>4. Grows(p.w, q, b) /\ (~q.w.sink.refused => q.w.ddoc = <<>>)
      BY <1>5, <1>6, <3>1, <3>2, <3>3, CodeIsAll
    <3>5. Plain(q.w)
      BY <1>6, <1>8, <3>4 DEF Plain
    <3>6. Grows(q.w, o, c) /\ Plain(o.w)
      BY <2>2, <3>1, <3>5
    <3>7. Grows(p.w, o, b \o c)
      BY <1>5, <3>2, <3>4, <3>6, GrowsThen
    <3>8. Grows(w, p, a)
      BY <1>4, <3>1
    <3>9. Grows(w, o, a \o (b \o c))
      BY <1>3, <3>2, <3>7, <3>8, GrowsThen
    <3>10. b \o c = <<Part("tag"), Part("endcipher")>>
      BY <1>3, <3>1, PairIs
    <3> QED BY <3>1, <3>6, <3>9, <3>10
  <2> QED BY <2>3, <2>4
<1> QED BY <1>7, <1>8

----------------------------------------------------------------------------
(* The steps.                                                              *)

LEMMA InitInv ==
  ASSUME Init
  PROVE  Inv
<1>1. SinkSane(NewSink(DstKind)) /\ ~NewSink(DstKind).refused /\ NewSink(DstKind).data = <<>>
  BY InputAssumption DEF NewSink, SinkSane, SinkType
<1>2. Sane(w) /\ w.sink = NewSink(DstKind)
  BY <1>1, NewDocumentIs DEF Init
<1>3. Typed
  <2>1. src \in [files : Seq(File), counts : BOOLEAN, got : Nat]
    BY DEF Init, NoSource
  <2>2. /\ rcpts \in Seq(RecipientKinds) /\ files \in Seq(File) /\ docs \in Seq(Record)
        /\ accepted \in Seq(RecipientKinds) /\ given \in Seq(File)
    BY DEF Init
  <2>3. d \in BOOLEAN /\ pc = "idle" /\ op = "finish" /\ next \in Nat /\ errors \in Nat
        /\ replaced \in BOOLEAN
    BY DEF Init
  <2> QED BY <1>2, <2>1, <2>2, <2>3 DEF Typed
<1>4. Shape
  BY DEF Init, Shape, NoSource
<1>5. Recorded
  BY DEF Init, Recorded
<1>6. Base = <<>>
  <2>1. Len(docs) = 0 /\ docs = <<>>
    BY DEF Init
  <2>2. PICK ss : ss = [i \in DOMAIN docs |-> Expected(docs[i])]
    OBVIOUS
  <2>3. ss = <<>>
    BY <2>1, <2>2
  <2>4. Len(ss) = 0
    BY <2>3
  <2>5. FlattenSeq(ss) = ss
    BY <2>4 DEF FlattenSeq
  <2> QED BY <2>2, <2>3, <2>5 DEF Base
<1>7. Written
  <2>1. Bare(w.sink.data) = Base
    BY <1>1, <1>2, <1>6, BareEmpty
  <2> QED BY <1>1, <1>2, <2>1 DEF Init, Written
<1> QED BY <1>3, <1>4, <1>5, <1>7 DEF Inv, Faithful

(* Calls that fail before they write anything.                             *)
LEMMA RefuseStep ==
  ASSUME Inv, Refuse
  PROVE  Inv'
<1> USE DEF Refuse, call, history
<1>1. Typed'
  BY DEF Inv, Typed
<1>2. Shape'
  BY DEF Inv, Shape
<1>3. Recorded => Recorded'
  BY DEF Recorded, Sources1, UseDdoc
<1>4. Base' = Base /\ UseDdoc' = UseDdoc /\ Recips' = Recips
  BY DEF Base, UseDdoc, Recips
<1>5. Written => Written'
  BY <1>4 DEF Written
<1> QED BY <1>1, <1>2, <1>3, <1>5 DEF Inv, Faithful

(* After a failure nothing more is claimed of the file.                    *)
LEMMA FailStep ==
  ASSUME Inv, NEW S, \A o \in S : Sane(o.w), FailWith(S)
  PROVE  Inv'
<1> USE DEF FailWith, Idle
<1>1. Sane(w')
  OBVIOUS
<1>2. Typed'
  <2>1. src' \in [files : Seq(File), counts : BOOLEAN, got : Nat]
    BY DEF NoSource
  <2> QED BY <1>1, <2>1 DEF Inv, Typed
<1>3. Shape'
  BY DEF Shape, NoSource
<1>4. errors' # 0
  BY DEF Inv, Typed
<1> QED BY <1>2, <1>3, <1>4 DEF Inv, Faithful

LEMMA StepSplit ==
  ASSUME Inv, NEW S, \A o \in S : Sane(o.w), NEW then, NEW i, Step(S, then, i)
  PROVE  \/ Inv'
         \/ /\ \E o \in S : o.rv = OK /\ w' = o.w
            /\ pc' = then /\ next' = i /\ UNCHANGED <<files, src>> /\ Rest
<1>1. CASE FailWith({o \in S : o.rv # OK})
  <2>1. \A o \in {q \in S : q.rv # OK} : Sane(o.w)
    OBVIOUS
  <2> QED BY <1>1, <2>1, FailStep
<1> QED BY <1>1 DEF Step

(* What the steps of one document agree on.                                *)
Same ==
  /\ UseDdoc' = UseDdoc /\ Base' = Base /\ Recips' = Recips /\ Sources1' = Sources1
  /\ UNCHANGED <<rcpts, d, op, docs, accepted, given, errors, replaced>>

LEMMA RestSame ==
  ASSUME Rest, src'.files = src.files, src'.counts = src.counts,
         op = "finish" => files' = files
  PROVE  Same
<1>1. UNCHANGED <<rcpts, d, op, docs, accepted, given, errors, replaced>>
  BY DEF Rest
<1>2. UseDdoc' = UseDdoc
  BY <1>1 DEF UseDdoc
<1>3. Base' = Base /\ Recips' = Recips /\ Sources1' = Sources1
  BY <1>1 DEF Base, Recips, Sources1
<1> QED BY <1>1, <1>2, <1>3 DEF Same

(* A step that only writes.                                                *)
LEMMA OkStep ==
  ASSUME Inv, NEW o, Sane(o.w), w' = o.w, Rest, UNCHANGED <<files, src>>,
         pc' \in {"keys", "files", "data", "tail", "props", "done"}, next' \in Nat
  PROVE  Typed' /\ Same
<1>1. Same
  BY RestSame
<1> QED BY <1>1 DEF Inv, Typed, Same

(* What holds of the recorded files does not depend on the chain.          *)
LEMMA Recording ==
  ASSUME Recorded, Same, UNCHANGED <<files, src>>, pc' # "head",
         op = "encrypt" /\ pc' = "keys" => pc \in {"head", "keys"},
         op = "encrypt" /\ pc' \in {"files", "data"} =>
           Len(files) = next' - 1 /\ (UseDdoc \/ next' = 1),
         op = "encrypt" /\ pc' \in {"tail", "props", "done"} => Len(files) = Len(given)
  PROVE  Recorded'
  BY DEF Recorded, Same

(* EncryptedData and what begins it.                                       *)
LEMMA HeadStep ==
  ASSUME Inv, WriteHead
  PROVE  Inv'
<1> DEFINE S == {[o EXCEPT !.w.open = @ + 1] : o \in TextWrite(w, <<Part("begin")>>)}
<1>1. pc = "head" /\ Step(S, "keys", 1)
  BY DEF WriteHead
<1>2. "begin" \in Kinds /\ Sane(w)
  BY DEF Inv, Typed, Kinds
<1>3. ASSUME NEW o \in S
      PROVE  \E p \in TextWrite(w, <<Part("begin")>>) :
               /\ Kept(w, p) /\ IsOpen(o.w, p.w, w.open + 1)
               /\ Plain(w) => Plain(p.w) /\ Grows(w, p, <<Part("begin")>>)
  <2>1. PICK p \in TextWrite(w, <<Part("begin")>>) : o = [p EXCEPT !.w.open = @ + 1]
    OBVIOUS
  <2>2. /\ Kept(w, p)
        /\ Plain(w) => Plain(p.w) /\ Grows(w, p, <<Part("begin")>>)
    BY <1>2, TextPart
  <2>3. Sane(p.w) /\ p.w.open = w.open /\ w.open \in Int
    BY <1>2, <2>2, DocumentFields DEF Kept, Sane
  <2>4. o.w = [p.w EXCEPT !.open = w.open + 1]
    <3>1. \E rv, v : p = [rv |-> rv, w |-> v]
      BY <2>1, TextWriteIs
    <3>2. PICK rv, v : p = [rv |-> rv, w |-> v]
      BY <3>1
    <3>3. p.w = v /\ o.w = [v EXCEPT !.open = @ + 1]
      BY <2>1, <3>2
    <3> QED BY <2>3, <3>3
  <2>5. IsOpen(o.w, p.w, w.open + 1)
    <3>1. w.open + 1 \in Int
      BY <2>3
    <3> QED BY <2>3, <2>4, <3>1, SetOpen
  <2> QED BY <2>2, <2>5
<1>4. \A o \in S : Sane(o.w)
  BY <1>3 DEF IsOpen
<1> HIDE DEF S
<1>5. \/ Inv'
      \/ /\ \E o \in S : o.rv = OK /\ w' = o.w
         /\ pc' = "keys" /\ next' = 1 /\ UNCHANGED <<files, src>> /\ Rest
  BY <1>1, <1>4, StepSplit
<1>6. SUFFICES ASSUME NEW o \in S, o.rv = OK, w' = o.w, pc' = "keys", next' = 1,
                      UNCHANGED <<files, src>>, Rest
               PROVE  Inv'
  BY <1>5
<1>7. Typed' /\ Same
  BY <1>4, <1>6, OkStep
<1>8. Shape'
  BY <1>1, <1>6, <1>7 DEF Inv, Shape, Same, Typed
<1>9. ASSUME errors = 0, ~replaced PROVE Recorded' /\ Written'
  <2>1. Recorded /\ Written
    BY <1>9 DEF Inv, Faithful
  <2>2. Recorded'
    BY <1>1, <1>6, <1>7, <2>1, Recording
  <2>3. d
    BY <1>1 DEF Inv, Shape
  <2>4. w.open = 0 /\ Plain(w) /\ Has(w, Base, <<>>)
    BY <1>1, <2>1, <2>3 DEF Written
  <2>5. PICK p : /\ Kept(w, p) /\ IsOpen(o.w, p.w, w.open + 1)
                 /\ Plain(w) => Plain(p.w) /\ Grows(w, p, <<Part("begin")>>)
    BY <1>3, <1>6
  <2>6. Grows(w, p, <<Part("begin")>>) /\ Plain(p.w)
    BY <2>4, <2>5
  <2>7. <<>> \o Bare(<<Part("begin")>>) = Keys(0)
    <3>1. Bare(<<Part("begin")>>) = <<Part("begin")>> /\ <<Part("begin")>> \in Seq(ItemType)
      BY <1>2, BarePart, PartIs
    <3>2. Marks("key", 0) = <<>>
      BY DEF Marks
    <3>3. PICK b : b = <<Part("begin")>>
      OBVIOUS
    <3>4. <<>> \o b = b /\ b \o <<>> = b
      BY <3>1, <3>3
    <3> QED BY <3>1, <3>2, <3>3, <3>4 DEF Keys
  <2>8. Has(p.w, Base, Keys(0))
    <3>1. Base \in Seq(ItemType) /\ <<>> \in Seq(ItemType) /\ <<Part("begin")>> \in Seq(ItemType)
      BY <1>2, BaseType, PartIs DEF Inv, Typed
    <3> QED BY <1>2, <2>4, <2>6, <2>7, <3>1, HasGrows
  <2>9. Has(o.w, Base, Keys(0)) /\ Plain(o.w) /\ o.w.open = 1
    <3>1. Has(o.w, Base, Keys(0))
      BY <2>5, <2>8, HasKept DEF IsOpen
    <3> QED BY <2>4, <2>5, <2>6, <3>1 DEF IsOpen, Plain
  <2>10. w'.open = 1 /\ Plain(w)' /\ Has(w, Base, Keys(next - 1))'
    BY <1>6, <1>7, <2>9 DEF Same, Has, Plain
  <2> QED BY <1>6, <2>2, <2>10 DEF Written
<1>10. Faithful'
  BY <1>7, <1>9 DEF Faithful, Same
<1> QED BY <1>7, <1>8, <1>10 DEF Inv

(* A recipient's lock.                                                     *)
LEMMA RecipientStep ==
  ASSUME Inv, WriteRecipient
  PROVE  Inv'
<1> DEFINE item == Item("key", next, 0)
           S == TextWrite(w, <<item>>)
           T == {Done(w)} \cup TextWrite(w, <<Part("badkey")>>)
<1>0. /\ pc = "keys" /\ next \in Nat /\ next <= Len(rcpts) /\ Sane(w) /\ next - 1 \in Nat
      /\ rcpts \in Seq(RecipientKinds)
  BY DEF WriteRecipient, Inv, Typed, Shape
<1>1. item \in ItemType /\ <<item>> \in Seq(ItemType) /\ Bare(<<item>>) = <<item>>
  <2>1. "key" \in Kinds /\ 0 \in Int
    BY DEF Kinds
  <2>2. item \in ItemType /\ item.n = 0
    BY <1>0, <2>1, ItemIs
  <2> HIDE DEF item
  <2>3. \A i \in 1 .. Len(<<item>>) : <<item>>[i].n = 0
    BY <2>2
  <2>4. <<item>> \in Seq(ItemType)
    BY <2>2
  <2> QED BY <2>2, <2>3, <2>4, BareAlready
<1>2. rcpts[next] \in {"cert", "broken", "other"}
  <2>1. next \in 1 .. Len(rcpts)
    BY <1>0
  <2>2. rcpts[next] \in RecipientKinds
    BY <1>0, <2>1
  <2>3. RecipientKinds \subseteq {"cert", "broken", "other"}
    BY InputAssumption
  <2> QED BY <2>2, <2>3
<1>3. ASSUME NEW o \in S PROVE TextGrows(w, o, <<item>>)
  <2> HIDE DEF item
  <2> QED BY <1>0, <1>1, <1>3, TextWriteOutcome
<1>4. \A o \in S : Sane(o.w)
  BY <1>3 DEF TextGrows, Kept
<1>5. \A o \in T : Sane(o.w)
  <2>1. "badkey" \in Kinds
    BY DEF Kinds
  <2>2. \A o \in TextWrite(w, <<Part("badkey")>>) : Sane(o.w)
    BY <1>0, <2>1, TextPart DEF Kept
  <2> QED BY <1>0, <2>2, DoneIs
<1>6. \A o \in {Done(w)} : Sane(o.w)
  BY <1>0, DoneIs
<1>7. \/ rcpts[next] = "cert" /\ Step(S, "keys", next + 1)
      \/ rcpts[next] = "broken" /\ FailWith(T)
      \/ rcpts[next] = "other" /\ FailWith({Done(w)})
  BY <1>2, Zenon DEF WriteRecipient
<1> HIDE DEF S, T
<1>8. CASE FailWith(T)
  BY <1>5, <1>8, FailStep
<1>9. CASE FailWith({Done(w)})
  BY <1>6, <1>9, FailStep
<1>10. CASE Step(S, "keys", next + 1)
  <2>1. \/ Inv'
        \/ /\ \E o \in S : o.rv = OK /\ w' = o.w
           /\ pc' = "keys" /\ next' = next + 1 /\ UNCHANGED <<files, src>> /\ Rest
    BY <1>4, <1>10, StepSplit
  <2>2. SUFFICES ASSUME NEW o \in S, o.rv = OK, w' = o.w, pc' = "keys", next' = next + 1,
                        UNCHANGED <<files, src>>, Rest
                 PROVE  Inv'
    BY <2>1
  <2>3. Sane(o.w) /\ next' \in Nat
    BY <1>0, <1>4, <2>2
  <2>4. Typed' /\ Same
    BY <2>2, <2>3, OkStep
  <2>5. Shape'
    <3>1. next' - 1 \in 0 .. Len(rcpts')
      BY <1>0, <2>2, <2>4 DEF Same
    <3> QED BY <1>0, <2>2, <2>4, <3>1 DEF Inv, Shape, Same
  <2>6. ASSUME errors = 0, ~replaced PROVE Recorded' /\ Written'
    <3>1. Recorded /\ Written
      BY <2>6 DEF Inv, Faithful
    <3>2. Recorded'
      BY <1>0, <2>2, <2>4, <3>1, Recording
    <3>3. w.open = 1 /\ Plain(w) /\ Has(w, Base, Keys(next - 1))
      BY <1>0, <3>1 DEF Written
    <3>4. ~o.w.sink.refused => w.held = <<>> /\ w.ddoc = <<>>
      BY <1>3, <3>3 DEF Plain, TextGrows, Kept
    <3>5. /\ Grows(w, o, <<item>>)
          /\ ~o.w.sink.refused => o.w.held = <<>> /\ o.w.ddoc = <<>>
      <4> HIDE DEF item
      <4> QED BY <1>0, <1>1, <1>3, <3>4, TextIsAll
    <3>6. PICK r \in Nat : r = next - 1 /\ next = r + 1
      BY <1>0
    <3>7. Keys(r) \in Seq(ItemType) /\ Keys(r) \o Bare(<<item>>) = Keys(r + 1)
      BY <1>1, <3>6, KeysType
    <3>8. Has(o.w, Base, Keys(next))
      <4>1. Base \in Seq(ItemType)
        BY BaseType DEF Inv, Typed
      <4> HIDE DEF item
      <4> QED BY <1>0, <1>1, <3>3, <3>5, <3>6, <3>7, <4>1, HasGrows
    <3>9. Plain(o.w) /\ o.w.open = 1
      BY <3>3, <3>5 DEF Plain, Grows, Kept
    <3>10. next' - 1 = next
      BY <1>0, <2>2
    <3>11. w'.open = 1 /\ Plain(w)' /\ Has(w, Base, Keys(next - 1))'
      BY <2>2, <2>4, <3>8, <3>9, <3>10 DEF Same, Has, Plain
    <3> QED BY <2>2, <3>2, <3>11 DEF Written
  <2>7. Faithful'
    BY <2>4, <2>6 DEF Faithful, Same
  <2> QED BY <2>4, <2>5, <2>7 DEF Inv
<1> QED BY <1>7, <1>8, <1>9, <1>10

(* The chain inside the payload is opened.                                 *)
LEMMA OpenStep ==
  ASSUME Inv, OpenPayload
  PROVE  Inv'
<1>1. pc = "keys" /\ next > Len(rcpts) /\ Step(OpenOutcomes, "files", 1)
  BY DEF OpenPayload, OpenOutcomes
<1>2. Typed /\ Sane(w) /\ UseDdoc \in BOOLEAN
  BY UseDdocType DEF Inv, Typed
<1>3. \A o \in OpenOutcomes : Sane(o.w)
  BY <1>2, OpenOutcome DEF Kept
<1>4. \/ Inv'
      \/ /\ \E o \in OpenOutcomes : o.rv = OK /\ w' = o.w
         /\ pc' = "files" /\ next' = 1 /\ UNCHANGED <<files, src>> /\ Rest
  BY <1>1, <1>3, StepSplit
<1>5. SUFFICES ASSUME NEW o \in OpenOutcomes, o.rv = OK, w' = o.w, pc' = "files", next' = 1,
                      UNCHANGED <<files, src>>, Rest
               PROVE  Inv'
  BY <1>4
<1>6. Typed' /\ Same
  BY <1>3, <1>5, OkStep
<1>7. Shape'
  BY <1>1, <1>5, <1>6 DEF Inv, Shape, Same, Typed
<1>8. ASSUME errors = 0, ~replaced PROVE Recorded' /\ Written'
  <2>1. Recorded /\ Written
    BY <1>8 DEF Inv, Faithful
  <2>2. Recorded'
    <3>1. op = "encrypt" => Len(files) = 0
      BY <1>1, <2>1 DEF Recorded
    <3>2. next' - 1 = 0
      BY <1>5
    <3> QED BY <1>5, <1>6, <2>1, <3>1, <3>2, Recording
  <2>3. w.open = 1 /\ Plain(w) /\ Has(w, Base, Keys(next - 1))
    BY <1>1, <2>1 DEF Written
  <2>4. next - 1 = Recips /\ Recips \in Nat
    <3>1. d /\ rcpts = accepted
      BY <1>1, <2>1 DEF Inv, Shape, Recorded
    <3> QED BY <1>1, <3>1 DEF Inv, Typed, Shape, Recips
  <2>5. PICK items : items = <<Part("cipher"), Part("nonce")>> \o Only(UseDdoc, Part("ddoc"))
    OBVIOUS
  <2>6. /\ Kept(w, o) /\ Grows(w, o, items)
        /\ UseDdoc \/ o.w.sink.refused \/ o.w.ddoc = <<>>
    BY <1>2, <1>5, <2>3, <2>5, OpenOutcome
  <2>7. items \in Seq(ItemType) /\ Bare(items) = items
    <3>1. "cipher" \in Kinds /\ "nonce" \in Kinds /\ "ddoc" \in Kinds
      BY DEF Kinds
    <3>2. PICK a, b : a = <<Part("cipher"), Part("nonce")>> /\ b = Only(UseDdoc, Part("ddoc"))
      OBVIOUS
    <3>3. a \in Seq(ItemType) /\ Bare(a) = a
      BY <3>1, <3>2, PartsType, BareTwo
    <3>4. b \in Seq(ItemType) /\ Bare(b) = b
      BY <1>2, <3>1, <3>2, BareOnly
    <3>5. a \o b \in Seq(ItemType)
      BY <3>3, <3>4, ItemConcat
    <3>6. Bare(a \o b) = Bare(a) \o Bare(b)
      BY <3>3, <3>4, BareConcat
    <3>7. items = a \o b
      BY <2>5, <3>2
    <3> QED BY <3>3, <3>4, <3>5, <3>6, <3>7
  <2>8. Keys(Recips) \o items = Filled(UseDdoc, Recips, given, 0)
    <3>1. PICK k, a, b : /\ k = Keys(Recips) /\ a = <<Part("cipher"), Part("nonce")>>
                         /\ b = Only(UseDdoc, Part("ddoc"))
      OBVIOUS
    <3>2. k \in Seq(ItemType) /\ a \in Seq(ItemType) /\ b \in Seq(ItemType)
      BY <1>2, <2>4, <3>1, KeysType, PartsType, OnlyType
    <3>3. (k \o a) \o b = k \o (a \o b)
      BY <3>2, ItemAssociative, Zenon
    <3>4. Pieces(UseDdoc, given, 0) = <<>>
      <4>1. PICK ss : ss = [i \in 1 .. 0 |-> Piece(UseDdoc, given, i)]
        OBVIOUS
      <4>2. ss = <<>> /\ Len(ss) = 0
        BY <4>1
      <4>3. FlattenSeq(ss) = ss
        BY <4>2 DEF FlattenSeq
      <4> QED BY <4>1, <4>2, <4>3 DEF Pieces
    <3>5. ((k \o a) \o b) \o <<>> = (k \o a) \o b
      <4>1. (k \o a) \o b \in Seq(ItemType)
        BY <3>2
      <4> QED BY <4>1
    <3> QED BY <2>5, <3>1, <3>3, <3>4, <3>5 DEF Filled, Opened
  <2>9. Has(o.w, Base, Filled(UseDdoc, Recips, given, 0))
    <3>1. Base \in Seq(ItemType) /\ Keys(Recips) \in Seq(ItemType)
      BY <1>2, <2>4, BaseType, KeysType DEF Typed
    <3>2. Has(w, Base, Keys(Recips))
      BY <2>3, <2>4
    <3> QED BY <1>2, <2>6, <2>7, <2>8, <3>1, <3>2, HasGrows
  <2>10. w'.open = 1 /\ (UseDdoc' \/ w'.sink.refused \/ w'.ddoc = <<>>)
    BY <1>5, <1>6, <2>3, <2>6 DEF Kept, Same
  <2>11. Has(w, Base, Filled(UseDdoc, Recips, given, next - 1))'
    <3>1. next' - 1 = 0
      BY <1>5
    <3> QED BY <1>5, <1>6, <2>9, <3>1 DEF Same, Has
  <2> QED BY <1>5, <2>2, <2>10, <2>11 DEF Written
<1>9. Faithful'
  BY <1>6, <1>8 DEF Faithful, Same
<1> QED BY <1>6, <1>7, <1>9 DEF Inv

(* The items of a file, without their sizes.                               *)
LEMMA FileItemsBare ==
  ASSUME Typed, NEW i \in Nat, NEW size \in Int
  PROVE  /\ FileItems(i, size) \in Seq(ItemType)
         /\ Bare(FileItems(i, size)) = Only(UseDdoc, Item("file", i, 0))
<1>1. Unsigned(size) \in Int
  BY InputAssumption DEF Unsigned
<1>2. PICK x, y : x = Item("file", i, Unsigned(size)) /\ y = Item("file", i, 0)
  OBVIOUS
<1>3. x \in ItemType /\ x.k # "data" /\ [x EXCEPT !.n = 0] = y /\ y \in ItemType
  <2>1. "file" \in Kinds /\ 0 \in Int
    BY DEF Kinds
  <2>2. x \in ItemType /\ x.k = "file" /\ y \in ItemType
    BY <1>1, <1>2, <2>1, ItemIs
  <2>3. [x EXCEPT !.n = 0] = y
    BY <1>2 DEF Item
  <2> QED BY <2>2, <2>3
<1>4. <<x>> \in Seq(ItemType) /\ Bare(<<x>>) = <<y>>
  <2>1. PICK s : s = <<x>>
    OBVIOUS
  <2>2. s \in Seq(ItemType) /\ Len(s) = 1 /\ s[1] = x
    BY <1>3, <2>1
  <2>3. Bare(s) \in Seq(ItemType) /\ Len(Bare(s)) = 1 /\ Bare(s)[1] = [x EXCEPT !.n = 0]
    BY <1>3, <2>2, BareAt
  <2>4. Bare(s) = <<y>>
    <3>1. PICK t : t = Bare(s)
      OBVIOUS
    <3>2. t \in Seq(ItemType) /\ Len(t) = 1 /\ t[1] = y
      BY <1>3, <2>3, <3>1
    <3>3. t = <<y>>
      BY <3>2
    <3> QED BY <3>1, <3>3
  <2> QED BY <2>1, <2>2, <2>4
<1>5. CASE UseDdoc
  BY <1>2, <1>4, <1>5 DEF FileItems, Only
<1>6. CASE ~UseDdoc
  BY <1>6, BareEmpty DEF FileItems, Only
<1> QED BY <1>5, <1>6

(* The end of a file's element states no size.                             *)
LEMMA FileEndBare ==
  ASSUME Typed, NEW i \in Nat
  PROVE  /\ FileEnd(i) \in Seq(ItemType)
         /\ Bare(FileEnd(i)) = FileEnd(i) /\ FileEnd(i) = Only(UseDdoc, Item("endfile", i, 0))
<1>1. PICK x : x = Item("endfile", i, 0)
  OBVIOUS
<1>2. x \in ItemType /\ x.k # "data" /\ [x EXCEPT !.n = 0] = x
  <2>1. "endfile" \in Kinds /\ 0 \in Int
    BY DEF Kinds
  <2>2. x \in ItemType /\ x.k = "endfile"
    BY <1>1, <2>1, ItemIs
  <2>3. [x EXCEPT !.n = 0] = x
    BY <1>1 DEF Item
  <2> QED BY <2>2, <2>3
<1>3. <<x>> \in Seq(ItemType) /\ Bare(<<x>>) = <<x>>
  <2>1. PICK s : s = <<x>>
    OBVIOUS
  <2>2. s \in Seq(ItemType) /\ Len(s) = 1 /\ s[1] = x
    BY <1>2, <2>1
  <2>3. Bare(s) \in Seq(ItemType) /\ Len(Bare(s)) = 1 /\ Bare(s)[1] = x
    BY <1>2, <2>2, BareAt
  <2>4. Bare(s) = <<x>>
    <3>1. PICK t : t = Bare(s)
      OBVIOUS
    <3>2. t \in Seq(ItemType) /\ Len(t) = 1 /\ t[1] = x
      BY <2>3, <3>1
    <3>3. t = <<x>>
      BY <3>2
    <3> QED BY <3>1, <3>3
  <2> QED BY <2>1, <2>2, <2>4
<1>4. CASE UseDdoc
  BY <1>1, <1>3, <1>4 DEF FileEnd, Only
<1>5. CASE ~UseDdoc
  BY <1>5, BareEmpty DEF FileEnd, Only
<1> QED BY <1>4, <1>5

(* What a call inside the payload adds to the document.                    *)
LEMMA PayloadHas ==
  ASSUME Typed, NEW items \in Seq(ItemType), NEW o \in PayloadWrite(items), o.rv = OK,
         NEW stage \in Seq(ItemType), Has(w, Base, stage), Single,
         NEW then, stage \o Bare(items) = then
  PROVE  /\ Has(o.w, Base, then) /\ o.w.open = w.open
         /\ UseDdoc \/ o.w.sink.refused \/ o.w.ddoc = <<>>
<1>1. Sane(w) /\ Base \in Seq(ItemType)
  BY BaseType DEF Typed
<1>2. /\ Kept(w, o) /\ Grows(w, o, items)
      /\ UseDdoc \/ o.w.sink.refused \/ o.w.ddoc = <<>>
  BY PayloadOutcome
<1>3. Has(o.w, Base, then)
  BY <1>1, <1>2, HasGrows
<1> QED BY <1>2, <1>3 DEF Kept

(* finishEncryption: a file from memory.                                   *)
LEMMA FileStep ==
  ASSUME Inv, WriteFile
  PROVE  Inv'
<1>0. PICK n : n = files[next].data
  OBVIOUS
<1>1. PICK items :
        items = FileItems(next, n) \o [j \in 1 .. n |-> DataItem(next, j)] \o FileEnd(next)
  OBVIOUS
<1>2. /\ pc = "files" /\ op = "finish" /\ next <= Len(files)
      /\ Step(PayloadWrite(items), "files", next + 1)
  BY <1>0, <1>1 DEF WriteFile
<1>3. Typed /\ Sane(w) /\ UseDdoc \in BOOLEAN /\ next \in Nat /\ n \in Nat /\ next - 1 \in Nat
      /\ next \in 1 .. Len(files)
  <2>1. next \in Nat /\ next - 1 \in 0 .. Len(files) /\ files \in Seq(File)
    BY <1>2 DEF Inv, Typed, Shape
  <2>2. next \in 1 .. Len(files) /\ next - 1 \in Nat
    BY <1>2, <2>1
  <2>3. files[next] \in File
    BY <2>1, <2>2
  <2> QED BY <1>0, <2>1, <2>2, <2>3, UseDdocType DEF Inv, Typed, File
<1>4. /\ items \in Seq(ItemType)
      /\ Bare(items) = Start(UseDdoc, next, n) \o Only(UseDdoc, Item("endfile", next, 0))
  <2>1. PICK a, b, e : a = FileItems(next, n) /\ b = Blocks(next, n) /\ e = FileEnd(next)
    OBVIOUS
  <2>2. a \in Seq(ItemType) /\ Bare(a) = Only(UseDdoc, Item("file", next, 0))
    <3>1. n \in Int
      BY <1>3
    <3> QED BY <1>3, <2>1, <3>1, FileItemsBare
  <2>3. b \in Seq(ItemType) /\ Bare(b) = b
    BY <1>3, <2>1, BlocksType
  <2>4. items = (a \o b) \o e
    BY <1>1, <2>1 DEF Blocks
  <2>5. a \o b \in Seq(ItemType)
    BY <2>2, <2>3, ItemConcat
  <2>6. Bare(a \o b) = Bare(a) \o Bare(b)
    BY <2>2, <2>3, BareConcat
  <2>7. e \in Seq(ItemType) /\ Bare(e) = Only(UseDdoc, Item("endfile", next, 0))
    BY <1>3, <2>1, FileEndBare
  <2>8. (a \o b) \o e \in Seq(ItemType)
    BY <2>5, <2>7, ItemConcat
  <2>9. Bare((a \o b) \o e) = Bare(a \o b) \o Bare(e)
    BY <2>5, <2>7, BareConcat
  <2>10. Bare(a \o b) = Start(UseDdoc, next, n)
    BY <2>1, <2>2, <2>3, <2>6 DEF Start
  <2> QED BY <2>4, <2>7, <2>8, <2>9, <2>10
<1>5. \A o \in PayloadWrite(items) : Sane(o.w)
  BY <1>3, <1>4, PayloadOutcome DEF Kept
<1>6. \/ Inv'
      \/ /\ \E o \in PayloadWrite(items) : o.rv = OK /\ w' = o.w
         /\ pc' = "files" /\ next' = next + 1 /\ UNCHANGED <<files, src>> /\ Rest
  BY <1>2, <1>5, StepSplit
<1>7. SUFFICES ASSUME NEW o \in PayloadWrite(items), o.rv = OK, w' = o.w, pc' = "files",
                      next' = next + 1, UNCHANGED <<files, src>>, Rest
               PROVE  Inv'
  BY <1>6
<1>8. Typed' /\ Same
  <2>1. next' \in Nat
    BY <1>3, <1>7
  <2> QED BY <1>5, <1>7, <2>1, OkStep
<1>9. Shape'
  <2>1. next' - 1 \in 0 .. Len(files')
    BY <1>3, <1>7
  <2> QED BY <1>2, <1>7, <1>8, <2>1 DEF Inv, Shape, Same
<1>10. ASSUME errors = 0, ~replaced PROVE Recorded' /\ Written'
  <2>1. Recorded /\ Written
    BY <1>10 DEF Inv, Faithful
  <2>2. Recorded'
    BY <1>2, <1>7, <1>8, <2>1, Recording
  <2>3. /\ w.open = 1 /\ Single /\ Has(w, Base, Filled(UseDdoc, Recips, given, next - 1))
    BY <1>2, <2>1 DEF Written, Single
  <2>4. files = given /\ given \in Seq(File) /\ Recips \in Nat
    <3>1. d
      BY <1>2 DEF Inv, Shape
    <3> QED BY <1>2, <2>1, <3>1 DEF Recorded, Inv, Typed, Recips
  <2>5. PICK m \in Nat : m = next - 1 /\ m + 1 = next
    BY <1>3
  <2>6. m \in 0 .. Len(given) /\ m < Len(given)
    BY <1>3, <2>4, <2>5
  <2>7. /\ Filled(UseDdoc, Recips, given, m) \in Seq(ItemType)
        /\ Filled(UseDdoc, Recips, given, m) \o Piece(UseDdoc, given, m + 1)
             = Filled(UseDdoc, Recips, given, m + 1)
    BY <1>3, <2>4, <2>6, FilledType
  <2>8. Piece(UseDdoc, given, next) = Bare(items)
    BY <1>0, <1>4, <2>4 DEF Piece
  <2>9. PICK stage, then : /\ stage = Filled(UseDdoc, Recips, given, m)
                           /\ then = Filled(UseDdoc, Recips, given, next)
    OBVIOUS
  <2>10. stage \in Seq(ItemType) /\ stage \o Bare(items) = then /\ Has(w, Base, stage)
    BY <2>3, <2>5, <2>7, <2>8, <2>9
  <2>11. /\ Has(o.w, Base, then) /\ o.w.open = w.open
         /\ UseDdoc \/ o.w.sink.refused \/ o.w.ddoc = <<>>
    BY <1>3, <1>4, <1>7, <2>3, <2>10, PayloadHas
  <2>12. next' - 1 = next
    BY <1>3, <1>7
  <2>13. /\ w'.open = 1 /\ (UseDdoc' \/ w'.sink.refused \/ w'.ddoc = <<>>)
         /\ Has(w, Base, Filled(UseDdoc, Recips, given, next - 1))'
    BY <1>7, <1>8, <2>3, <2>9, <2>11, <2>12 DEF Same, Has
  <2> QED BY <1>7, <2>2, <2>13 DEF Written
<1>11. Faithful'
  BY <1>8, <1>10 DEF Faithful, Same
<1> QED BY <1>8, <1>9, <1>11 DEF Inv

LEMMA LastFileStep ==
  ASSUME Inv, LastFile
  PROVE  Inv'
<1>1. /\ pc = "files" /\ op = "finish" /\ next > Len(files) /\ Step({Done(w)}, "tail", 0)
  BY DEF LastFile
<1>2. \A o \in {Done(w)} : Sane(o.w)
  BY DoneIs DEF Inv, Typed
<1>3. \/ Inv'
      \/ /\ \E o \in {Done(w)} : o.rv = OK /\ w' = o.w
         /\ pc' = "tail" /\ next' = 0 /\ UNCHANGED <<files, src>> /\ Rest
  BY <1>1, <1>2, StepSplit
<1>4. SUFFICES ASSUME w' = w, pc' = "tail", next' = 0, UNCHANGED <<files, src>>, Rest
               PROVE  Inv'
  BY <1>3, DoneIs
<1>5. Typed' /\ Same
  <2>1. PICK o : o = Done(w)
    OBVIOUS
  <2>2. Sane(o.w) /\ w' = o.w
    BY <1>2, <1>4, <2>1, DoneIs
  <2> QED BY <1>4, <2>2, OkStep
<1>6. Shape'
  BY <1>1, <1>4, <1>5 DEF Inv, Shape, Same
<1>7. ASSUME errors = 0, ~replaced PROVE Recorded' /\ Written'
  <2>1. Recorded /\ Written
    BY <1>7 DEF Inv, Faithful
  <2>2. Recorded'
    BY <1>1, <1>4, <1>5, <2>1, Recording
  <2>3. next - 1 = Len(given)
    <3>1. d /\ next - 1 \in 0 .. Len(files) /\ next \in Nat
      BY <1>1 DEF Inv, Shape, Typed
    <3>2. files = given
      BY <1>1, <2>1, <3>1 DEF Recorded
    <3>3. next - 1 = Len(files)
      <4>1. Len(files) \in Nat
        BY DEF Inv, Typed
      <4> QED BY <1>1, <3>1, <4>1
    <3> QED BY <3>2, <3>3
  <2>4. Has(w, Base, Filled(UseDdoc, Recips, given, Len(given)))
    BY <1>1, <2>1, <2>3 DEF Written
  <2>5. Has(w, Base, Filled(UseDdoc, Recips, given, Len(given)))'
    BY <1>4, <1>5, <2>4 DEF Same, Has
  <2>6. w'.open = 1 /\ (UseDdoc' \/ w'.sink.refused \/ w'.ddoc = <<>>)
    BY <1>1, <1>4, <1>5, <2>1 DEF Same, Written
  <2> QED BY <1>4, <2>2, <2>5, <2>6 DEF Written
<1>8. Faithful'
  BY <1>5, <1>7 DEF Faithful, Same
<1> QED BY <1>5, <1>6, <1>8 DEF Inv

(* encrypt: where the source has given a file, it is the one of that       *)
(* number.                                                                 *)
LEMMA SourceFile ==
  ASSUME Inv, op = "encrypt", next \in 1 .. Len(src.files)
  PROVE  /\ src.files \in Seq(File) /\ src.files[next].size \in Int
         /\ src.files[next].data \in Nat
         /\ Recorded => given = src.files
<1>1. src.files \in Seq(File)
  BY DEF Inv, Typed
<1>2. src.files[next] \in File
  BY <1>1
<1>3. ASSUME Recorded PROVE given = src.files
  <2>1. src.files # <<>>
    BY <1>1
  <2> QED BY <1>3, <2>1 DEF Recorded, Sources1
<1> QED BY <1>1, <1>2, <1>3 DEF File

LEMMA NextFileStep ==
  ASSUME Inv, NextFile
  PROVE  Inv'
<1>0. PICK items : items = FileItems(next, src.files[next].size)
  OBVIOUS
<1>1. /\ pc = "files" /\ op = "encrypt" /\ next <= Len(src.files)
      /\ Step(PayloadWrite(items), "data", next)
  BY <1>0 DEF NextFile
<1>2. /\ Typed /\ UseDdoc \in BOOLEAN /\ next \in 1 .. Len(src.files) /\ next \in Nat
      /\ next - 1 \in Nat
  <2>1. next \in Nat /\ next - 1 \in 0 .. Len(src.files)
    BY <1>1 DEF Inv, Typed, Shape
  <2> QED BY <1>1, <2>1, UseDdocType DEF Inv
<1>3. /\ src.files[next].size \in Int /\ src.files[next].data \in Nat
      /\ Recorded => given = src.files
  BY <1>1, <1>2, SourceFile
<1>4. items \in Seq(ItemType) /\ Bare(items) = Only(UseDdoc, Item("file", next, 0))
  BY <1>0, <1>2, <1>3, FileItemsBare
<1>5. \A o \in PayloadWrite(items) : Sane(o.w)
  BY <1>2, <1>4, PayloadOutcome DEF Kept
<1>6. \/ Inv'
      \/ /\ \E o \in PayloadWrite(items) : o.rv = OK /\ w' = o.w
         /\ pc' = "data" /\ next' = next /\ UNCHANGED <<files, src>> /\ Rest
  BY <1>1, <1>5, StepSplit
<1>7. SUFFICES ASSUME NEW o \in PayloadWrite(items), o.rv = OK, w' = o.w, pc' = "data",
                      next' = next, UNCHANGED <<files, src>>, Rest
               PROVE  Inv'
  BY <1>6
<1>8. Typed' /\ Same
  BY <1>2, <1>5, <1>7, OkStep
<1>9. Shape'
  <2>1. src.got = 0
    BY <1>1 DEF Inv, Shape
  <2> QED BY <1>1, <1>2, <1>3, <1>7, <1>8, <2>1 DEF Inv, Shape, Same
<1>10. ASSUME errors = 0, ~replaced PROVE Recorded' /\ Written'
  <2>1. Recorded /\ Written
    BY <1>10 DEF Inv, Faithful
  <2>2. Recorded'
    <3>1. Len(files) = next - 1 /\ (UseDdoc \/ next = 1)
      BY <1>1, <2>1 DEF Recorded
    <3> QED BY <1>1, <1>7, <1>8, <2>1, <3>1, Recording
  <2>3. /\ w.open = 1 /\ Single /\ Has(w, Base, Filled(UseDdoc, Recips, given, next - 1))
    BY <1>1, <2>1 DEF Written, Single
  <2>4. given = src.files /\ given \in Seq(File) /\ Recips \in Nat /\ src.got = 0
    BY <1>1, <1>3, <2>1 DEF Inv, Typed, Shape, Recips
  <2>5. PICK stage, only : /\ stage = Filled(UseDdoc, Recips, given, next - 1)
                           /\ only = Only(UseDdoc, Item("file", next, 0))
    OBVIOUS
  <2>6. stage \in Seq(ItemType)
    <3>1. next - 1 \in 0 .. Len(given)
      BY <1>2, <2>4
    <3> QED BY <1>2, <2>4, <2>5, <3>1, FilledType
  <2>7. /\ Has(o.w, Base, stage \o only) /\ o.w.open = w.open
        /\ UseDdoc \/ o.w.sink.refused \/ o.w.ddoc = <<>>
    BY <1>2, <1>4, <1>7, <2>3, <2>5, <2>6, PayloadHas
  <2>8. Start(UseDdoc, next, src.got) = only
    <3>1. Blocks(next, 0) = <<>>
      BY DEF Blocks
    <3>2. only \in Seq(ItemType)
      BY <1>4, <2>5, BareAt
    <3>3. only \o <<>> = only
      BY <3>2
    <3> QED BY <2>4, <2>5, <3>1, <3>3 DEF Start
  <2>9. Has(o.w, Base, Filled(UseDdoc, Recips, given, next - 1) \o Start(UseDdoc, next, src.got))
    BY <2>5, <2>7, <2>8
  <2>10. Has(w, Base, Filled(UseDdoc, Recips, given, next - 1) \o Start(UseDdoc, next, src.got))'
    BY <1>7, <1>8, <2>9 DEF Same, Has
  <2>11. w'.open = 1 /\ (UseDdoc' \/ w'.sink.refused \/ w'.ddoc = <<>>)
    BY <1>7, <1>8, <2>3, <2>7 DEF Same
  <2> QED BY <1>7, <2>2, <2>10, <2>11 DEF Written
<1>11. Faithful'
  BY <1>8, <1>10 DEF Faithful, Same
<1> QED BY <1>8, <1>9, <1>11 DEF Inv

LEMMA CopyStep ==
  ASSUME Inv, CopyBlock
  PROVE  Inv'
<1>0. PICK got : got = src.got
  OBVIOUS
<1>1. PICK items : items = <<DataItem(next, got + 1)>>
  OBVIOUS
<1>2. /\ pc = "data" /\ got < src.files[next].data
      /\ \/ /\ \E o \in PayloadWrite(items) : o.rv = OK /\ w' = o.w
            /\ src' = [src EXCEPT !.got = got + 1]
            /\ UNCHANGED <<pc, next, files>> /\ Rest
         \/ FailWith({o \in PayloadWrite(items) : o.rv # OK})
  BY <1>0, <1>1 DEF CopyBlock
<1>3. /\ Typed /\ UseDdoc \in BOOLEAN /\ op = "encrypt" /\ next \in 1 .. Len(src.files)
      /\ next \in Nat /\ got \in Nat /\ src.files \in Seq(File)
      /\ src \in [files : Seq(File), counts : BOOLEAN, got : Nat]
  BY <1>0, <1>2, UseDdocType DEF Inv, Typed, Shape
<1>4. src.files[next].data \in Nat /\ (Recorded => given = src.files)
  BY <1>3, SourceFile
<1>5. items \in Seq(ItemType) /\ Bare(items) = items
  BY <1>1, <1>3, BlocksType
<1>6. \A o \in PayloadWrite(items) : Sane(o.w)
  BY <1>3, <1>5, PayloadOutcome DEF Kept
<1>7. CASE FailWith({o \in PayloadWrite(items) : o.rv # OK})
  <2>1. \A o \in {q \in PayloadWrite(items) : q.rv # OK} : Sane(o.w)
    BY <1>6
  <2> QED BY <1>7, <2>1, FailStep
<1>8. SUFFICES ASSUME NEW o \in PayloadWrite(items), o.rv = OK, w' = o.w,
                      src' = [src EXCEPT !.got = got + 1], UNCHANGED <<pc, next, files>>, Rest
               PROVE  Inv'
  BY <1>2, <1>7
<1>9. /\ src'.files = src.files /\ src'.counts = src.counts /\ src'.got = got + 1
      /\ src' \in [files : Seq(File), counts : BOOLEAN, got : Nat]
  BY <1>3, <1>8
<1>10. Same
  BY <1>8, <1>9, RestSame
<1>11. Typed'
  BY <1>6, <1>8, <1>9, <1>10 DEF Inv, Typed, Same
<1>12. Shape'
  <2>1. src'.got <= src.files[next].data
    BY <1>2, <1>3, <1>4, <1>9
  <2> QED BY <1>2, <1>3, <1>8, <1>9, <1>10, <2>1 DEF Inv, Shape, Same
<1>13. ASSUME errors = 0, ~replaced PROVE Recorded' /\ Written'
  <2>1. Recorded /\ Written
    BY <1>13 DEF Inv, Faithful
  <2>2. Recorded'
    BY <1>2, <1>3, <1>8, <1>10, <2>1 DEF Recorded, Same
  <2>3. PICK stage, b : /\ stage = Filled(UseDdoc, Recips, given, next - 1)
                        /\ b = Start(UseDdoc, next, got)
    OBVIOUS
  <2>4. w.open = 1 /\ Single /\ Has(w, Base, stage \o b)
    BY <1>0, <1>2, <2>1, <2>3 DEF Written, Single
  <2>5. given = src.files /\ given \in Seq(File) /\ Recips \in Nat
    BY <1>3, <1>4, <2>1 DEF Inv, Typed, Recips
  <2>6. stage \in Seq(ItemType)
    <3>1. next - 1 \in 0 .. Len(given)
      BY <1>3, <2>5
    <3> QED BY <1>3, <2>3, <2>5, <3>1, FilledType
  <2>7. b \in Seq(ItemType) /\ b \o items = Start(UseDdoc, next, got + 1)
    BY <1>1, <1>3, <2>3, StartType
  <2>8. PICK u : u = stage \o b
    OBVIOUS
  <2>9. u \in Seq(ItemType)
    BY <2>6, <2>7, <2>8, ItemConcat
  <2>10. u \o Bare(items) = stage \o Start(UseDdoc, next, got + 1)
    <3>1. (stage \o b) \o items = stage \o (b \o items)
      BY <1>5, <2>6, <2>7, ItemAssociative, Zenon
    <3> QED BY <1>5, <2>7, <2>8, <3>1
  <2>11. /\ Has(o.w, Base, stage \o Start(UseDdoc, next, got + 1)) /\ o.w.open = w.open
         /\ UseDdoc \/ o.w.sink.refused \/ o.w.ddoc = <<>>
    BY <1>3, <1>5, <1>8, <2>4, <2>8, <2>9, <2>10, PayloadHas
  <2>12. Has(w, Base, Filled(UseDdoc, Recips, given, next - 1) \o Start(UseDdoc, next, src.got))'
    BY <1>8, <1>9, <1>10, <2>3, <2>11 DEF Same, Has
  <2>13. w'.open = 1 /\ (UseDdoc' \/ w'.sink.refused \/ w'.ddoc = <<>>)
    BY <1>8, <1>10, <2>4, <2>11 DEF Same
  <2> QED BY <1>2, <1>8, <2>2, <2>12, <2>13 DEF Written
<1>14. Faithful'
  BY <1>10, <1>13 DEF Faithful, Same
<1> QED BY <1>11, <1>12, <1>14 DEF Inv

(* encrypt: the file of the source has ended, and is recorded.             *)
LEMMA FileDoneStep ==
  ASSUME Inv, FileDone
  PROVE  Inv'
<1>0. PICK file, items : file = FileRecord /\ items = FileEnd(next)
  OBVIOUS
<1>1. /\ pc = "data" /\ src.got = src.files[next].data
      /\ \/ /\ \E o \in PayloadWrite(items) : o.rv = OK /\ w' = o.w
            /\ files' = Append(files, file) /\ src' = [src EXCEPT !.got = 0]
            /\ pc' = (IF UseDdoc THEN "files" ELSE "tail")
            /\ next' = (IF UseDdoc THEN next + 1 ELSE 0)
            /\ Rest
         \/ FailWith({o \in PayloadWrite(items) : o.rv # OK})
  BY <1>0 DEF FileDone
<1>2. /\ Typed /\ UseDdoc \in BOOLEAN /\ op = "encrypt" /\ next \in 1 .. Len(src.files)
      /\ next \in Nat /\ src.files \in Seq(File) /\ files \in Seq(File)
      /\ src \in [files : Seq(File), counts : BOOLEAN, got : Nat]
  BY <1>1, UseDdocType DEF Inv, Typed, Shape
<1>3. /\ src.files[next].size \in Int /\ src.files[next].data \in Nat
      /\ Recorded => given = src.files
  BY <1>2, SourceFile
<1>4. /\ items \in Seq(ItemType) /\ Bare(items) = items
       /\ items = Only(UseDdoc, Item("endfile", next, 0))
  BY <1>0, <1>2, FileEndBare
<1>5. \A o \in PayloadWrite(items) : Sane(o.w)
  BY <1>2, <1>4, PayloadOutcome DEF Kept
<1>6. CASE FailWith({o \in PayloadWrite(items) : o.rv # OK})
  <2>1. \A o \in {q \in PayloadWrite(items) : q.rv # OK} : Sane(o.w)
    BY <1>5
  <2> QED BY <1>6, <2>1, FailStep
<1>7. SUFFICES ASSUME NEW o \in PayloadWrite(items), o.rv = OK, w' = o.w,
                       files' = Append(files, file), src' = [src EXCEPT !.got = 0],
                       pc' = (IF UseDdoc THEN "files" ELSE "tail"),
                       next' = (IF UseDdoc THEN next + 1 ELSE 0), Rest
                PROVE  Inv'
  BY <1>1, <1>6
<1>8. files' \in Seq(File) /\ Len(files') = Len(files) + 1
  <2>1. file \in File
    BY <1>0, <1>1, <1>3, <1>7 DEF File, FileRecord
  <2> QED BY <1>1, <1>2, <1>7, <2>1
<1>9. /\ src'.files = src.files /\ src'.counts = src.counts /\ src'.got = 0
      /\ src' \in [files : Seq(File), counts : BOOLEAN, got : Nat]
  BY <1>1, <1>2, <1>7
<1>10. Same
  BY <1>1, <1>2, <1>7, <1>9, RestSame
<1>11. Typed'
  <2>1. next' \in Nat /\ pc' \in {"files", "tail"}
    BY <1>1, <1>2, <1>7
  <2> QED BY <1>1, <1>5, <1>7, <1>8, <1>9, <1>10, <2>1 DEF Inv, Typed, Same
<1>12. Shape'
  <2>1. UseDdoc => next' - 1 \in 0 .. Len(src.files)
    BY <1>1, <1>2, <1>7
  <2> QED BY <1>2, <1>7, <1>9, <1>10, <2>1 DEF Inv, Shape, Same
<1>13. ASSUME errors = 0, ~replaced PROVE Recorded' /\ Written'
  <2>1. Recorded /\ Written
    BY <1>13 DEF Inv, Faithful
  <2>2. given = src.files /\ given \in Seq(File) /\ Recips \in Nat
    BY <1>2, <1>3, <2>1 DEF Inv, Typed, Recips
  <2>3. Len(files) = next - 1 /\ (UseDdoc \/ next = 1)
    BY <1>1, <1>2, <1>7, <2>1 DEF Recorded
  <2>4. Len(files') = next
    BY <1>2, <1>8, <2>3
  <2>5. ~UseDdoc => next = Len(given)
    <3>1. ~UseDdoc => ~(Len(src.files) > 1)
      BY <1>2, Zenon DEF UseDdoc
    <3>2. Len(src.files) \in Nat
      BY <1>2
    <3> QED BY <1>2, <2>2, <2>3, <3>1, <3>2
  <2>6. Recorded'
    <3>1. given' = Sources1' /\ rcpts' = accepted'
      BY <1>1, <1>2, <1>7, <1>10, <2>1 DEF Recorded, Same, Inv, Shape
    <3>2. UseDdoc => Len(files') = next' - 1
      BY <1>1, <1>2, <1>7, <2>4
    <3> QED BY <1>1, <1>2, <1>7, <1>10, <2>4, <2>5, <3>1, <3>2 DEF Recorded, Same
  <2>7. w.open = 1 /\ Single
    BY <1>1, <1>7, <2>1 DEF Written, Single
  <2>8. /\ Has(o.w, Base, Filled(UseDdoc, Recips, given, next)) /\ o.w.open = w.open
        /\ UseDdoc \/ o.w.sink.refused \/ o.w.ddoc = <<>>
    <3>1. PICK m \in Nat : m = next - 1 /\ m + 1 = next
      BY <1>2
    <3>2. m \in 0 .. Len(given) /\ m < Len(given)
      BY <1>2, <2>2, <3>1
    <3>3. Filled(UseDdoc, Recips, given, m) \o Piece(UseDdoc, given, m + 1)
            = Filled(UseDdoc, Recips, given, m + 1)
      BY <1>2, <2>2, <3>2, FilledType
    <3>4. PICK stage, b : /\ stage = Filled(UseDdoc, Recips, given, m)
                          /\ b = Start(UseDdoc, next, src.got)
      OBVIOUS
    <3>5. stage \in Seq(ItemType) /\ b \in Seq(ItemType)
      <4>1. src.got \in Nat
        BY <1>1, <1>3, <1>7
      <4> QED BY <1>2, <2>2, <3>2, <3>4, <4>1, FilledType, StartType
    <3>6. Has(w, Base, stage \o b)
      BY <1>1, <1>7, <2>1, <3>1, <3>4 DEF Written
    <3>7. PICK u : u = stage \o b
      OBVIOUS
    <3>8. u \in Seq(ItemType)
      BY <3>5, <3>7, ItemConcat
    <3>9. b \o items = Piece(UseDdoc, given, next)
      BY <1>1, <1>4, <2>2, <3>4 DEF Piece
    <3>10. u \o Bare(items) = Filled(UseDdoc, Recips, given, next)
      <4>1. (stage \o b) \o items = stage \o (b \o items)
        BY <1>4, <3>5, ItemAssociative, Zenon
      <4> QED BY <1>4, <3>1, <3>3, <3>4, <3>7, <3>9, <4>1
    <3> QED BY <1>2, <1>4, <1>7, <2>7, <3>6, <3>7, <3>8, <3>10, PayloadHas
  <2>9. w'.open = 1 /\ (UseDdoc' \/ w'.sink.refused \/ w'.ddoc = <<>>)
    BY <1>7, <1>10, <2>7, <2>8 DEF Same
  <2>10. CASE UseDdoc
    <3>1. next' - 1 = next
      BY <1>1, <1>2, <1>7, <2>10
    <3>2. Has(w, Base, Filled(UseDdoc, Recips, given, next - 1))'
      BY <1>7, <1>10, <2>8, <3>1 DEF Same, Has
    <3> QED BY <1>1, <1>7, <2>6, <2>9, <2>10, <3>2 DEF Written
  <2>11. CASE ~UseDdoc
    <3>1. Has(w, Base, Filled(UseDdoc, Recips, given, Len(given)))'
      BY <1>7, <1>10, <2>5, <2>8, <2>11 DEF Same, Has
    <3> QED BY <1>1, <1>7, <2>6, <2>9, <2>11, <3>1 DEF Written
  <2> QED BY <2>10, <2>11
<1>14. Faithful'
  BY <1>10, <1>13 DEF Faithful, Same
<1> QED BY <1>11, <1>12, <1>14 DEF Inv

(* The source, or a callback of the application, has failed.               *)
LEMMA SourceErrorStep ==
  ASSUME Inv, SourceError
  PROVE  Inv'
<1>1. Sane(w)
  BY DEF Inv, Typed
<1>2. PICK S : S = IF UseDdoc THEN DdocClose(w) ELSE {Done(w)}
  OBVIOUS
<1>3. \A o \in S : Sane(o.w)
  <2>1. ASSUME NEW o \in DdocClose(w) PROVE Sane(o.w)
    BY <1>1, DdocCloseOutcome DEF Grows, Kept
  <2>2. Sane(Done(w).w)
    BY <1>1, DoneIs
  <2> QED BY <1>2, <2>1, <2>2
<1>4. FailWith(S)
  BY <1>2 DEF SourceError
<1> QED BY <1>3, <1>4, FailStep

(* The source has given all its files.                                     *)
LEMMA SourceEndStep ==
  ASSUME Inv, SourceEnd
  PROVE  Inv'
<1>1. /\ pc = "files" /\ op = "encrypt" /\ next > Len(src.files)
      /\ files' = (IF UseDdoc THEN files ELSE <<Nameless>>)
      /\ pc' = "tail" /\ next' = 0 /\ UNCHANGED <<w, src>> /\ Rest
  BY DEF SourceEnd
<1>2. /\ Typed /\ UseDdoc \in BOOLEAN /\ next \in Nat /\ src.files \in Seq(File)
      /\ files \in Seq(File) /\ next - 1 = Len(src.files)
  <2>1. /\ next \in Nat /\ src.files \in Seq(File) /\ files \in Seq(File)
        /\ next - 1 \in 0 .. Len(src.files)
    BY <1>1 DEF Inv, Typed, Shape
  <2>2. Len(src.files) \in Nat
    BY <2>1
  <2> QED BY <1>1, <2>1, <2>2, UseDdocType DEF Inv
<1>3. Nameless \in File /\ <<Nameless>> \in Seq(File) /\ Len(<<Nameless>>) = 1
      /\ Nameless.data = 0
  BY DEF Nameless, File
<1>4. Same
  BY <1>1, RestSame
<1>5. Typed'
  <2>1. files' \in Seq(File)
    BY <1>1, <1>2, <1>3
  <2> QED BY <1>1, <1>4, <2>1 DEF Inv, Typed, Same
<1>6. Shape'
  BY <1>1, <1>4 DEF Inv, Shape, Same
<1>7. ASSUME errors = 0, ~replaced PROVE Recorded' /\ Written'
  <2>1. Recorded /\ Written
    BY <1>7 DEF Inv, Faithful
  <2>2. given = Sources1 /\ given \in Seq(File) /\ Recips \in Nat
    BY <1>1, <1>2, <2>1 DEF Recorded, Typed, Recips
  <2>3. Len(files) = next - 1 /\ (UseDdoc \/ next = 1)
    BY <1>1, <2>1 DEF Recorded
  <2>4. Has(w, Base, Filled(UseDdoc, Recips, given, next - 1))
    BY <1>1, <2>1 DEF Written
  <2>5. /\ Len(files') = Len(given)
        /\ Has(w, Base, Filled(UseDdoc, Recips, given, Len(given)))
    <3>1. CASE UseDdoc /\ given = src.files
      <4>1. files' = files
        BY <1>1, <3>1
      <4> QED BY <1>2, <2>3, <2>4, <3>1, <4>1
    <3>2. CASE ~(UseDdoc /\ given = src.files)
      <4>1. /\ Len(src.files) = 0 /\ src.files = <<>> /\ next - 1 = 0
            /\ ~UseDdoc /\ src.counts
        <5>1. CASE UseDdoc
          <6>1. src.files = <<>> /\ src.counts
            BY <2>2, <3>2, <5>1 DEF Sources1
          <6>2. Len(src.files) = 0
            BY <6>1
          <6>3. ~UseDdoc
            BY <1>1, <6>1, <6>2 DEF UseDdoc
          <6> QED BY <5>1, <6>3
        <5>2. CASE ~UseDdoc
          <6>1. src.counts
            BY <1>1, <5>2 DEF UseDdoc
          <6> QED BY <1>2, <2>3, <5>2, <6>1
        <5> QED BY <5>1, <5>2
      <4>2. given = <<Nameless>> /\ files' = <<Nameless>>
        BY <1>1, <2>2, <4>1 DEF Sources1
      <4>3. Len(given) = 1 /\ Len(files') = 1 /\ given[1].data = 0
        BY <1>3, <4>2
      <4>4. Filled(UseDdoc, Recips, given, 0) \in Seq(ItemType)
            /\ Filled(UseDdoc, Recips, given, 0) \o Piece(UseDdoc, given, 0 + 1)
                 = Filled(UseDdoc, Recips, given, 0 + 1)
        <5>1. 0 \in 0 .. Len(given) /\ 0 < Len(given)
          BY <4>3
        <5> QED BY <1>2, <2>2, <5>1, FilledType
      <4>5. Piece(UseDdoc, given, 1) = <<>>
        <5>1. Blocks(1, 0) = <<>>
          BY DEF Blocks
        <5>2. Piece(UseDdoc, given, 1) = (<<>> \o Blocks(1, 0)) \o <<>>
          BY <4>1, <4>3 DEF Piece, Start, Only
        <5> QED BY <5>1, <5>2
      <4>6. Filled(UseDdoc, Recips, given, 0) = Filled(UseDdoc, Recips, given, 1)
        <5>1. PICK a, b : a = Filled(UseDdoc, Recips, given, 0) /\ b = Piece(UseDdoc, given, 1)
          OBVIOUS
        <5>2. b = <<>> /\ a \in Seq(ItemType)
          BY <4>4, <4>5, <5>1
        <5>3. a \o b = a
          BY <5>2
        <5> QED BY <4>4, <5>1, <5>3
      <4> QED BY <2>4, <4>1, <4>3, <4>6
    <3> QED BY <3>1, <3>2
  <2>6. w.open = 1 /\ (UseDdoc \/ w.sink.refused \/ w.ddoc = <<>>)
    BY <1>1, <2>1 DEF Written
  <2>7. Recorded'
    BY <1>1, <1>4, <2>1, <2>5 DEF Recorded, Same
  <2>8. Has(w, Base, Filled(UseDdoc, Recips, given, Len(given)))'
    BY <1>1, <1>4, <2>5 DEF Same, Has
  <2>9. w'.open = 1 /\ (UseDdoc' \/ w'.sink.refused \/ w'.ddoc = <<>>)
    BY <1>1, <1>4, <2>6 DEF Same
  <2> QED BY <1>1, <2>7, <2>8, <2>9 DEF Written
<1>8. Faithful'
  BY <1>4, <1>7 DEF Faithful, Same
<1> QED BY <1>5, <1>6, <1>8 DEF Inv

(* The payload ends.                                                       *)
LEMMA ClosePayloadStep ==
  ASSUME Inv, ClosePayload
  PROVE  Inv'
<1>1. pc = "tail" /\ Step(CloseOutcomes, "props", 0)
  BY DEF ClosePayload, CloseOutcomes
<1>2. Typed /\ Sane(w) /\ UseDdoc \in BOOLEAN
  BY UseDdocType DEF Inv, Typed
<1>3. \A o \in CloseOutcomes : Sane(o.w)
  BY <1>2, CloseOutcome DEF Kept
<1>4. \/ Inv'
      \/ /\ \E o \in CloseOutcomes : o.rv = OK /\ w' = o.w
         /\ pc' = "props" /\ next' = 0 /\ UNCHANGED <<files, src>> /\ Rest
  BY <1>1, <1>3, StepSplit
<1>5. SUFFICES ASSUME NEW o \in CloseOutcomes, o.rv = OK, w' = o.w, pc' = "props",
                      next' = 0, UNCHANGED <<files, src>>, Rest
               PROVE  Inv'
  BY <1>4
<1>6. Typed' /\ Same
  BY <1>3, <1>5, OkStep
<1>7. Shape'
  BY <1>1, <1>5, <1>6 DEF Inv, Shape, Same
<1>8. ASSUME errors = 0, ~replaced PROVE Recorded' /\ Written'
  <2>1. Recorded /\ Written
    BY <1>8 DEF Inv, Faithful
  <2>2. Recorded'
    <3>1. op = "encrypt" => Len(files) = Len(given)
      BY <1>1, <2>1 DEF Recorded
    <3> QED BY <1>1, <1>5, <1>6, <2>1, <3>1, Recording
  <2>3. w.open = 1 /\ Single /\ Has(w, Base, Filled(UseDdoc, Recips, given, Len(given)))
    BY <1>1, <2>1 DEF Written, Single
  <2>4. PICK e, t : e = Only(UseDdoc, Part("endddoc")) /\ t = <<Part("tag"), Part("endcipher")>>
    OBVIOUS
  <2>5. PICK stage : stage = Filled(UseDdoc, Recips, given, Len(given))
    OBVIOUS
  <2>6. Grows(w, o, e \o t) /\ Plain(o.w)
    BY <1>2, <1>5, <2>3, <2>4, CloseOutcome
  <2>7. e \in Seq(ItemType) /\ Bare(e) = e /\ t \in Seq(ItemType) /\ Bare(t) = t
    <3>1. {"endddoc", "tag", "endcipher"} \subseteq Kinds \ {"data"}
      BY DEF Kinds
    <3>2. e \in Seq(ItemType) /\ Bare(e) = e
      BY <1>2, <2>4, <3>1, BareOnly
    <3>3. t \in Seq(ItemType)
      BY <2>4, PartsType
    <3> QED BY <2>4, <3>1, <3>2, <3>3, BareTwo
  <2>8. e \o t \in Seq(ItemType) /\ Bare(e \o t) = e \o t
    <3>1. e \o t \in Seq(ItemType)
      BY <2>7, ItemConcat
    <3>2. Bare(e \o t) = Bare(e) \o Bare(t)
      BY <2>7, BareConcat
    <3> QED BY <2>7, <3>1, <3>2
  <2>9. stage \in Seq(ItemType)
    <3>1. given \in Seq(File) /\ Recips \in Nat /\ Len(given) \in 0 .. Len(given)
      BY <1>2 DEF Typed, Recips
    <3> QED BY <1>2, <2>5, <3>1, FilledType
  <2>10. stage \o Bare(e \o t) = Closed(UseDdoc, Recips, given)
    <3>1. stage \o (e \o t) = (stage \o e) \o t
      BY <2>7, <2>9, ItemAssociative, Zenon
    <3> QED BY <2>4, <2>5, <2>8, <3>1 DEF Closed
  <2>11. Has(o.w, Base, Closed(UseDdoc, Recips, given))
    <3>1. Base \in Seq(ItemType)
      BY <1>2, BaseType DEF Typed
    <3>2. Has(w, Base, stage)
      BY <2>3, <2>5
    <3>3. PICK then : then = Closed(UseDdoc, Recips, given)
      OBVIOUS
    <3>4. Has(o.w, Base, then)
      BY <1>2, <2>6, <2>8, <2>9, <2>10, <3>1, <3>2, <3>3, HasGrows
    <3> QED BY <3>3, <3>4
  <2>12. o.w.open = 1
    BY <2>3, <2>6 DEF Grows, Kept
  <2>13. w'.open = 1 /\ Plain(w)' /\ Has(w, Base, Closed(UseDdoc, Recips, given))'
    BY <1>5, <1>6, <2>6, <2>11, <2>12 DEF Same, Has, Plain
  <2> QED BY <1>5, <2>2, <2>13 DEF Written
<1>9. Faithful'
  BY <1>6, <1>8 DEF Faithful, Same
<1> QED BY <1>6, <1>7, <1>9 DEF Inv

(* The properties name the files, and end the element that was open.       *)
LEMMA WritePropertiesStep ==
  ASSUME Inv, WriteProperties
  PROVE  Inv'
<1>0. PICK orig : orig = [i \in DOMAIN files |-> Item("orig", i, Unsigned(files[i].size))]
  OBVIOUS
<1>1. PICK all : all = Append(orig, Part("end"))
  OBVIOUS
<1> DEFINE S == {[o EXCEPT !.w.open = IF o.rv = OK THEN @ - 1 ELSE @] : o \in TextWrite(w, all)}
<1>2. pc = "props" /\ Step(S, "done", 0)
  BY <1>0, <1>1, Zenon DEF WriteProperties
<1>3. /\ Typed /\ Sane(w) /\ UseDdoc \in BOOLEAN /\ files \in Seq(File) /\ Len(files) \in Nat
      /\ w.open \in Int
  <2>1. Typed /\ Sane(w) /\ files \in Seq(File)
    BY DEF Inv, Typed
  <2> QED BY <2>1, UseDdocType, DocumentFields DEF Sane
<1>4. orig \in Seq(ItemType) /\ Bare(orig) = Marks("orig", Len(files))
  <2>1. DOMAIN orig = 1 .. Len(files) /\ orig = [i \in 1 .. Len(files) |-> orig[i]]
    BY <1>0, <1>3
  <2>2. ASSUME NEW i \in 1 .. Len(files)
        PROVE  \E size \in Int : orig[i] = Item("orig", i, size)
    <3>1. files[i] \in File
      BY <1>3
    <3>2. Unsigned(files[i].size) \in Int
      BY <3>1, InputAssumption DEF File, Unsigned
    <3>3. orig[i] = Item("orig", i, Unsigned(files[i].size))
      BY <1>0, <1>3
    <3> QED BY <3>2, <3>3
  <2>3. "orig" \in Kinds \ {"data"}
    BY DEF Kinds
  <2> QED BY <1>3, <2>1, <2>2, <2>3, BareSized DEF Marks
<1>5. /\ all \in Seq(ItemType)
      /\ Bare(all) = Marks("orig", Len(files)) \o <<Part("end")>>
  <2>1. PICK end : end = <<Part("end")>>
    OBVIOUS
  <2>2. "end" \in Kinds
    BY DEF Kinds
  <2>3. end \in Seq(ItemType) /\ Bare(end) = end /\ Part("end") \in ItemType
    BY <2>1, <2>2, BarePart, PartIs
  <2>4. all = orig \o end
    BY <1>1, <1>4, <2>1, <2>3
  <2> QED BY <1>4, <2>1, <2>3, <2>4, BareConcat, ItemConcat
<1>6. ASSUME NEW o \in S
      PROVE  \E p \in TextWrite(w, all) :
               /\ TextGrows(w, p, all) /\ o.rv = p.rv /\ Sane(o.w)
               /\ o.rv = OK => IsOpen(o.w, p.w, w.open - 1)
  <2>1. PICK p \in TextWrite(w, all) : o = [p EXCEPT !.w.open = IF p.rv = OK THEN @ - 1 ELSE @]
    OBVIOUS
  <2>2. TextGrows(w, p, all)
    BY <1>3, <1>5, TextWriteOutcome
  <2>3. Sane(p.w) /\ p.w.open = w.open
    BY <2>2 DEF TextGrows, Kept
  <2>4. PICK rv, v : p = [rv |-> rv, w |-> v]
    <3>1. \E rv, v : p = [rv |-> rv, w |-> v]
      BY <2>1, TextWriteIs
    <3> QED BY <3>1
  <2>5. p.w = v /\ p.rv = rv /\ o.rv = rv /\ o.w = [v EXCEPT !.open = IF rv = OK THEN @ - 1 ELSE @]
    BY <2>1, <2>4
  <2>6. PICK n : n = IF rv = OK THEN w.open - 1 ELSE w.open
    OBVIOUS
  <2>7. n \in Int /\ o.w = [v EXCEPT !.open = n]
    BY <1>3, <2>3, <2>5, <2>6
  <2>8. IsOpen(o.w, v, n)
    BY <2>3, <2>5, <2>7, SetOpen
  <2> QED BY <2>1, <2>2, <2>5, <2>6, <2>8 DEF IsOpen
<1>7. \A o \in S : Sane(o.w)
  BY <1>6
<1> HIDE DEF S
<1>8. \/ Inv'
      \/ /\ \E o \in S : o.rv = OK /\ w' = o.w
         /\ pc' = "done" /\ next' = 0 /\ UNCHANGED <<files, src>> /\ Rest
  BY <1>2, <1>7, StepSplit
<1>9. SUFFICES ASSUME NEW o \in S, o.rv = OK, w' = o.w, pc' = "done", next' = 0,
                      UNCHANGED <<files, src>>, Rest
               PROVE  Inv'
  BY <1>8
<1>10. Typed' /\ Same
  BY <1>7, <1>9, OkStep
<1>11. Shape'
  BY <1>2, <1>9, <1>10 DEF Inv, Shape, Same
<1>12. ASSUME errors = 0, ~replaced PROVE Recorded' /\ Written'
  <2>1. Recorded /\ Written
    BY <1>12 DEF Inv, Faithful
  <2>2. Len(files) = Len(given) /\ given \in Seq(File) /\ Recips \in Nat
    <3>1. d /\ op \in {"finish", "encrypt"}
      BY <1>2 DEF Inv, Shape, Typed
    <3>2. Len(files) = Len(given)
      BY <1>2, <2>1, <3>1 DEF Recorded
    <3> QED BY <1>3, <3>2 DEF Typed, Recips
  <2>3. Recorded'
    BY <1>2, <1>9, <1>10, <2>1, <2>2, Recording
  <2>4. w.open = 1 /\ Plain(w) /\ Has(w, Base, Closed(UseDdoc, Recips, given))
    BY <1>2, <2>1 DEF Written
  <2>5. PICK p : TextGrows(w, p, all) /\ IsOpen(o.w, p.w, w.open - 1)
    BY <1>6, <1>9
  <2>6. Kept(w, p)
    BY <2>5 DEF TextGrows
  <2>7. ~p.w.sink.refused => w.held = <<>> /\ w.ddoc = <<>>
    BY <2>4, <2>6 DEF Plain, Kept
  <2>8. /\ Grows(w, p, all)
        /\ ~p.w.sink.refused => p.w.held = <<>> /\ p.w.ddoc = <<>>
    BY <1>3, <1>5, <2>5, <2>7, TextIsAll
  <2>9. PICK stage, then : /\ stage = Closed(UseDdoc, Recips, given)
                           /\ then = Whole(UseDdoc, Recips, given)
    OBVIOUS
  <2>10. stage \in Seq(ItemType)
    BY <1>3, <2>2, <2>9, ClosedType
  <2>11. stage \o Bare(all) = then
    <3>1. PICK m, e : m = Marks("orig", Len(given)) /\ e = <<Part("end")>>
      OBVIOUS
    <3>2. m \in Seq(ItemType) /\ e \in Seq(ItemType)
      BY <1>4, <2>2, <3>1, PartsType, BareAt
    <3>3. stage \o (m \o e) = (stage \o m) \o e
      BY <2>10, <3>2, ItemAssociative, Zenon
    <3> QED BY <1>5, <2>2, <2>9, <3>1, <3>3 DEF Whole
  <2>12. Has(p.w, Base, then)
    <3>1. Base \in Seq(ItemType) /\ Has(w, Base, stage)
      BY <1>3, <2>4, <2>9, BaseType DEF Typed
    <3> QED BY <1>3, <1>5, <2>8, <2>10, <2>11, <3>1, HasGrows
  <2>13. Has(o.w, Base, then)
    BY <2>5, <2>12, HasKept DEF IsOpen
  <2>14. o.w.open = 0 /\ Plain(o.w)
    BY <2>4, <2>5, <2>8 DEF IsOpen, Plain
  <2>15. w'.open = 0 /\ Plain(w)' /\ Has(w, Base, Whole(UseDdoc, Recips, given))'
    BY <1>9, <1>10, <2>9, <2>13, <2>14 DEF Same, Has, Plain
  <2> QED BY <1>9, <2>3, <2>15 DEF Written
<1>13. Faithful'
  BY <1>10, <1>12 DEF Faithful, Same
<1> QED BY <1>10, <1>11, <1>13 DEF Inv

(* OStreamConsumer::close returns OK only when nothing was refused, because *)
(* a badbit is never cleared.                                              *)
LEMMA SinkCloseOutcome ==
  ASSUME DstKind = "stream", NEW s, SinkSane(s), NEW c \in SinkClose(s)
  PROVE  /\ c.rv \in {OK, ERR} /\ SinkSane(c.sink)
         /\ c.sink.data = s.data /\ c.sink.refused = s.refused
         /\ c.rv = OK => ~s.refused
<1>1. /\ s \in SinkType(ItemType) /\ s.kind = DstKind /\ (s.refused => s.bad)
      /\ ~Unopened(s) /\ (Stuck(s) <=> s.bad)
  BY DEF SinkSane, SinkType, Unopened, Stuck
<1>2. CASE ~s.bad /\ c = [rv |-> OK, sink |-> [s EXCEPT !.flushed = ~Unopened(s)]]
  <2>1. PICK t : t = [s EXCEPT !.flushed = ~Unopened(s)]
    OBVIOUS
  <2>2. /\ t \in SinkType(ItemType) /\ t.kind = s.kind /\ t.data = s.data /\ t.refused = s.refused
        /\ t.bad = s.bad
    BY <1>1, <2>1 DEF SinkType
  <2>3. c.rv = OK /\ c.sink = t
    BY <1>2, <2>1
  <2> QED BY <1>1, <1>2, <2>2, <2>3 DEF SinkSane
<1>3. CASE c = [rv |-> ERR, sink |-> [s EXCEPT !.bad = TRUE]]
  <2>1. PICK t : t = [s EXCEPT !.bad = TRUE]
    OBVIOUS
  <2>2. /\ t \in SinkType(ItemType) /\ t.kind = s.kind /\ t.data = s.data /\ t.refused = s.refused
        /\ t.bad
    BY <1>1, <2>1 DEF SinkType
  <2>3. c.rv = ERR /\ c.sink = t
    BY <1>3, <2>1
  <2>4. c.rv # OK
    BY <2>3 DEF OK, ERR
  <2> QED BY <2>2, <2>3, <2>4 DEF SinkSane
<1> QED BY <1>1, <1>2, <1>3 DEF SinkClose

(* writeDocument has written all, and dst is closed: when that returns OK, *)
(* the file holds one document more.                                       *)
ClosedAs(o, c) ==
  /\ Sane(o.w) /\ (w.sink.refused => o.w.sink.refused)
  /\ w.open = 0 /\ ~o.w.sink.refused => o.w.sink.data = Out(w)
  /\ Sane(w') /\ w'.sink.data = o.w.sink.data /\ w'.sink.refused = o.w.sink.refused
  /\ c.rv = OK => ~w'.sink.refused
  /\ docs' = (IF c.rv = OK THEN Append(docs, Document) ELSE docs)
  /\ errors' = (IF c.rv = OK THEN errors ELSE errors + 1)

LEMMA ClosedIs ==
  ASSUME DstKind = "stream", Owned, Typed, Close
  PROVE  \E o \in TextClose(w) : \E c : ClosedAs(o, c)
<1>1. PICK o \in TextClose(w) : \E c \in SinkClose(o.w.sink) :
        /\ w' = [o.w EXCEPT !.sink = c.sink]
        /\ docs' = IF c.rv = OK THEN Append(docs, Document) ELSE docs
        /\ errors' = IF c.rv = OK THEN errors ELSE errors + 1
  BY DEF Close
<1>2. PICK c \in SinkClose(o.w.sink) :
        /\ w' = [o.w EXCEPT !.sink = c.sink]
        /\ docs' = (IF c.rv = OK THEN Append(docs, Document) ELSE docs)
        /\ errors' = (IF c.rv = OK THEN errors ELSE errors + 1)
  BY <1>1
<1>3. /\ Sane(o.w) /\ (w.sink.refused => o.w.sink.refused)
      /\ w.open = 0 /\ ~o.w.sink.refused => o.w.sink.data = Out(w)
  BY TextCloseOutcome DEF Typed
<1>4. PICK v : v = o.w
  OBVIOUS
<1>5. v \in DocumentType /\ SinkSane(v.sink) /\ (v.terr \/ v.cerr \/ v.derr => v.sink.refused)
  BY <1>3, <1>4 DEF Sane
<1>6. PICK k : k = c.sink
  OBVIOUS
<1>7. /\ SinkSane(k) /\ k.data = v.sink.data /\ k.refused = v.sink.refused
      /\ c.rv = OK => ~v.sink.refused
  BY <1>2, <1>4, <1>5, <1>6, SinkCloseOutcome
<1>8. PICK u : u = [v EXCEPT !.sink = k]
  OBVIOUS
<1>9. /\ u \in DocumentType /\ u.sink = k /\ u.terr = v.terr /\ u.cerr = v.cerr
      /\ u.derr = v.derr
  <2>1. k \in SinkType(ItemType)
    BY <1>7 DEF SinkSane
  <2> QED BY <1>5, <1>8, <2>1 DEF DocumentType
<1>10. w' = u
  BY <1>2, <1>4, <1>6, <1>8
<1>11. Sane(u)
  BY <1>5, <1>7, <1>9 DEF Sane
<1>12. /\ Sane(w') /\ w'.sink.data = o.w.sink.data /\ w'.sink.refused = o.w.sink.refused
       /\ c.rv = OK => ~w'.sink.refused
  BY <1>4, <1>7, <1>9, <1>10, <1>11
<1> QED BY <1>2, <1>3, <1>12 DEF ClosedAs

LEMMA CloseStep ==
  ASSUME DstKind = "stream", Owned, Inv, Close
  PROVE  Inv'
<1>1. Typed /\ UseDdoc \in BOOLEAN
  BY UseDdocType DEF Inv
<1>2. PICK o \in TextClose(w) : \E c : ClosedAs(o, c)
  BY <1>1, ClosedIs
<1>3. PICK c : ClosedAs(o, c)
  BY <1>2
<1>4. /\ Sane(o.w) /\ (w.sink.refused => o.w.sink.refused)
      /\ w.open = 0 /\ ~o.w.sink.refused => o.w.sink.data = Out(w)
      /\ Sane(w') /\ w'.sink.data = o.w.sink.data /\ w'.sink.refused = o.w.sink.refused
      /\ c.rv = OK => ~w'.sink.refused
      /\ docs' = (IF c.rv = OK THEN Append(docs, Document) ELSE docs)
      /\ errors' = (IF c.rv = OK THEN errors ELSE errors + 1)
  BY <1>3 DEF ClosedAs
<1>5. /\ pc = "done" /\ d' = FALSE /\ files' = <<>>
      /\ pc' = "idle" /\ op' = "finish" /\ next' = 0 /\ src' = NoSource
      /\ UNCHANGED <<rcpts, accepted, given, begun, replaced>>
  BY DEF Close, Idle
<1>6. Document \in Record
  BY <1>1 DEF Document, Record, Typed
<1>7. src' \in [files : Seq(File), counts : BOOLEAN, got : Nat] /\ src'.got = 0
  BY <1>5 DEF NoSource
<1>8. Typed'
  <2>1. docs' \in Seq(Record) /\ errors' \in Nat
    <3>1. docs \in Seq(Record) /\ errors \in Nat
      BY <1>1 DEF Typed
    <3>2. Append(docs, Document) \in Seq(Record) /\ errors + 1 \in Nat
      BY <1>6, <3>1
    <3> QED BY <1>4, <3>1, <3>2
  <2>2. files' \in Seq(File) /\ next' \in Nat
    BY <1>5
  <2> QED BY <1>1, <1>4, <1>5, <1>7, <2>1, <2>2 DEF Typed
<1>9. Shape'
  BY <1>5, <1>7 DEF Shape
<1>10. ASSUME errors' = 0, ~replaced' PROVE Recorded' /\ Written'
  <2>1. errors = 0 /\ ~replaced /\ c.rv = OK
    BY <1>1, <1>4, <1>5, <1>10 DEF Typed
  <2>2. Recorded /\ Written
    BY <2>1 DEF Inv, Faithful
  <2>3. w.open = 0 /\ Plain(w) /\ Has(w, Base, Whole(UseDdoc, Recips, given))
    BY <1>5, <2>2 DEF Written
  <2>4. ~w'.sink.refused /\ ~o.w.sink.refused /\ ~w.sink.refused
    BY <1>4, <2>1
  <2>5. w'.sink.data = All(w)
    <3>1. PICK a : a = Out(w)
      OBVIOUS
    <3>2. a \in Seq(ItemType)
      BY <1>1, <3>1, ContentType DEF Typed, Sane
    <3>3. a \o <<>> = a
      BY <3>2
    <3>4. w.held = <<>> /\ w.ddoc = <<>>
      BY <2>3, <2>4 DEF Plain
    <3>5. All(w) = a
      BY <3>1, <3>3, <3>4 DEF All, Encoded
    <3> QED BY <1>4, <2>3, <2>4, <3>1, <3>5
  <2>6. Bare(w'.sink.data) = Base \o Whole(UseDdoc, Recips, given)
    BY <2>3, <2>4, <2>5 DEF Has
  <2>7. Expected(Document) = Whole(UseDdoc, Recips, given)
    BY <1>1, ExpectedIs DEF Document, Typed, Recips
  <2>8. Base' = Base \o Expected(Document)
    BY <1>1, <1>4, <1>6, <2>1, BaseType DEF Typed
  <2>9. Recorded'
    BY <1>5 DEF Recorded
  <2>10. Bare(w'.sink.data) = Base'
    BY <2>6, <2>7, <2>8
  <2> QED BY <1>5, <2>4, <2>9, <2>10 DEF Written
<1>11. Faithful'
  BY <1>10 DEF Faithful
<1> QED BY <1>8, <1>9, <1>11 DEF Inv

(* Between the calls that write.                                           *)
LEMMA AddRecipientStep ==
  ASSUME Inv, NEW kind \in RecipientKinds, AddRecipient(kind)
  PROVE  Inv'
<1>1. SUFFICES ASSUME ~d, pc = "idle", rcpts' = Append(rcpts, kind), accepted' = rcpts',
                      UNCHANGED <<d, files, w, call, docs, given, begun, errors, replaced>>
               PROVE  Inv'
  BY RefuseStep DEF AddRecipient
<1>2. UNCHANGED <<pc, op, next, src>>
  BY <1>1 DEF call
<1>3. Typed'
  <2>1. rcpts' \in Seq(RecipientKinds)
    BY <1>1 DEF Inv, Typed
  <2> QED BY <1>1, <1>2, <2>1 DEF Inv, Typed
<1>4. Shape'
  BY <1>1, <1>2 DEF Inv, Shape
<1>5. ASSUME Recorded, Written PROVE Recorded' /\ Written'
  <2>1. op = "finish"
    BY <1>1 DEF Inv, Shape
  <2>2. Recorded'
    BY <1>1, <1>2, <2>1 DEF Recorded
  <2>3. Base' = Base
    BY <1>1 DEF Base
  <2> QED BY <1>1, <1>2, <1>5, <2>2, <2>3 DEF Written
<1> QED BY <1>1, <1>3, <1>4, <1>5 DEF Inv, Faithful

(* A new document begins where the last one has ended.                     *)
LEMMA BeginsAt ==
  ASSUME Inv, pc = "idle", ~d, w' = NewDocument(w.sink), docs' = docs
  PROVE  /\ Sane(w') /\ w'.open = 0 /\ Plain(w)'
         /\ errors = 0 /\ ~replaced => ~w'.sink.refused /\ Has(w, Base, <<>>)'
<1>1. PICK s : s = w.sink
  OBVIOUS
<1>2. SinkSane(s) /\ docs \in Seq(Record)
  BY <1>1 DEF Inv, Typed, Sane
<1>3. PICK u : u = w'
  OBVIOUS
<1>4. Sane(u) /\ u.sink = s /\ u.open = 0 /\ Plain(u) /\ All(u) = s.data
  BY <1>1, <1>2, <1>3, NewDocumentIs
<1>5. Base' = Base
  BY DEF Base
<1>6. ASSUME errors = 0, ~replaced
      PROVE  ~u.sink.refused /\ Has(u, Base, <<>>)
  <2>1. ~s.refused /\ Bare(s.data) = Base
    BY <1>1, <1>6 DEF Inv, Faithful, Written
  <2>2. PICK b : b = Base
    OBVIOUS
  <2>3. b \in Seq(ItemType)
    BY <1>2, <2>2, BaseType
  <2>4. b \o <<>> = b
    BY <2>3
  <2> QED BY <1>4, <2>1, <2>2, <2>4 DEF Has
<1>7. Plain(w)'
  BY <1>3, <1>4 DEF Plain
<1>8. Has(u, Base, <<>>) => Has(w, Base, <<>>)'
  BY <1>3, <1>5 DEF Has
<1> QED BY <1>3, <1>4, <1>6, <1>7, <1>8

LEMMA BeginStep ==
  ASSUME Inv, BeginEncryption
  PROVE  Inv'
<1>1. SUFFICES ASSUME ~d, pc = "idle", NewPrivate(rcpts, <<>>),
                      UNCHANGED <<rcpts, call, docs, errors, replaced>>
               PROVE  Inv'
  BY RefuseStep DEF BeginEncryption
<1>2. /\ d' = TRUE /\ files' = <<>> /\ w' = NewDocument(w.sink)
      /\ accepted' = rcpts /\ given' = <<>> /\ UNCHANGED <<pc, op, next, src>>
  BY <1>1 DEF NewPrivate, call
<1>3. /\ Sane(w') /\ w'.open = 0 /\ Plain(w)'
      /\ errors = 0 /\ ~replaced => ~w'.sink.refused /\ Has(w, Base, <<>>)'
  BY <1>1, <1>2, BeginsAt
<1>4. Typed'
  <2>1. files' \in Seq(File) /\ given' \in Seq(File)
    BY <1>2
  <2> QED BY <1>1, <1>2, <1>3, <2>1 DEF Inv, Typed
<1>5. Shape'
  BY <1>1, <1>2 DEF Inv, Shape
<1>6. Recorded'
  <2>1. op = "finish"
    BY <1>1 DEF Inv, Shape
  <2> QED BY <1>1, <1>2, <2>1 DEF Recorded
<1>7. errors = 0 /\ ~replaced => Written'
  BY <1>1, <1>2, <1>3 DEF Written
<1> QED BY <1>1, <1>4, <1>5, <1>6, <1>7 DEF Inv, Faithful

(* addFile and writeData record the files as they are given.               *)
LEMMA RecordStep ==
  ASSUME Inv, d, pc = "idle", files' \in Seq(File), given' = files',
         UNCHANGED <<rcpts, d, w, call, docs, accepted, begun, errors, replaced>>
  PROVE  Inv'
<1>1. UNCHANGED <<pc, op, next, src>>
  BY DEF call
<1>2. Typed'
  BY <1>1 DEF Inv, Typed
<1>3. Shape'
  BY <1>1 DEF Inv, Shape
<1>4. ASSUME Recorded, Written PROVE Recorded' /\ Written'
  <2>1. op = "finish"
    BY DEF Inv, Shape
  <2>2. Recorded'
    BY <1>1, <1>4, <2>1 DEF Recorded
  <2>3. Base' = Base
    BY DEF Base
  <2>4. ~w.sink.refused /\ w.open = 0 /\ Plain(w) /\ Has(w, Base, <<>>)
    BY <1>4 DEF Written
  <2>5. ~w'.sink.refused /\ w'.open = 0 /\ Plain(w)' /\ Has(w, Base, <<>>)'
    BY <2>3, <2>4 DEF Has, Plain
  <2> QED BY <1>1, <2>2, <2>5 DEF Written
<1> QED BY <1>2, <1>3, <1>4 DEF Inv, Faithful

LEMMA AddFileStep ==
  ASSUME Inv, NEW size \in Sizes, AddFile(size)
  PROVE  Inv'
<1>1. CASE ~d
  BY <1>1, RefuseStep DEF AddFile
<1>2. CASE d
  <2>1. PICK file : file = [size |-> size, data |-> 0]
    OBVIOUS
  <2>2. file \in File
    BY <2>1, InputAssumption DEF File
  <2>3. /\ pc = "idle" /\ files' = Append(files, file) /\ given' = files'
        /\ UNCHANGED <<rcpts, d, w, call, docs, accepted, begun, errors, replaced>>
    BY <1>2, <2>1 DEF AddFile
  <2>4. files' \in Seq(File)
    BY <2>2, <2>3 DEF Inv, Typed
  <2> QED BY <1>2, <2>3, <2>4, RecordStep
<1> QED BY <1>1, <1>2

LEMMA WriteDataStep ==
  ASSUME Inv, NEW n \in 1 .. MaxData, WriteData(n)
  PROVE  Inv'
<1>1. CASE ~d
  BY <1>1, RefuseStep DEF WriteData
<1>2. CASE d /\ files = <<>>
  <2>1. pc = "idle" /\ pc' = "crashed" /\ UNCHANGED <<rcpts, d, files, w, op, next, src, ret, history>>
    BY <1>2 DEF WriteData
  <2>2. UNCHANGED <<docs, accepted, given, errors, replaced>>
    BY <2>1 DEF history
  <2>3. Typed'
    BY <2>1, <2>2 DEF Inv, Typed
  <2>4. Shape'
    BY <2>1 DEF Inv, Shape
  <2>5. Recorded => Recorded'
    BY <2>1, <2>2 DEF Recorded, Inv, Shape
  <2>6. Written'
    BY <2>1 DEF Written
  <2> QED BY <2>2, <2>3, <2>4, <2>5, <2>6 DEF Inv, Faithful
<1>3. CASE d /\ files # <<>>
  <2>1. /\ pc = "idle" /\ files' = [files EXCEPT ![Len(files)].data = @ + n] /\ given' = files'
        /\ UNCHANGED <<rcpts, d, w, call, docs, accepted, begun, errors, replaced>>
    BY <1>3 DEF WriteData
  <2>2. files \in Seq(File) /\ Len(files) \in 1 .. Len(files)
    BY <1>3 DEF Inv, Typed
  <2>3. PICK f : f = files[Len(files)]
    OBVIOUS
  <2>4. f \in File
    BY <2>2, <2>3
  <2>5. f.data + n \in Nat
    BY <2>4, BoundAssumption DEF File
  <2>6. PICK g : g = [f EXCEPT !.data = f.data + n]
    OBVIOUS
  <2>7. g \in File
    BY <2>4, <2>5, <2>6 DEF File
  <2>8. files' = [files EXCEPT ![Len(files)] = g]
    BY <2>1, <2>3, <2>6
  <2>9. files' \in Seq(File)
    BY <2>2, <2>7, <2>8
  <2> QED BY <1>3, <2>1, <2>9, RecordStep
<1> QED BY <1>1, <1>2, <1>3

LEMMA FinishStep ==
  ASSUME Inv, FinishEncryption
  PROVE  Inv'
<1>1. CASE ~d \/ files = <<>>
  BY <1>1, RefuseStep DEF FinishEncryption
<1>2. CASE ~(~d \/ files = <<>>)
  <2>1. /\ pc = "idle" /\ pc' = "head" /\ op' = "finish" /\ next' = 1 /\ d
        /\ UNCHANGED <<rcpts, d, files, w, src, docs, accepted, given, begun, errors, replaced>>
    BY <1>2 DEF FinishEncryption, history
  <2>2. op = "finish"
    BY <2>1 DEF Inv, Shape
  <2>3. Typed'
    BY <2>1 DEF Inv, Typed
  <2>4. Shape'
    BY <2>1 DEF Inv, Shape
  <2>5. ASSUME Recorded, Written PROVE Recorded' /\ Written'
    <3>1. Recorded'
      BY <2>1, <2>2, <2>5 DEF Recorded
    <3>2. Base' = Base
      BY <2>1 DEF Base
    <3>3. w.open = 0 /\ Plain(w) /\ Has(w, Base, <<>>)
      BY <2>1, <2>5 DEF Written
    <3>4. w'.open = 0 /\ Plain(w)' /\ Has(w, Base, <<>>)'
      BY <2>1, <3>2, <3>3 DEF Has, Plain
    <3> QED BY <2>1, <3>1, <3>4 DEF Written
  <2> QED BY <2>1, <2>3, <2>4, <2>5 DEF Inv, Faithful
<1> QED BY <1>1, <1>2

(* encrypt, which takes its recipients even when a document is open.       *)
LEMMA EncryptStep ==
  ASSUME Inv, NEW keys \in Seq(RecipientKinds), NEW fs \in Seq(File), NEW counts \in BOOLEAN,
         Encrypt(keys, [files |-> fs, counts |-> counts, got |-> 0])
  PROVE  Inv'
<1>0. PICK s : s = [files |-> fs, counts |-> counts, got |-> 0]
  OBVIOUS
<1>1. /\ s \in [files : Seq(File), counts : BOOLEAN, got : Nat] /\ s.got = 0
      /\ s.files \in Seq(File)
  BY <1>0
<1>2. CASE keys = <<>>
  BY <1>2, RefuseStep DEF Encrypt
<1>3. CASE keys # <<>> /\ d
  <2>1. /\ pc = "idle" /\ rcpts' = keys /\ replaced' = (replaced \/ keys # accepted)
        /\ UNCHANGED <<d, files, w, call, docs, accepted, given, begun, errors>>
    BY <1>3 DEF Encrypt
  <2>2. UNCHANGED <<pc, op, next, src>>
    BY <2>1 DEF call
  <2>3. Typed'
    <3>1. replaced' \in BOOLEAN
      BY <2>1
    <3> QED BY <2>1, <2>2, <3>1 DEF Inv, Typed
  <2>4. Shape'
    BY <2>1, <2>2 DEF Inv, Shape
  <2>5. ASSUME errors' = 0, ~replaced' PROVE Recorded' /\ Written'
    <3>1. keys = accepted /\ Recorded /\ Written
      BY <2>1, <2>5 DEF Inv, Faithful
    <3>2. Recorded'
      BY <2>1, <2>2, <3>1 DEF Recorded, Sources1, UseDdoc, Inv, Shape
    <3>3. Base' = Base
      BY <2>1 DEF Base
    <3>4. ~w.sink.refused /\ w.open = 0 /\ Plain(w) /\ Has(w, Base, <<>>)
      BY <1>3, <2>1, <3>1 DEF Written
    <3>5. ~w'.sink.refused /\ w'.open = 0 /\ Plain(w)' /\ Has(w, Base, <<>>)'
      BY <2>1, <3>3, <3>4 DEF Has, Plain
    <3> QED BY <1>3, <2>1, <2>2, <3>2, <3>5 DEF Written
  <2> QED BY <2>3, <2>4, <2>5 DEF Inv, Faithful
<1>4. CASE keys # <<>> /\ ~d
  <2>1. /\ pc = "idle" /\ rcpts' = keys
        /\ NewPrivate(keys, IF s.files = <<>> /\ s.counts THEN <<Nameless>> ELSE s.files)
        /\ pc' = "head" /\ op' = "encrypt" /\ next' = 1 /\ src' = s
        /\ UNCHANGED <<ret, docs, errors, replaced>>
    BY <1>0, <1>4 DEF Encrypt
  <2>2. /\ d' = TRUE /\ files' = <<>> /\ w' = NewDocument(w.sink)
        /\ accepted' = keys
        /\ given' = (IF s.files = <<>> /\ s.counts THEN <<Nameless>> ELSE s.files)
    BY <2>1 DEF NewPrivate
  <2>3. /\ Sane(w') /\ w'.open = 0 /\ Plain(w)'
        /\ errors = 0 /\ ~replaced => ~w'.sink.refused /\ Has(w, Base, <<>>)'
    BY <1>4, <2>1, <2>2, BeginsAt
  <2>4. Typed'
    <3>1. files' \in Seq(File) /\ Nameless \in File
      BY <2>2 DEF Nameless, File
    <3>2. given' \in Seq(File)
      BY <1>1, <2>2, <3>1
    <3> QED BY <1>1, <2>1, <2>2, <2>3, <3>1, <3>2 DEF Inv, Typed
  <2>5. Shape'
    BY <1>1, <2>1, <2>2 DEF Inv, Shape
  <2>6. Recorded'
    <3>1. given' = Sources1'
      BY <2>1, <2>2 DEF Sources1
    <3> QED BY <2>1, <2>2, <3>1 DEF Recorded
  <2>7. errors = 0 /\ ~replaced => Written'
    BY <2>1, <2>2, <2>3 DEF Written
  <2> QED BY <2>1, <2>4, <2>5, <2>6, <2>7 DEF Inv, Faithful
<1> QED BY <1>2, <1>3, <1>4

LEMMA BoundedIsSeq ==
  ASSUME NEW S, NEW n \in Nat, NEW s \in BoundedSeq(S, n)
  PROVE  s \in Seq(S)
<1>1. PICK m \in 0 .. n : s \in [1 .. m -> S]
  BY DEF BoundedSeq, SeqOf
<1> QED BY <1>1

(* The steps that write the document.                                      *)
Writing ==
  \/ WriteHead \/ WriteRecipient \/ OpenPayload \/ WriteFile \/ LastFile
  \/ NextFile \/ CopyBlock \/ FileDone \/ SourceEnd \/ SourceError
  \/ ClosePayload \/ WriteProperties

LEMMA FailKeeps ==
  ASSUME NEW S, FailWith(S)
  PROVE  docs' = docs
  BY DEF FailWith

LEMMA StepKeeps ==
  ASSUME NEW S, NEW then, NEW i, Step(S, then, i)
  PROVE  docs' = docs
  BY FailKeeps DEF Step, Rest

(* Only the call that ends a document records it.                          *)
LEMMA WritingKeeps ==
  ASSUME Inv, Writing
  PROVE  docs' = docs
<1>1. CASE WriteHead
  BY <1>1, StepKeeps DEF WriteHead
<1>2. CASE WriteRecipient
  <2>1. CASE rcpts[next] = "cert" /\ Step(TextWrite(w, <<Item("key", next, 0)>>), "keys", next + 1)
    BY <2>1, StepKeeps
  <2>2. CASE FailWith({Done(w)} \cup TextWrite(w, <<Part("badkey")>>))
    BY <2>2, FailKeeps
  <2>3. CASE FailWith({Done(w)})
    BY <2>3, FailKeeps
  <2>4. rcpts[next] \in {"cert", "broken", "other"}
    <3>1. /\ pc = "keys" /\ next <= Len(rcpts) /\ next \in Nat /\ next - 1 \in 0 .. Len(rcpts)
          /\ rcpts \in Seq(RecipientKinds)
      BY <1>2 DEF WriteRecipient, Inv, Typed, Shape
    <3>2. next \in 1 .. Len(rcpts)
      BY <3>1
    <3>3. rcpts[next] \in RecipientKinds
      BY <3>1, <3>2
    <3> QED BY <3>3, InputAssumption
  <2> QED BY <1>2, <2>1, <2>2, <2>3, <2>4 DEF WriteRecipient
<1>3. CASE OpenPayload
  BY <1>3, StepKeeps DEF OpenPayload
<1>4. CASE WriteFile
  BY <1>4, StepKeeps, Zenon DEF WriteFile
<1>5. CASE LastFile \/ NextFile
  BY <1>5, StepKeeps DEF LastFile, NextFile
<1>6. CASE CopyBlock \/ FileDone
  BY <1>6, FailKeeps DEF CopyBlock, FileDone, Rest
<1>7. CASE SourceEnd
  BY <1>7 DEF SourceEnd, Rest
<1>8. CASE SourceError
  BY <1>8, FailKeeps DEF SourceError
<1>9. CASE ClosePayload
  BY <1>9, StepKeeps DEF ClosePayload
<1>10. CASE WriteProperties
  BY <1>10, StepKeeps, Zenon DEF WriteProperties
<1> QED BY <1>1, <1>2, <1>3, <1>4, <1>5, <1>6, <1>7, <1>8, <1>9, <1>10 DEF Writing

LEMMA NextStep ==
  ASSUME DstKind = "stream", Owned, Inv, [Next]_vars
  PROVE  Inv'
<1>1. CASE UNCHANGED vars
  <2>1. UNCHANGED <<rcpts, d, files, w, pc, op, next, src, docs, accepted, given, errors, replaced>>
    BY <1>1 DEF vars
  <2>2. Typed'
    BY <2>1 DEF Inv, Typed
  <2>3. Shape'
    BY <2>1 DEF Inv, Shape
  <2>4. Base' = Base /\ UseDdoc' = UseDdoc /\ Recips' = Recips
    BY <2>1 DEF Base, UseDdoc, Recips
  <2>5. Recorded => Recorded'
    BY <2>1 DEF Recorded, Sources1, UseDdoc
  <2>6. Written => Written'
    BY <2>1, <2>4 DEF Written, Has, Plain
  <2> QED BY <2>1, <2>2, <2>3, <2>5, <2>6 DEF Inv, Faithful
<1>2. CASE \E kind \in RecipientKinds : AddRecipient(kind)
  BY <1>2, AddRecipientStep
<1>3. CASE BeginEncryption
  BY <1>3, BeginStep
<1>4. CASE \E size \in Sizes : AddFile(size)
  BY <1>4, AddFileStep
<1>5. CASE \E n \in 1 .. MaxData : WriteData(n)
  BY <1>5, WriteDataStep
<1>6. CASE FinishEncryption
  BY <1>6, FinishStep
<1>7. CASE \E keys \in BoundedSeq(RecipientKinds, MaxRecipients), fs \in Sources, counts \in Counts :
             Encrypt(keys, [files |-> fs, counts |-> counts, got |-> 0])
  <2>1. PICK keys \in BoundedSeq(RecipientKinds, MaxRecipients), fs \in Sources, counts \in Counts :
          Encrypt(keys, [files |-> fs, counts |-> counts, got |-> 0])
    BY <1>7
  <2>2. keys \in Seq(RecipientKinds)
    BY BoundAssumption, BoundedIsSeq
  <2>3. fs \in Seq(File) /\ counts \in BOOLEAN
    BY InputAssumption
  <2> QED BY <2>1, <2>2, <2>3, EncryptStep
<1>8. CASE Writing
  BY <1>8, HeadStep, RecipientStep, OpenStep, FileStep, LastFileStep, NextFileStep, CopyStep,
     FileDoneStep, SourceEndStep, SourceErrorStep, ClosePayloadStep, WritePropertiesStep
     DEF Writing
<1>9. CASE Close
  BY <1>9, CloseStep
<1> QED BY <1>1, <1>2, <1>3, <1>4, <1>5, <1>6, <1>7, <1>8, <1>9 DEF Next, Writing

----------------------------------------------------------------------------
(* THEOREMS                                                                *)

(* What the chain of text writer, base64, cipher and DDOC writer holds at  *)
(* every step of writeDocument (CDoc1Writer.cpp): the documents that were  *)
(* finished and as much of the current one as has been written, unless the *)
(* file has refused something or a call has failed.                        *)
THEOREM Cdoc1WriterInvariant ==
  ASSUME DstKind = "stream", Owned
  PROVE  Spec => []Inv
<1>1. Init => Inv
  BY InitInv
<1>2. Inv /\ [Next]_vars => Inv'
  BY NextStep
<1> QED BY <1>1, <1>2, PTL DEF Spec

(* For every number of recipients, files, units and documents: while no    *)
(* call has failed, a file that finishEncryption and encrypt own and close *)
(* holds exactly the documents asked for, one after the other, each with   *)
(* every unit of every file once and in order (CDoc1Writer.cpp:            *)
(* writeDocument).                                                         *)
THEOREM Cdoc1FinishExact ==
  ASSUME DstKind = "stream", Owned
  PROVE  Spec => []FinishExact
<1>1. Inv => FinishExact
  BY DEF Inv, Faithful, Written, FinishExact, Base
<1> QED BY <1>1, Cdoc1WriterInvariant, PTL

(* Whatever has failed before: a call of CDoc1Writer reports a document as *)
(* written only when the file has taken everything it was ever given.      *)
THEOREM Cdoc1OkMeansTaken ==
  ASSUME DstKind = "stream", Owned
  PROVE  Spec => OkMeansTaken
<1>1. ASSUME Inv, [Next]_vars PROVE docs' # docs => ~w'.sink.refused
  <2>1. SUFFICES ASSUME docs' # docs PROVE ~w'.sink.refused
    OBVIOUS
  <2>2. CASE Close
    <3>1. Typed
      BY <1>1 DEF Inv
    <3>2. PICK o \in TextClose(w) : \E c : ClosedAs(o, c)
      BY <2>2, <3>1, ClosedIs
    <3>3. PICK c : ClosedAs(o, c)
      BY <3>2
    <3> QED BY <2>1, <3>3 DEF ClosedAs
  <2>3. CASE ~Close
    <3>1. CASE UNCHANGED vars
      BY <2>1, <3>1 DEF vars
    <3>2. CASE Writing
      BY <1>1, <2>1, <3>2, WritingKeeps
    <3>3. CASE ~Writing /\ ~UNCHANGED vars
      BY <1>1, <2>1, <2>3, <3>3 DEF Next, Writing, AddRecipient, BeginEncryption, AddFile,
         WriteData, FinishEncryption, Encrypt, Refuse, history
    <3> QED BY <3>1, <3>2, <3>3
  <2> QED BY <2>2, <2>3
<1>2. Inv /\ [Next]_vars => [docs' # docs => ~w'.sink.refused]_vars
  BY <1>1
<1> QED BY <1>2, Cdoc1WriterInvariant, PTL DEF Spec, OkMeansTaken
=============================================================================
