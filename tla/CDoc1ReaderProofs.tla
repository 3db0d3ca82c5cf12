------------------------- MODULE CDoc1ReaderProofs -------------------------
(***************************************************************************)
(* The properties of CDoc1Reader, for all containers, any number of files  *)
(* and attempts, and every order of the calls.                             *)
(*                                                                         *)
(* What is found in a payload that was sealed and is well-formed is known  *)
(* (ViewSealed), and the invariants follow it through the calls: into      *)
(* files, through the consumer (Handed), and out of nextFile and readData  *)
(* (Serving).  The latter relies on Parsed: once a file was served no      *)
(* other payload is decrypted, and until then src refers to nothing.       *)
(***************************************************************************)
EXTENDS CDoc1Reader, TLAPS

(* A file that was found.                                                  *)
FoundFile == [n : Nat, got : Nat, exact : BOOLEAN]

(* The payload is the one that was sealed, and well-formed; what there is  *)
(* to find in it then.                                                     *)
Sealed == Authentic(last.key) /\ ~doc.broken
Whole  == Exact(doc, Len(doc.files))
Sight(w) == [files |-> w, error |-> FALSE, read |-> TRUE]

CallNames == {"none", "begin", "decrypt", "finish"}
TypeOK ==
  /\ doc \in Containers /\ delays \in Nat /\ attempts \in Nat
  /\ fpos \in Int /\ fpos >= -1 /\ DOMAIN src = {"file", "pos"}
  /\ last \in [call : CallNames, key : BOOLEAN]
  /\ pc \in {"idle", "begin", "open", "write", "close", "end"}

(* A call that decrypts has found nothing parsed.                          *)
Calling ==
  pc # "idle" =>
    /\ files = <<>> /\ fpos = -1 /\ served = <<>>
    /\ last.call = IF pc = "begin" THEN "begin" ELSE "decrypt"
    /\ Sealed => view = Sight(Whole)

(* What decrypt has handed over, o, when it is at l: some of the files w,  *)
(* and a part of the next one, which is not complete yet.                  *)
Prefix(w, o, m) == m \in 0 .. Len(w) /\ \A i \in 1 .. m : o[i] = w[i]
Partly(w, o, m) ==
  /\ m \in 1 .. Len(w) /\ Prefix(w, o, m - 1)
  /\ o[m].n = m /\ o[m].exact = FALSE /\ o[m].got \in 0 .. w[m].got
Handing(w, l, o) ==
  /\ o \in Seq(FoundFile)
  /\ l \in {"open", "end"} => Prefix(w, o, Len(o))
  /\ l = "open" => Len(o) < Len(w)
  /\ l \in {"write", "close"} => Partly(w, o, Len(o))
  /\ l = "close" => o[Len(o)].got = w[Len(o)].got
Handed == Sealed /\ pc \notin {"idle", "begin"} => Handing(Whole, pc, out)

(* What was served, s, when f_pos is p and the last call returned v, and   *)
(* where src, x, stands.                                                   *)
Serves(w, p, x, v, s) ==
  /\ s \in Seq(FoundFile)
  /\ Len(s) = IF p + 1 < Len(w) THEN p + 1 ELSE Len(w)
  /\ \A i \in 1 .. Len(s) : s[i].n = i /\ s[i].exact = TRUE /\ s[i].got <= w[i].got
  /\ x # None => Len(s) > 0 /\ x.file = Len(s) /\ x.pos = s[Len(s)].got
  /\ v = END => Len(s) = Len(w)
Serving ==
  /\ fpos = -1 => src = None
  /\ Accepted /\ files = <<>> => fpos = -1 /\ served = <<>> /\ (pc = "idle" => ret # END)
  /\ Accepted /\ files # <<>> => files = Whole /\ Serves(Whole, fpos, src, ret, served)

Inv == TypeOK /\ Calling /\ Handed /\ Serving

----------------------------------------------------------------------------
(* What is found.                                                          *)

LEMMA ExactType ==
  ASSUME NEW c \in Containers
  PROVE  /\ Len(c.files) \in Nat
         /\ Exact(c, Len(c.files)) \in Seq(FoundFile) /\ Len(Exact(c, Len(c.files))) = Len(c.files)
         /\ \A i \in 1 .. Len(c.files) :
              /\ c.files[i] \in Nat
              /\ Exact(c, Len(c.files))[i] = [n |-> i, got |-> c.files[i], exact |-> TRUE]
<1>1. c.files \in Seq(Nat)
  BY ContainersAssumption DEF Container
<1>2. PICK n \in Nat : n = Len(c.files)
  BY <1>1
<1>3. \A i \in 1 .. n : c.files[i] \in Nat /\ [n |-> i, got |-> c.files[i], exact |-> TRUE] \in FoundFile
  BY <1>1, <1>2 DEF FoundFile
<1>4. Exact(c, n) = [i \in 1 .. n |-> [n |-> i, got |-> c.files[i], exact |-> TRUE]]
  BY DEF Exact, Found
<1>5. Exact(c, n) \in Seq(FoundFile) /\ Len(Exact(c, n)) = n
  BY <1>3, <1>4
<1> QED BY <1>2, <1>3, <1>4, <1>5

LEMMA ExactAt ==
  ASSUME NEW c \in Containers, NEW i \in 1 .. Len(c.files)
  PROVE  Exact(c, Len(c.files))[i] = [n |-> i, got |-> c.files[i], exact |-> TRUE]
BY ExactType

LEMMA UnitsType ==
  ASSUME NEW c \in Containers, NEW i \in 1 .. Len(c.files)
  PROVE  c.files[i] \in Nat
BY ExactType

(* The parser of a DDOC and the one of a single file find the same.        *)
LEMMA ViewSealed ==
  ASSUME NEW key, doc \in Containers, Authentic(key), ~doc.broken, NEW v \in Views(key)
  PROVE  v = Sight(Whole)
<1>1. CASE doc.ddoc
  <2>1. v \in DdocViews(doc, Authentic(key))
    BY <1>1 DEF Views
  <2>2. v = [files |-> Exact(doc, Len(doc.files)), error |-> FALSE, read |-> TRUE]
    <3> DEFINE n == Len(doc.files)
               Noise == {[files |-> [i \in 1 .. k |-> Found(i, doc.files[i], i <= e)], error |-> FALSE, read |-> r]
                           : k \in 0 .. n, e \in 0 .. n, r \in BOOLEAN}
               Cut == {Exact(doc, doc.cut)} \cup
                       (IF doc.cut < n
                        THEN {Append(Exact(doc, doc.cut), Found(doc.cut + 1, 0, FALSE))} ELSE {})
               Part == {[files |-> fs, error |-> FALSE, read |-> r] : r \in BOOLEAN, fs \in Cut}
    <3>1. DdocViews(doc, Authentic(key))
            = IF ~Authentic(key) THEN Noise
              ELSE IF ~doc.broken THEN {[files |-> Exact(doc, n), error |-> FALSE, read |-> TRUE]}
              ELSE Part
      BY DEF DdocViews
    <3> HIDE DEF Noise, Part
    <3> QED BY <2>1, <3>1
  <2> QED BY <2>1, <2>2 DEF Sight, Whole
<1>2. CASE ~doc.ddoc
  <2>1. Len(doc.files) = 1
    BY <1>2, ContainersAssumption
  <2>2. v \in FileViews(doc, Authentic(key))
    BY <1>2 DEF Views
  <2>3. v = [files |-> <<Found(1, doc.files[1], TRUE)>>, error |-> FALSE, read |-> TRUE]
    <3> DEFINE Parts == {[files |-> <<Found(1, k, FALSE)>>, error |-> TRUE, read |-> r]
                           : k \in 0 .. doc.files[1], r \in BOOLEAN}
               W(exact) == [files |-> <<Found(1, doc.files[1], exact)>>, error |-> FALSE, read |-> TRUE]
    <3>1. FileViews(doc, Authentic(key))
            = IF ~Authentic(key) THEN {W(TRUE), W(FALSE)} \cup (IF doc.zlib THEN Parts ELSE {})
              ELSE IF doc.broken THEN Parts ELSE {W(TRUE)}
      BY DEF FileViews
    <3> HIDE DEF Parts
    <3> QED BY <2>2, <3>1
  <2>4. Exact(doc, 1) = <<Found(1, doc.files[1], TRUE)>>
    <3>1. PICK x : x = Found(1, doc.files[1], TRUE)
      OBVIOUS
    <3>2. Exact(doc, 1) = [i \in 1 .. 1 |-> x]
      BY <3>1 DEF Exact
    <3>3. <<x>> = [i \in 1 .. 1 |-> x]
      OBVIOUS
    <3> QED BY <3>1, <3>2, <3>3
  <2> QED BY <2>1, <2>3, <2>4 DEF Sight, Whole
<1> QED BY <1>1, <1>2

----------------------------------------------------------------------------
(* The invariant, action by action.                                        *)

LEMMA InitInv == Init => Inv
<1> SUFFICES ASSUME Init PROVE Inv
  OBVIOUS
<1>1. TypeOK
  <2>1. "none" \in CallNames /\ FALSE \in BOOLEAN
    BY DEF CallNames
  <2>2. last \in [call : CallNames, key : BOOLEAN]
    BY <2>1 DEF Init
  <2>3. DOMAIN src = {"file", "pos"}
    BY DEF Init, None
  <2> QED BY <2>2, <2>3 DEF Init, TypeOK
<1>2. Calling /\ Handed
  BY DEF Init, Calling, Handed
<1>3. Serving
  BY DEF Init, Serving, Accepted
<1> QED BY <1>1, <1>2, <1>3 DEF Inv

(* A call that only returns something else than END_OF_STREAM.             *)
LEMMA QuietStep ==
  ASSUME Inv, UNCHANGED <<doc, files, fpos, src, pc, view, out, delays, attempts, last, served>>,
         ret' # END
  PROVE  Inv'
<1>1. TypeOK'
  BY DEF Inv, TypeOK
<1>2. Sealed' = Sealed /\ Whole' = Whole /\ Accepted' = Accepted
  BY DEF Sealed, Whole, Accepted, Authentic
<1>3. Calling' /\ Handed'
  BY <1>2 DEF Inv, Calling, Handed
<1>4. PICK w, p, x, v, s, v1 : w = Whole /\ p = fpos /\ x = src /\ v = ret /\ s = served /\ v1 = ret'
  OBVIOUS
<1>5. Serves(w, p, x, v, s) => Serves(w, p, x, v1, s)
  BY <1>4 DEF Serves
<1>6. Serving'
  BY <1>2, <1>4, <1>5 DEF Inv, Serving
<1> QED BY <1>1, <1>3, <1>6 DEF Inv

LEMMA RefuseStep ==
  ASSUME Inv, Refuse
  PROVE  Inv'
BY QuietStep DEF Refuse, Reader, ERR, END

LEMMA GetFMKStep ==
  ASSUME Inv, NEW isRSA, NEW ok, GetFMK(isRSA, ok)
  PROVE  Inv'
BY QuietStep DEF GetFMK, Reader, OK, ERR, END

LEMMA DecryptDataStep ==
  ASSUME Inv, NEW key \in BOOLEAN, NEW call, NEW then,
         \/ call = "begin" /\ then = "begin"
         \/ call = "decrypt" /\ then = IF doc.ddoc THEN "end" ELSE "open",
         DecryptData(call, key, then)
  PROVE  Inv'
<1>1. CASE Refuse
  BY <1>1, RefuseStep
<1>2. CASE /\ ~Parsed /\ doc.value # "none" /\ attempts < MaxAttempts
           /\ attempts' = attempts + 1 /\ last' = [call |-> call, key |-> key]
           /\ fault' = FALSE /\ served' = <<>>
           /\ IF doc.value = "short"
              THEN /\ ret' = ERR /\ ReportFailure
                   /\ UNCHANGED <<pc, view, out>>
              ELSE /\ pc' = then /\ view' \in Views(key)
                   /\ out' = IF call = "decrypt" THEN <<>> ELSE out
                   /\ UNCHANGED <<ret, delays>>
           /\ UNCHANGED <<doc, rsa, Reader>>
  <2>1. /\ files = <<>> /\ fpos = -1 /\ src = None /\ pc = "idle"
        /\ files' = <<>> /\ fpos' = -1 /\ src' = src /\ served' = <<>> /\ doc' = doc
    BY <1>2 DEF Parsed, Reader, Inv, Serving, DecryptData
  <2>2. TypeOK'
    <3>1. delays' \in Nat
      BY <1>2 DEF Inv, TypeOK, ReportFailure
    <3>2. pc' \in {"idle", "begin", "open", "end"}
      BY <1>2, <2>1
    <3>3. last' \in [call : CallNames, key : BOOLEAN]
      <4>1. call \in CallNames
        BY DEF CallNames
      <4> QED BY <1>2, <4>1
    <3> QED BY <1>2, <2>1, <3>1, <3>2, <3>3 DEF Inv, TypeOK
  <2>3. CASE doc.value = "short"
    <3>1. pc' = "idle" /\ ret' = ERR
      BY <1>2, <2>1, <2>3
    <3>2. Calling' /\ Handed'
      BY <3>1 DEF Calling, Handed
    <3>3. Serving'
      BY <2>1, <3>1 DEF Serving, ERR, END
    <3> QED BY <2>2, <3>2, <3>3 DEF Inv
  <2>4. CASE doc.value # "short"
    <3>1. pc' = then /\ view' \in Views(key) /\ out' = IF call = "decrypt" THEN <<>> ELSE out
      BY <1>2, <2>4
    <3>2. pc' # "idle"
      BY <3>1
    <3>3. Whole' = Whole /\ (Sealed' <=> Authentic(key) /\ ~doc.broken) /\ last'.call = call
      BY <1>2, <2>1 DEF Whole, Sealed, Authentic
    <3>4. Sealed' => view' = Sight(Whole)
      <4>1. doc \in Containers
        BY DEF Inv, TypeOK
      <4> QED BY <3>1, <3>3, <4>1, ViewSealed
    <3>5. Calling'
      BY <2>1, <3>1, <3>3, <3>4 DEF Calling
    <3>6. Handed'
      <4> SUFFICES ASSUME pc' # "begin" PROVE Handing(Whole, then, <<>>)
        BY <3>1, <3>3 DEF Handed
      <4>1. doc \in Containers
        BY DEF Inv, TypeOK
      <4>2. PICK w : w = Whole /\ Len(w) = Len(doc.files) /\ Len(w) \in Nat
        BY <4>1, ExactType DEF Whole
      <4>3. <<>> \in Seq(FoundFile) /\ Len(<<>>) = 0
        OBVIOUS
      <4>4. Prefix(w, <<>>, 0)
        BY <4>2 DEF Prefix
      <4>5. then = "open" => 0 < Len(w)
        BY <4>1, <4>2, ContainersAssumption
      <4>6. then \in {"open", "end"}
        BY <3>1
      <4> QED BY <4>2, <4>3, <4>4, <4>5, <4>6 DEF Handing
    <3>7. Serving'
      BY <2>1, <3>2 DEF Serving
    <3> QED BY <2>2, <3>5, <3>6, <3>7 DEF Inv
  <2> QED BY <2>3, <2>4
<1> QED BY <1>1, <1>2 DEF DecryptData

LEMMA ReturnDelays ==
  ASSUME Inv, NEW r, Return(r)
  PROVE  delays' \in Nat /\ pc' = "idle" /\ ret' = r
BY DEF Return, ReportFailure, Inv, TypeOK

(* beginDecryption returns.                                                *)
LEMMA CollectStep ==
  ASSUME Inv, Collect
  PROVE  Inv'
<1>1. PICK r \in {OK, ERR} : Return(r)
  BY DEF Collect
<1>2. /\ pc' = "idle" /\ ret' # END /\ delays' \in Nat
      /\ UNCHANGED <<doc, fpos, src, out, attempts, last, served>>
      /\ files = <<>> /\ fpos = -1 /\ served = <<>> /\ src = None
  BY <1>1, ReturnDelays DEF Collect, Inv, Calling, Serving, OK, ERR, END
<1>3. TypeOK'
  BY <1>2 DEF Inv, TypeOK
<1>4. Calling' /\ Handed'
  BY <1>2 DEF Calling, Handed
<1>5. Whole' = Whole /\ Accepted' = Accepted
  BY <1>2 DEF Whole, Accepted, Authentic
<1>6. ASSUME Accepted PROVE files' = Whole
  <2>1. view = Sight(Whole)
    BY <1>6 DEF Accepted, Inv, Calling, Collect, Sealed
  <2>2. view.error = FALSE /\ view.files = Whole
    BY <2>1 DEF Sight
  <2> QED BY <2>2 DEF Collect
<1>7. PICK w, v1 : w = Whole /\ v1 = ret' /\ Len(w) \in Nat /\ (w # <<>> => Len(w) > 0)
  <2>1. Whole \in Seq(FoundFile)
    BY ExactType DEF Whole, Inv, TypeOK
  <2> QED BY <2>1
<1>8. w # <<>> => Serves(w, -1, None, v1, <<>>)
  <2>1. <<>> \in Seq(FoundFile) /\ Len(<<>>) = 0
    OBVIOUS
  <2> QED BY <1>2, <1>7, <2>1 DEF Serves
<1>9. Serving'
  BY <1>2, <1>5, <1>6, <1>7, <1>8 DEF Serving
<1> QED BY <1>3, <1>4, <1>9 DEF Inv

(* A step of decrypt.                                                      *)
LEMMA DecryptStep ==
  ASSUME Inv, pc \in {"open", "write", "close", "end"}, Rest, delays' \in Nat,
         \/ pc' = "idle"
         \/ pc' \in {"open", "write", "close", "end"} /\ view' = view
            /\ (Sealed => Handing(Whole, pc', out'))
  PROVE  Inv'
<1>1. UNCHANGED <<doc, rsa, files, fpos, src, attempts, last, served>>
  BY DEF Rest, Reader
<1>2. TypeOK'
  BY <1>1 DEF Inv, TypeOK
<1>3. Sealed' = Sealed /\ Whole' = Whole
  BY <1>1 DEF Sealed, Whole, Authentic
<1>4. last.call = "decrypt" /\ ~Accepted /\ ~Accepted'
  BY <1>1 DEF Inv, Calling, Accepted
<1>5. Calling'
  BY <1>1, <1>3 DEF Inv, Calling
<1>6. Handed'
  BY <1>3 DEF Handed
<1>7. Serving'
  BY <1>1, <1>4 DEF Inv, Serving
<1> QED BY <1>2, <1>5, <1>6, <1>7 DEF Inv

(* Its failures.                                                           *)
LEMMA FailedStep ==
  ASSUME Inv, pc \in {"open", "write", "close", "end"}, Rest, NEW r, Return(r)
  PROVE  Inv'
<1>1. delays' \in Nat /\ pc' = "idle"
  BY ReturnDelays
<1> QED BY <1>1, DecryptStep

(* What a step that goes on starts from.                                   *)
LEMMA HandedIs ==
  ASSUME Inv, Sealed, pc \in {"open", "write", "close", "end"}
  PROVE  /\ view = Sight(Whole) /\ view.files = Whole /\ view.error = FALSE
         /\ Handing(Whole, pc, out) /\ out \in Seq(FoundFile)
         /\ Whole \in Seq(FoundFile) /\ Len(Whole) = Len(doc.files)
         /\ \A i \in 1 .. Len(Whole) :
              Whole[i].n = i /\ Whole[i].exact = TRUE /\ Whole[i].got = doc.files[i] /\ Whole[i].got \in Nat
<1>1. doc \in Containers
  BY DEF Inv, TypeOK
<1>2. view = Sight(Whole)
  BY DEF Inv, Calling
<1>3. view.files = Whole /\ view.error = FALSE
  BY <1>2 DEF Sight
<1>4. Handing(Whole, pc, out)
  BY DEF Inv, Handed
<1>5. /\ Whole \in Seq(FoundFile) /\ Len(Whole) = Len(doc.files)
      /\ \A i \in 1 .. Len(Whole) :
           Whole[i].n = i /\ Whole[i].exact = TRUE /\ Whole[i].got = doc.files[i] /\ Whole[i].got \in Nat
  <2>1. Whole \in Seq(FoundFile) /\ Len(Whole) = Len(doc.files)
    BY <1>1, ExactType DEF Whole
  <2>2. ASSUME NEW i \in 1 .. Len(doc.files)
        PROVE  /\ Whole[i].n = i /\ Whole[i].exact = TRUE
               /\ Whole[i].got = doc.files[i] /\ Whole[i].got \in Nat
    <3>1. Whole[i] = [n |-> i, got |-> doc.files[i], exact |-> TRUE]
      BY <1>1, ExactAt DEF Whole
    <3>2. doc.files[i] \in Nat
      BY <1>1, UnitsType
    <3> QED BY <3>1, <3>2
  <2> QED BY <2>1, <2>2
<1> QED BY <1>2, <1>3, <1>4, <1>5 DEF Handing

LEMMA NextDataFileStep ==
  ASSUME Inv, NextDataFile
  PROVE  Inv'
<1>1. pc = "end" /\ pc' = "open" /\ view' = view /\ out' = out /\ Rest /\ delays' = delays
  BY DEF NextDataFile, Goto
<1>2. delays' \in Nat
  BY <1>1 DEF Inv, TypeOK
<1>3. ASSUME Sealed PROVE Handing(Whole, "open", out)
  <2>1. Handing(Whole, "end", out) /\ Len(out) < Len(Whole)
    BY <1>1, <1>3, HandedIs DEF NextDataFile
  <2> QED BY <2>1 DEF Handing
<1> QED BY <1>1, <1>2, <1>3, DecryptStep

LEMMA OpenStep ==
  ASSUME Inv, Open
  PROVE  Inv'
<1>1. CASE Fault
  BY <1>1, FailedStep DEF Open, Fault
<1>2. CASE /\ out' = Append(out, Found(view.files[Len(out) + 1].n, 0, FALSE))
           /\ Goto("write")
  <2>1. pc = "open" /\ pc' = "write" /\ view' = view /\ Rest /\ delays' \in Nat
    BY <1>2 DEF Open, Goto, Inv, TypeOK
  <2>2. ASSUME Sealed PROVE Handing(Whole, "write", out')
    <3>1. PICK w, o, m, x, y :
            /\ w = Whole /\ o = out /\ m = Len(out) /\ y = out'
            /\ x = [n |-> w[m + 1].n, got |-> 0, exact |-> FALSE]
      OBVIOUS
    <3>2. /\ view.files = w /\ Handing(w, "open", o) /\ o \in Seq(FoundFile) /\ w \in Seq(FoundFile)
          /\ \A i \in 1 .. Len(w) : w[i].n = i /\ w[i].got \in Nat
      BY <2>1, <2>2, <3>1, HandedIs
    <3>3. m \in Nat /\ Len(w) \in Nat /\ m < Len(w) /\ Prefix(w, o, m) /\ m + 1 \in 1 .. Len(w)
      BY <3>1, <3>2 DEF Handing
    <3>4. x \in FoundFile /\ x.n = m + 1 /\ x.got = 0 /\ x.exact = FALSE
      BY <3>1, <3>2, <3>3 DEF FoundFile
    <3>5. y = Append(o, x)
      BY <1>2, <3>1, <3>2 DEF Found
    <3>6. /\ y \in Seq(FoundFile) /\ Len(y) = m + 1 /\ y[m + 1] = x
          /\ \A i \in 1 .. m : y[i] = o[i]
      BY <3>1, <3>2, <3>3, <3>4, <3>5
    <3>7. Prefix(w, y, m)
      BY <3>3, <3>6 DEF Prefix
    <3>8. Partly(w, y, m + 1)
      <4>1. (m + 1) - 1 = m /\ w[m + 1].got \in Nat
        BY <3>2, <3>3
      <4> QED BY <3>3, <3>4, <3>6, <3>7, <4>1 DEF Partly
    <3> QED BY <3>1, <3>6, <3>8 DEF Handing
  <2> QED BY <2>1, <2>2, DecryptStep
<1> QED BY <1>1, <1>2 DEF Open

(* A list with another element at m.                                       *)
LEMMA SetElement ==
  ASSUME NEW S, NEW s \in Seq(S), NEW m \in 1 .. Len(s), NEW x \in S, NEW y,
         y = [s EXCEPT ![m] = x]
  PROVE  /\ y \in Seq(S) /\ Len(y) = Len(s) /\ y[m] = x
         /\ \A i \in 1 .. m - 1 : y[i] = s[i]
  OBVIOUS

(* A file of which another number of bytes has arrived.                    *)
WithGot(z, g) == [z EXCEPT !.got = g]

LEMMA SetGot ==
  ASSUME NEW z \in FoundFile, NEW g \in Nat
  PROVE  /\ WithGot(z, g) \in FoundFile /\ WithGot(z, g).n = z.n
         /\ WithGot(z, g).exact = z.exact /\ WithGot(z, g).got = g
  BY DEF FoundFile, WithGot

(* An element of a list is one of the set that the list is of.              *)
LEMMA ElementOf ==
  ASSUME NEW S, NEW s \in Seq(S), NEW i \in 1 .. Len(s)
  PROVE  s[i] \in S
  OBVIOUS

(* What arrived of a file is counted.                                      *)
LEMMA GotType ==
  ASSUME NEW z \in FoundFile
  PROVE  z.got \in Nat
  BY DEF FoundFile

(* A part of the current file arrives, or its end.                         *)
Arrived(w, y, m, g) == y \in Seq(FoundFile) /\ Len(y) = m /\ Partly(w, y, m) /\ y[m].got = g

LEMMA PartArrives ==
  ASSUME NEW w \in Seq(FoundFile), NEW o \in Seq(FoundFile), NEW m, m = Len(o), Partly(w, o, m),
         NEW g \in 0 .. w[m].got
  PROVE  Arrived(w, [o EXCEPT ![m].got = g], m, g)
<1> DEFINE y == [o EXCEPT ![m].got = g]
<1>1. m \in 1 .. Len(o) /\ Prefix(w, o, m - 1) /\ o[m].n = m /\ o[m].exact = FALSE /\ m \in 1 .. Len(w)
  BY DEF Partly
<1>2. PICK x : x = [o[m] EXCEPT !.got = g]
  OBVIOUS
<1>3. o[m] \in FoundFile /\ w[m] \in FoundFile
  BY <1>1
<1>4. x \in FoundFile /\ x.n = m /\ x.exact = FALSE /\ x.got = g
  <2>1. w[m].got \in Nat
    BY <1>3, GotType
  <2>2. g \in Nat
    BY <2>1
  <2>3. x = WithGot(o[m], g)
    BY <1>2 DEF WithGot
  <2> QED BY <1>1, <1>3, <2>2, <2>3, SetGot
<1>5. y = [o EXCEPT ![m] = x]
  BY <1>2
<1>6. y \in Seq(FoundFile) /\ Len(y) = m /\ y[m] = x /\ \A i \in 1 .. m - 1 : y[i] = o[i]
  <2> HIDE DEF y
  <2> QED BY <1>1, <1>4, <1>5, SetElement
<1>7. Prefix(w, y, m - 1)
  BY <1>1, <1>6 DEF Prefix
<1>8. Partly(w, y, m)
  <2> HIDE DEF y
  <2> QED BY <1>1, <1>4, <1>6, <1>7 DEF Partly
<1> QED BY <1>4, <1>6, <1>8 DEF Arrived

LEMMA WriteStep ==
  ASSUME Inv, Write
  PROVE  Inv'
<1> DEFINE f == Current
           g == out[Len(out)].got
           n == IF doc.ddoc THEN f.got ELSE g + 1
<1>1. pc = "write" /\ Rest
  BY DEF Write
<1>2. CASE Fault
  BY <1>1, <1>2, FailedStep DEF Fault
<1>3. CASE Return(ERR)
  BY <1>1, <1>3, FailedStep
<1>4. CASE /\ doc.ddoc \/ g < f.got
           /\ out' = [out EXCEPT ![Len(out)].got = n]
           /\ Goto(IF doc.ddoc THEN "close" ELSE "write")
  <2>1. PICK l \in {"close", "write"} :
          /\ pc' = l /\ view' = view /\ delays' \in Nat
          /\ l = IF doc.ddoc THEN "close" ELSE "write"
    BY <1>4 DEF Goto, Inv, TypeOK
  <2>2. ASSUME Sealed PROVE Handing(Whole, l, out')
    <3>1. PICK w, o, m, k, y : /\ w = Whole /\ o = out /\ m = Len(out) /\ y = out'
                               /\ k = (IF doc.ddoc THEN f.got ELSE g + 1)
                               /\ y = [o EXCEPT ![m].got = k]
      <4>1. PICK k : k = n
        OBVIOUS
      <4>2. out' = [out EXCEPT ![Len(out)].got = k]
        <5> HIDE DEF n
        <5> QED BY <1>4, <4>1
      <4> QED BY <4>1, <4>2
    <3>2. /\ view.files = w /\ Handing(w, "write", o) /\ o \in Seq(FoundFile) /\ w \in Seq(FoundFile)
      BY <1>1, <2>2, <3>1, HandedIs
    <3>3. Partly(w, o, m)
      BY <3>1, <3>2 DEF Handing
    <3>4. w[m] \in FoundFile /\ o[m].got \in 0 .. w[m].got
      BY <3>2, <3>3 DEF Partly
    <3>5. f = w[m] /\ g = o[m].got
      BY <3>1, <3>2 DEF Current
    <3>6. k \in 0 .. w[m].got /\ (l = "close" => k = w[m].got)
      BY <1>4, <2>1, <3>1, <3>4, <3>5 DEF FoundFile
    <3>7. Arrived(w, [o EXCEPT ![m].got = k], m, k)
      <4>1. m = Len(o)
        BY <3>1
      <4> QED BY <3>2, <3>3, <3>6, <4>1, PartArrives
    <3>8. y \in Seq(FoundFile) /\ Len(y) = m /\ Partly(w, y, m) /\ y[m].got = k
      BY <3>1, <3>7 DEF Arrived
    <3> QED BY <3>1, <3>6, <3>8 DEF Handing
  <2> QED BY <1>1, <2>1, <2>2, DecryptStep
<1>5. CASE ~doc.ddoc /\ ~(g < f.got) /\ Goto("close") /\ out' = out
  <2>1. pc' = "close" /\ view' = view /\ delays' \in Nat
    BY <1>5 DEF Goto, Inv, TypeOK
  <2>2. ASSUME Sealed PROVE Handing(Whole, "close", out)
    <3>1. PICK w, o, m : w = Whole /\ o = out /\ m = Len(out)
      OBVIOUS
    <3>2. /\ view.files = w /\ Handing(w, "write", o) /\ o \in Seq(FoundFile) /\ w \in Seq(FoundFile)
      BY <1>1, <2>2, <3>1, HandedIs
    <3>3. Partly(w, o, m)
      BY <3>1, <3>2 DEF Handing
    <3>4. w[m] \in FoundFile /\ o[m].got \in 0 .. w[m].got
      BY <3>2, <3>3 DEF Partly
    <3>5. f = w[m] /\ g = o[m].got
      BY <3>1, <3>2 DEF Current
    <3>6. o[m].got = w[m].got
      BY <1>5, <3>4, <3>5 DEF FoundFile
    <3> QED BY <3>1, <3>2, <3>3, <3>6 DEF Handing
  <2> QED BY <1>1, <1>5, <2>1, <2>2, DecryptStep
<1> QED BY <1>2, <1>3, <1>4, <1>5 DEF Write

LEMMA CloseStep ==
  ASSUME Inv, Close
  PROVE  Inv'
<1>1. CASE Fault
  BY <1>1, FailedStep DEF Close, Fault
<1>2. CASE out' = [out EXCEPT ![Len(out)].exact = Current.exact] /\ Goto("end")
  <2>1. pc = "close" /\ pc' = "end" /\ view' = view /\ Rest /\ delays' \in Nat
    BY <1>2 DEF Close, Goto, Inv, TypeOK
  <2>2. ASSUME Sealed PROVE Handing(Whole, "end", out')
    <3>1. PICK w, o, m, y : w = Whole /\ o = out /\ m = Len(out) /\ y = out'
      OBVIOUS
    <3>2. /\ view.files = w /\ Handing(w, "close", o) /\ o \in Seq(FoundFile) /\ w \in Seq(FoundFile)
          /\ \A i \in 1 .. Len(w) : w[i].n = i /\ w[i].exact = TRUE
      BY <2>1, <2>2, <3>1, HandedIs
    <3>3. Partly(w, o, m) /\ o[m].got = w[m].got
      BY <3>1, <3>2 DEF Handing
    <3>4. m \in 1 .. Len(w) /\ m \in 1 .. Len(o) /\ w[m].n = m /\ w[m].exact = TRUE /\ w[m] \in FoundFile
          /\ o[m] \in FoundFile /\ o[m].n = m
      BY <3>1, <3>2, <3>3 DEF Partly
    <3>5. PICK x : x = [o[m] EXCEPT !.exact = TRUE]
      OBVIOUS
    <3>6. x = w[m]
      BY <3>3, <3>4, <3>5 DEF FoundFile
    <3>7. Current.exact = TRUE
      BY <3>1, <3>2, <3>4 DEF Current
    <3>8. y = [o EXCEPT ![m] = x]
      BY <1>2, <3>1, <3>5, <3>7
    <3>9. y \in Seq(FoundFile) /\ Len(y) = m /\ y[m] = w[m] /\ \A i \in 1 .. m - 1 : y[i] = o[i]
      BY <3>1, <3>2, <3>4, <3>6, <3>8
    <3>10. Prefix(w, y, m)
      <4>1. \A i \in 1 .. m - 1 : o[i] = w[i]
        BY <3>3 DEF Partly, Prefix
      <4>2. \A i \in 1 .. m : i = m \/ i \in 1 .. m - 1
        BY <3>4
      <4> QED BY <3>2, <3>4, <3>9, <4>1, <4>2 DEF Prefix
    <3> QED BY <3>1, <3>9, <3>10 DEF Handing
  <2> QED BY <2>1, <2>2, DecryptStep
<1> QED BY <1>1, <1>2 DEF Close

LEMMA VerifyStep ==
  ASSUME Inv, Verify
  PROVE  Inv'
<1>1. PICK r : Return(r)
  BY DEF Verify, Fault
<1> QED BY <1>1, FailedStep DEF Verify

----------------------------------------------------------------------------
LEMMA FinishDecryptionStep ==
  ASSUME Inv, FinishDecryption
  PROVE  Inv'
<1>1. /\ pc' = "idle" /\ src' = None /\ files' = <<>> /\ last' = [last EXCEPT !.call = "finish"]
      /\ UNCHANGED <<doc, fpos, delays, attempts, out>>
  BY DEF FinishDecryption
<1>2. last' \in [call : CallNames, key : BOOLEAN] /\ last'.call = "finish"
  <2>1. "finish" \in CallNames
    BY DEF CallNames
  <2> QED BY <1>1, <2>1 DEF Inv, TypeOK
<1>3. TypeOK'
  BY <1>1, <1>2 DEF Inv, TypeOK, None
<1>4. Calling' /\ Handed'
  BY <1>1 DEF Calling, Handed
<1>5. Serving'
  BY <1>1, <1>2 DEF Serving, Accepted
<1> QED BY <1>3, <1>4, <1>5 DEF Inv

(* nextFile opens file i.                                                  *)
LEMMA FileServed ==
  ASSUME NEW w \in Seq(FoundFile), \A i \in 1 .. Len(w) : w[i].n = i /\ w[i].exact = TRUE,
         NEW p \in Int, p >= -1, NEW x, NEW v, NEW s, Serves(w, p, x, v, s),
         NEW i, i = p + 2, i \in 1 .. Len(w)
  PROVE  Serves(w, p + 1, [file |-> i, pos |-> 0], OK, Append(s, [w[i] EXCEPT !.got = 0]))
<1>1. PICK m, y, t : m = Len(s) /\ y = [w[i] EXCEPT !.got = 0] /\ t = Append(s, y)
  OBVIOUS
<1>2. s \in Seq(FoundFile) /\ m \in Nat /\ Len(w) \in Nat
      /\ \A j \in 1 .. m : s[j].n = j /\ s[j].exact = TRUE /\ s[j].got <= w[j].got
  BY <1>1 DEF Serves
<1>3. m = p + 1 /\ i = m + 1
  BY <1>1, <1>2 DEF Serves
<1>4. PICK z : z = w[i] /\ z \in FoundFile /\ z.n = i /\ z.exact = TRUE
  OBVIOUS
<1>5. y \in FoundFile /\ y.n = i /\ y.exact = TRUE /\ y.got = 0 /\ y.got <= z.got
  <2>1. y = WithGot(z, 0)
    BY <1>1, <1>4 DEF WithGot
  <2>2. y \in FoundFile /\ y.n = z.n /\ y.exact = z.exact /\ y.got = 0
    BY <1>4, <2>1, SetGot
  <2>3. z.got \in Nat
    BY <1>4, GotType
  <2> QED BY <1>4, <2>2, <2>3
<1>6. t \in Seq(FoundFile) /\ Len(t) = m + 1 /\ t[m + 1] = y /\ \A j \in 1 .. m : t[j] = s[j]
  BY <1>1, <1>2, <1>5
<1>7. ASSUME NEW j \in 1 .. m + 1
      PROVE  t[j].n = j /\ t[j].exact = TRUE /\ t[j].got <= w[j].got
  <2>1. CASE j = m + 1
    BY <1>3, <1>4, <1>5, <1>6, <2>1
  <2>2. CASE j # m + 1
    <3>1. j \in 1 .. m
      BY <1>2, <2>2
    <3> QED BY <1>2, <1>6, <3>1
  <2> QED BY <2>1, <2>2
<1>8. Len(t) = IF (p + 1) + 1 < Len(w) THEN (p + 1) + 1 ELSE Len(w)
  BY <1>2, <1>3, <1>6
<1>9. PICK q : q = [file |-> i, pos |-> 0]
  OBVIOUS
<1>10. q.file = i /\ q.pos = 0
  BY <1>9
<1>11. Len(t) = i /\ Len(t) > 0 /\ t[Len(t)].got = 0
  BY <1>2, <1>3, <1>5, <1>6
<1>12. Serves(w, p + 1, q, OK, t)
  BY <1>6, <1>7, <1>8, <1>10, <1>11 DEF Serves, OK, END
<1> QED BY <1>1, <1>9, <1>12

LEMMA NextFileStep ==
  ASSUME Inv, NextFile
  PROVE  Inv'
<1>1. CASE files = <<>>
  BY <1>1, RefuseStep DEF NextFile
<1>2. CASE files # <<>>
  <2> DEFINE i == fpos + 2
  <2>1. /\ pc = "idle" /\ fpos' = fpos + 1
        /\ IF i \in DOMAIN files
           THEN /\ src' = [file |-> i, pos |-> 0] /\ ret' = OK
                /\ served' = Append(served, [files[i] EXCEPT !.got = 0])
           ELSE ret' = END /\ UNCHANGED <<src, served>>
        /\ UNCHANGED <<doc, rsa, files, pc, view, out, delays, attempts, last, fault>>
    BY <1>2 DEF NextFile
  <2>2. fpos' \in Int /\ fpos' >= 0
    BY <2>1 DEF Inv, TypeOK
  <2>3. DOMAIN src' = {"file", "pos"}
    BY <2>1 DEF Inv, TypeOK
  <2>4. TypeOK'
    BY <2>1, <2>2, <2>3 DEF Inv, TypeOK
  <2>5. Calling' /\ Handed'
    BY <2>1 DEF Calling, Handed
  <2>6. Accepted' = Accepted /\ Whole' = Whole
    BY <2>1 DEF Accepted, Authentic, Whole
  <2>7. ASSUME Accepted PROVE files' = Whole /\ Serves(Whole, fpos', src', ret', served')
    <3>1. files = Whole /\ Serves(Whole, fpos, src, ret, served)
      BY <1>2, <2>7 DEF Inv, Serving
    <3>2. PICK w, p, x, v, s, j : /\ w = Whole /\ p = fpos /\ x = src /\ v = ret /\ s = served
                                  /\ j = p + 2
      OBVIOUS
    <3>3. /\ w \in Seq(FoundFile) /\ DOMAIN w = 1 .. Len(w) /\ Len(w) \in Nat
          /\ \A k \in 1 .. Len(w) : w[k].n = k /\ w[k].exact = TRUE
      <4>1. doc \in Containers
        BY DEF Inv, TypeOK
      <4>2. /\ w \in Seq(FoundFile) /\ Len(w) = Len(doc.files)
        BY <3>2, <4>1, ExactType DEF Whole
      <4>3. ASSUME NEW k \in 1 .. Len(doc.files)
            PROVE  w[k].n = k /\ w[k].exact = TRUE
        <5>1. w[k] = [n |-> k, got |-> doc.files[k], exact |-> TRUE]
          BY <3>2, <4>1, ExactAt DEF Whole
        <5> QED BY <5>1
      <4>4. DOMAIN w = 1 .. Len(w) /\ Len(w) \in Nat
        BY <4>2
      <4>5. \A k \in 1 .. Len(w) : w[k].n = k /\ w[k].exact = TRUE
        <5> SUFFICES ASSUME NEW k \in 1 .. Len(w) PROVE w[k].n = k /\ w[k].exact = TRUE
          OBVIOUS
        <5>1. k \in 1 .. Len(doc.files)
          BY <4>2
        <5> QED BY <4>3, <5>1
      <4> QED BY <4>2, <4>4, <4>5
    <3>4. p \in Int /\ p >= -1 /\ Serves(w, p, x, v, s)
      BY <3>1, <3>2 DEF Inv, TypeOK
    <3>5. CASE j \in 1 .. Len(w)
      <4>1. Serves(w, p + 1, [file |-> j, pos |-> 0], OK, Append(s, [w[j] EXCEPT !.got = 0]))
        BY <3>2, <3>3, <3>4, <3>5, FileServed
      <4>2. /\ fpos' = p + 1 /\ src' = [file |-> j, pos |-> 0] /\ ret' = OK
            /\ served' = Append(s, [w[j] EXCEPT !.got = 0])
        BY <2>1, <3>1, <3>2, <3>3, <3>5
      <4> QED BY <2>1, <3>1, <3>2, <4>1, <4>2
    <3>6. CASE j \notin 1 .. Len(w)
      <4>1. fpos' = p + 1 /\ src' = x /\ ret' = END /\ served' = s
        BY <2>1, <3>1, <3>2, <3>3, <3>6
      <4>2. Len(s) = Len(w) /\ ~((p + 1) + 1 < Len(w))
        BY <3>2, <3>3, <3>4, <3>6 DEF Serves
      <4>3. Serves(w, p + 1, x, END, s)
        BY <3>4, <4>2 DEF Serves
      <4> QED BY <2>1, <3>1, <3>2, <4>1, <4>3
    <3> QED BY <3>5, <3>6
  <2>8. Serving'
    BY <1>2, <2>1, <2>2, <2>6, <2>7 DEF Serving
  <2> QED BY <2>4, <2>5, <2>8 DEF Inv
<1> QED BY <1>1, <1>2

(* readData delivers k more units of the file that src refers to.          *)
LEMMA MoreServed ==
  ASSUME NEW w \in Seq(FoundFile), NEW p \in Int, NEW x, x # None, DOMAIN x = {"file", "pos"},
         NEW v, NEW s, Serves(w, p, x, v, s),
         NEW k \in Nat, k <= w[x.file].got - x.pos
  PROVE  Serves(w, p, [x EXCEPT !.pos = @ + k], OK, [s EXCEPT ![Len(s)].got = @ + k])
<1>1. PICK m, y : m = Len(s) /\ y = [s[m] EXCEPT !.got = @ + k]
  OBVIOUS
<1>2. /\ s \in Seq(FoundFile) /\ m \in Nat /\ m > 0 /\ x.file = m /\ x.pos = s[m].got /\ Len(w) \in Nat
      /\ m <= Len(w)
      /\ \A j \in 1 .. m : s[j].n = j /\ s[j].exact = TRUE /\ s[j].got <= w[j].got
  BY <1>1 DEF Serves
<1>3. PICK z, c, b : z = s[m] /\ c = z.got /\ b = w[m].got
  OBVIOUS
<1>4. z \in FoundFile /\ z.n = m /\ z.exact = TRUE /\ c \in Nat /\ b \in Nat /\ k <= b - c
  <2>1. s[m] \in FoundFile /\ w[m] \in FoundFile
    <3>1. m \in 1 .. Len(s) /\ m \in 1 .. Len(w)
      BY <1>1, <1>2
    <3> QED BY <1>2, <3>1, ElementOf
  <2>2. c \in Nat /\ b \in Nat
    BY <1>3, <2>1, GotType
  <2> QED BY <1>2, <1>3, <2>1, <2>2
<1>5. y \in FoundFile /\ y.n = m /\ y.exact = TRUE /\ y.got = c + k /\ y.got <= b
  <2>1. c + k \in Nat /\ c + k <= b
    BY <1>4
  <2>2. y = WithGot(z, c + k)
    BY <1>1, <1>3 DEF WithGot
  <2>3. y.n = z.n /\ y.exact = z.exact /\ y.got = c + k /\ y \in FoundFile
    BY <1>4, <2>1, <2>2, SetGot
  <2> QED BY <1>4, <2>1, <2>3
<1>6. PICK t : t = [s EXCEPT ![m].got = @ + k]
  OBVIOUS
<1>7. t = [s EXCEPT ![m] = y]
  BY <1>1, <1>6
<1>8. t \in Seq(FoundFile) /\ Len(t) = m /\ t[m] = y /\ \A j \in 1 .. m : j # m => t[j] = s[j]
  BY <1>1, <1>2, <1>5, <1>7
<1>9. ASSUME NEW j \in 1 .. m
      PROVE  t[j].n = j /\ t[j].exact = TRUE /\ t[j].got <= w[j].got
  <2>1. CASE j = m
    BY <1>3, <1>5, <1>8, <2>1
  <2>2. CASE j # m
    BY <1>2, <1>8, <2>2
  <2> QED BY <2>1, <2>2
<1>10. PICK q : q = [x EXCEPT !.pos = @ + k]
  OBVIOUS
<1>11. q.file = m /\ q.pos = c + k
  BY <1>2, <1>3, <1>10
<1>12. Serves(w, p, q, OK, t)
  <2>1. Len(s) = IF p + 1 < Len(w) THEN p + 1 ELSE Len(w)
    BY DEF Serves
  <2> QED BY <1>1, <1>2, <1>5, <1>8, <1>9, <1>11, <2>1 DEF Serves, OK, END
<1> QED BY <1>1, <1>6, <1>10, <1>12

LEMMA ReadDataStep ==
  ASSUME Inv, NEW n \in Nat, ReadData(n)
  PROVE  Inv'
<1>1. CASE src = None
  BY <1>1, RefuseStep DEF ReadData
<1>2. CASE src # None
  <2> DEFINE left == files[src.file].got - src.pos
             k == IF n < left THEN n ELSE left
  <2>1. /\ pc = "idle" /\ src' = [src EXCEPT !.pos = @ + k]
        /\ served' = [served EXCEPT ![Len(served)].got = @ + k] /\ ret' = OK
        /\ UNCHANGED <<doc, rsa, files, fpos, pc, view, out, delays, attempts, last, fault>>
    BY <1>2 DEF ReadData
  <2>2. DOMAIN src' = {"file", "pos"}
    <3> HIDE DEF k
    <3> QED BY <2>1 DEF Inv, TypeOK
  <2>3. TypeOK'
    BY <2>1, <2>2 DEF Inv, TypeOK
  <2>4. Calling' /\ Handed'
    BY <2>1 DEF Calling, Handed
  <2>5. Accepted' = Accepted /\ Whole' = Whole /\ fpos # -1
    BY <1>2, <2>1 DEF Accepted, Authentic, Whole, Inv, Serving
  <2>6. ASSUME Accepted PROVE files' = Whole /\ Serves(Whole, fpos', src', ret', served')
    <3>1. files = Whole /\ Serves(Whole, fpos, src, ret, served)
      BY <2>5, <2>6 DEF Inv, Serving
    <3>2. PICK w, p, x, v, s, u : /\ w = Whole /\ p = fpos /\ x = src /\ v = ret /\ s = served
                                  /\ u = k
      OBVIOUS
    <3>3. w \in Seq(FoundFile) /\ p \in Int /\ DOMAIN x = {"file", "pos"} /\ x # None
      BY <1>2, <3>2, ExactType DEF Inv, TypeOK, Whole
    <3>4. Serves(w, p, x, v, s)
      BY <3>1, <3>2
    <3>5. u \in Nat /\ u <= w[x.file].got - x.pos
      <4>1. /\ s \in Seq(FoundFile) /\ Len(s) \in 1 .. Len(w) /\ x.file = Len(s) /\ x.pos = s[Len(s)].got
            /\ s[Len(s)].got <= w[Len(s)].got
        BY <3>3, <3>4 DEF Serves
      <4>2. s[Len(s)] \in FoundFile /\ w[Len(s)] \in FoundFile
        BY <3>3, <4>1
      <4>3. PICK a, b : a = s[Len(s)].got /\ b = w[Len(s)].got /\ a \in Nat /\ b \in Nat /\ a <= b
        BY <4>1, <4>2 DEF FoundFile
      <4>4. left = b - a
        BY <3>1, <3>2, <4>1, <4>3
      <4> HIDE DEF left
      <4> QED BY <3>2, <4>1, <4>3, <4>4
    <3>6. Serves(w, p, [x EXCEPT !.pos = @ + u], OK, [s EXCEPT ![Len(s)].got = @ + u])
      BY <3>3, <3>4, <3>5, MoreServed
    <3>7. /\ src' = [x EXCEPT !.pos = @ + u] /\ served' = [s EXCEPT ![Len(s)].got = @ + u]
          /\ fpos' = p /\ ret' = OK
      <4> HIDE DEF k
      <4> QED BY <2>1, <3>2
    <3> QED BY <2>1, <3>1, <3>2, <3>6, <3>7
  <2>7. Serving'
    <3>1. fpos' # -1
      BY <2>1, <2>5
    <3>2. Accepted => files # <<>>
      BY <2>5 DEF Inv, Serving
    <3> QED BY <2>1, <2>5, <2>6, <3>1, <3>2 DEF Serving
  <2> QED BY <2>3, <2>4, <2>7 DEF Inv
<1> QED BY <1>1, <1>2

----------------------------------------------------------------------------
LEMMA NextInv == Inv /\ [Next]_vars => Inv'
<1> SUFFICES ASSUME Inv, [Next]_vars PROVE Inv'
  OBVIOUS
<1>1. CASE UNCHANGED vars
  <2>1. TypeOK'
    BY <1>1 DEF vars, Inv, TypeOK
  <2>2. Sealed' = Sealed /\ Whole' = Whole /\ Accepted' = Accepted
    BY <1>1 DEF vars, Sealed, Whole, Accepted, Authentic
  <2>3. Calling' /\ Handed' /\ Serving'
    BY <1>1, <2>2 DEF vars, Inv, Calling, Handed, Serving
  <2> QED BY <2>1, <2>3 DEF Inv
<1>2. ASSUME NEW isRSA \in BOOLEAN, NEW ok \in BOOLEAN, GetFMK(isRSA, ok) PROVE Inv'
  BY <1>2, GetFMKStep
<1>3. ASSUME NEW key \in BOOLEAN, BeginDecryption(key) PROVE Inv'
  BY <1>3, DecryptDataStep DEF BeginDecryption
<1>4. ASSUME NEW key \in BOOLEAN, Decrypt(key) PROVE Inv'
  <2> DEFINE then == IF doc.ddoc THEN "end" ELSE "open"
  <2>1. DecryptData("decrypt", key, then)
    BY <1>4 DEF Decrypt
  <2> QED BY <2>1, DecryptDataStep
<1>5. CASE Collect
  BY <1>5, CollectStep
<1>6. CASE NextDataFile
  BY <1>6, NextDataFileStep
<1>7. CASE Open
  BY <1>7, OpenStep
<1>8. CASE Write
  BY <1>8, WriteStep
<1>9. CASE Close
  BY <1>9, CloseStep
<1>10. CASE Verify
  BY <1>10, VerifyStep
<1>11. CASE FinishDecryption
  BY <1>11, FinishDecryptionStep
<1>12. CASE NextFile
  BY <1>12, NextFileStep
<1>13. ASSUME NEW n \in 1 .. 2, ReadData(n) PROVE Inv'
  BY <1>13, ReadDataStep
<1> QED BY <1>1, <1>2, <1>3, <1>4, <1>5, <1>6, <1>7, <1>8, <1>9, <1>10, <1>11, <1>12, <1>13 DEF Next

(* What runs is known, and a call that decrypts found nothing parsed.      *)
THEOREM Cdoc1Invariant == Spec => []Inv
<1> QED BY InitInv, NextInv, PTL DEF Spec

(* What is served after an accepted beginDecryption are the files of the   *)
(* container, in order and to their end.                                   *)
THEOREM Cdoc1ServedExact == Spec => []ServedExact
<1>1. Inv => ServedExact
  <2> SUFFICES ASSUME Inv, Accepted
               PROVE  /\ \A i \in DOMAIN served :
                           served[i].n = i /\ served[i].exact /\ served[i].got <= doc.files[i]
                      /\ pc = "idle" /\ ret = END => Len(served) = Len(doc.files)
    BY DEF ServedExact
  <2>1. CASE files = <<>>
    BY <2>1 DEF Inv, Serving
  <2>2. CASE files # <<>>
    <3>1. PICK w, s, n : w = Whole /\ s = served /\ n = Len(doc.files)
      OBVIOUS
    <3>2. Serves(w, fpos, src, ret, s) /\ fpos \in Int /\ doc \in Containers
      BY <2>2, <3>1 DEF Inv, Serving, TypeOK
    <3>3. Len(w) = n /\ n \in Nat
      BY <3>1, <3>2, ExactType DEF Whole
    <3>4. /\ s \in Seq(FoundFile) /\ Len(s) <= n /\ (ret = END => Len(s) = n)
          /\ \A i \in 1 .. Len(s) : s[i].n = i /\ s[i].exact = TRUE /\ s[i].got <= w[i].got
      BY <3>2, <3>3 DEF Serves
    <3>5. ASSUME NEW i \in DOMAIN s
          PROVE  s[i].n = i /\ s[i].exact /\ s[i].got <= doc.files[i]
      <4>1. i \in 1 .. Len(s) /\ i \in 1 .. n
        BY <3>3, <3>4
      <4>2. w[i] = [n |-> i, got |-> doc.files[i], exact |-> TRUE]
        BY <3>1, <3>2, <4>1, ExactAt DEF Whole
      <4>3. w[i].got = doc.files[i]
        BY <4>2
      <4> QED BY <3>4, <4>1, <4>3
    <3> QED BY <3>1, <3>4, <3>5
  <2> QED BY <2>1, <2>2
<1> QED BY <1>1, Cdoc1Invariant, PTL

----------------------------------------------------------------------------
(* How beginDecryption and decrypt return.                                 *)

Verdict == Return(IF Verifies THEN OK ELSE ERR)
Failure == Return(ERR)

LEMMA Returning ==
  ASSUME Next, pc # "idle", pc' = "idle"
  PROVE  \/ Collect
         \/ pc = "end" /\ Len(out) = Len(view.files) /\ out' = out /\ Verdict
         \/ fault' = TRUE /\ Failure
         \/ pc = "write" /\ view.error /\ Failure
<1>1. Collect \/ NextDataFile \/ Open \/ Write \/ Close \/ Verify
  BY DEF Next, GetFMK, BeginDecryption, Decrypt, DecryptData, FinishDecryption, NextFile, ReadData
<1>2. Fault => fault' = TRUE /\ Failure
  BY DEF Fault, Failure
<1>3. ~NextDataFile
  BY DEF NextDataFile, Goto
<1>4. Open => Fault
  BY DEF Open, Goto
<1>5. Write => Fault \/ (pc = "write" /\ view.error /\ Failure)
  BY DEF Write, Goto, Failure
<1>6. Close => Fault
  BY DEF Close, Goto
<1>7. Verify => Fault \/ (pc = "end" /\ Len(out) = Len(view.files) /\ out' = out /\ Verdict)
  BY DEF Verify, Verdict
<1> QED BY <1>1, <1>2, <1>3, <1>4, <1>5, <1>6, <1>7

(* The tag vouches for the payload: it was sealed with it, and what was    *)
(* found in it is what there is.                                           *)
LEMMA VerifiedIsWhole ==
  ASSUME Inv, pc # "idle", Authentic(last.key), ~doc.broken
  PROVE  view.files = Whole /\ view.error = FALSE /\ view.read = TRUE
<1>1. view = Sight(Whole)
  BY DEF Inv, Calling, Sealed
<1> QED BY <1>1 DEF Sight

LEMMA AcceptedStep ==
  ASSUME Inv, Next, pc # "idle", pc' = "idle", ret' = OK, ~doc.broken
  PROVE  (IF last.call = "begin" THEN files' ELSE out') = Whole
<1>1. OK # ERR
  BY DEF OK, ERR
<1>2. CASE Collect
  <2>1. ~view.error /\ Verifies
    BY <1>1, <1>2 DEF Collect, Return
  <2>2. view.files = Whole
    BY <2>1, VerifiedIsWhole DEF Verifies
  <2>3. last.call = "begin"
    BY <1>2 DEF Collect, Inv, Calling
  <2> QED BY <1>2, <2>1, <2>2, <2>3 DEF Collect
<1>3. CASE pc = "end" /\ Len(out) = Len(view.files) /\ out' = out /\ Verdict
  <2>1. Verifies
    BY <1>1, <1>3 DEF Verdict, Return
  <2>2. Sealed
    BY <2>1 DEF Verifies, Sealed
  <2>3. PICK w, o : w = Whole /\ o = out
    OBVIOUS
  <2>4. /\ view.files = w /\ Handing(w, "end", o) /\ o \in Seq(FoundFile) /\ w \in Seq(FoundFile)
    BY <1>3, <2>2, <2>3, HandedIs
  <2>5. Len(o) = Len(w) /\ \A i \in 1 .. Len(w) : o[i] = w[i]
    BY <1>3, <2>3, <2>4 DEF Handing, Prefix
  <2>6. o = w
    BY <2>4, <2>5
  <2>7. last.call # "begin"
    BY <1>3 DEF Inv, Calling
  <2> QED BY <1>3, <2>3, <2>6, <2>7
<1>4. ~Failure
  BY <1>1 DEF Failure, Return
<1> QED BY <1>2, <1>3, <1>4, Returning

(* beginDecryption and decrypt return OK only with all files of the        *)
(* container, whole and in order.                                          *)
THEOREM Cdoc1AcceptedExact == Spec => AcceptedExact
<1>1. Inv /\ [Next]_vars =>
        [pc # "idle" /\ pc' = "idle" /\ ret' = OK /\ ~doc.broken =>
           (IF last.call = "begin" THEN files' ELSE out') = Exact(doc, Len(doc.files))]_vars
  BY AcceptedStep DEF Whole
<1> QED BY <1>1, Cdoc1Invariant, PTL DEF Spec, AcceptedExact

LEMMA NoFalseAlarmStep ==
  ASSUME Inv, Next, pc # "idle", pc' = "idle", ~doc.broken, doc.intact, last.key, ~fault'
  PROVE  ret' = OK
<1>1. Authentic(last.key)
  BY DEF Authentic
<1>2. view.error = FALSE /\ view.read = TRUE
  BY <1>1, VerifiedIsWhole
<1>3. Verifies
  BY <1>1, <1>2 DEF Verifies
<1>4. CASE Collect
  BY <1>2, <1>3, <1>4 DEF Collect, Return
<1>5. CASE Verdict
  BY <1>3, <1>5 DEF Verdict, Return
<1> QED BY <1>2, <1>4, <1>5, Returning

(* The right key opens an intact container unless the consumer failed.     *)
THEOREM Cdoc1NoFalseAlarm == Spec => NoFalseAlarm
<1>1. Inv /\ [Next]_vars =>
        [pc # "idle" /\ pc' = "idle" /\ ~doc.broken /\ doc.intact /\ last.key /\ ~fault' => ret' = OK]_vars
  BY NoFalseAlarmStep
<1> QED BY <1>1, Cdoc1Invariant, PTL DEF Spec, NoFalseAlarm

----------------------------------------------------------------------------
(* What a step adds to delays when c says whether it is one that counts.   *)
Adds(c) == delays' - delays = IF rsa /\ ret' = ERR /\ pc' = "idle" /\ c THEN 1 ELSE 0
Counts  == pc # "idle" \/ attempts' # attempts

LEMMA ReturnAdds ==
  ASSUME Inv, NEW r \in {OK, ERR}, Return(r)
  PROVE  Adds(TRUE)
<1>1. delays \in Nat /\ OK # ERR
  BY DEF Inv, TypeOK, OK, ERR
<1>2. CASE r = OK
  BY <1>1, <1>2 DEF Return, Adds
<1>3. CASE r = ERR
  BY <1>1, <1>3 DEF Return, Adds, ReportFailure, OK, ERR
<1> QED BY <1>2, <1>3

(* A step that leaves delays alone, and where no call returns an error     *)
(* after a key was tried.                                                  *)
LEMMA StillAdds ==
  ASSUME Inv, delays' = delays, ~Counts \/ pc' # "idle"
  PROVE  Adds(Counts)
BY DEF Adds, Inv, TypeOK

LEMMA RunningAdds ==
  ASSUME Inv, Next, pc # "idle"
  PROVE  Adds(Counts)
<1>1. Counts
  BY DEF Counts
<1>2. CASE pc' # "idle"
  <2>1. Collect \/ NextDataFile \/ Open \/ Write \/ Close \/ Verify
    BY DEF Next, GetFMK, BeginDecryption, Decrypt, DecryptData, FinishDecryption, NextFile, ReadData
  <2>2. delays' = delays
    BY <1>2, <2>1 DEF Collect, NextDataFile, Open, Write, Close, Verify, Goto, Fault, Return
  <2> QED BY <1>2, <2>2, StillAdds
<1>3. CASE pc' = "idle"
  <2>1. PICK r \in {OK, ERR} : Return(r)
    BY <1>3, Returning DEF Collect, Verdict, Failure
  <2>2. Adds(TRUE)
    BY <2>1, ReturnAdds
  <2> QED BY <1>1, <2>2 DEF Adds
<1> QED BY <1>2, <1>3

LEMMA TryAdds ==
  ASSUME Inv, NEW call, NEW key, NEW then, then # "idle", DecryptData(call, key, then)
  PROVE  Adds(Counts)
<1>1. pc = "idle" /\ delays \in Nat /\ attempts \in Nat
  BY DEF DecryptData, Inv, TypeOK
<1>2. CASE Refuse
  <2>1. delays' = delays /\ ~Counts
    BY <1>1, <1>2 DEF Refuse, Counts
  <2> QED BY <2>1, StillAdds
<1>3. CASE attempts' = attempts + 1 /\ ret' = ERR /\ ReportFailure /\ pc' = pc /\ rsa' = rsa
  <2>1. Counts
    BY <1>1, <1>3 DEF Counts
  <2> QED BY <1>1, <1>3, <2>1 DEF Adds, ReportFailure
<1>4. CASE delays' = delays /\ pc' = then
  BY <1>4, StillAdds
<1> QED BY <1>2, <1>3, <1>4 DEF DecryptData

LEMMA IdleAdds ==
  ASSUME Inv, Next, pc = "idle"
  PROVE  Adds(Counts)
<1>1. ASSUME delays' = delays, attempts' = attempts PROVE Adds(Counts)
  BY <1>1, StillAdds DEF Counts
<1>2. CASE \E isRSA, ok \in BOOLEAN : GetFMK(isRSA, ok)
  BY <1>1, <1>2 DEF GetFMK
<1>3. ASSUME NEW key \in BOOLEAN, BeginDecryption(key) \/ Decrypt(key) PROVE Adds(Counts)
  <2>1. CASE BeginDecryption(key)
    BY <2>1, TryAdds DEF BeginDecryption
  <2>2. CASE Decrypt(key)
    <3> DEFINE then == IF doc.ddoc THEN "end" ELSE "open"
    <3>1. DecryptData("decrypt", key, then) /\ then # "idle"
      BY <2>2 DEF Decrypt
    <3> QED BY <3>1, TryAdds
  <2> QED BY <1>3, <2>1, <2>2
<1>4. CASE FinishDecryption
  BY <1>1, <1>4 DEF FinishDecryption
<1>5. CASE NextFile
  BY <1>1, <1>5 DEF NextFile, Refuse
<1>6. CASE \E n \in 1 .. 2 : ReadData(n)
  BY <1>1, <1>6 DEF ReadData, Refuse
<1> QED BY <1>2, <1>3, <1>4, <1>5, <1>6 DEF Next, Collect, NextDataFile, Open, Write, Close, Verify

(* A failure after a key was tried is delayed once for an RSA lock, on     *)
(* every path, and nothing else is delayed.                                *)
THEOREM Cdoc1FailuresDelayed == Spec => FailuresDelayed
<1>1. Inv /\ [Next]_vars =>
        [delays' - delays =
           IF rsa /\ ret' = ERR /\ pc' = "idle" /\ (pc # "idle" \/ attempts' # attempts)
           THEN 1 ELSE 0]_vars
  <2> SUFFICES ASSUME Inv, Next PROVE Adds(Counts)
    BY DEF Adds, Counts
  <2> QED BY RunningAdds, IdleAdds
<1> QED BY <1>1, Cdoc1Invariant, PTL DEF Spec, FailuresDelayed
=============================================================================
