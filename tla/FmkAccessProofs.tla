-------------------------- MODULE FmkAccessProofs --------------------------
(***************************************************************************)
(* Theorems of getFMK for any number of share servers, polling rounds,     *)
(* calls and failures, and any objects on the token.                       *)
(***************************************************************************)
EXTENDS FmkAccess, FiniteSetTheorems, TLAPS

----------------------------------------------------------------------------
(* THE TOKEN                                                               *)

TokenInv ==
  /\ SlotRespected
  /\ HandleInSession
  /\ key \in Objects \cup {NoObject}

LEMMA Failed ==
  ASSUME NEW op, NEW slot, NEW fault, Fail(op, slot, fault)
  PROVE  KeyFromSlot'
<1>1. last'.ok = FALSE
  BY DEF Fail
<1> QED BY <1>1 DEF KeyFromSlot

LEMMA Succeeded ==
  ASSUME NEW op, NEW slot, NEW o, Succeed(op, slot, o), o.slot = slot
  PROVE  KeyFromSlot'
<1>1. last'.used = o /\ last'.slot = slot
  BY DEF Succeed
<1> QED BY <1>1 DEF KeyFromSlot

(* An operation is connected in the slot of the open session, and in the   *)
(* one it was given when there is none.                                    *)
LEMMA Connected ==
  ASSUME NEW class, NEW slot, NEW name, NEW o \in Connectable(class, slot, name)
  PROVE  /\ o \in Objects /\ o.slot # NoSlot
         /\ o.slot = IF session = NoSlot THEN slot ELSE session
<1>1. PICK s \in LoginSlots(slot) \ {NoSlot} : o \in Find(s, class, name)
  BY DEF Connectable
<1>2. o \in Objects /\ o.slot = s
  BY <1>1 DEF Find
<1>3. s = IF session = NoSlot THEN slot ELSE session
  BY <1>1 DEF LoginSlots
<1> QED BY <1>1, <1>2, <1>3

LEMMA LoggedOut ==
  ASSUME TokenInv, Logout, leaked' = leaked, KeyFromSlot'
  PROVE  TokenInv'
BY DEF TokenInv, SlotRespected, HandleInSession, Logout

LEMMA NotConnectedKeeps ==
  ASSUME TokenInv, NEW op, NEW class, NEW slot, NEW name, NotConnected(op, class, slot, name)
  PROVE  TokenInv'
<1>1. PICK s \in LoginSlots(slot) :
        /\ leaked' = leaked
        /\ IF s = NoSlot THEN UNCHANGED <<session, key>> /\ Fail(op, slot, TRUE)
           ELSE /\ Logout
                /\ \/ Fail(op, slot, TRUE)
                   \/ Cardinality(Find(s, class, name)) # 1 /\ Fail(op, slot, FALSE)
  BY DEF NotConnected
<1>2. KeyFromSlot'
  BY <1>1, Failed
<1>3. CASE s = NoSlot
  BY <1>1, <1>2, <1>3 DEF TokenInv, SlotRespected, HandleInSession
<1>4. CASE s # NoSlot
  BY <1>1, <1>2, <1>4, LoggedOut
<1> QED BY <1>3, <1>4

(* An operation that succeeds without a leak used its own slot's object.   *)
LEMMA UsedAndLoggedOut ==
  ASSUME TokenInv, NEW op, NEW class, NEW slot, NEW name,
         NEW o \in Connectable(class, slot, name),
         Succeed(op, slot, o) \/ Fail(op, slot, TRUE), Logout, leaked' = leaked
  PROVE  TokenInv'
<1>1. CASE Fail(op, slot, TRUE)
  BY <1>1, Failed, LoggedOut
<1>2. CASE Succeed(op, slot, o) /\ session = NoSlot
  <2>1. KeyFromSlot'
    BY <1>2, Connected, Succeeded
  <2> QED BY <2>1, LoggedOut
<1>3. CASE session # NoSlot
  BY <1>3 DEF TokenInv, SlotRespected, HandleInSession, Logout
<1> QED BY <1>1, <1>2, <1>3

LEMMA KeyOpKeeps ==
  ASSUME TokenInv, NEW op, NEW class, NEW slot, NEW name, KeyOp(op, class, slot, name)
  PROVE  TokenInv'
<1>1. CASE NotConnected(op, class, slot, name)
  BY <1>1, NotConnectedKeeps
<1>2. ASSUME NEW o \in Connectable(class, slot, name),
             Succeed(op, slot, o) \/ Fail(op, slot, TRUE), Logout, UNCHANGED leaked
      PROVE  TokenInv'
  BY <1>2, UsedAndLoggedOut
<1> QED BY <1>1, <1>2 DEF KeyOp

LEMMA GetCertificateKeeps ==
  ASSUME TokenInv, NEW slot, NEW name, GetCertificate(slot, name)
  PROVE  TokenInv'
<1>1. CASE NotConnected("getCertificate", "certificate", slot, name)
  BY <1>1, NotConnectedKeeps
<1>2. ASSUME NEW o \in Connectable("certificate", slot, name),
             Succeed("getCertificate", slot, o) \/ Fail("getCertificate", slot, TRUE),
             Logout, UNCHANGED leaked
      PROVE  TokenInv'
  BY <1>2, UsedAndLoggedOut
<1> QED BY <1>1, <1>2 DEF GetCertificate

LEMMA DecryptRSAKeeps ==
  ASSUME TokenInv, NEW slot, NEW name, NEW oaep, NEW sized, DecryptRSA(slot, name, oaep, sized)
  PROVE  TokenInv'
<1>1. CASE KeyOp("decryptRSA", "private", slot, name)
  BY <1>1, KeyOpKeeps
<1>2. CASE NotConnected("decryptRSA", "private", slot, name)
  BY <1>2, NotConnectedKeeps
<1>3. ASSUME NEW o \in Connectable("private", slot, name),
             session' = o.slot, key' = o, leaked' = TRUE
      PROVE  TokenInv'
  <2>1. o \in Objects
    BY Connected
  <2> QED BY <1>3, <2>1 DEF TokenInv, SlotRespected, HandleInSession
<1> QED BY <1>1, <1>2, <1>3 DEF DecryptRSA

(* The session that getPublicKey leaves open is still the one of the key.  *)
LEMMA GetPublicKeyKeeps ==
  ASSUME TokenInv, NEW slot, NEW name, GetPublicKey(slot, name)
  PROVE  TokenInv'
<1>1. CASE NotConnected("getPublicKey", "public", slot, name)
  BY <1>1, NotConnectedKeeps
<1>2. ASSUME NEW o \in Connectable("public", slot, name),
             \/ o.ec /\ Succeed("getPublicKey", slot, o)
             \/ Fail("getPublicKey", slot, TRUE),
             Logout, UNCHANGED leaked
      PROVE  TokenInv'
  BY <1>2, UsedAndLoggedOut
<1>3. ASSUME NEW o \in Connectable("public", slot, name),
             session' = o.slot, leaked' = TRUE, UNCHANGED key
      PROVE  TokenInv'
  <2>1. /\ o.slot = IF session = NoSlot THEN slot ELSE session
        /\ o \in Objects
    BY Connected
  <2>2. key # NoObject => session # NoSlot
    BY ObjectAssumption DEF TokenInv, HandleInSession
  <2> QED BY <1>3, <2>1, <2>2 DEF TokenInv, SlotRespected, HandleInSession
<1> QED BY <1>1, <1>2, <1>3 DEF GetPublicKey

LEMMA TokenStep ==
  ASSUME TokenInv, TokenNext
  PROVE  TokenInv'
<1>1. PICK slot \in Slots, name \in Names :
        \/ GetPublicKey(slot, name)
        \/ GetCertificate(slot, name)
        \/ DeriveECDH1(slot, name)
        \/ ExtractHKDF(slot, name)
        \/ Sign(slot, name)
        \/ \E oaep, sized \in BOOLEAN : DecryptRSA(slot, name, oaep, sized)
  BY DEF TokenNext
<1> QED BY <1>1, GetPublicKeyKeeps, GetCertificateKeeps, KeyOpKeeps, DecryptRSAKeeps
        DEF DeriveECDH1, ExtractHKDF, Sign

(* The steps of getFMK that use the token, and the others.                 *)
LEMMA TokenUse ==
  ASSUME Next
  PROVE  \/ UNCHANGED tokenVars
         \/ TokenNext
         \/ GetCertificate(target.slot, target.name)
         \/ Sign(target.slot, target.name)
         \/ DeriveECDH1(target.slot, target.name)
         \/ ExtractHKDF(target.slot, target.name)
         \/ DecryptRSA(target.slot, target.name, TRUE, TRUE)
BY DEF Next, Answer, BeginOther, CallStep, UseTokenMeanwhile, ClientCertificate,
       Handshake, FetchKeyFails, DeriveWithKey, DeriveWithSecret, DeriveFromPassword

LEMMA TokenStart ==
  ASSUME Init
  PROVE  TokenInv
BY DEF Init, TokenInit, TokenInv, SlotRespected, HandleInSession, KeyFromSlot

LEMMA TokenInvariant == Spec => []TokenInv
<1>1. Init => TokenInv
  BY TokenStart
<1>2. TokenInv /\ [Next]_vars => TokenInv'
  <2> SUFFICES ASSUME TokenInv, [Next]_vars PROVE TokenInv'
    OBVIOUS
  <2>1. CASE UNCHANGED tokenVars
    BY <2>1 DEF tokenVars, TokenInv, SlotRespected, HandleInSession, KeyFromSlot
  <2>2. CASE TokenNext
    BY <2>2, TokenStep
  <2>3. CASE \/ GetCertificate(target.slot, target.name)
             \/ Sign(target.slot, target.name)
             \/ DeriveECDH1(target.slot, target.name)
             \/ ExtractHKDF(target.slot, target.name)
             \/ DecryptRSA(target.slot, target.name, TRUE, TRUE)
    BY <2>3, GetCertificateKeeps, KeyOpKeeps, DecryptRSAKeeps
       DEF DeriveECDH1, ExtractHKDF, Sign
  <2>4. CASE UNCHANGED vars
    BY <2>1, <2>4 DEF vars
  <2> QED BY <2>1, <2>2, <2>3, <2>4, TokenUse
<1> QED BY <1>1, <1>2, PTL DEF Spec

(* Operations of the token interfere only through a session left open.     *)
THEOREM TokenSlotRespected == Spec => []SlotRespected
<1>1. TokenInv => SlotRespected
  BY DEF TokenInv
<1> QED BY <1>1, TokenInvariant, PTL

(* The key handle belongs to the session that is open.                     *)
THEOREM TokenHandleInSession == Spec => []HandleInSession
<1>1. TokenInv => HandleInSession
  BY DEF TokenInv
<1> QED BY <1>1, TokenInvariant, PTL

----------------------------------------------------------------------------
(* A CALL OF getFMK                                                        *)

Nothing == [ok |-> FALSE, fmk |-> {}]
Opened  == [ok |-> TRUE, fmk |-> {FMK}]

Unfinished(kind, digest) == [kind |-> kind, digest |-> digest, state |-> "running"]

(* What a step of a call may do to the parts of the state that the         *)
(* theorems relate.                                                        *)
Outcomes ==
  \/ result' = result
  \/ result' = Nothing
  \/ stage = "combine" /\ result' = Opened
Nonces ==
  /\ clock' \in {clock, clock + 1}
  /\ nonces' = nonces \/ (stage = "nonces" /\ nonces' = Append(nonces, clock + 1))
  /\ fetched' = fetched \/ stage = "shares"
  /\ stage' = "nonces" => stage = "nonces"
Sessions ==
  \/ sessions' = sessions
  \/ \E kind \in {"certificate", "authentication"}, digest \in {<<>>, nonces} :
       sessions' = Append(sessions, Unfinished(kind, digest))
Authentication ==
  stage' = "authentication" =>
    \/ stage = "authentication" /\ UNCHANGED <<sid, sessions, nonces>>
    \/ /\ sessions' = Append(sessions, Unfinished("authentication", nonces))
       /\ sid' = Len(sessions) + 1 /\ nonces' = nonces
Shares ==
  stage' = "shares" =>
    \/ stage = "shares"
    \/ stage = "authentication" /\ sessions[sid].state = "complete"

CallEffect ==
  /\ stage # "idle"
  /\ confirmed' = confirmed
  /\ Outcomes /\ Nonces /\ Sessions /\ Authentication /\ Shares

LEMMA FailedRequest ==
  ASSUME stage # "idle", RequestFails, Sessions, clock' \in {clock, clock + 1}
  PROVE  CallEffect
BY DEF RequestFails, Return, CallEffect, Outcomes, Nonces, Authentication, Shares, Nothing

LEMMA GivenUp ==
  ASSUME stage # "idle", GiveUp
  PROVE  CallEffect
BY DEF GiveUp, Return, CallEffect, Outcomes, Nonces, Sessions, Authentication, Shares, Nothing,
       serverVars

LEMMA FetchNonceEffect ==
  ASSUME FetchNonce
  PROVE  CallEffect
<1>1. stage = "nonces" /\ stage # "idle"
  BY DEF FetchNonce
<1>2. CASE RequestFails /\ sessions' = sessions /\ clock' \in {clock, clock + 1}
  BY <1>1, <1>2, FailedRequest DEF Sessions
<1>3. CASE /\ stage' \in {"tickets", stage}
           /\ clock' = clock + 1 /\ nonces' = Append(nonces, clock + 1)
           /\ UNCHANGED <<fetched, result, sessions, confirmed>>
  BY <1>1, <1>3 DEF CallEffect, Outcomes, Nonces, Sessions, Authentication, Shares
<1> QED BY <1>2, <1>3 DEF FetchNonce, serverVars

LEMMA OpenSessionEffect ==
  ASSUME stage \in {"tickets", "sign"}, NEW kind \in {"certificate", "authentication"}, NEW digest \in {<<>>, nonces}, NEW next,
         OpenSession(kind, digest, next, NewSession),
         \/ next = "certificate"
         \/ next = "authentication" /\ kind = next /\ digest = nonces
  PROVE  CallEffect
<1>1. PICK opened : opened = Append(sessions, Unfinished(kind, digest))
  OBVIOUS
<1>2. CASE RequestFails /\ sessions' \in {sessions, opened} /\ clock' = clock
  BY <1>1, <1>2, FailedRequest DEF Sessions
<1>3. CASE /\ sessions' = opened /\ sid' = NewSession /\ stage' = next
           /\ UNCHANGED <<nonces, fetched, result, clock, confirmed>>
  BY <1>1, <1>3 DEF CallEffect, Outcomes, Nonces, Sessions, Authentication, Shares,
                    NewSession
<1> QED BY <1>1, <1>2, <1>3 DEF OpenSession, Unfinished

LEMMA PollEffect ==
  ASSUME Poll
  PROVE  CallEffect
<1>1. stage \in {"certificate", "authentication"}
  BY DEF Poll
<1>2. CASE GiveUp \/ PollRefused
  BY <1>1, <1>2, GivenUp DEF PollRefused
<1>3. CASE RequestFails /\ UNCHANGED serverVars
  BY <1>1, <1>3, FailedRequest DEF Sessions, serverVars
<1>4. CASE PollRunning
  BY <1>1, <1>4 DEF PollRunning, CallEffect, Outcomes, Nonces, Sessions, Authentication, Shares,
                    serverVars
<1>5. CASE PollComplete
  BY <1>1, <1>5 DEF PollComplete, SessionOver, Polled, CallEffect, Outcomes, Nonces, Sessions,
                    Authentication, Shares, serverVars
<1> QED BY <1>2, <1>3, <1>4, <1>5 DEF Poll

LEMMA FetchShareEffect ==
  ASSUME FetchShare
  PROVE  CallEffect
<1>1. stage = "shares"
  BY DEF FetchShare
<1>2. CASE /\ Return(FALSE, {}) /\ UNCHANGED <<nonces, fetched, serverVars, confirmed>>
  BY <1>1, <1>2 DEF Return, CallEffect, Outcomes, Nonces, Sessions, Authentication, Shares,
                    Nothing, serverVars
<1>3. CASE /\ stage' \in {"combine", stage}
           /\ UNCHANGED <<nonces, result, clock, sessions, confirmed>>
  BY <1>1, <1>3 DEF CallEffect, Outcomes, Nonces, Sessions, Authentication, Shares
<1>4. CASE RequestFails /\ UNCHANGED <<clock, sessions>>
  BY <1>1, <1>4, FailedRequest DEF Sessions
<1> QED BY <1>1, <1>2, <1>3, <1>4 DEF FetchShare, serverVars

LEMMA CombineEffect ==
  ASSUME Combine
  PROVE  CallEffect
<1>1. PICK ok, fmk : Finished(ok, fmk) /\ [ok |-> ok, fmk |-> fmk] \in {Nothing, Opened}
  BY DEF Combine, Nothing, Opened
<1>2. stage = "combine"
  BY DEF Combine
<1> QED BY <1>1, <1>2 DEF Finished, Return, CallEffect, Outcomes, Nonces, Sessions,
             Authentication, Shares, serverVars

LEMMA TokenEffect ==
  ASSUME stage \in {"handshake", "request", "derive"}, NEW s \in {"request", "derive", "combine"},
         NEW k, OnToken(s, k)
  PROVE  CallEffect
<1>1. \/ stage' = s /\ result' = result
      \/ stage' = "idle" /\ result' = Nothing
  BY DEF OnToken, Return, Nothing
<1>2. UNCHANGED <<nonces, fetched, serverVars, confirmed>>
  BY DEF OnToken
<1> QED BY <1>1, <1>2 DEF CallEffect, Outcomes, Nonces, Sessions, Authentication, Shares,
             serverVars

LEMMA PasswordEffect ==
  ASSUME DeriveFromPassword
  PROVE  CallEffect
<1>1. \/ stage' = "combine" /\ result' = result
      \/ stage' = "idle" /\ result' = Nothing
  BY DEF DeriveFromPassword, Return, Nothing
<1>2. stage = "derive" /\ UNCHANGED <<nonces, fetched, serverVars, confirmed>>
  BY DEF DeriveFromPassword
<1> QED BY <1>1, <1>2 DEF CallEffect, Outcomes, Nonces, Sessions, Authentication, Shares,
             serverVars

LEMMA CallStepEffect ==
  ASSUME CallStep
  PROVE  CallEffect
<1>1. CASE ShareStep
  <2>1. CASE ChooseCertificate
    BY <2>1, OpenSessionEffect DEF ChooseCertificate
  <2>2. CASE Authenticate
    BY <2>2, OpenSessionEffect DEF Authenticate, MayAuthenticate
  <2>3. CASE UnknownSigner
    BY <2>3, GivenUp DEF UnknownSigner
  <2> QED BY <1>1, <2>1, <2>2, <2>3, FetchNonceEffect, PollEffect, FetchShareEffect DEF ShareStep
<1>2. CASE ClientCertificate \/ Handshake \/ DeriveWithKey \/ DeriveWithSecret
  BY <1>2, TokenEffect DEF ClientCertificate, Handshake, DeriveWithKey, DeriveWithSecret
<1>3. CASE FetchKeyFails
  BY <1>3, FailedRequest DEF FetchKeyFails, Sessions, serverVars
<1> QED BY <1>1, <1>2, <1>3, CombineEffect, PasswordEffect DEF CallStep

(* All steps of Next: those of a call, and the others.                     *)
Begins ==
  /\ stage = "idle" /\ stage' \in {"nonces", "handshake", "derive"}
  /\ nonces' = <<>> /\ fetched' = 0
  /\ UNCHANGED <<result, sessions, clock, confirmed>>
Answers == Answer /\ UNCHANGED <<lockVars, tokenVars>>

LEMMA NextEffect ==
  ASSUME Next
  PROVE  CallEffect \/ Begins \/ Answers \/ UNCHANGED shareVars
<1>1. CASE lock = "share" /\ BeginShares /\ UNCHANGED <<lockVars, tokenVars>>
  BY <1>1 DEF BeginShares, Begin, Begins, serverVars
<1>2. CASE Answer /\ UNCHANGED <<lockVars, tokenVars>>
  BY <1>2 DEF Answers
<1>3. CASE BeginOther
  BY <1>3 DEF BeginOther, Begin, Begins, serverVars
<1>4. CASE CallStep
  BY <1>4, CallStepEffect
<1>5. CASE UseTokenMeanwhile
  BY <1>5 DEF UseTokenMeanwhile
<1> QED BY <1>1, <1>2, <1>3, <1>4, <1>5 DEF Next

----------------------------------------------------------------------------
(* THE RESULT                                                              *)

FmkInv == result \in {Nothing, Opened}

LEMMA FmkInvariant == Spec => []FmkInv
<1>1. Init => FmkInv
  BY DEF Init, ShareInit, FmkInv, Nothing
<1>2. FmkInv /\ [Next]_vars => FmkInv'
  <2> SUFFICES ASSUME FmkInv, [Next]_vars PROVE FmkInv'
    OBVIOUS
  <2>1. CASE CallEffect
    BY <2>1 DEF CallEffect, Outcomes, FmkInv, Nothing, Opened
  <2>2. CASE Begins
    BY <2>2 DEF Begins, FmkInv, Nothing, Opened
  <2>3. CASE Answers \/ UNCHANGED shareVars \/ UNCHANGED vars
    <3>1. result' = result
      BY <2>3 DEF Answers, Answer, vars, shareVars, callVars
    <3> QED BY <3>1 DEF FmkInv, Nothing, Opened
  <2> QED BY <2>1, <2>2, <2>3, NextEffect
<1> QED BY <1>1, <1>2, PTL DEF Spec

(* Whatever the servers, the token and the network do, OK comes with the   *)
(* key of the container and an error with none.                            *)
THEOREM FmkAlwaysExact == Spec => []FmkExact
<1>1. FmkInv => FmkExact
  <2>1. CASE result = Nothing
    BY <2>1 DEF FmkExact, Nothing
  <2>2. CASE result = Opened
    BY <2>2 DEF FmkExact, Opened
  <2> QED BY <2>1, <2>2 DEF FmkInv
<1> QED BY <1>1, FmkInvariant, PTL

----------------------------------------------------------------------------
(* THE USER'S CONFIRMATION                                                 *)

Session == [kind : {"certificate", "authentication"}, digest : Seq(Nat),
            state : {"running", "complete", "refused"}]

(* A signature that is complete has been confirmed; the session that is    *)
(* polled for it is of the nonces of this call; the shares are asked for   *)
(* with nonces that do not change any more.                                *)
Confirmed ==
  \A i \in 1 .. Len(sessions) :
    sessions[i].kind = "authentication" /\ sessions[i].state = "complete" =>
      sessions[i].digest \in confirmed
Awaited ==
  stage = "authentication" =>
    /\ sid \in 1 .. Len(sessions)
    /\ sessions[sid].kind = "authentication" /\ sessions[sid].digest = nonces
NotYet == stage = "nonces" => fetched = 0

ConfirmInv ==
  /\ sessions \in Seq(Session) /\ nonces \in Seq(Nat) /\ clock \in Nat
  /\ Confirmed /\ Awaited /\ NotYet /\ SharesConfirmed

ConfirmVars == <<sessions, nonces, clock, stage, sid, fetched, confirmed>>

LEMMA ConfirmUnchanged ==
  ASSUME ConfirmInv, UNCHANGED ConfirmVars
  PROVE  ConfirmInv'
BY DEF ConfirmInv, ConfirmVars, Confirmed, Awaited, NotYet, SharesConfirmed

(* A new session is not complete, and leaves the others as they are.       *)
LEMMA NewSessions ==
  ASSUME ConfirmInv, Sessions, confirmed' = confirmed
  PROVE  sessions' \in Seq(Session) /\ Confirmed'
<1>1. CASE sessions' = sessions
  BY <1>1 DEF ConfirmInv, Confirmed
<1>2. ASSUME NEW kind \in {"certificate", "authentication"}, NEW digest \in {<<>>, nonces},
             sessions' = Append(sessions, Unfinished(kind, digest))
      PROVE  sessions' \in Seq(Session) /\ Confirmed'
  <2>1. PICK u : u = Unfinished(kind, digest)
    OBVIOUS
  <2>2. digest \in Seq(Nat)
    <3>1. <<>> \in Seq(Nat)
      OBVIOUS
    <3>2. nonces \in Seq(Nat)
      BY DEF ConfirmInv
    <3> QED BY <3>1, <3>2
  <2>3. u \in Session /\ u.state = "running"
    BY <2>1, <2>2 DEF Unfinished, Session
  <2>4. /\ sessions' \in Seq(Session) /\ Len(sessions') = Len(sessions) + 1
        /\ Len(sessions) \in Nat
        /\ \A i \in 1 .. Len(sessions) : sessions'[i] = sessions[i]
        /\ sessions'[Len(sessions) + 1] = u
    BY <1>2, <2>1, <2>3 DEF ConfirmInv
  <2>5. ASSUME NEW i \in 1 .. Len(sessions'), sessions'[i].kind = "authentication",
               sessions'[i].state = "complete"
        PROVE  sessions'[i].digest \in confirmed
    <3>1. CASE i = Len(sessions) + 1
      BY <2>3, <2>4, <2>5, <3>1
    <3>2. CASE i # Len(sessions) + 1
      <4>1. i \in 1 .. Len(sessions)
        BY <2>4, <3>2
      <4>2. sessions'[i] = sessions[i]
        BY <2>4, <4>1
      <4> QED BY <2>5, <4>1, <4>2 DEF ConfirmInv, Confirmed
    <3> QED BY <3>1, <3>2
  <2> QED BY <2>4, <2>5 DEF Confirmed
<1> QED BY <1>1, <1>2 DEF Sessions

LEMMA CallConfirm ==
  ASSUME ConfirmInv, CallEffect
  PROVE  ConfirmInv'
<1>1. confirmed' = confirmed /\ Nonces /\ Sessions /\ Authentication /\ Shares
  BY DEF CallEffect
<1>2. sessions' \in Seq(Session) /\ Confirmed'
  BY <1>1, NewSessions
<1>3. nonces' \in Seq(Nat) /\ clock' \in Nat
  <2>1. clock' \in Nat /\ clock + 1 \in Nat
    BY <1>1 DEF Nonces, ConfirmInv
  <2>2. Append(nonces, clock + 1) \in Seq(Nat)
    BY <2>1 DEF ConfirmInv
  <2> QED BY <1>1, <2>1, <2>2 DEF Nonces, ConfirmInv
<1>4. Awaited'
  <2>1. CASE stage' # "authentication"
    BY <2>1 DEF Awaited
  <2>2. CASE stage = "authentication" /\ UNCHANGED <<sid, sessions, nonces>>
    BY <2>2 DEF ConfirmInv, Awaited
  <2>3. CASE /\ sessions' = Append(sessions, Unfinished("authentication", nonces))
             /\ sid' = Len(sessions) + 1 /\ nonces' = nonces
    <3>1. PICK u : u = Unfinished("authentication", nonces)
      OBVIOUS
    <3>2. u \in Session /\ u.kind = "authentication" /\ u.digest = nonces
      BY <3>1 DEF Unfinished, Session, ConfirmInv
    <3>3. /\ Len(sessions') = Len(sessions) + 1 /\ Len(sessions) \in Nat
          /\ sessions'[Len(sessions) + 1] = u
      BY <2>3, <3>1, <3>2 DEF ConfirmInv
    <3> QED BY <2>3, <3>2, <3>3 DEF Awaited
  <2> QED BY <1>1, <2>1, <2>2, <2>3 DEF Authentication
<1>5. NotYet'
  BY <1>1 DEF Nonces, NotYet, ConfirmInv
<1>6. SharesConfirmed'
  <2>1. ASSUME stage' = "shares"
        PROVE  nonces' \in confirmed'
    <3>1. CASE stage = "shares"
      BY <1>1, <3>1 DEF Nonces, ConfirmInv, SharesConfirmed
    <3>2. CASE stage = "authentication" /\ sessions[sid].state = "complete"
      <4>1. sid \in 1 .. Len(sessions) /\ sessions[sid].kind = "authentication"
            /\ sessions[sid].digest = nonces
        BY <3>2 DEF ConfirmInv, Awaited
      <4>2. nonces \in confirmed
        BY <3>2, <4>1 DEF ConfirmInv, Confirmed
      <4>3. nonces' = nonces
        BY <1>1, <3>2 DEF Nonces
      <4> QED BY <1>1, <4>2, <4>3
    <3> QED BY <1>1, <2>1, <3>1, <3>2 DEF Shares
  <2>2. ASSUME fetched' > 0
        PROVE  nonces' \in confirmed'
    <3>1. CASE stage = "shares"
      BY <1>1, <3>1 DEF Nonces, ConfirmInv, SharesConfirmed
    <3>2. CASE stage # "shares"
      <4>1. fetched' = fetched /\ fetched > 0
        BY <1>1, <2>2, <3>2 DEF Nonces
      <4>2. nonces \in confirmed
        BY <4>1 DEF ConfirmInv, SharesConfirmed
      <4>3. stage # "nonces"
        BY <4>1 DEF ConfirmInv, NotYet
      <4> QED BY <1>1, <4>2, <4>3 DEF Nonces
    <3> QED BY <3>1, <3>2
  <2> QED BY <2>1, <2>2 DEF SharesConfirmed
<1> QED BY <1>2, <1>3, <1>4, <1>5, <1>6 DEF ConfirmInv

(* The user's answer completes or ends one session, and what is completed  *)
(* is confirmed.                                                           *)
LEMMA AnswerConfirm ==
  ASSUME ConfirmInv, Answer
  PROVE  ConfirmInv'
<1>1. PICK i \in DOMAIN sessions, a \in {"complete", "refused"} :
        /\ sessions' = [sessions EXCEPT ![i].state = a]
        /\ confirmed' = IF a = "complete" /\ sessions[i].kind = "authentication"
                        THEN confirmed \cup {sessions[i].digest} ELSE confirmed
        /\ UNCHANGED <<callVars, clock>>
  BY DEF Answer
<1>2. PICK e : e = [sessions[i] EXCEPT !.state = a]
  OBVIOUS
<1>3. i \in 1 .. Len(sessions) /\ sessions[i] \in Session /\ Len(sessions) \in Nat
  BY DEF ConfirmInv
<1>4. e \in Session /\ e.kind = sessions[i].kind /\ e.digest = sessions[i].digest /\ e.state = a
  BY <1>2, <1>3 DEF Session
<1>5. sessions' = [sessions EXCEPT ![i] = e]
  BY <1>1, <1>2
<1>6. /\ sessions' \in Seq(Session) /\ Len(sessions') = Len(sessions)
      /\ sessions'[i] = e
      /\ \A j \in 1 .. Len(sessions) : j # i => sessions'[j] = sessions[j]
  BY <1>3, <1>4, <1>5 DEF ConfirmInv
<1>7. confirmed \subseteq confirmed'
  BY <1>1
<1>8. \A j \in 1 .. Len(sessions) :
        sessions'[j].kind = sessions[j].kind /\ sessions'[j].digest = sessions[j].digest
  BY <1>4, <1>6
<1>9. Confirmed'
  <2>1. ASSUME NEW j \in 1 .. Len(sessions), sessions'[j].kind = "authentication",
               sessions'[j].state = "complete"
        PROVE  sessions'[j].digest \in confirmed'
    <3>1. CASE j = i
      <4>1. a = "complete" /\ sessions[i].kind = "authentication"
            /\ sessions'[i].digest = sessions[i].digest
        BY <1>4, <1>6, <2>1, <3>1
      <4> QED BY <1>1, <3>1, <4>1
    <3>2. CASE j # i
      BY <1>6, <1>7, <2>1, <3>2 DEF ConfirmInv, Confirmed
    <3> QED BY <3>1, <3>2
  <2> QED BY <1>6, <2>1 DEF Confirmed
<1>10. UNCHANGED <<stage, nonces, sid, fetched, clock>>
  BY <1>1 DEF callVars
<1>11. Awaited'
  BY <1>6, <1>8, <1>10 DEF ConfirmInv, Awaited
<1>12. NotYet' /\ SharesConfirmed'
  BY <1>7, <1>10 DEF ConfirmInv, NotYet, SharesConfirmed
<1> QED BY <1>6, <1>9, <1>10, <1>11, <1>12 DEF ConfirmInv

LEMMA ConfirmStep ==
  ASSUME ConfirmInv, [Next]_vars
  PROVE  ConfirmInv'
<1>1. CASE CallEffect
  BY <1>1, CallConfirm
<1>2. CASE Answers
  BY <1>2, AnswerConfirm DEF Answers
<1>3. CASE Begins
  <2>1. /\ stage' \in {"nonces", "handshake", "derive"} /\ nonces' = <<>> /\ fetched' = 0
        /\ UNCHANGED <<sessions, clock, confirmed>>
    BY <1>3 DEF Begins
  <2>2. Awaited' /\ NotYet' /\ SharesConfirmed'
    BY <2>1 DEF Awaited, NotYet, SharesConfirmed
  <2>3. Confirmed' /\ nonces' \in Seq(Nat)
    BY <2>1 DEF ConfirmInv, Confirmed
  <2> QED BY <2>1, <2>2, <2>3 DEF ConfirmInv
<1>4. CASE UNCHANGED shareVars \/ UNCHANGED vars
  <2>1. UNCHANGED <<callVars, sessions, clock, confirmed>>
    BY <1>4 DEF vars, shareVars, serverVars
  <2>2. UNCHANGED ConfirmVars
    BY <2>1 DEF ConfirmVars, callVars
  <2> QED BY <2>2, ConfirmUnchanged
<1> QED BY <1>1, <1>2, <1>3, <1>4, NextEffect

LEMMA ConfirmInvariant == Spec => []ConfirmInv
<1>1. Init => ConfirmInv
  BY DEF Init, ShareInit, ConfirmInv, Confirmed, Awaited, NotYet, SharesConfirmed
<1>2. ConfirmInv /\ [Next]_vars => ConfirmInv'
  BY ConfirmStep
<1> QED BY <1>1, <1>2, PTL DEF Spec

(* No server is asked for a share with nonces that the user did not        *)
(* confirm, however late answers are and however many calls there were.    *)
THEOREM FmkSharesConfirmed == Spec => []SharesConfirmed
<1>1. ConfirmInv => SharesConfirmed
  BY DEF ConfirmInv
<1> QED BY <1>1, ConfirmInvariant, PTL

----------------------------------------------------------------------------
(* A CALL IN WHICH NOTHING FAILS                                           *)

Polling     == {"tickets", "certificate", "sign", "authentication"}
ShareStages == {"nonces", "shares"} \cup Polling
TokenStages == {"handshake", "request", "derive"}

(* The kek when n shares have been added: the random values of the shares  *)
(* that are still to come hide it.                                         *)
Hidden(n) ==
  IF n = 0 THEN {}
  ELSE {KEK} \cup {Random(j) : j \in n + 1 .. NServers}

Smoothly ==
  /\ stage = "idle" => calls = 0 \/ result.ok
  /\ stage = "nonces" => Len(nonces) < NServers
  /\ stage \in Polling \cup {"shares"} => Len(nonces) = NServers
  /\ stage \in Polling \cup {"nonces"} => fetched = 0 /\ kek = {}
  /\ stage = "shares" => fetched \in 0 .. NServers - 1 /\ signed = nonces /\ kek = Hidden(fetched)
  /\ stage \in ShareStages =>
       \A i \in fetched + 1 .. Len(nonces) : <<i, nonces[i]>> \in issued
  /\ stage = "combine" => kek = {KEK}

AlarmInv ==
  /\ faults \in Nat /\ calls \in Nat /\ leaked \in BOOLEAN
  /\ lock \in Locks /\ target \in PrivateKeys
  /\ stage \in ShareStages \cup TokenStages \cup {"idle", "combine"}
  /\ stage \in ShareStages => lock = "share"
  /\ stage \in TokenStages => lock # "share"
  /\ stage \in {"handshake", "request"} => lock = "server"
  /\ faults = 0 /\ ~leaked => Smoothly

(* The values that the shares are made of are all different.               *)
LEMMA RandomValues ==
  /\ \A j : Random(j) # KEK
  /\ \A i, j : Random(i) = Random(j) => i = j
<1>1. \A j : Random(j)[1] = "random" /\ Random(j)[2] = j
  BY DEF Random
<1>2. KEK[1] = "kek"
  BY DEF KEK
<1> QED BY <1>1, <1>2

----------------------------------------------------------------------------
(* NO FALSE ALARM                                                          *)

(* What steps of a call leave alone.                                       *)
Kept == UNCHANGED <<lock, target, leaked, calls>>

(* Each share takes its random value from the kek, the first but for the   *)
(* first, which brings all of them.                                        *)
LEMMA HiddenNext ==
  ASSUME NEW n \in 0 .. NServers - 1
  PROVE  Xor(Hidden(n), KekShare(n + 1)) = Hidden(n + 1)
<1> DEFINE R(m) == {Random(j) : j \in m .. NServers}
<1>1. NServers \in Nat /\ n \in Nat /\ n + 1 <= NServers
  BY ShareAssumption
<1>2. CASE n = 0
  <2>1. Hidden(0) = {} /\ Hidden(1) = {KEK} \cup R(2)
    BY DEF Hidden
  <2>2. KekShare(1) = {KEK} \cup R(2)
    BY DEF KekShare
  <2> QED BY <1>2, <2>1, <2>2 DEF Xor
<1>3. CASE n # 0
  <2>1. Hidden(n) = {KEK} \cup R(n + 1) /\ Hidden(n + 1) = {KEK} \cup R(n + 2)
    BY <1>1, <1>3 DEF Hidden
  <2>2. KekShare(n + 1) = {Random(n + 1)}
    BY <1>1, <1>3 DEF KekShare
  <2>3. \A x : x \in R(n + 1) <=> x \in R(n + 2) \/ x = Random(n + 1)
    BY <1>1
  <2>4. Random(n + 1) \notin R(n + 2) /\ Random(n + 1) # KEK
    BY <1>1, RandomValues
  <2> HIDE DEF R
  <2> QED BY <2>1, <2>2, <2>3, <2>4 DEF Xor
<1> QED BY <1>2, <1>3

LEMMA HiddenAll == Hidden(NServers) = {KEK}
<1>1. NServers \in Nat /\ NServers # 0 /\ NServers + 1 .. NServers = {}
  BY ShareAssumption
<1> QED BY <1>1 DEF Hidden

(* A call that ends with a failure that was counted, and a step that goes  *)
(* on after one.                                                           *)
LEMMA FaultCounted ==
  ASSUME AlarmInv, Kept, faults' = faults + 1,
         stage' \in ShareStages \cup TokenStages \cup {"idle", "combine"},
         stage' \in ShareStages => lock = "share",
         stage' \in TokenStages => lock # "share",
         stage' \in {"handshake", "request"} => lock = "server"
  PROVE  AlarmInv'
<1>1. faults' \in Nat /\ faults' # 0
  BY DEF AlarmInv
<1> QED BY <1>1 DEF AlarmInv, Kept

LEMMA FaultEnds ==
  ASSUME AlarmInv, Kept, faults' = faults + 1, stage' = "idle"
  PROVE  AlarmInv'
BY FaultCounted DEF ShareStages, TokenStages, Polling

LEMMA AlarmRequestFails ==
  ASSUME AlarmInv, RequestFails, UNCHANGED <<lockVars, leaked>>
  PROVE  AlarmInv'
BY FaultEnds DEF RequestFails, Fault, Return, Kept, lockVars

LEMMA AlarmGiveUp ==
  ASSUME AlarmInv, GiveUp, UNCHANGED <<lockVars, leaked>>
  PROVE  AlarmInv'
BY FaultEnds DEF GiveUp, Return, Kept, lockVars

LEMMA AlarmFetchNonce ==
  ASSUME AlarmInv, ConfirmInv, FetchNonce, UNCHANGED <<lockVars, leaked>>
  PROVE  AlarmInv'
<1>1. CASE RequestFails
  BY <1>1, AlarmRequestFails
<1>2. ASSUME NEW i, i = Len(nonces) + 1,
             issued' = issued \cup {<<i, clock + 1>>},
             nonces' = Append(nonces, clock + 1), Smooth,
             stage' = IF i = NServers THEN "tickets" ELSE stage,
             UNCHANGED <<fetched, kek, calls>>
      PROVE  AlarmInv'
  <2>1. stage = "nonces" /\ Len(nonces) < NServers /\ lock = "share" /\ NServers \in Nat
    BY ShareAssumption DEF FetchNonce, AlarmInv, ShareStages
  <2>2. /\ nonces \in Seq(Nat) /\ Len(nonces) \in Nat /\ Len(nonces') = i
        /\ nonces'[i] = clock + 1 /\ \A j \in 1 .. Len(nonces) : nonces'[j] = nonces[j]
    BY <1>2 DEF ConfirmInv
  <2>3. Kept /\ faults' = faults
    BY <1>2 DEF Kept, Smooth, lockVars
  <2>4. stage' \in {"nonces", "tickets"} /\ (stage' = "nonces" => i # NServers)
        /\ (stage' = "tickets" => i = NServers)
    BY <1>2, <2>1
  <2>5. ASSUME faults = 0, ~leaked PROVE Smoothly'
    <3>1. Smoothly
      BY <2>5 DEF AlarmInv
    <3>2. fetched = 0 /\ kek = {}
      BY <2>1, <3>1 DEF Smoothly
    <3>3. ASSUME NEW j \in 1 .. Len(nonces')
          PROVE  <<j, nonces'[j]>> \in issued'
      <4>1. CASE j = i
        BY <1>2, <2>2, <4>1
      <4>2. CASE j \in fetched + 1 .. Len(nonces)
        <5>1. <<j, nonces[j]>> \in issued
          BY <2>1, <3>1, <4>2 DEF Smoothly, ShareStages
        <5>2. nonces'[j] = nonces[j]
          BY <2>2, <3>2, <4>2
        <5> QED BY <1>2, <5>1, <5>2
      <4>3. PICK m \in Nat : m = Len(nonces)
        BY <2>2
      <4>4. j \in 1 .. m + 1 /\ i = m + 1
        BY <1>2, <2>2, <4>3
      <4>5. j = i \/ j \in fetched + 1 .. Len(nonces)
        BY <3>2, <4>3, <4>4
      <4> QED BY <4>1, <4>2, <4>5
    <3>4. fetched' = 0 /\ kek' = {}
      BY <1>2, <3>2
    <3>5. \A j \in fetched' + 1 .. Len(nonces') : <<j, nonces'[j]>> \in issued'
      <4>1. fetched' + 1 = 1
        BY <3>4
      <4> QED BY <3>3, <4>1
    <3>6. (stage' = "nonces" => Len(nonces') < NServers) /\ (stage' = "tickets" => Len(nonces') = NServers)
      BY <1>2, <2>1, <2>2, <2>4
    <3> QED BY <2>4, <3>4, <3>5, <3>6 DEF Smoothly, Polling
  <2> QED BY <2>1, <2>3, <2>4, <2>5 DEF AlarmInv, Kept, ShareStages, TokenStages, Polling
<1> QED BY <1>1, <1>2 DEF FetchNonce

(* A step from one stage of the polling to another, or to the shares with  *)
(* the nonces signed.                                                      *)
LEMMA AlarmPolling ==
  ASSUME AlarmInv, Kept, stage \in Polling, faults' = faults,
         UNCHANGED <<nonces, fetched, kek, issued>>,
         stage' \in Polling \/ (stage' = "shares" /\ signed' = nonces)
  PROVE  AlarmInv'
<1>1. lock = "share"
  BY DEF AlarmInv, ShareStages
<1>2. stage' \in Polling \cup {"shares"}
  BY DEF Kept
<1>3. ASSUME faults = 0, ~leaked PROVE Smoothly'
  <2>1. Smoothly
    BY <1>3 DEF AlarmInv
  <2>2. Len(nonces) = NServers /\ fetched = 0 /\ kek = {}
    BY <2>1 DEF Smoothly
  <2>3. \A i \in fetched + 1 .. Len(nonces) : <<i, nonces[i]>> \in issued
    BY <2>1 DEF Smoothly, ShareStages
  <2>4. NServers \in Nat \ {0} /\ 0 \in 0 .. NServers - 1
    BY ShareAssumption
  <2>5. kek' = Hidden(fetched)'
    BY <2>2 DEF Hidden
  <2>6. stage' = "shares" => signed' = nonces'
    BY DEF Polling
  <2>7. \A i \in fetched' + 1 .. Len(nonces') : <<i, nonces'[i]>> \in issued'
    BY <1>2, <2>3
  <2> QED BY <1>2, <2>2, <2>4, <2>5, <2>6, <2>7 DEF Smoothly, Polling
<1>4. stage' \in ShareStages /\ stage' \notin TokenStages
  BY <1>2 DEF ShareStages, Polling, TokenStages
<1>5. stage' # "handshake" /\ stage' # "request"
  BY <1>4 DEF TokenStages
<1> QED BY <1>1, <1>3, <1>4, <1>5 DEF AlarmInv, Kept

LEMMA AlarmOpenSession ==
  ASSUME AlarmInv, stage \in Polling, NEW kind, NEW digest, NEW next \in Polling, NEW n,
         OpenSession(kind, digest, next, n), UNCHANGED <<lockVars, leaked>>
  PROVE  AlarmInv'
<1>1. CASE RequestFails
  BY <1>1, AlarmRequestFails
<1>2. CASE /\ stage' = next /\ Smooth
           /\ UNCHANGED <<nonces, fetched, kek, calls, issued>>
  BY <1>2, AlarmPolling DEF Smooth, Kept, lockVars
<1> QED BY <1>1, <1>2 DEF OpenSession

LEMMA AlarmPoll ==
  ASSUME AlarmInv, ConfirmInv, Poll, UNCHANGED <<lockVars, leaked>>
  PROVE  AlarmInv'
<1>1. stage \in {"certificate", "authentication"} /\ stage \in Polling
  BY DEF Poll, Polling
<1>2. CASE RequestFails
  BY <1>2, AlarmRequestFails
<1>3. CASE GiveUp
  BY <1>3, AlarmGiveUp
<1>4. CASE PollRunning
  BY <1>1, <1>4, AlarmPolling DEF PollRunning, Smooth, Kept, lockVars, serverVars
<1>5. CASE PollComplete
  <2>1. stage = "authentication" => Polled.digest = nonces
    BY DEF ConfirmInv, Awaited, Polled
  <2>2. /\ signed' = Polled.digest /\ stage' = IF stage = "certificate" THEN "sign" ELSE "shares"
        /\ Smooth /\ UNCHANGED <<nonces, fetched, kek, calls, serverVars>>
    BY <1>5 DEF PollComplete, SessionOver
  <2>3. stage' \in Polling \/ (stage' = "shares" /\ signed' = nonces)
    BY <1>1, <2>1, <2>2 DEF Polling
  <2> QED BY <1>1, <2>2, <2>3, AlarmPolling DEF Smooth, Kept, lockVars, serverVars
<1> QED BY <1>2, <1>3, <1>4, <1>5 DEF Poll, PollRefused

(* The share is accepted, as the nonce was issued, is not used up, and is  *)
(* among those the user confirmed.                                         *)
LEMMA ShareAccepted ==
  ASSUME AlarmInv, ConfirmInv, stage = "shares", faults = 0, ~leaked
  PROVE  Accepted(fetched + 1)
<1>1. Smoothly
  BY DEF AlarmInv
<1>2. /\ Len(nonces) = NServers /\ fetched \in 0 .. NServers - 1 /\ signed = nonces
      /\ \A i \in fetched + 1 .. Len(nonces) : <<i, nonces[i]>> \in issued
  BY <1>1 DEF Smoothly, ShareStages
<1>3. fetched + 1 \in fetched + 1 .. Len(nonces) /\ fetched + 1 \in 1 .. Len(nonces)
  BY <1>2, ShareAssumption
<1>4. nonces \in Seq(Nat) /\ nonces \in confirmed
  BY DEF ConfirmInv, SharesConfirmed
<1>5. nonces[fetched + 1] \in Range(nonces)
  BY <1>3, <1>4 DEF Range
<1> QED BY <1>2, <1>3, <1>4, <1>5 DEF Accepted

LEMMA AlarmFetchShare ==
  ASSUME AlarmInv, ConfirmInv, FetchShare, UNCHANGED <<lockVars, leaked>>
  PROVE  AlarmInv'
<1>1. PICK i : i = fetched + 1
  OBVIOUS
<1>2. stage = "shares" /\ lock = "share" /\ NServers \in Nat /\ NServers > 0
  BY ShareAssumption DEF FetchShare, AlarmInv, ShareStages
<1>3. CASE RequestFails
  BY <1>3, AlarmRequestFails
<1>4. CASE ~Accepted(i) /\ Return(FALSE, {}) /\ Smooth /\ UNCHANGED calls
  <2>1. ~(faults = 0 /\ ~leaked)
    BY <1>1, <1>2, <1>4, ShareAccepted
  <2>2. stage' = "idle" /\ faults' = faults /\ Kept
    BY <1>4 DEF Return, Smooth, Kept, lockVars
  <2> QED BY <2>1, <2>2 DEF AlarmInv, Kept, ShareStages, TokenStages, Polling
<1>5. CASE /\ Fault /\ stage' = IF i = NServers THEN "combine" ELSE stage
           /\ UNCHANGED calls
  <2>1. stage' \in {"combine", "shares"} /\ faults' = faults + 1 /\ Kept
    BY <1>2, <1>5 DEF Fault, Kept, lockVars
  <2> QED BY <1>2, <2>1, FaultCounted DEF ShareStages, TokenStages, Polling
<1>6. CASE /\ kek' = Xor(kek, KekShare(i)) /\ Smooth /\ fetched' = i
           /\ stage' = IF i = NServers THEN "combine" ELSE stage
           /\ issued' = issued \ {<<i, nonces[i]>>}
           /\ UNCHANGED <<nonces, signed, calls>>
  <2>1. /\ stage' \in {"combine", "shares"} /\ faults' = faults /\ Kept
        /\ (stage' = "shares" => i # NServers) /\ (stage' = "combine" => i = NServers)
    BY <1>2, <1>6 DEF Smooth, Kept, lockVars
  <2>2. ASSUME faults = 0, ~leaked PROVE Smoothly'
    <3>1. Smoothly
      BY <2>2 DEF AlarmInv
    <3>2. /\ Len(nonces) = NServers /\ fetched \in 0 .. NServers - 1 /\ signed = nonces
          /\ kek = Hidden(fetched)
          /\ \A j \in fetched + 1 .. Len(nonces) : <<j, nonces[j]>> \in issued
      BY <1>2, <3>1 DEF Smoothly, ShareStages
    <3>3. i \in 1 .. NServers
      BY <1>1, <1>2, <3>2
    <3>4. kek' = Hidden(i)
      BY <1>1, <1>6, <3>2, HiddenNext
    <3>5. kek' = Hidden(fetched)'
      BY <1>6, <2>1, <3>4 DEF Hidden
    <3>6. \A j \in fetched' + 1 .. Len(nonces') : <<j, nonces'[j]>> \in issued'
      <4> SUFFICES ASSUME NEW j \in i + 1 .. Len(nonces) PROVE <<j, nonces[j]>> \in issued'
        BY <1>6, <2>1
      <4>1. j \in fetched + 1 .. Len(nonces) /\ j # i
        BY <1>1, <1>2, <3>2
      <4>2. <<j, nonces[j]>> \in issued
        BY <3>2, <4>1
      <4>3. <<j, nonces[j]>> # <<i, nonces[i]>>
        BY <4>1
      <4> QED BY <1>6, <4>2, <4>3
    <3>7. CASE stage' = "combine"
      <4>1. kek' = {KEK}
        BY <2>1, <3>4, <3>7, HiddenAll
      <4> QED BY <3>7, <4>1 DEF Smoothly, Polling, ShareStages, KEK
    <3>8. CASE stage' = "shares"
      <4>1. fetched' \in 0 .. NServers - 1
        BY <1>2, <1>6, <2>1, <3>3, <3>8
      <4> QED BY <1>6, <3>2, <3>5, <3>6, <3>8, <4>1 DEF Smoothly, Polling
    <3> QED BY <2>1, <3>7, <3>8
  <2> QED BY <1>2, <2>1, <2>2 DEF AlarmInv, Kept, ShareStages, TokenStages, Polling
<1> QED BY <1>1, <1>3, <1>4, <1>5, <1>6 DEF FetchShare

(* The right kek gives the right fmk, so the HMAC agrees.                  *)
LEMMA RightKek ==
  ASSUME kek = {KEK}
  PROVE  Xor(EncryptedFmk, kek) = {FMK}
<1>1. FMK[1] # KEK[1]
  BY DEF FMK, KEK
<1>2. FMK # KEK
  BY <1>1
<1> QED BY <1>2 DEF EncryptedFmk, Xor

LEMMA AlarmCombine ==
  ASSUME AlarmInv, Combine, UNCHANGED <<lockVars, leaked>>
  PROVE  AlarmInv'
<1>1. stage = "combine"
  BY DEF Combine
<1>2. stage' = "idle" /\ faults' = faults /\ Kept
  BY DEF Combine, Finished, Return, Smooth, Kept, lockVars
<1>3. ASSUME faults = 0, ~leaked PROVE result'.ok
  <2>1. Smoothly
    BY <1>3 DEF AlarmInv
  <2>2. kek = {KEK}
    BY <1>1, <2>1 DEF Smoothly
  <2> QED BY <2>2, RightKek DEF Combine, Finished, Return
<1>4. faults' = 0 /\ ~leaked' => Smoothly'
  BY <1>2, <1>3 DEF Kept, Smoothly, ShareStages, Polling
<1> QED BY <1>2, <1>4 DEF AlarmInv, Kept, ShareStages, TokenStages, Polling

(* A key operation for the target without a session that was left open:    *)
(* an error is a failure of the token, and what was used is the target's.  *)
LEMMA TargetUsed ==
  ASSUME TokenInv, target \in PrivateKeys, NEW op, NEW class \in {"private", "secret", "certificate"},
         KeyOp(op, class, target.slot, target.name)
  PROVE  /\ leaked' = leaked
         /\ ~leaked /\ ~last'.ok => last'.fault
         /\ ~leaked /\ last'.ok => last'.used.slot = target.slot /\ last'.used.name = target.name
<1>1. Cardinality(Find(target.slot, class, target.name)) = 1
  BY LockAssumption
<1>2. ~leaked => session = NoSlot
  BY DEF TokenInv, SlotRespected
<1>3. CASE NotConnected(op, class, target.slot, target.name)
  <2>1. PICK s \in LoginSlots(target.slot) :
          /\ leaked' = leaked
          /\ \/ Fail(op, target.slot, TRUE)
             \/ Cardinality(Find(s, class, target.name)) # 1 /\ Fail(op, target.slot, FALSE) /\ s # NoSlot
    BY <1>3 DEF NotConnected
  <2>2. ~leaked => s \in {target.slot, NoSlot}
    BY <1>2, <2>1 DEF LoginSlots
  <2>3. CASE Fail(op, target.slot, TRUE)
    BY <2>1, <2>3 DEF Fail
  <2>4. CASE Cardinality(Find(s, class, target.name)) # 1 /\ Fail(op, target.slot, FALSE) /\ s # NoSlot
    BY <1>1, <2>1, <2>2, <2>4 DEF Fail
  <2> QED BY <2>1, <2>3, <2>4
<1>4. ASSUME NEW o \in Connectable(class, target.slot, target.name),
             Succeed(op, target.slot, o) \/ Fail(op, target.slot, TRUE), UNCHANGED leaked
      PROVE  /\ leaked' = leaked
             /\ ~last'.ok => last'.fault
             /\ ~leaked /\ last'.ok => last'.used.slot = target.slot /\ last'.used.name = target.name
  <2>1. ~leaked => o.slot = target.slot
    BY <1>2, <1>4, Connected
  <2>2. o.name = target.name
    BY <1>4 DEF Connectable, Find
  <2>3. CASE Succeed(op, target.slot, o)
    BY <1>4, <2>1, <2>2, <2>3 DEF Succeed
  <2>4. CASE Fail(op, target.slot, TRUE)
    BY <1>4, <2>4 DEF Fail
  <2> QED BY <1>4, <2>3, <2>4
<1> QED BY <1>3, <1>4 DEF KeyOp

LEMMA CertificateOp ==
  ASSUME NEW slot, NEW name, GetCertificate(slot, name)
  PROVE  KeyOp("getCertificate", "certificate", slot, name)
BY DEF GetCertificate, KeyOp

(* A step of the call with the token.                                      *)
LEMMA AlarmOnToken ==
  ASSUME AlarmInv, TokenInv, stage \in TokenStages, NEW op,
         NEW class \in {"private", "secret", "certificate"},
         KeyOp(op, class, target.slot, target.name),
         NEW s \in {"request", "derive", "combine"}, NEW k,
         s = "request" => lock = "server",
         ASSUME last'.used.slot = target.slot, last'.used.name = target.name
         PROVE  s = "combine" => k = {KEK},
         OnToken(s, k)
  PROVE  AlarmInv'
<1>1. /\ leaked' = leaked
      /\ ~leaked /\ ~last'.ok => last'.fault
      /\ ~leaked /\ last'.ok => last'.used.slot = target.slot /\ last'.used.name = target.name
  BY TargetUsed DEF AlarmInv
<1>2. Kept
  BY <1>1 DEF OnToken, Kept, lockVars
<1>3. lock # "share" /\ faults \in Nat
  BY DEF AlarmInv
<1>4. CASE last'.ok
  <2>1. stage' = s /\ kek' = k /\ faults' = faults
    BY <1>4 DEF OnToken, Smooth
  <2>2. ~leaked /\ s = "combine" => kek' = {KEK}
    BY <1>1, <1>2, <1>4, <2>1
  <2>3. faults' = 0 /\ ~leaked' => Smoothly'
    BY <1>1, <2>1, <2>2 DEF Smoothly, ShareStages, Polling
  <2>4. /\ s \in TokenStages \cup {"combine"} /\ s \notin ShareStages /\ s # "handshake"
    BY DEF TokenStages, ShareStages, Polling
  <2> QED BY <1>2, <1>3, <2>1, <2>3, <2>4 DEF AlarmInv, Kept
<1>5. CASE ~last'.ok
  <2>1. stage' = "idle" /\ faults' = faults + (IF last'.fault THEN 1 ELSE 0)
    BY <1>5 DEF OnToken, Return
  <2>2. CASE last'.fault
    BY <1>2, <2>1, <2>2, FaultEnds
  <2>3. CASE ~last'.fault
    <3>1. leaked /\ leaked' /\ faults' = faults
      BY <1>1, <1>3, <1>5, <2>1, <2>3 DEF AlarmInv
    <3> QED BY <1>2, <2>1, <3>1 DEF AlarmInv, Kept, ShareStages, TokenStages, Polling
  <2> QED BY <2>2, <2>3
<1> QED BY <1>4, <1>5

LEMMA KekOfTarget ==
  ASSUME last'.used.slot = target.slot, last'.used.name = target.name
  PROVE  KekOf(last'.used) = {KEK}
BY DEF KekOf

LEMMA AlarmPassword ==
  ASSUME AlarmInv, DeriveFromPassword
  PROVE  AlarmInv'
<1>1. stage = "derive" /\ Kept
  BY DEF DeriveFromPassword, Kept, lockVars, tokenVars
<1>2. CASE kek' = {KEK} /\ stage' = "combine" /\ Smooth
  <2>1. Smoothly'
    BY <1>1, <1>2 DEF Smoothly, ShareStages, Polling
  <2> QED BY <1>1, <1>2, <2>1 DEF AlarmInv, Kept, Smooth, ShareStages, TokenStages, Polling
<1>3. CASE Fault /\ stage' \in {"combine", "idle"}
  BY <1>1, <1>3, FaultCounted DEF Fault, ShareStages, TokenStages, Polling
<1> QED BY <1>2, <1>3 DEF DeriveFromPassword, Return

LEMMA AlarmCallStep ==
  ASSUME AlarmInv, ConfirmInv, TokenInv, CallStep
  PROVE  AlarmInv'
<1>1. CASE ShareStep /\ UNCHANGED <<lockVars, leaked>>
  <2>1. CASE ChooseCertificate
    BY <1>1, <2>1, AlarmOpenSession DEF ChooseCertificate, Polling
  <2>2. CASE Authenticate
    BY <1>1, <2>2, AlarmOpenSession DEF Authenticate, MayAuthenticate, Polling
  <2>3. CASE UnknownSigner
    BY <1>1, <2>3, AlarmGiveUp DEF UnknownSigner
  <2> QED BY <1>1, <2>1, <2>2, <2>3, AlarmFetchNonce, AlarmPoll, AlarmFetchShare DEF ShareStep
<1>2. CASE ClientCertificate
  <2>1. KeyOp("getCertificate", "certificate", target.slot, target.name) /\ OnToken("request", kek)
        /\ stage = "handshake"
    BY <1>2, CertificateOp DEF ClientCertificate
  <2>2. lock = "server" /\ stage \in TokenStages
    BY <2>1 DEF AlarmInv, TokenStages
  <2> QED BY <2>1, <2>2, AlarmOnToken
<1>3. CASE Handshake
  <2>1. KeyOp("sign", "private", target.slot, target.name) /\ OnToken("derive", kek)
        /\ stage \in TokenStages
    BY <1>3 DEF Handshake, Sign, TokenStages
  <2> QED BY <2>1, AlarmOnToken
<1>4. CASE FetchKeyFails
  BY <1>4, AlarmRequestFails DEF FetchKeyFails, tokenVars
<1>5. CASE DeriveWithKey
  <2>1. stage \in TokenStages /\ OnToken("combine", KekOf(last'.used))
    BY <1>5 DEF DeriveWithKey, TokenStages
  <2>2. \E op : KeyOp(op, "private", target.slot, target.name)
    BY <1>5 DEF DeriveWithKey, DeriveECDH1, DecryptRSA
  <2> QED BY <2>1, <2>2, KekOfTarget, AlarmOnToken
<1>6. CASE DeriveWithSecret
  <2>1. stage \in TokenStages /\ OnToken("combine", KekOf(last'.used))
        /\ KeyOp("extractHKDF", "secret", target.slot, target.name)
    BY <1>6 DEF DeriveWithSecret, TokenStages, ExtractHKDF
  <2> QED BY <2>1, KekOfTarget, AlarmOnToken
<1>7. CASE Combine /\ UNCHANGED <<lockVars, leaked>>
  BY <1>7, AlarmCombine
<1> QED BY <1>1, <1>2, <1>3, <1>4, <1>5, <1>6, <1>7, AlarmPassword DEF CallStep, tokenVars

(* A call begins, with nothing counted against it.                         *)
LEMMA AlarmBegin ==
  ASSUME AlarmInv, NEW s \in {"nonces", "handshake", "derive"}, Begin(s),
         UNCHANGED <<lockVars, leaked>>,
         s = "nonces" => lock = "share", s # "nonces" => lock # "share",
         s = "handshake" => lock = "server"
  PROVE  AlarmInv'
<1>1. /\ stage' = s /\ calls' = calls + 1 /\ faults' = 0
      /\ nonces' = <<>> /\ fetched' = 0 /\ kek' = {}
      /\ UNCHANGED <<lock, target, leaked>>
  BY DEF Begin, lockVars
<1>2. Len(nonces') = 0 /\ NServers \in Nat /\ 0 < NServers /\ fetched' + 1 .. Len(nonces') = {}
  BY <1>1, ShareAssumption
<1>3. Smoothly'
  BY <1>1, <1>2 DEF Smoothly, ShareStages, Polling
<1> QED BY <1>1, <1>3 DEF AlarmInv, ShareStages, TokenStages, Polling

(* The application's own use of the token may leak a session, no more.     *)
LEMMA LeakedStays ==
  ASSUME TokenNext
  PROVE  leaked' \in {leaked, TRUE}
<1>1. ASSUME NEW op, NEW class, NEW slot, NEW name, NotConnected(op, class, slot, name)
      PROVE  leaked' = leaked
  BY <1>1 DEF NotConnected
<1>2. ASSUME NEW op, NEW class, NEW slot, NEW name, KeyOp(op, class, slot, name)
      PROVE  leaked' = leaked
  BY <1>1, <1>2 DEF KeyOp
<1>3. ASSUME NEW slot, NEW name, GetPublicKey(slot, name)
      PROVE  leaked' \in {leaked, TRUE}
  BY <1>1, <1>3 DEF GetPublicKey
<1>4. ASSUME NEW slot, NEW name, NEW oaep, NEW sized, DecryptRSA(slot, name, oaep, sized)
      PROVE  leaked' \in {leaked, TRUE}
  BY <1>1, <1>2, <1>4 DEF DecryptRSA
<1> QED BY <1>2, <1>3, <1>4, CertificateOp DEF TokenNext, DeriveECDH1, ExtractHKDF, Sign

LEMMA AlarmStep ==
  ASSUME AlarmInv, ConfirmInv, TokenInv, [Next]_vars
  PROVE  AlarmInv'
<1>1. CASE CallStep
  BY <1>1, AlarmCallStep
<1>2. CASE lock = "share" /\ BeginShares /\ UNCHANGED <<lockVars, tokenVars>>
  BY <1>2, AlarmBegin DEF BeginShares, tokenVars
<1>3. CASE BeginOther
  BY <1>3, AlarmBegin DEF BeginOther, tokenVars
<1>4. CASE \/ Answer /\ UNCHANGED <<lockVars, tokenVars>>
           \/ UNCHANGED vars
  <2>1. Kept /\ UNCHANGED <<callVars, issued, faults>>
    BY <1>4 DEF Answer, Kept, vars, shareVars, lockVars, tokenVars, callVars,
       serverVars
  <2>2. Smoothly' = Smoothly
    BY <2>1 DEF Smoothly, Hidden, callVars
  <2> QED BY <2>1, <2>2 DEF AlarmInv, Kept, callVars
<1>5. CASE UseTokenMeanwhile
  <2>1. leaked' \in {leaked, TRUE} /\ UNCHANGED <<lockVars, shareVars>>
    BY <1>5, LeakedStays DEF UseTokenMeanwhile
  <2>2. UNCHANGED <<lock, target, callVars, issued, faults>>
    BY <2>1 DEF lockVars, shareVars, serverVars
  <2>3. Smoothly' = Smoothly
    BY <2>2 DEF Smoothly, Hidden, callVars
  <2> QED BY <2>1, <2>2, <2>3 DEF AlarmInv, callVars
<1> QED BY <1>1, <1>2, <1>3, <1>4, <1>5 DEF Next

LEMMA AlarmInvariant == Spec => []AlarmInv
<1>1. ASSUME Init
      PROVE  AlarmInv
  <2>1. faults = 0 /\ calls = 0 /\ stage = "idle"
    BY <1>1 DEF Init, ShareInit
  <2>2. leaked \in BOOLEAN /\ lock \in Locks /\ target \in PrivateKeys
    BY <1>1 DEF Init, TokenInit
  <2>3. Smoothly
    BY <2>1 DEF Smoothly, ShareStages, Polling
  <2> QED BY <2>1, <2>2, <2>3 DEF AlarmInv, ShareStages, TokenStages, Polling
<1>2. TokenInv /\ ConfirmInv /\ AlarmInv /\ [Next]_vars => AlarmInv'
  BY AlarmStep
<1> QED BY <1>1, <1>2, TokenInvariant, ConfirmInvariant, PTL DEF Spec

(* An intact container opens for whoever holds its token, password or      *)
(* phone: an error means that something failed, was refused or came late,  *)
(* or that the application left a session of the token open.               *)
THEOREM FmkNoFalseAlarm == Spec => []NoFalseAlarm
<1>1. AlarmInv => NoFalseAlarm
  BY DEF AlarmInv, Smoothly, NoFalseAlarm
<1> QED BY <1>1, AlarmInvariant, PTL

----------------------------------------------------------------------------
(* A CALL ENDS                                                             *)

CallStages == ShareStages \cup TokenStages \cup {"combine"}

(* How many stages of the call are still to come, and how many requests    *)
(* the loop of this one may still make.                                    *)
StagesLeft ==
  CASE stage = "idle" -> 0
    [] stage = "combine" -> 1
    [] stage \in {"shares", "derive"} -> 2
    [] stage \in {"authentication", "request"} -> 3
    [] stage \in {"sign", "handshake"} -> 4
    [] stage = "certificate" -> 5
    [] stage = "tickets" -> 6
    [] stage = "nonces" -> 7
RequestsLeft ==
  CASE stage = "nonces" -> NServers - Len(nonces)
    [] stage \in {"certificate", "authentication"} -> left
    [] stage = "shares" -> NServers - fetched
    [] stage \notin {"nonces", "certificate", "authentication", "shares"} -> 0

(* Both are numbers, so no call goes on for ever.                          *)
CallCounted == StagesLeft \in Nat /\ RequestsLeft \in Nat

(* Each step of a call lowers the first, or the second with the first      *)
(* unchanged, whatever the user, the servers and the token do meanwhile.   *)
Lowers == StagesLeft' < StagesLeft \/ (StagesLeft' = StagesLeft /\ RequestsLeft' < RequestsLeft)
StepsLower == CallStep => Lowers

(* The loops over the servers end with the last one.                       *)
LoopInv ==
  /\ stage \in CallStages \cup {"idle"}
  /\ left \in Nat /\ fetched \in Nat /\ nonces \in Seq(Nat) /\ clock \in Nat
  /\ stage = "nonces" => Len(nonces) < NServers
  /\ stage \in Polling \cup {"nonces"} => fetched = 0
  /\ stage = "shares" => fetched < NServers

Descends == LoopInv' /\ Lowers

LEMMA Numbers == NServers \in Nat \ {0} /\ Polls \in Nat
BY ShareAssumption

LEMMA LoopCounted ==
  ASSUME LoopInv
  PROVE  CallCounted
<1>1. StagesLeft \in Nat
  BY DEF LoopInv, StagesLeft, CallStages, ShareStages, TokenStages, Polling
<1>2. Len(nonces) \in Nat
  BY DEF LoopInv
<1>3. RequestsLeft \in Nat
  BY <1>2, Numbers DEF LoopInv, RequestsLeft
<1> QED BY <1>1, <1>3 DEF CallCounted

LEMMA EndDescends ==
  ASSUME LoopInv, stage # "idle", stage' = "idle", UNCHANGED <<left, fetched, nonces>>,
         clock' \in Nat
  PROVE  Descends
<1>1. LoopInv'
  BY DEF LoopInv, Polling
<1>2. StagesLeft' = 0 /\ StagesLeft \in Nat \ {0}
  BY DEF LoopInv, StagesLeft, CallStages, ShareStages, TokenStages, Polling
<1> QED BY <1>1, <1>2 DEF Descends, Lowers

LEMMA RequestFailsDescends ==
  ASSUME LoopInv, stage # "idle", RequestFails, clock' \in Nat
  PROVE  Descends
BY EndDescends DEF RequestFails, Return

LEMMA GiveUpDescends ==
  ASSUME LoopInv, stage # "idle", GiveUp
  PROVE  Descends
<1>1. stage' = "idle" /\ UNCHANGED <<left, fetched, nonces, clock>>
  BY DEF GiveUp, Return, serverVars
<1> QED BY <1>1, EndDescends DEF LoopInv

LEMMA FetchNonceDescends ==
  ASSUME LoopInv, FetchNonce
  PROVE  Descends
<1>1. /\ stage = "nonces" /\ fetched = 0 /\ left \in Nat /\ clock \in Nat /\ clock + 1 \in Nat
      /\ nonces \in Seq(Nat) /\ Len(nonces) \in Nat /\ Len(nonces) < NServers
  BY DEF LoopInv, FetchNonce, Polling
<1>2. CASE RequestFails /\ clock' \in Nat
  BY <1>1, <1>2, RequestFailsDescends
<1>3. CASE /\ nonces' = Append(nonces, clock + 1) /\ clock' = clock + 1
           /\ stage' = IF Len(nonces) + 1 = NServers THEN "tickets" ELSE stage
           /\ UNCHANGED <<left, fetched>>
  <2>1. nonces' \in Seq(Nat) /\ Len(nonces') = Len(nonces) + 1
    BY <1>1, <1>3
  <2>2. CASE Len(nonces) + 1 = NServers
    <3>1. stage' = "tickets"
      BY <1>3, <2>2
    <3>2. LoopInv'
      BY <1>1, <1>3, <2>1, <3>1 DEF LoopInv, CallStages, ShareStages, Polling
    <3>3. StagesLeft = 7 /\ StagesLeft' = 6
      BY <1>1, <3>1 DEF StagesLeft
    <3> QED BY <3>2, <3>3 DEF Descends, Lowers
  <2>3. CASE Len(nonces) + 1 # NServers
    <3>1. stage' = "nonces" /\ Len(nonces') < NServers
      BY <1>1, <1>3, <2>1, <2>3, Numbers
    <3>2. LoopInv'
      BY <1>1, <1>3, <2>1, <3>1 DEF LoopInv, CallStages, ShareStages, Polling
    <3>3. StagesLeft = 7 /\ StagesLeft' = 7
      BY <1>1, <3>1 DEF StagesLeft
    <3>4. RequestsLeft = NServers - Len(nonces) /\ RequestsLeft' = NServers - Len(nonces')
      BY <1>1, <3>1 DEF RequestsLeft
    <3>5. RequestsLeft' < RequestsLeft
      BY <1>1, <2>1, <3>4, Numbers
    <3> QED BY <3>2, <3>3, <3>5 DEF Descends, Lowers
  <2> QED BY <2>2, <2>3
<1>4. \/ RequestFails /\ clock' \in {clock, clock + 1}
      \/ /\ nonces' = Append(nonces, clock + 1) /\ clock' = clock + 1
         /\ stage' = IF Len(nonces) + 1 = NServers THEN "tickets" ELSE stage
         /\ UNCHANGED <<left, fetched>>
  BY DEF FetchNonce, serverVars
<1> QED BY <1>1, <1>2, <1>3, <1>4

LEMMA OpenSessionDescends ==
  ASSUME LoopInv, NEW next, NEW kind, NEW digest, OpenSession(kind, digest, next, NewSession),
         \/ stage = "tickets" /\ next = "certificate"
         \/ stage \in {"sign", "tickets"} /\ next = "authentication"
  PROVE  Descends
<1>1. stage \in Polling /\ stage # "idle" /\ fetched = 0 /\ clock \in Nat
  BY DEF LoopInv, Polling
<1>2. CASE RequestFails /\ clock' = clock
  BY <1>1, <1>2, RequestFailsDescends
<1>3. CASE left' = Polls /\ stage' = next /\ UNCHANGED <<nonces, fetched, clock>>
  <2>1. LoopInv'
    BY <1>1, <1>3, Numbers DEF LoopInv, CallStages, ShareStages, Polling
  <2>2. StagesLeft' < StagesLeft
    BY <1>3 DEF StagesLeft
  <2> QED BY <2>1, <2>2 DEF Descends, Lowers
<1> QED BY <1>2, <1>3 DEF OpenSession

LEMMA PollDescends ==
  ASSUME LoopInv, Poll
  PROVE  Descends
<1>1. stage \in {"certificate", "authentication"} /\ stage # "idle" /\ left \in Nat /\ fetched = 0
  BY DEF LoopInv, Poll, Polling
<1>2. CASE PollRefused \/ GiveUp
  BY <1>1, <1>2, GiveUpDescends DEF PollRefused
<1>3. CASE RequestFails /\ UNCHANGED serverVars
  BY <1>1, <1>3, RequestFailsDescends DEF serverVars, LoopInv
<1>4. CASE left > 0 /\ PollRunning
  <2>1. left' = left - 1 /\ left' \in Nat /\ UNCHANGED <<stage, nonces, fetched, clock>>
    BY <1>1, <1>4 DEF PollRunning, serverVars
  <2>2. LoopInv'
    BY <2>1 DEF LoopInv
  <2>3. StagesLeft' = StagesLeft
    BY <2>1 DEF StagesLeft
  <2>4. RequestsLeft' = left' /\ RequestsLeft = left
    BY <1>1, <2>1 DEF RequestsLeft
  <2>5. RequestsLeft' < RequestsLeft
    BY <1>1, <2>1, <2>4
  <2> QED BY <2>2, <2>3, <2>5 DEF Descends, Lowers
<1>5. CASE PollComplete
  <2>1. /\ stage' = IF stage = "certificate" THEN "sign" ELSE "shares"
        /\ UNCHANGED <<left, nonces, fetched, clock>>
    BY <1>5 DEF PollComplete, SessionOver, serverVars
  <2>2. LoopInv'
    BY <1>1, <2>1, Numbers DEF LoopInv, CallStages, ShareStages, Polling
  <2>3. StagesLeft' < StagesLeft
    BY <1>1, <2>1 DEF StagesLeft
  <2> QED BY <2>2, <2>3 DEF Descends, Lowers
<1> QED BY <1>2, <1>3, <1>4, <1>5 DEF Poll

LEMMA FetchShareDescends ==
  ASSUME LoopInv, FetchShare
  PROVE  Descends
<1>1. stage = "shares" /\ stage # "idle" /\ fetched \in Nat /\ fetched < NServers /\ clock \in Nat
  BY DEF LoopInv, FetchShare
<1>2. CASE stage' = "idle" /\ UNCHANGED <<left, fetched, nonces, clock>>
  BY <1>1, <1>2, EndDescends
<1>3. CASE /\ fetched' = fetched + 1
           /\ stage' = IF fetched + 1 = NServers THEN "combine" ELSE stage
           /\ UNCHANGED <<left, nonces, clock>>
  <2>1. CASE fetched + 1 = NServers
    <3>1. stage' = "combine" /\ fetched' \in Nat
      BY <1>1, <1>3, <2>1
    <3>2. LoopInv'
      BY <1>3, <3>1 DEF LoopInv, CallStages, Polling
    <3>3. StagesLeft = 2 /\ StagesLeft' = 1
      BY <1>1, <3>1 DEF StagesLeft
    <3> QED BY <3>2, <3>3 DEF Descends, Lowers
  <2>2. CASE fetched + 1 # NServers
    <3>1. stage' = "shares" /\ fetched' \in Nat /\ fetched' < NServers
      BY <1>1, <1>3, <2>2, Numbers
    <3>2. LoopInv'
      BY <1>3, <3>1 DEF LoopInv, CallStages, ShareStages, Polling
    <3>3. StagesLeft = 2 /\ StagesLeft' = 2
      BY <1>1, <3>1 DEF StagesLeft
    <3>4. RequestsLeft = NServers - fetched /\ RequestsLeft' = NServers - fetched'
      BY <1>1, <3>1 DEF RequestsLeft
    <3>5. RequestsLeft' < RequestsLeft
      BY <1>1, <1>3, <3>4, Numbers
    <3> QED BY <3>2, <3>3, <3>5 DEF Descends, Lowers
  <2> QED BY <2>1, <2>2
<1>4. CASE RequestFails /\ clock' = clock
  BY <1>1, <1>4, RequestFailsDescends
<1> QED BY <1>2, <1>3, <1>4 DEF FetchShare, Return, serverVars

LEMMA CombineDescends ==
  ASSUME LoopInv, Combine
  PROVE  Descends
<1>1. stage = "combine" /\ \E ok, fmk : Finished(ok, fmk)
  BY DEF Combine
<1>2. stage' = "idle" /\ stage # "idle" /\ UNCHANGED <<left, fetched, nonces, clock>>
  BY <1>1 DEF Finished, Return, serverVars
<1> QED BY <1>2, EndDescends DEF LoopInv

(* Stages with the token, and without: each is one request.                *)
LEMMA TokenDescends ==
  ASSUME LoopInv,
         \/ stage = "handshake" /\ stage' \in {"request", "idle"}
         \/ stage = "request" /\ stage' \in {"derive", "idle"}
         \/ stage = "derive" /\ stage' \in {"combine", "idle"},
         UNCHANGED <<left, fetched, nonces, clock>>
  PROVE  Descends
<1>1. CASE stage' = "idle"
  <2>1. stage # "idle"
    OBVIOUS
  <2> QED BY <1>1, <2>1, EndDescends DEF LoopInv
<1>2. CASE stage' # "idle"
  <2>1. stage' \in {"request", "derive", "combine"}
    BY <1>2
  <2>2. LoopInv'
    BY <2>1 DEF LoopInv, CallStages, TokenStages, Polling
  <2>3. StagesLeft' < StagesLeft
    BY <1>2 DEF StagesLeft
  <2> QED BY <2>2, <2>3 DEF Descends, Lowers
<1> QED BY <1>1, <1>2

LEMMA OnTokenDescends ==
  ASSUME LoopInv, NEW s, NEW k, OnToken(s, k),
         \/ stage = "handshake" /\ s = "request"
         \/ stage = "request" /\ s = "derive"
         \/ stage = "derive" /\ s = "combine"
  PROVE  Descends
<1>1. stage' \in {s, "idle"} /\ UNCHANGED <<left, fetched, nonces, clock>>
  BY DEF OnToken, Return, serverVars
<1> QED BY <1>1, TokenDescends

LEMMA CallStepDescends ==
  ASSUME LoopInv, CallStep
  PROVE  Descends
<1>1. CASE ShareStep
  <2>1. CASE ChooseCertificate
    BY <2>1, OpenSessionDescends DEF ChooseCertificate
  <2>2. CASE Authenticate
    BY <2>2, OpenSessionDescends DEF Authenticate, MayAuthenticate
  <2>3. CASE UnknownSigner
    BY <2>3, GiveUpDescends DEF UnknownSigner
  <2> QED BY <1>1, <2>1, <2>2, <2>3, FetchNonceDescends, PollDescends, FetchShareDescends DEF ShareStep
<1>2. CASE ClientCertificate
  BY <1>2, OnTokenDescends DEF ClientCertificate
<1>3. CASE Handshake
  BY <1>3, OnTokenDescends DEF Handshake
<1>4. CASE DeriveWithKey
  BY <1>4, OnTokenDescends DEF DeriveWithKey
<1>5. CASE DeriveWithSecret
  BY <1>5, OnTokenDescends DEF DeriveWithSecret
<1>6. CASE FetchKeyFails
  <2>1. stage # "idle" /\ RequestFails /\ clock' = clock
    BY <1>6 DEF FetchKeyFails, serverVars
  <2> QED BY <2>1, RequestFailsDescends DEF LoopInv
<1>7. CASE DeriveFromPassword
  <2>1. stage = "derive" /\ stage' \in {"combine", "idle"} /\ UNCHANGED <<left, fetched, nonces, clock>>
    BY <1>7 DEF DeriveFromPassword, Return, serverVars
  <2> QED BY <2>1, TokenDescends
<1> QED BY <1>1, <1>2, <1>3, <1>4, <1>5, <1>6, <1>7, CombineDescends DEF CallStep

(* The other steps begin a call, or leave it where it is.                  *)
LEMMA LoopStep ==
  ASSUME LoopInv, [Next]_vars
  PROVE  LoopInv'
<1>1. CASE CallStep
  BY <1>1, CallStepDescends DEF Descends
<1>2. CASE UNCHANGED <<stage, left, fetched, nonces, clock>>
  BY <1>2 DEF LoopInv
<1>3. CASE /\ stage' \in {"nonces", "handshake", "derive"} /\ nonces' = <<>> /\ fetched' = 0
           /\ UNCHANGED <<left, clock>>
  <2>1. nonces' \in Seq(Nat) /\ Len(nonces') = 0
    BY <1>3
  <2> QED BY <1>3, <2>1, Numbers DEF LoopInv, CallStages, ShareStages, TokenStages, Polling
<1>4. CASE BeginShares \/ BeginOther
  <2>1. PICK s \in {"nonces", "handshake", "derive"} : Begin(s)
    BY <1>4 DEF BeginShares, BeginOther
  <2> QED BY <1>3, <2>1 DEF Begin, serverVars
<1>5. CASE Answer
  BY <1>2, <1>5 DEF Answer, callVars
<1>6. CASE UseTokenMeanwhile \/ UNCHANGED vars
  BY <1>2, <1>6 DEF UseTokenMeanwhile, vars, shareVars, callVars, serverVars
<1> QED BY <1>1, <1>4, <1>5, <1>6 DEF Next

(* A call of getFMK makes finitely many steps, however many servers there  *)
(* are and however long the user takes: each lowers a pair of numbers, of  *)
(* which the second may rise only when the first falls.                    *)
THEOREM CallStepsEnd == Spec => []CallCounted /\ [][StepsLower]_vars
<1>1. Init => LoopInv
  BY DEF Init, ShareInit, LoopInv, Polling
<1>2. LoopInv /\ [Next]_vars => LoopInv'
  BY LoopStep
<1>3. LoopInv => CallCounted
  BY LoopCounted
<1>4. LoopInv /\ [Next]_vars => [StepsLower]_vars
  BY CallStepDescends DEF StepsLower, Descends
<1> QED BY <1>1, <1>2, <1>3, <1>4, PTL DEF Spec
=============================================================================
