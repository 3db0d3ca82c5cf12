----------------------------- MODULE FmkAccess -----------------------------
(***************************************************************************)
(* CDoc2Reader::getFMK (CDoc2Reader.cpp) for every type of lock, with the  *)
(* backends it calls: the share servers (KeyShares), the key server and    *)
(* the PKCS #11 token (TokenSession) through ToolCrypto and ToolNetwork    *)
(* (CDocCipher.cpp).  To fetch a key from the key server the token is used *)
(* three times: for the certificate, for the TLS handshake and for the     *)
(* key.  Between two calls the application may use the token for itself.   *)
(***************************************************************************)
EXTENDS KeyShares, TokenSession

CONSTANT Locks     \* types of locks

PrivateKeys == {o \in Objects : o.class = "private"}

ASSUME LockAssumption ==
  /\ Locks \subseteq {"share", "server", "public", "symmetric", "password"}
  \* of each name, a slot with a private key has a secret key and a certificate
  /\ \A o \in PrivateKeys, c \in {"private", "secret", "certificate"} :
       Cardinality(Find(o.slot, c, o.name)) = 1

VARIABLES
  lock,      \* the type of the lock
  target     \* the key it is for, when that is on a token

lockVars == <<lock, target>>
vars == <<lockVars, shareVars, tokenVars>>

Init == ShareInit /\ TokenInit /\ lock \in Locks /\ target \in PrivateKeys

----------------------------------------------------------------------------
(* A container for any other recipient: its kek is not on share servers.   *)
BeginOther ==
  /\ lock # "share"
  /\ Begin(IF lock = "server" THEN "handshake" ELSE "derive")
  /\ UNCHANGED <<lockVars, tokenVars>>

(* What the token returned ends the call, or takes it to stage s with      *)
(* the given kek.                                                          *)
OnToken(s, k) ==
  /\ IF last'.ok
     THEN stage' = s /\ kek' = k /\ Smooth /\ UNCHANGED result
     ELSE /\ Return(FALSE, {})
          /\ faults' = faults + (IF last'.fault THEN 1 ELSE 0)
          /\ UNCHANGED kek
  /\ UNCHANGED <<lockVars, signer, nonces, sid, left, signed, fetched, calls,
                 serverVars, confirmed>>

(* fetchKey: getClientTLSCertificate, the handshake, which has the token   *)
(* sign, and the request.                                                  *)
ClientCertificate ==
  /\ stage = "handshake"
  /\ GetCertificate(target.slot, target.name)
  /\ OnToken("request", kek)

Handshake ==
  /\ stage = "request"
  /\ Sign(target.slot, target.name)
  /\ OnToken("derive", kek)

FetchKeyFails ==
  /\ stage = "request"
  /\ RequestFails
  /\ UNCHANGED <<lockVars, serverVars, tokenVars>>

(* The kek that an operation with object o makes of the key material.      *)
KekOf(o) == IF o.slot = target.slot /\ o.name = target.name THEN {KEK}
            ELSE {<<"other", o>>}

DeriveWithKey ==
  /\ stage = "derive" /\ lock \in {"server", "public"}
  /\ IF target.ec THEN DeriveECDH1(target.slot, target.name)
     ELSE DecryptRSA(target.slot, target.name, TRUE, TRUE)
  /\ OnToken("combine", KekOf(last'.used))

DeriveWithSecret ==
  /\ stage = "derive" /\ lock = "symmetric"
  /\ ExtractHKDF(target.slot, target.name)
  /\ OnToken("combine", KekOf(last'.used))

(* A password or key of the application's: extractHKDF of CryptoBackend.   *)
DeriveFromPassword ==
  /\ stage = "derive" /\ lock = "password"
  /\ \/ kek' = {KEK} /\ stage' = "combine" /\ Smooth /\ UNCHANGED result
     \/ Fault /\ kek' = {<<"wrong password">>} /\ stage' = "combine" /\ UNCHANGED result
     \/ Fault /\ Return(FALSE, {}) /\ UNCHANGED kek
  /\ UNCHANGED <<lockVars, signer, nonces, sid, left, signed, fetched, calls,
                 serverVars, confirmed, tokenVars>>

(* The application, between two calls, uses the token for other purposes:  *)
(* to list recipients' keys (fill_recipients_from_rcpt_info), or for       *)
(* another container.                                                      *)
UseTokenMeanwhile ==
  /\ lock \in {"server", "public", "symmetric"} /\ stage = "idle"
  /\ TokenNext
  /\ UNCHANGED <<lockVars, shareVars>>

CallStep ==
  \/ (ShareStep \/ Combine) /\ UNCHANGED <<lockVars, tokenVars>>
  \/ ClientCertificate
  \/ Handshake
  \/ FetchKeyFails
  \/ DeriveWithKey
  \/ DeriveWithSecret
  \/ DeriveFromPassword

Next ==
  \/ lock = "share" /\ BeginShares /\ UNCHANGED <<lockVars, tokenVars>>
  \/ Answer /\ UNCHANGED <<lockVars, tokenVars>>
  \/ BeginOther
  \/ CallStep
  \/ UseTokenMeanwhile

(* A call runs to its end: it waits for nothing but its own requests.      *)
Spec == Init /\ [][Next]_vars /\ WF_vars(CallStep)

----------------------------------------------------------------------------
(* PROPERTIES                                                              *)

(* An intact container with the right token, password or user opens: an    *)
(* error, WRONG_KEY included, means that a request or the token failed,    *)
(* the user refused or was late, or an earlier call of the application     *)
(* left the token's session open.                                          *)
NoFalseAlarm == stage = "idle" /\ calls > 0 /\ ~result.ok => faults > 0 \/ leaked

(* getFMK returns, even when the user never answers.                       *)
CallsReturn == [](stage # "idle" => <>(stage = "idle"))
=============================================================================
