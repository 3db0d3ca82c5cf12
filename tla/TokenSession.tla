---------------------------- MODULE TokenSession ----------------------------
(***************************************************************************)
(* PKCS11Backend (PKCS11Backend.cpp): one PKCS #11 session and one key     *)
(* handle, shared by every operation of the backend.  An operation logs in *)
(* to the slot it is given unless a session is open already, looks for an  *)
(* object by name, uses it and logs out.  Any C_ call may fail.            *)
(*                                                                         *)
(* The application's connectToKey (CDocCipher.cpp, ToolPKCS11) passes the  *)
(* slot and the name of the recipient or lock to use*Key.  Id and label    *)
(* are one name here.                                                      *)
(***************************************************************************)
EXTENDS FiniteSets

CONSTANTS
  Objects,          \* the objects on the tokens
  NoSlot, NoObject

ASSUME ObjectAssumption ==
  /\ IsFiniteSet(Objects)
  /\ \A o \in Objects :
       /\ DOMAIN o = {"slot", "class", "name", "ec"}
       /\ o.class \in {"private", "secret", "public", "certificate"}
       /\ o.ec \in BOOLEAN       \* is it of an elliptic curve
       /\ o.slot # NoSlot
  /\ NoObject \notin Objects

VARIABLES
  session,  \* slot of the open session, or NoSlot
  key,      \* the object the handle refers to, or NoObject
  last,     \* the last operation that returned
  leaked    \* history: a call has returned with its session still open

tokenVars == <<session, key, last, leaked>>

Slots == {o.slot : o \in Objects}
Names == {o.name : o \in Objects}
TokenInit ==
  /\ session = NoSlot
  /\ key = NoObject
  /\ last = [op |-> "create", slot |-> NoSlot, ok |-> TRUE, used |-> NoObject, fault |-> FALSE]
  /\ leaked = FALSE

----------------------------------------------------------------------------
(* The operation op for the given slot returns OK having used the object   *)
(* o, or returns an error; fault says that the token failed.               *)
Succeed(op, slot, o) ==
  last' = [op |-> op, slot |-> slot, ok |-> TRUE, used |-> o, fault |-> FALSE]
Fail(op, slot, fault) ==
  last' = [op |-> op, slot |-> slot, ok |-> FALSE, used |-> NoObject, fault |-> fault]

(* Mutant: the session is closed, the handle is kept.                      *)
LogoutKeepsKey == session' = NoSlot /\ key' = key

Logout == session' = NoSlot /\ key' = NoObject

Find(slot, class, name) ==
  {o \in Objects : o.slot = slot /\ o.class = class /\ o.name = name}

(* The slot in which an operation ends up after "if (!d->session) login":  *)
(* NoSlot when the login fails.                                            *)
LoginSlots(slot) == IF session = NoSlot THEN {slot, NoSlot} ELSE {session}

(* Mutant: the session stays open when the object is not found.            *)
NotConnectedOpen(op, class, slot, name) ==
  \E s \in LoginSlots(slot) :
    /\ leaked' = leaked
    /\ UNCHANGED key
    /\ session' = s
    /\ \/ Fail(op, slot, TRUE)
       \/ /\ Cardinality(Find(s, class, name)) # 1
          /\ Fail(op, slot, FALSE)

(* The login, or the search, fails.                                        *)
NotConnected(op, class, slot, name) ==
  \E s \in LoginSlots(slot) :
    /\ leaked' = leaked
    /\ IF s = NoSlot THEN UNCHANGED <<session, key>> /\ Fail(op, slot, TRUE)
       ELSE /\ Logout
            /\ \/ Fail(op, slot, TRUE)
               \/ /\ Cardinality(Find(s, class, name)) # 1
                  /\ Fail(op, slot, FALSE)

(* The objects an operation may be connected to: the only one that fits.   *)
Connectable(class, slot, name) ==
  UNION {{o \in Find(s, class, name) : Cardinality(Find(s, class, name)) = 1} :
           s \in LoginSlots(slot) \ {NoSlot}}

(* useSecretKey or usePrivateKey, an operation of the token with the key,  *)
(* and logout whether it succeeds or fails.                                *)
KeyOp(op, class, slot, name) ==
  \/ NotConnected(op, class, slot, name)
  \/ \E o \in Connectable(class, slot, name) :
       /\ Succeed(op, slot, o) \/ Fail(op, slot, TRUE)
       /\ Logout
       /\ UNCHANGED leaked

DeriveECDH1(slot, name) == KeyOp("deriveECDH1", "private", slot, name)
ExtractHKDF(slot, name) == KeyOp("extractHKDF", "secret", slot, name)
Sign(slot, name)        == KeyOp("sign", "private", slot, name)

(* PKCS #1 v1.5 wants dst to have the expected length.  When it is empty,  *)
(* the call returns with the key loaded and its session open.              *)
DecryptRSA(slot, name, oaep, sized) ==
  IF oaep \/ sized THEN KeyOp("decryptRSA", "private", slot, name)
  ELSE \/ NotConnected("decryptRSA", "private", slot, name)
       \/ \E o \in Connectable("private", slot, name) :
            /\ session' = o.slot
            /\ key' = o
            /\ Fail("decryptRSA", slot, FALSE)
            /\ leaked' = TRUE

(* The value is read and the session closed; the key handle is not set.    *)
GetCertificate(slot, name) ==
  \/ NotConnected("getCertificate", "certificate", slot, name)
  \/ \E o \in Connectable("certificate", slot, name) :
       /\ Succeed("getCertificate", slot, o) \/ Fail("getCertificate", slot, TRUE)
       /\ Logout
       /\ UNCHANGED leaked

(* As getCertificate, but a key that is not of an elliptic curve, and a    *)
(* point that OpenSSL refuses, are returned as errors without a logout.    *)
GetPublicKey(slot, name) ==
  \/ NotConnected("getPublicKey", "public", slot, name)
  \/ \E o \in Connectable("public", slot, name) :
       \/ /\ \/ o.ec /\ Succeed("getPublicKey", slot, o)
             \/ Fail("getPublicKey", slot, TRUE)
          /\ Logout
          /\ UNCHANGED leaked
       \/ /\ Fail("getPublicKey", slot, o.ec)
          /\ session' = o.slot
          /\ leaked' = TRUE
          /\ UNCHANGED key

TokenNext ==
  \E slot \in Slots, name \in Names :
    \/ GetPublicKey(slot, name)
    \/ GetCertificate(slot, name)
    \/ DeriveECDH1(slot, name)
    \/ ExtractHKDF(slot, name)
    \/ Sign(slot, name)
    \/ \E oaep, sized \in BOOLEAN : DecryptRSA(slot, name, oaep, sized)

TokenSpec == TokenInit /\ [][TokenNext]_tokenVars

----------------------------------------------------------------------------
(* PROPERTIES                                                              *)

(* PKCS11Backend.h, of every operation: it "opens slot, logs in with pin   *)
(* and finds the correct key", "given slot, label and id".  What was used  *)
(* is in the slot that was asked for.                                      *)
KeyFromSlot == last.ok /\ last.op # "create" => last.used.slot = last.slot

(* Operations interfere only through a session that a call left open: as   *)
(* long as none did, every operation that succeeds, whatever failed before *)
(* it, used an object of its own slot, and no session or handle outlives   *)
(* the call.                                                               *)
SlotRespected == leaked \/ (KeyFromSlot /\ session = NoSlot /\ key = NoObject)

(* The handle is never one of a session that is gone or of another slot:   *)
(* PKCS #11 handles are only valid in their session.                       *)
HandleInSession == key # NoObject => session = key.slot
=============================================================================
