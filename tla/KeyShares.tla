----------------------------- MODULE KeyShares -----------------------------
(***************************************************************************)
(* Key shares: the key that encrypts a container's file master key is      *)
(* split among share servers.  CDoc2Reader::getFMK asks every server for a *)
(* nonce, has the user sign all nonces at once with Smart-ID or Mobile-ID  *)
(* (KeyShares.cpp, NetworkBackend.cpp) and fetches the shares with the     *)
(* tickets.  Any request may fail, its answer may be lost, the user may    *)
(* refuse, or answer too late.                                             *)
(*                                                                         *)
(* The container and the shares are given: CDoc2Writer has code that       *)
(* splits a key, but its addRecipient accepts no recipient that would      *)
(* reach it.  A 32-byte value is the set of the random values it is the    *)
(* XOR of.  The servers and the signing service are external: they do what *)
(* the requests assume of them.  Each request is one step.                 *)
(***************************************************************************)
EXTENDS Integers, Sequences, FiniteSets, Functions

CONSTANTS
  NServers,      \* share servers of the recipient's server list
  Signers,       \* values of SHARE_SIGNER
  Polls,         \* rounds of the polling loop within its 60 seconds
  MaxCalls, MaxFaults   \* bounds of the exploration

ASSUME ShareAssumption ==
  /\ NServers \in Nat \ {0} /\ Polls \in Nat
  /\ Signers \subseteq {"SMART_ID", "MOBILE_ID", "other"}
  /\ MaxCalls \in Nat /\ MaxFaults \in Nat

VARIABLES
  (* A call of getFMK                                                      *)
  stage,      \* where the call is
  signer,     \* SHARE_SIGNER
  nonces,     \* one for each share asked for so far
  sid,        \* the session that is polled
  left,       \* rounds that are left
  signed,     \* what the signature in the tickets is of, <<>> if of nothing
  fetched,    \* shares fetched and added to the kek
  kek,
  result,     \* of the last call: OK or not, and fmk
  calls,      \* calls of getFMK so far
  (* The servers and the service                                           *)
  issued,     \* nonces given out and not used: <<server, nonce>>
  clock,      \* number of nonces given out
  sessions,   \* sessions of the signing service
  (* History                                                               *)
  faults,     \* what went wrong in the call, or since the last
  confirmed   \* lists of nonces the user has confirmed

callVars    == <<stage, signer, nonces, sid, left, signed, fetched, kek, result, calls>>
serverVars  == <<issued, clock, sessions>>
shareVars   == <<callVars, serverVars, faults, confirmed>>

Servers == 1 .. NServers
FMK == <<"fmk">>
KEK == <<"kek">>

(* The share on server i: a random value, but for the first, which is the  *)
(* key and all of them.                                                    *)
Random(i) == <<"random", i>>
KekShare(i) == IF i = 1 THEN {KEK} \cup {Random(j) : j \in 2 .. NServers} ELSE {Random(i)}

ShareInit ==
  /\ stage = "idle" /\ signer \in Signers
  /\ nonces = <<>> /\ sid = 0 /\ left = 0 /\ signed = <<>> /\ fetched = 0 /\ kek = {}
  /\ result = [ok |-> FALSE, fmk |-> {}] /\ calls = 0
  /\ issued = {} /\ clock = 0 /\ sessions = <<>>
  /\ faults = 0 /\ confirmed = {}

Fault == faults < MaxFaults /\ faults' = faults + 1
Smooth == UNCHANGED faults

Xor(a, b) == (a \ b) \cup (b \ a)

----------------------------------------------------------------------------
(* CDoc2Reader::getFMK.                                                    *)
Return(ok, fmk) ==
  /\ result' = [ok |-> ok, fmk |-> fmk]
  /\ stage' = "idle"

(* A call begins at stage s.                                               *)
Begin(s) ==
  /\ stage = "idle" /\ calls < MaxCalls
  /\ calls' = calls + 1
  /\ stage' = s
  /\ nonces' = <<>> /\ fetched' = 0 /\ kek' = {} /\ signed' = <<>>
  /\ faults' = 0
  /\ UNCHANGED <<signer, sid, left, result, serverVars, confirmed>>

BeginShares == Begin("nonces")

(* A request that fails ends the call.                                     *)
RequestFails ==
  /\ Fault
  /\ Return(FALSE, {})
  /\ UNCHANGED <<signer, nonces, sid, left, signed, fetched, kek, calls, confirmed>>

(* fetchNonce from the next server of the lock.                            *)
FetchNonce ==
  /\ stage = "nonces" /\ Len(nonces) < NServers
  /\ LET i == Len(nonces) + 1 IN
     \/ /\ clock' = clock + 1
        /\ issued' = issued \cup {<<i, clock + 1>>}
        /\ \/ /\ nonces' = Append(nonces, clock + 1)
              /\ Smooth
              /\ stage' = IF i = NServers THEN "tickets" ELSE stage
              /\ UNCHANGED <<signer, sid, left, signed, fetched, kek, result,
                             calls, sessions, confirmed>>
           \/ RequestFails /\ UNCHANGED sessions
     \/ RequestFails /\ UNCHANGED serverVars

(* A request opens a session of the given kind, and session n is polled    *)
(* next; or it fails, with or without a session.                           *)
NewSession == Len(sessions) + 1

OpenSession(kind, digest, next, n) ==
  LET opened == Append(sessions, [kind |-> kind, digest |-> digest, state |-> "running"])
  IN  \/ /\ sessions' = opened
         /\ sid' = n
         /\ left' = Polls
         /\ stage' = next
         /\ Smooth
         /\ UNCHANGED <<signer, nonces, signed, fetched, kek, result, calls,
                        issued, clock, confirmed>>
      \/ /\ RequestFails
         /\ sessions' \in {sessions, opened}
         /\ UNCHANGED <<issued, clock>>

(* generateTickets: one signature over all nonces.  Smart-ID first lets    *)
(* the user choose a certificate.                                          *)
ChooseCertificate ==
  /\ stage = "tickets" /\ signer = "SMART_ID"
  /\ OpenSession("certificate", <<>>, "certificate", NewSession)

MayAuthenticate == stage = "sign" \/ (stage = "tickets" /\ signer = "MOBILE_ID")

(* Mutant: the session of the certificate is polled again.                 *)
AuthenticateOldSession ==
  /\ MayAuthenticate
  /\ OpenSession("authentication", nonces, "authentication",
                 IF stage = "sign" THEN sid ELSE NewSession)

Authenticate ==
  /\ MayAuthenticate
  /\ OpenSession("authentication", nonces, "authentication", NewSession)

(* The call gives up: the servers are not involved.                        *)
GiveUp ==
  /\ Return(FALSE, {})
  /\ faults' = faults + 1
  /\ UNCHANGED <<signer, nonces, sid, left, signed, fetched, kek, calls,
                 serverVars, confirmed>>

UnknownSigner == stage = "tickets" /\ signer = "other" /\ GiveUp

(* A round of waitForResult.  A session that is complete without a         *)
(* signature is accepted, with an empty one.                               *)
Polled == sessions[sid]

(* Mutant: the end of the polling is computed again in every round.        *)
PollRunningRenewed ==
  /\ Polled.state = "running"
  /\ left' = IF left = 1 THEN Polls ELSE left - 1
  /\ Smooth
  /\ UNCHANGED <<stage, signer, nonces, sid, signed, fetched, kek, result, calls,
                 serverVars, confirmed>>

PollRunning ==
  /\ Polled.state = "running"
  /\ left' = left - 1
  /\ Smooth
  /\ UNCHANGED <<stage, signer, nonces, sid, signed, fetched, kek, result, calls,
                 serverVars, confirmed>>

SessionOver ==
  /\ signed' = Polled.digest
  /\ stage' = IF stage = "certificate" THEN "sign" ELSE "shares"
  /\ Smooth
  /\ UNCHANGED <<signer, nonces, sid, left, fetched, kek, result, calls,
                 serverVars, confirmed>>

(* Mutant: the end result is not looked at.                                *)
PollAnyResult == Polled.state # "running" /\ SessionOver

PollComplete == Polled.state = "complete" /\ SessionOver

PollRefused == Polled.state = "refused" /\ GiveUp

Poll ==
  /\ stage \in {"certificate", "authentication"}
  /\ \/ /\ left > 0
        /\ \/ PollRunning
           \/ PollComplete
           \/ PollRefused
           \/ RequestFails /\ UNCHANGED serverVars
     \/ left = 0 /\ GiveUp

(* The ticket for share i discloses its nonce among those signed, and the  *)
(* user has confirmed that signature.                                      *)
Accepted(i) ==
  /\ <<i, nonces[i]>> \in issued
  /\ signed \in confirmed /\ nonces[i] \in Range(signed)

(* fetchShare from the next server, and the XOR with the kek.  A server    *)
(* may answer with another share than the one asked for.                   *)
FetchShare ==
  /\ stage = "shares"
  /\ LET i == fetched + 1
         used == issued \ {<<i, nonces[i]>>}
     IN  IF ~Accepted(i)
         THEN /\ Return(FALSE, {})
              /\ Smooth
              /\ UNCHANGED <<signer, nonces, sid, left, signed, fetched, kek,
                             calls, serverVars, confirmed>>
         ELSE \/ /\ \/ kek' = Xor(kek, KekShare(i)) /\ Smooth
                    \/ kek' = Xor(kek, {<<"garbage", i>>}) /\ Fault
                 /\ fetched' = i
                 /\ stage' = IF i = NServers THEN "combine" ELSE stage
                 /\ issued' = used
                 /\ UNCHANGED <<signer, nonces, sid, left, signed, result, calls,
                                clock, sessions, confirmed>>
              \/ /\ RequestFails
                 /\ issued' \in {issued, used}
                 /\ UNCHANGED <<clock, sessions>>

(* The fmk is what the kek makes of the lock's encrypted_fmk; the HMAC of  *)
(* the header shows whether it is the right one.                           *)
EncryptedFmk == Xor({FMK}, {KEK})

Finished(ok, fmk) ==
  /\ Return(ok, fmk)
  /\ Smooth
  /\ UNCHANGED <<signer, nonces, sid, left, signed, fetched, kek, calls,
                 serverVars, confirmed>>

(* Mutant: the HMAC is not compared.                                       *)
CombineUnchecked == stage = "combine" /\ Finished(TRUE, Xor(EncryptedFmk, kek))

Combine ==
  /\ stage = "combine"
  /\ LET fmk == Xor(EncryptedFmk, kek)
     IN  IF fmk = {FMK} THEN Finished(TRUE, fmk) ELSE Finished(FALSE, {})

----------------------------------------------------------------------------
(* The user confirms or refuses a session at any time, also one that is no *)
(* longer polled; the service may give it up.                              *)
Answer ==
  \E i \in DOMAIN sessions, s \in {"complete", "refused"} :
    /\ sessions[i].state = "running"
    /\ sessions' = [sessions EXCEPT ![i].state = s]
    /\ confirmed' = IF s = "complete" /\ sessions[i].kind = "authentication"
                    THEN confirmed \cup {sessions[i].digest} ELSE confirmed
    /\ UNCHANGED <<callVars, issued, clock, faults>>

ShareStep ==
  \/ FetchNonce
  \/ ChooseCertificate
  \/ Authenticate
  \/ UnknownSigner
  \/ Poll
  \/ FetchShare

----------------------------------------------------------------------------
(* PROPERTIES                                                              *)

(* No server is asked for a share before the user has confirmed the very   *)
(* nonces of this call: not those of an earlier call whose answer came     *)
(* late, nor the choice of a certificate.                                  *)
SharesConfirmed == stage = "shares" \/ fetched > 0 => nonces \in confirmed

(* OK comes with the fmk of the container; an error leaves none, not even  *)
(* one that the wrong key, or a wrong share, made.                         *)
FmkExact == result.fmk = IF result.ok THEN {FMK} ELSE {}
=============================================================================
