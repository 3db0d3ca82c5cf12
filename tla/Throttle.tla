------------------------------ MODULE Throttle ------------------------------
(***************************************************************************)
(* Crypto::rsaOracleThrottle (Crypto.cpp): every failed decryption with an *)
(* RSA key calls it, from any thread, and is delayed when the key failed   *)
(* shortly before.  The map of failures is shared by the process.          *)
(*                                                                         *)
(* A call reads the clock, then takes the mutex for all it does with the   *)
(* map, and sleeps without it.  Time is counted in ticks, of which Ms make *)
(* a millisecond: the delay is rounded down to milliseconds.               *)
(***************************************************************************)
EXTENDS Integers, Sequences, FiniteSets

CONSTANTS
  Thread, Key,
  Interval,   \* kMinFailureInterval in ticks
  Ms,         \* ticks in a millisecond
  MaxTime,    \* bound: no call begins later
  MaxCalls    \* bound: how many calls begin

ASSUME TimeAssumption ==
  /\ Ms \in Nat \ {0} /\ Interval \in Nat \ {0}
  /\ MaxTime \in Nat /\ MaxCalls \in Nat
ASSUME ThreadAssumption == IsFiniteSet(Thread)

VARIABLES
  clock,
  pc,        \* of a thread: "idle", "called" (the clock was read) or "asleep"
  call,      \* its call: the key, and now
  wake,      \* when its delay ends
  failures,  \* g_throttle_failures: the last failure of some of the keys
  log        \* history: the calls in the order in which they took the mutex

vars == <<clock, pc, call, wake, failures, log>>

(* A call in the log; returned is Pending until it has returned.           *)
Pending == -1
Entry == [thread : Thread, key : Key, now : Nat, delayed : BOOLEAN, returned : Int]

TypeOK ==
  /\ clock \in Nat
  /\ pc \in [Thread -> {"idle", "called", "asleep"}]
  /\ call \in [Thread -> [key : Key, now : Nat]]
  /\ wake \in [Thread -> Nat]
  /\ DOMAIN failures \subseteq Key /\ failures \in [DOMAIN failures -> Nat]
  /\ log \in Seq(Entry)

Init ==
  /\ clock = 0
  /\ pc = [t \in Thread |-> "idle"]
  /\ call \in [Thread -> [key : Key, now : {0}]]
  /\ wake = [t \in Thread |-> 0]
  /\ failures = [k \in {} |-> 0]
  /\ log = <<>>

Begun == Len(log) + Cardinality({t \in Thread : pc[t] = "called"})

Call(t, k) ==
  /\ pc[t] = "idle" /\ clock <= MaxTime /\ Begun < MaxCalls
  /\ pc' = [pc EXCEPT ![t] = "called"]
  /\ call' = [call EXCEPT ![t] = [key |-> k, now |-> clock]]
  /\ UNCHANGED <<clock, wake, failures, log>>

(* duration_cast to milliseconds, back in ticks: it rounds down.           *)
Milliseconds(d) == d - (d % Ms)

(* The keys whose entry is kept by a call that read the clock at now.      *)
Recent(now) == {k \in DOMAIN failures : now - failures[k] < Interval}

(* Mutant: a repeated failure waits for what has elapsed, not for the rest. *)
DelayElapsed(k, now) ==
  IF k \in Recent(now) THEN Milliseconds(now - failures[k]) ELSE 0

(* Mutant: any recent failure delays the call, whatever its key.           *)
DelayAny(k, now) == IF Recent(now) # {} THEN Milliseconds(Interval) ELSE 0

(* now may be older than the entry, which another thread has made since:   *)
(* the delay then exceeds the interval.                                    *)
Delay(k, now) ==
  IF k \in Recent(now) THEN Milliseconds(Interval - (now - failures[k])) ELSE 0

(* Mutant: the entry of a key that has one is left as it is.               *)
FailuresKept(k, now) ==
  [j \in Recent(now) \cup {k} |-> IF j \in Recent(now) THEN failures[j] ELSE now]

FailuresAfter(k, now) ==
  [j \in Recent(now) \cup {k} |-> IF j = k THEN now ELSE failures[j]]

(* The section under the mutex, and the start of the sleep.                *)
Enter(t) ==
  LET k     == call[t].key
      now   == call[t].now
      delay == Delay(k, now)
  IN  /\ pc[t] = "called"
      /\ failures' = FailuresAfter(k, now)
      /\ wake' = [wake EXCEPT ![t] = clock + delay]
      /\ log' = Append(log, [thread |-> t, key |-> k, now |-> now,
                             delayed |-> delay > 0, returned |-> Pending])
      /\ pc' = [pc EXCEPT ![t] = "asleep"]
      /\ UNCHANGED <<clock, call>>

(* A thread returns once its delay is over, possibly later; its variables  *)
(* are gone.                                                               *)
Return(t) ==
  /\ pc[t] = "asleep" /\ clock >= wake[t]
  /\ log' = [i \in DOMAIN log |->
               IF log[i].thread = t /\ log[i].returned = Pending
               THEN [log[i] EXCEPT !.returned = clock] ELSE log[i]]
  /\ pc' = [pc EXCEPT ![t] = "idle"]
  /\ call' = [call EXCEPT ![t].now = 0]
  /\ wake' = [wake EXCEPT ![t] = 0]
  /\ UNCHANGED <<clock, failures>>

(* Time passes; beyond MaxTime only for the calls that have begun.         *)
Tick ==
  /\ clock <= MaxTime \/ \E t \in Thread : pc[t] = "asleep" /\ wake[t] > clock
  /\ clock' = clock + 1
  /\ UNCHANGED <<pc, call, wake, failures, log>>

Next ==
  \/ Tick
  \/ \E t \in Thread : Enter(t) \/ Return(t) \/ \E k \in Key : Call(t, k)

Spec == Init /\ [][Next]_vars

----------------------------------------------------------------------------
(* PROPERTIES                                                              *)

(* j is the next call after i for the same key, in the order of the mutex. *)
Successive(i, j) ==
  /\ i < j /\ log[i].key = log[j].key
  /\ \A m \in i + 1 .. j - 1 : log[m].key # log[j].key

(* What the throttle does guarantee, to all threads: a failure is returned *)
(* no sooner than Interval, but for the rounding, after the clock reading  *)
(* of the failure before it, even when the calls enter out of the order in *)
(* which they read the clock and when a third thread has pruned the map.   *)
SpacedFromPredecessor ==
  \A i, j \in DOMAIN log :
    Successive(i, j) /\ log[j].returned # Pending =>
      log[j].returned > log[i].now + Interval - Ms

(* Keys are independent: who is delayed comes shortly after a failure of   *)
(* the same key, "no cross-tenant DoS is possible" (Crypto.h:152).         *)
OnlyRepeatsWait ==
  \A j \in DOMAIN log : log[j].delayed =>
    \E i \in DOMAIN log : Successive(i, j) /\ log[j].now - log[i].now < Interval

(* The failures of key k returned within less than Interval before time u. *)
Returned(k, u) ==
  {i \in DOMAIN log : /\ log[i].key = k /\ log[i].returned # Pending
                      /\ log[i].returned \in u - (Interval - Ms) .. u}

(* What is left of the rate the documentation promises (below): with n     *)
(* threads at most n + 1 failures of a key are returned in an interval,    *)
(* whatever the threads do: those that were under way when the interval    *)
(* began, and the first one after them.  One thread can get two.           *)
RateBound ==
  \A k \in Key, u \in 0 .. clock : Cardinality(Returned(k, u)) <= Cardinality(Thread) + 1

----------------------------------------------------------------------------
(* What the documentation says and the code does not do.                   *)

(* The call returned when its delay allowed, if it had none: one that the  *)
(* scheduler alone held up is not held against the throttle.               *)
Prompt(i) == log[i].delayed \/ log[i].returned = log[i].now

(* "a 1-second minimum interval between consecutive failures for a given   *)
(* key" (Crypto.h:143), as whoever asks with the key sees them.  A delayed *)
(* call leaves in the map the time before its delay, so the call after it  *)
(* is hardly delayed.                                                      *)
MinimumInterval ==
  \A i, j \in DOMAIN log :
    /\ Successive(i, j) /\ Prompt(i)
    /\ log[i].returned # Pending /\ log[j].returned # Pending
    => log[j].returned > log[i].returned + Interval - Ms
=============================================================================
