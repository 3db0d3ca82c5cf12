--------------------------- MODULE ThrottleProofs ---------------------------
(***************************************************************************)
(* What Throttle guarantees, for any number of threads, keys and calls and *)
(* every interval.                                                         *)
(***************************************************************************)
EXTENDS Throttle, FiniteSetTheorems, FunctionTheorems, WellFoundedInduction, TLAPS

(* The last call logged for its key.                                       *)
LastOf(i) == \A m \in i + 1 .. Len(log) : log[m].key # log[i].key

(* The map and the log.  An entry is the last failure of its key; a key    *)
(* whose entry was pruned failed at least an interval ago.                 *)
Mapped ==
  /\ \A k \in DOMAIN failures : \E i \in 1 .. Len(log) :
       log[i].key = k /\ log[i].now = failures[k] /\ LastOf(i)
  /\ \A i \in 1 .. Len(log) :
       LastOf(i) /\ log[i].key \notin DOMAIN failures => clock >= log[i].now + Interval

(* A call that has not returned sleeps, until its predecessor is far       *)
(* enough in the past.                                                     *)
Sleeping ==
  /\ \A j \in 1 .. Len(log) : log[j].returned = Pending => pc[log[j].thread] = "asleep"
  /\ \A i, j \in 1 .. Len(log) :
       Successive(i, j) /\ log[j].returned = Pending =>
         wake[log[j].thread] > log[i].now + Interval - Ms

Past == \A t \in Thread : call[t].now <= clock

Inv == TypeOK /\ Mapped /\ Sleeping /\ Past /\ SpacedFromPredecessor /\ OnlyRepeatsWait

----------------------------------------------------------------------------
(* Rounding loses less than a millisecond.                                 *)
LEMMA Rounding ==
  ASSUME NEW d \in Nat
  PROVE  Milliseconds(d) \in Nat /\ Milliseconds(d) > d - Ms /\ Milliseconds(d) <= d
BY TimeAssumption, SMT DEF Milliseconds

LEMMA InitInv == Init => Inv
BY TimeAssumption DEF Init, Inv, TypeOK, Mapped, Sleeping, Past, SpacedFromPredecessor, OnlyRepeatsWait, Entry

LEMMA LogTypes ==
  ASSUME TypeOK
  PROVE  \A i \in 1 .. Len(log) :
           /\ log[i].thread \in Thread /\ log[i].key \in Key /\ log[i].now \in Nat
           /\ log[i].delayed \in BOOLEAN /\ log[i].returned \in Int
<1>1. log \in Seq(Entry)
  BY DEF TypeOK
<1>2. \A i \in 1 .. Len(log) : log[i] \in Entry
  BY <1>1
<1> QED
  BY <1>2 DEF Entry

(* The delay, and what is known when there is none.                        *)
LEMMA DelayFacts ==
  ASSUME TypeOK, Past, NEW t \in Thread
  PROVE  LET k == call[t].key  now == call[t].now
         IN  /\ Delay(k, now) \in Nat
             /\ k \in Recent(now) => now + Delay(k, now) > failures[k] + Interval - Ms
             /\ Delay(k, now) > 0 => k \in Recent(now)
             /\ \A j \in DOMAIN failures \ Recent(now) : clock >= failures[j] + Interval
<1> DEFINE k == call[t].key  now == call[t].now
<1>1. k \in Key /\ now \in Nat /\ now <= clock /\ clock \in Nat
  BY DEF TypeOK, Past
<1>2. \A j \in DOMAIN failures : failures[j] \in Nat
  BY DEF TypeOK
<1>3. \A j \in DOMAIN failures \ Recent(now) : clock >= failures[j] + Interval
  BY <1>1, <1>2, TimeAssumption DEF Recent
<1>4. CASE k \in Recent(now)
  <2>1. failures[k] \in Nat /\ now - failures[k] < Interval
    BY <1>2, <1>4 DEF Recent
  <2> DEFINE d == Interval - (now - failures[k])
  <2>2. d \in Nat
    BY <2>1, <1>1, TimeAssumption
  <2>3. Milliseconds(d) \in Nat /\ Milliseconds(d) > d - Ms
    BY <2>2, Rounding
  <2>4. Delay(k, now) = Milliseconds(d)
    BY <1>4 DEF Delay
  <2> HIDE DEF d
  <2>5. now + Milliseconds(d) > failures[k] + Interval - Ms
    BY <2>1, <2>3, <1>1, TimeAssumption DEF d
  <2> QED
    BY <2>3, <2>4, <2>5, <1>3, <1>4
<1>5. CASE k \notin Recent(now)
  BY <1>3, <1>5 DEF Delay
<1> QED
  BY <1>4, <1>5

(* A step that leaves map, log and sleepers alone.                         *)
LEMMA QuietStep ==
  ASSUME Inv, TypeOK', Past', UNCHANGED <<failures, log, wake>>, clock' >= clock,
         \A t \in Thread : pc[t] = "asleep" => pc'[t] = "asleep"
  PROVE  Inv'
<1>0. /\ \A i : LastOf(i)' <=> LastOf(i)
      /\ \A i, j : Successive(i, j)' <=> Successive(i, j)
  BY DEF LastOf, Successive
<1>1. Mapped'
  <2>1. ASSUME NEW k \in DOMAIN failures
        PROVE  \E i \in 1 .. Len(log) : log[i].key = k /\ log[i].now = failures[k] /\ LastOf(i)
    BY DEF Inv, Mapped
  <2>2. ASSUME NEW i \in 1 .. Len(log), LastOf(i), log[i].key \notin DOMAIN failures
        PROVE  clock' >= log[i].now + Interval
    <3>1. clock >= log[i].now + Interval
      BY <2>2 DEF Inv, Mapped
    <3>2. log[i].now \in Nat /\ clock \in Nat /\ clock' \in Nat
      BY LogTypes DEF TypeOK, Inv
    <3> QED
      BY <3>1, <3>2, TimeAssumption
  <2> QED
    BY <1>0, <2>1, <2>2 DEF Mapped
<1>2. Sleeping'
  <2>1. \A j \in 1 .. Len(log) : log[j].thread \in Thread
    BY LogTypes DEF Inv
  <2> QED
    BY <1>0, <2>1 DEF Inv, Sleeping
<1>3. SpacedFromPredecessor' /\ OnlyRepeatsWait'
  BY <1>0 DEF Inv, SpacedFromPredecessor, OnlyRepeatsWait
<1> QED
  BY <1>1, <1>2, <1>3 DEF Inv

LEMMA CallStep == ASSUME Inv, NEW t \in Thread, NEW k \in Key, Call(t, k) PROVE Inv'
<1>1. TypeOK' /\ Past'
  BY DEF Inv, TypeOK, Past, Call
<1>2. UNCHANGED <<failures, log, wake>> /\ clock' >= clock
  BY DEF Inv, TypeOK, Call
<1>3. \A s \in Thread : pc[s] = "asleep" => pc'[s] = "asleep"
  BY DEF Inv, TypeOK, Call
<1> QED
  BY <1>1, <1>2, <1>3, QuietStep

LEMMA TickStep == ASSUME Inv, Tick PROVE Inv'
<1>1. TypeOK' /\ Past'
  BY DEF Inv, TypeOK, Past, Tick
<1> QED
  BY <1>1, QuietStep DEF Inv, TypeOK, Tick

LEMMA EnterStep == ASSUME Inv, NEW t \in Thread, Enter(t) PROVE Inv'
<1> DEFINE k == call[t].key  now == call[t].now
           delay == Delay(k, now)
           e == [thread |-> t, key |-> k, now |-> now, delayed |-> delay > 0, returned |-> Pending]
<1>0. PICK n : n = Len(log) + 1
  OBVIOUS
<1>1. /\ delay \in Nat
      /\ k \in Recent(now) => now + delay > failures[k] + Interval - Ms
      /\ delay > 0 => k \in Recent(now)
      /\ \A j \in DOMAIN failures \ Recent(now) : clock >= failures[j] + Interval
  BY DelayFacts DEF Inv
<1>2. /\ pc[t] = "called" /\ failures' = FailuresAfter(k, now)
      /\ wake' = [wake EXCEPT ![t] = clock + delay] /\ log' = Append(log, e)
      /\ pc' = [pc EXCEPT ![t] = "asleep"] /\ UNCHANGED <<clock, call>>
  BY DEF Enter
<1> HIDE DEF delay
<1>3. k \in Key /\ now \in Nat /\ now <= clock /\ clock \in Nat /\ Len(log) \in Nat /\ n = Len(log) + 1
  BY <1>0 DEF Inv, TypeOK, Past
<1>4. e \in Entry
  BY <1>3 DEF Entry, Pending
<1> HIDE DEF k, now
<1>5. TypeOK'
  <2>1. clock' \in Nat /\ wake' \in [Thread -> Nat] /\ pc' \in [Thread -> {"idle", "called", "asleep"}]
    BY <1>1, <1>2, <1>3 DEF Inv, TypeOK
  <2>2. DOMAIN failures' \subseteq Key /\ failures' \in [DOMAIN failures' -> Nat]
    BY <1>2, <1>3 DEF Inv, TypeOK, FailuresAfter, Recent
  <2>3. log' \in Seq(Entry)
    BY <1>2, <1>4 DEF Inv, TypeOK
  <2> QED
    BY <2>1, <2>2, <2>3, <1>2 DEF Inv, TypeOK
<1>6. /\ Len(log') = n /\ log'[n] = e
      /\ \A i \in 1 .. Len(log) : log'[i] = log[i]
      /\ DOMAIN log = 1 .. Len(log)
  <2>1. log \in Seq(Entry)
    BY DEF Inv, TypeOK
  <2> HIDE DEF e
  <2> QED
    BY <2>1, <1>0, <1>2, <1>4
<1>7. e.thread = t /\ e.key = k /\ e.now = now /\ e.delayed = (delay > 0) /\ e.returned = Pending
  OBVIOUS
<1> HIDE DEF e
<1>8. \A i \in 1 .. Len(log) : LastOf(i)' <=> LastOf(i) /\ log[i].key # k
  <2> SUFFICES ASSUME NEW i \in 1 .. Len(log) PROVE LastOf(i)' <=> LastOf(i) /\ log[i].key # k
    OBVIOUS
  <2>1. \A m : m \in i + 1 .. n <=> m \in i + 1 .. Len(log) \/ m = n
    BY <1>3
  <2>2. \A m \in i + 1 .. Len(log) : log'[m] = log[m]
    BY <1>3, <1>6
  <2> QED
    BY <2>1, <2>2, <1>6, <1>7 DEF LastOf
<1>9. LastOf(n)'
  BY <1>3, <1>6 DEF LastOf
<1>10. \A i, j \in 1 .. Len(log) : Successive(i, j)' <=> Successive(i, j)
  <2> SUFFICES ASSUME NEW i \in 1 .. Len(log), NEW j \in 1 .. Len(log)
               PROVE  Successive(i, j)' <=> Successive(i, j)
    OBVIOUS
  <2>1. \A m \in i + 1 .. j - 1 : log'[m] = log[m]
    BY <1>3, <1>6
  <2> QED
    BY <2>1, <1>6 DEF Successive
<1>11. \A i \in 1 .. Len(log) : Successive(i, n)' <=> LastOf(i) /\ log[i].key = k
  <2> SUFFICES ASSUME NEW i \in 1 .. Len(log) PROVE Successive(i, n)' <=> LastOf(i) /\ log[i].key = k
    OBVIOUS
  <2>1. i < n /\ i + 1 .. n - 1 = i + 1 .. Len(log) /\ \A m \in i + 1 .. Len(log) : log'[m] = log[m]
    BY <1>3, <1>6
  <2> QED
    BY <2>1, <1>6, <1>7 DEF Successive, LastOf
<1>13. \A i, j \in 1 .. n : Successive(i, j)' => i \in 1 .. Len(log)
  BY <1>3 DEF Successive
(* Where the predecessor of the new call stands.                           *)
<1>14. \A i \in 1 .. Len(log) : LastOf(i) /\ log[i].key = k =>
         \/ k \in DOMAIN failures /\ failures[k] = log[i].now
         \/ k \notin DOMAIN failures /\ clock >= log[i].now + Interval
  <2>1. \A i, j \in 1 .. Len(log) : LastOf(i) /\ LastOf(j) /\ log[i].key = log[j].key => i = j
    BY <1>3 DEF LastOf
  <2> QED
    BY <2>1 DEF Inv, Mapped
<1>15. \A i \in 1 .. Len(log) : LastOf(i) /\ log[i].key = k =>
         clock + delay > log[i].now + Interval - Ms
  <2> SUFFICES ASSUME NEW i \in 1 .. Len(log), LastOf(i), log[i].key = k
               PROVE  clock + delay > log[i].now + Interval - Ms
    OBVIOUS
  <2>1. log[i].now \in Nat
    BY LogTypes DEF Inv
  <2>2. CASE k \in Recent(now)
    <3>1. failures[k] = log[i].now
      BY <2>2, <1>14 DEF Recent
    <3> QED
      BY <2>1, <2>2, <3>1, <1>1, <1>3, TimeAssumption
  <2>3. CASE k \notin Recent(now)
    <3>1. clock >= log[i].now + Interval
      BY <2>3, <1>14, <1>1
    <3> QED
      BY <2>1, <3>1, <1>1, <1>3, TimeAssumption
  <2> QED
    BY <2>2, <2>3
<1>16. Mapped'
  <2>1. ASSUME NEW j \in DOMAIN failures'
        PROVE  \E i \in 1 .. n : log'[i].key = j /\ log'[i].now = failures'[j] /\ LastOf(i)'
    <3>1. CASE j = k
      BY <3>1, <1>2, <1>3, <1>6, <1>7, <1>9 DEF FailuresAfter
    <3>2. CASE j # k
      <4>1. j \in DOMAIN failures /\ failures'[j] = failures[j]
        BY <3>2, <2>1, <1>2 DEF FailuresAfter, Recent
      <4>2. PICK i \in 1 .. Len(log) : log[i].key = j /\ log[i].now = failures[j] /\ LastOf(i)
        BY <4>1 DEF Inv, Mapped
      <4> QED
        BY <4>1, <4>2, <3>2, <1>3, <1>6, <1>8
    <3> QED
      BY <3>1, <3>2
  <2>2. ASSUME NEW i \in 1 .. n, LastOf(i)', log'[i].key \notin DOMAIN failures'
        PROVE  clock' >= log'[i].now + Interval
    <3>1. i \in 1 .. Len(log) /\ log'[i] = log[i] /\ LastOf(i) /\ log[i].key # k
      BY <2>2, <1>2, <1>3, <1>6, <1>7, <1>8 DEF FailuresAfter
    <3>2. CASE log[i].key \in DOMAIN failures
      <4>1. log[i].key \in DOMAIN failures \ Recent(now)
        BY <3>1, <3>2, <2>2, <1>2 DEF FailuresAfter
      <4>2. failures[log[i].key] = log[i].now
        <5>1. PICK m \in 1 .. Len(log) :
                log[m].key = log[i].key /\ log[m].now = failures[log[i].key] /\ LastOf(m)
          BY <3>2 DEF Inv, Mapped
        <5>2. m = i
          BY <5>1, <3>1, <1>3 DEF LastOf
        <5> QED
          BY <5>1, <5>2
      <4> QED
        BY <4>1, <4>2, <3>1, <1>1, <1>2
    <3>3. CASE log[i].key \notin DOMAIN failures
      BY <3>1, <3>3, <1>2 DEF Inv, Mapped
    <3> QED
      BY <3>2, <3>3
  <2> QED
    BY <2>1, <2>2, <1>6 DEF Mapped
<1>17. Sleeping'
  <2>1. ASSUME NEW j \in 1 .. n, log'[j].returned = Pending PROVE pc'[log'[j].thread] = "asleep"
    BY <2>1, <1>2, <1>3, <1>6, <1>7, LogTypes DEF Inv, TypeOK, Sleeping
  <2>2. ASSUME NEW i \in 1 .. n, NEW j \in 1 .. n, Successive(i, j)', log'[j].returned = Pending
        PROVE  wake'[log'[j].thread] > log'[i].now + Interval - Ms
    <3>1. i \in 1 .. Len(log) /\ log'[i] = log[i]
      BY <2>2, <1>6, <1>13
    <3>2. CASE j = n
      <4>1. LastOf(i) /\ log[i].key = k
        BY <3>1, <3>2, <2>2, <1>11
      <4>2. wake'[log'[j].thread] = clock + delay
        BY <3>2, <1>2, <1>6, <1>7 DEF Inv, TypeOK
      <4> QED
        BY <4>1, <4>2, <3>1, <1>15
    <3>3. CASE j \in 1 .. Len(log)
      <4>1. log'[j] = log[j] /\ Successive(i, j) /\ log[j].returned = Pending
        BY <3>1, <3>3, <2>2, <1>6, <1>10
      <4>2. log[j].thread \in Thread /\ pc[log[j].thread] = "asleep"
        BY <3>3, <4>1, LogTypes DEF Inv, Sleeping
      <4>3. wake'[log[j].thread] = wake[log[j].thread]
        BY <4>2, <1>2 DEF Inv, TypeOK
      <4>4. wake[log[j].thread] > log[i].now + Interval - Ms
        BY <4>1, <3>1, <3>3 DEF Inv, Sleeping
      <4> QED
        BY <4>1, <4>3, <4>4, <3>1
    <3> QED
      BY <3>2, <3>3, <1>3
  <2> QED
    BY <2>1, <2>2, <1>6 DEF Sleeping
<1>18. SpacedFromPredecessor'
  <2> SUFFICES ASSUME NEW i \in 1 .. n, NEW j \in 1 .. n, Successive(i, j)', log'[j].returned # Pending
               PROVE  log'[j].returned > log'[i].now + Interval - Ms
    BY <1>5, <1>6 DEF SpacedFromPredecessor, TypeOK
  <2>1. i \in 1 .. Len(log) /\ j \in 1 .. Len(log)
    BY <1>3, <1>6, <1>7, <1>13
  <2>2. log'[i] = log[i] /\ log'[j] = log[j] /\ Successive(i, j)
    BY <2>1, <1>6, <1>10
  <2> QED
    BY <2>1, <2>2 DEF Inv, TypeOK, SpacedFromPredecessor
<1>19. OnlyRepeatsWait'
  <2> SUFFICES ASSUME NEW j \in 1 .. n, log'[j].delayed
               PROVE  \E i \in 1 .. n : Successive(i, j)' /\ log'[j].now - log'[i].now < Interval
    BY <1>5, <1>6 DEF OnlyRepeatsWait, TypeOK
  <2>1. CASE j = n
    <3>1. k \in Recent(now)
      BY <2>1, <1>1, <1>6, <1>7
    <3>2. k \in DOMAIN failures /\ now - failures[k] < Interval
      BY <3>1 DEF Recent
    <3>3. PICK i \in 1 .. Len(log) : log[i].key = k /\ log[i].now = failures[k] /\ LastOf(i)
      BY <3>2 DEF Inv, Mapped
    <3> QED
      BY <2>1, <3>2, <3>3, <1>3, <1>6, <1>7, <1>11
  <2>2. CASE j \in 1 .. Len(log)
    <3>1. PICK i \in 1 .. Len(log) : Successive(i, j) /\ log[j].now - log[i].now < Interval
      <4>1. log[j].delayed
        BY <2>2, <1>6
      <4> QED
        BY <2>2, <4>1, <1>6, Zenon DEF Inv, OnlyRepeatsWait
    <3> QED
      BY <2>2, <3>1, <1>3, <1>6, <1>10
  <2> QED
    BY <2>1, <2>2, <1>3
<1>20. Past'
  BY <1>2 DEF Inv, Past
<1> QED
  BY <1>5, <1>16, <1>17, <1>18, <1>19, <1>20 DEF Inv

LEMMA ReturnStep == ASSUME Inv, NEW t \in Thread, Return(t) PROVE Inv'
<1>1. /\ pc[t] = "asleep" /\ clock >= wake[t]
      /\ pc' = [pc EXCEPT ![t] = "idle"] /\ call' = [call EXCEPT ![t].now = 0]
      /\ wake' = [wake EXCEPT ![t] = 0] /\ UNCHANGED <<clock, failures>>
  BY DEF Return
<1>2. log \in Seq(Entry) /\ Len(log) \in Nat /\ DOMAIN log = 1 .. Len(log) /\ clock \in Nat
  BY DEF Inv, TypeOK
<1>3. /\ DOMAIN log' = 1 .. Len(log)
      /\ \A i \in 1 .. Len(log) :
           log'[i] = IF log[i].thread = t /\ log[i].returned = Pending
                     THEN [log[i] EXCEPT !.returned = clock] ELSE log[i]
  BY <1>2 DEF Return
<1>4. \A i \in 1 .. Len(log) : log[i] \in Entry /\ log'[i] \in Entry
  <2> SUFFICES ASSUME NEW i \in 1 .. Len(log) PROVE log[i] \in Entry /\ log'[i] \in Entry
    OBVIOUS
  <2>1. log[i] \in Entry
    BY <1>2
  <2>2. [log[i] EXCEPT !.returned = clock] \in Entry
    BY <2>1, <1>2 DEF Entry
  <2> QED
    BY <2>1, <2>2, <1>3
<1>5. log' \in Seq(Entry) /\ Len(log') = Len(log)
  BY <1>2, <1>4, <1>3 DEF Return
<1>6. \A i \in 1 .. Len(log) :
        /\ log'[i].thread = log[i].thread /\ log'[i].key = log[i].key
        /\ log'[i].now = log[i].now /\ log'[i].delayed = log[i].delayed
        /\ log'[i].returned = IF log[i].thread = t /\ log[i].returned = Pending
                              THEN clock ELSE log[i].returned
  BY <1>3, <1>4 DEF Entry
<1>7. TypeOK'
  <2>1. call' \in [Thread -> [key : Key, now : Nat]]
    BY <1>1 DEF Inv, TypeOK
  <2> QED
    BY <2>1, <1>1, <1>5 DEF Inv, TypeOK
<1>8. Past'
  BY <1>1 DEF Inv, TypeOK, Past
<1>9. \A i \in 1 .. Len(log) : LastOf(i)' <=> LastOf(i)
  <2> SUFFICES ASSUME NEW i \in 1 .. Len(log) PROVE LastOf(i)' <=> LastOf(i)
    OBVIOUS
  <2>1. \A m \in i + 1 .. Len(log) : m \in 1 .. Len(log)
    BY <1>2
  <2> QED
    BY <2>1, <1>5, <1>6 DEF LastOf
<1>10. \A i, j \in 1 .. Len(log) : Successive(i, j)' <=> Successive(i, j)
  <2> SUFFICES ASSUME NEW i \in 1 .. Len(log), NEW j \in 1 .. Len(log)
               PROVE  Successive(i, j)' <=> Successive(i, j)
    OBVIOUS
  <2>1. \A m \in i + 1 .. j - 1 : m \in 1 .. Len(log)
    BY <1>2
  <2> QED
    BY <2>1, <1>6 DEF Successive
<1>11. Mapped'
  <2>1. ASSUME NEW k \in DOMAIN failures
        PROVE  \E i \in 1 .. Len(log) : log'[i].key = k /\ log'[i].now = failures[k] /\ LastOf(i)'
    BY <1>6, <1>9 DEF Inv, Mapped
  <2>2. ASSUME NEW i \in 1 .. Len(log), LastOf(i)', log'[i].key \notin DOMAIN failures
        PROVE  clock >= log'[i].now + Interval
    BY <2>2, <1>6, <1>9 DEF Inv, Mapped
  <2> QED
    BY <2>1, <2>2, <1>1, <1>5 DEF Mapped
<1>12. ASSUME NEW j \in 1 .. Len(log), log'[j].returned = Pending
       PROVE  log[j].returned = Pending /\ log[j].thread \in Thread \ {t}
  BY <1>2, <1>6, <1>12, LogTypes DEF Inv, Pending
<1>13. Sleeping'
  <2>1. ASSUME NEW j \in 1 .. Len(log), log'[j].returned = Pending
        PROVE  /\ pc'[log'[j].thread] = "asleep"
               /\ \A i \in 1 .. Len(log) : Successive(i, j)' =>
                    wake'[log'[j].thread] > log'[i].now + Interval - Ms
    <3>1. log[j].returned = Pending /\ log[j].thread \in Thread \ {t}
      BY <2>1, <1>12
    <3>2. pc'[log[j].thread] = pc[log[j].thread] /\ wake'[log[j].thread] = wake[log[j].thread]
      BY <3>1, <1>1 DEF Inv, TypeOK
    <3> QED
      BY <3>1, <3>2, <1>6, <1>10 DEF Inv, Sleeping
  <2> QED
    BY <2>1, <1>5 DEF Sleeping
<1>14. SpacedFromPredecessor'
  <2>1. ASSUME NEW i \in 1 .. Len(log), NEW j \in 1 .. Len(log), Successive(i, j), log'[j].returned # Pending
        PROVE  log'[j].returned > log[i].now + Interval - Ms
    <3>1. CASE log[j].thread = t /\ log[j].returned = Pending
      <4>1. wake[t] > log[i].now + Interval - Ms
        BY <2>1, <3>1 DEF Inv, Sleeping
      <4>2. wake[t] \in Nat /\ log[i].now \in Nat
        BY LogTypes DEF Inv, TypeOK
      <4> QED
        BY <4>1, <4>2, <3>1, <1>1, <1>2, <1>6, TimeAssumption
    <3>2. CASE ~(log[j].thread = t /\ log[j].returned = Pending)
      BY <2>1, <3>2, <1>2, <1>6 DEF Inv, SpacedFromPredecessor
    <3> QED
      BY <3>1, <3>2
  <2> QED
    BY <2>1, <1>3, <1>6, <1>10 DEF SpacedFromPredecessor
<1>15. OnlyRepeatsWait'
  <2>1. ASSUME NEW j \in 1 .. Len(log), log[j].delayed
        PROVE  \E i \in 1 .. Len(log) : Successive(i, j)' /\ log'[j].now - log'[i].now < Interval
    <3>1. PICK i \in 1 .. Len(log) : Successive(i, j) /\ log[j].now - log[i].now < Interval
      BY <2>1, <1>2, Zenon DEF Inv, OnlyRepeatsWait
    <3> QED
      BY <3>1, <1>6, <1>10
  <2> QED
    BY <2>1, <1>3, <1>6, Zenon DEF OnlyRepeatsWait
<1> QED
  BY <1>7, <1>8, <1>11, <1>13, <1>14, <1>15 DEF Inv

----------------------------------------------------------------------------
LEMMA NextInv == Inv /\ [Next]_vars => Inv'
<1> SUFFICES ASSUME Inv, [Next]_vars PROVE Inv'
  OBVIOUS
<1>1. CASE UNCHANGED vars
  <2>1. TypeOK' /\ Past' /\ clock' >= clock
    BY <1>1 DEF vars, Inv, TypeOK, Past
  <2> QED
    BY <1>1, <2>1, QuietStep DEF vars
<1> QED
  BY <1>1, TickStep, CallStep, EnterStep, ReturnStep DEF Next

LEMMA InvAlways == Spec => []Inv
<1> QED
  BY InitInv, NextInv, PTL DEF Spec

(* The types of the throttle's state.                                      *)
THEOREM ThrottleTypes == Spec => []TypeOK
<1>1. Inv => TypeOK
  BY DEF Inv
<1> QED
  BY <1>1, InvAlways, PTL

(* A failure is returned an interval after the one before it was reported, *)
(* whatever the threads (Crypto.cpp:486-516).                              *)
THEOREM ThrottleSpaced == Spec => []SpacedFromPredecessor
<1>1. Inv => SpacedFromPredecessor
  BY DEF Inv
<1> QED
  BY <1>1, InvAlways, PTL

(* Keys are independent of each other.                                     *)
THEOREM ThrottleIndependent == Spec => []OnlyRepeatsWait
<1>1. Inv => OnlyRepeatsWait
  BY DEF Inv
<1> QED
  BY <1>1, InvAlways, PTL
----------------------------------------------------------------------------
(* HOW MANY FAILURES AN INTERVAL SEES                                      *)

(* The log is in the order of the mutex: a call returns after every clock  *)
(* reading that was logged before it, and the calls of one thread do not   *)
(* overlap.                                                                *)
Ordered ==
  /\ \A i \in 1 .. Len(log) : log[i].now <= clock
  /\ \A i, j \in 1 .. Len(log) :
       i < j /\ log[j].returned # Pending => log[j].returned >= log[i].now
  /\ \A i, j \in 1 .. Len(log) :
       i < j /\ log[i].thread = log[j].thread =>
         log[i].returned # Pending /\ log[i].returned <= log[j].now
(* What a thread that is not asleep logged has returned, before it read    *)
(* the clock again.                                                        *)
Awake ==
  \A i \in 1 .. Len(log) :
    LET t == log[i].thread
    IN  /\ pc[t] # "asleep" => log[i].returned # Pending
        /\ log[i].returned <= clock
        /\ pc[t] = "called" => log[i].returned <= call[t].now

OrderInv == Ordered /\ Awake

LEMMA OrderCall ==
  ASSUME Inv, OrderInv, NEW t \in Thread, NEW k \in Key, Call(t, k)
  PROVE  OrderInv'
<1>1. /\ pc[t] = "idle" /\ pc' = [pc EXCEPT ![t] = "called"]
      /\ call' = [call EXCEPT ![t] = [key |-> k, now |-> clock]]
      /\ UNCHANGED <<clock, log>>
  BY DEF Call
<1>2. Ordered'
  BY <1>1 DEF OrderInv, Ordered
<1>3. ASSUME NEW i \in 1 .. Len(log)
      PROVE  LET s == log[i].thread
             IN  /\ pc'[s] # "asleep" => log[i].returned # Pending
                 /\ log[i].returned <= clock
                 /\ pc'[s] = "called" => log[i].returned <= call'[s].now
  <2>1. log[i].thread \in Thread /\ clock \in Nat
    BY LogTypes DEF Inv, TypeOK
  <2>2. CASE log[i].thread = t
    BY <1>1, <2>1, <2>2 DEF Inv, TypeOK, OrderInv, Awake
  <2>3. CASE log[i].thread # t
    BY <1>1, <2>1, <2>3 DEF Inv, TypeOK, OrderInv, Awake
  <2> QED BY <2>2, <2>3
<1> QED BY <1>1, <1>2, <1>3 DEF OrderInv, Awake

LEMMA OrderTick ==
  ASSUME Inv, OrderInv, Tick
  PROVE  OrderInv'
<1>1. clock' = clock + 1 /\ UNCHANGED <<pc, call, log>> /\ clock \in Nat
  BY DEF Tick, Inv, TypeOK
<1>2. \A i \in 1 .. Len(log) : log[i].now \in Nat /\ log[i].returned \in Int
  BY LogTypes DEF Inv
<1>3. Ordered'
  BY <1>1, <1>2 DEF OrderInv, Ordered
<1>4. Awake'
  BY <1>1, <1>2 DEF OrderInv, Awake
<1> QED BY <1>3, <1>4 DEF OrderInv

LEMMA OrderEnter ==
  ASSUME Inv, OrderInv, NEW t \in Thread, Enter(t)
  PROVE  OrderInv'
<1>1. PICK e : /\ log' = Append(log, e)
               /\ e.thread = t /\ e.now = call[t].now /\ e.returned = Pending
  <2> DEFINE delay == Delay(call[t].key, call[t].now)
             e == [thread |-> t, key |-> call[t].key, now |-> call[t].now,
                   delayed |-> delay > 0, returned |-> Pending]
  <2>1. log' = Append(log, e)
    BY DEF Enter
  <2> HIDE DEF delay
  <2>2. e.thread = t /\ e.now = call[t].now /\ e.returned = Pending
    OBVIOUS
  <2> QED BY <2>1, <2>2
<1>2. /\ pc[t] = "called" /\ pc' = [pc EXCEPT ![t] = "asleep"] /\ UNCHANGED <<clock, call>>
  BY DEF Enter
<1>3. /\ call[t].now \in Nat /\ call[t].now <= clock /\ clock \in Nat
      /\ pc \in [Thread -> {"idle", "called", "asleep"}]
  BY DEF Inv, TypeOK, Past
<1>4. PICK n : n = Len(log) + 1
  OBVIOUS
<1>5. /\ Len(log') = n /\ log'[n] = e /\ Len(log) \in Nat
      /\ \A i \in 1 .. Len(log) : log'[i] = log[i]
  <2>1. log \in Seq(Entry)
    BY DEF Inv, TypeOK
  <2> QED BY <1>1, <1>4, <2>1
<1>6. \A i \in 1 .. n : i = n \/ i \in 1 .. Len(log)
  BY <1>4, <1>5
<1>7. \A i \in 1 .. Len(log) : log[i].now \in Nat /\ log[i].returned \in Int /\ log[i].thread \in Thread
  BY LogTypes DEF Inv
<1>8. ASSUME NEW i \in 1 .. n PROVE log'[i].now <= clock
  BY <1>1, <1>3, <1>5, <1>6 DEF OrderInv, Ordered
<1>9. ASSUME NEW i \in 1 .. n, NEW j \in 1 .. n, i < j
      PROVE  /\ log'[j].returned # Pending => log'[j].returned >= log'[i].now
             /\ log'[i].thread = log'[j].thread =>
                  log'[i].returned # Pending /\ log'[i].returned <= log'[j].now
  <2>1. i \in 1 .. Len(log)
    BY <1>4, <1>5, <1>9
  <2>2. CASE j = n
    BY <1>1, <1>2, <1>5, <1>7, <2>1, <2>2 DEF OrderInv, Awake
  <2>3. CASE j \in 1 .. Len(log)
    BY <1>5, <1>9, <2>1, <2>3 DEF OrderInv, Ordered
  <2> QED BY <1>6, <2>2, <2>3
<1>10. Ordered'
  BY <1>2, <1>5, <1>8, <1>9 DEF Ordered
<1>11. ASSUME NEW i \in 1 .. n
       PROVE  LET s == log'[i].thread
              IN  /\ pc'[s] # "asleep" => log'[i].returned # Pending
                  /\ log'[i].returned <= clock
                  /\ pc'[s] = "called" => log'[i].returned <= call[s].now
  <2>1. CASE i = n
    BY <1>1, <1>2, <1>3, <1>5, <2>1 DEF Pending
  <2>2. CASE i \in 1 .. Len(log)
    BY <1>2, <1>3, <1>5, <1>7, <2>2 DEF OrderInv, Awake
  <2> QED BY <1>6, <2>1, <2>2
<1>12. Awake'
  BY <1>2, <1>5, <1>11 DEF Awake
<1> QED BY <1>10, <1>12 DEF OrderInv

LEMMA OrderReturn ==
  ASSUME Inv, OrderInv, NEW t \in Thread, Return(t)
  PROVE  OrderInv'
<1>1. /\ pc' = [pc EXCEPT ![t] = "idle"] /\ call' = [call EXCEPT ![t].now = 0]
      /\ clock' = clock /\ clock \in Nat /\ pc \in [Thread -> {"idle", "called", "asleep"}]
      /\ call \in [Thread -> [key : Key, now : Nat]]
  BY DEF Return, Inv, TypeOK
<1>2. /\ log \in Seq(Entry) /\ Len(log) \in Nat /\ DOMAIN log = 1 .. Len(log)
      /\ \A i \in 1 .. Len(log) : log[i] \in Entry
  BY DEF Inv, TypeOK
<1>3. log' = [i \in 1 .. Len(log) |->
               IF log[i].thread = t /\ log[i].returned = Pending
               THEN [log[i] EXCEPT !.returned = clock] ELSE log[i]]
  BY <1>2 DEF Return
<1>4. Len(log') = Len(log)
  <2>1. log' \in Seq({log'[i] : i \in 1 .. Len(log)})
    BY <1>2, <1>3
  <2> QED BY <1>2, <1>3, <2>1
<1>5. \A i \in 1 .. Len(log) :
        /\ log[i].thread \in Thread /\ log[i].now \in Nat /\ log[i].returned \in Int
        /\ log'[i].thread = log[i].thread /\ log'[i].now = log[i].now
        /\ log'[i].returned = IF log[i].thread = t /\ log[i].returned = Pending
                              THEN clock ELSE log[i].returned
  BY <1>2, <1>3 DEF Entry
<1>6. \A i \in 1 .. Len(log) : log[i].returned # Pending => log'[i].returned = log[i].returned
  BY <1>5
<1>7. ASSUME NEW i \in 1 .. Len(log), NEW j \in 1 .. Len(log), i < j
      PROVE  /\ log'[j].returned # Pending => log'[j].returned >= log'[i].now
             /\ log'[i].thread = log'[j].thread =>
                  log'[i].returned # Pending /\ log'[i].returned <= log'[j].now
  <2>1. log'[j].returned # Pending => log'[j].returned >= log'[i].now
    BY <1>1, <1>5, <1>7 DEF OrderInv, Ordered
  <2>2. log[i].thread = log[j].thread => log[i].returned # Pending /\ log[i].returned <= log[j].now
    BY <1>7 DEF OrderInv, Ordered
  <2> QED BY <1>5, <1>6, <2>1, <2>2
<1>8. Ordered'
  <2>1. \A i \in 1 .. Len(log) : log'[i].now <= clock
    BY <1>5 DEF OrderInv, Ordered
  <2> QED BY <1>1, <1>4, <1>7, <2>1 DEF Ordered
<1>9. ASSUME NEW i \in 1 .. Len(log)
      PROVE  LET s == log'[i].thread
             IN  /\ pc'[s] # "asleep" => log'[i].returned # Pending
                 /\ log'[i].returned <= clock
                 /\ pc'[s] = "called" => log'[i].returned <= call'[s].now
  <2>1. CASE log[i].thread = t
    BY <1>1, <1>5, <2>1 DEF OrderInv, Awake, Pending
  <2>2. CASE log[i].thread # t
    BY <1>1, <1>5, <2>2 DEF OrderInv, Awake
  <2> QED BY <2>1, <2>2
<1>10. Awake'
  BY <1>1, <1>4, <1>9 DEF Awake
<1> QED BY <1>8, <1>10 DEF OrderInv

LEMMA OrderAlways == Spec => []OrderInv
<1>1. Init => OrderInv
  BY DEF Init, OrderInv, Ordered, Awake
<1>2. Inv /\ OrderInv /\ [Next]_vars => OrderInv'
  <2> SUFFICES ASSUME Inv, OrderInv, [Next]_vars PROVE OrderInv'
    OBVIOUS
  <2>1. CASE UNCHANGED vars
    BY <2>1 DEF vars, OrderInv, Ordered, Awake
  <2> QED BY <2>1, OrderTick, OrderCall, OrderEnter, OrderReturn DEF Next
<1> QED BY <1>1, <1>2, InvAlways, PTL DEF Spec

(* Sets of numbers have ends.                                              *)
LEMMA LeastNumber ==
  ASSUME NEW S \in SUBSET Nat, S # {}
  PROVE  \E m \in S : \A n \in S : m <= n
<1>1. PICK m \in S : \A n \in S : ~ (<<n, m>> \in OpToRel(<, Nat))
  BY WFMin, NatLessThanWellFounded
<1>2. ASSUME NEW n \in S PROVE m <= n
  <2>1. ~ (n < m)
    BY <1>1 DEF OpToRel
  <2> QED BY <2>1
<1> QED BY <1>2

LEMMA GreatestNumber ==
  ASSUME NEW b \in Nat, NEW S \in SUBSET (0 .. b), S # {}
  PROVE  \E m \in S : \A n \in S : n <= m
<1> DEFINE T == {d \in Nat : b - d \in S}
<1>1. T # {}
  <2>1. PICK s \in S : TRUE
    OBVIOUS
  <2>2. b - s \in T
    BY <2>1
  <2> QED BY <2>2
<1>2. PICK d \in T : \A e \in T : d <= e
  BY <1>1, LeastNumber
<1>3. ASSUME NEW n \in S PROVE n <= b - d
  <2>1. b - n \in T
    OBVIOUS
  <2> QED BY <1>2, <2>1
<1> QED BY <1>3

----------------------------------------------------------------------------
(* A call that was under way at time w: the clock was read before.         *)
Crosses(c, w) ==
  log[c].now < w /\ (log[c].returned = Pending \/ log[c].returned >= w)

(* Between two failures returned in the interval, or at the first of them, *)
(* is a call of the key that was under way when the interval began.        *)
LEMMA CrossingCall ==
  ASSUME Inv, OrderInv, NEW k \in Key, NEW u \in Nat,
         NEW i \in Returned(k, u), NEW j \in Returned(k, u), i < j
  PROVE  \E c \in i .. j - 1 : Crosses(c, u - (Interval - Ms))
<1> DEFINE w == u - (Interval - Ms)
           T == {m \in i .. j - 1 : log[m].key = k}
<1>1. /\ DOMAIN log = 1 .. Len(log) /\ Len(log) \in Nat /\ w \in Int
      /\ \A m \in 1 .. Len(log) : log[m].now \in Nat /\ log[m].returned \in Int
  <2>1. w \in Int
    BY TimeAssumption
  <2>2. DOMAIN log = 1 .. Len(log) /\ Len(log) \in Nat
    BY DEF Inv, TypeOK
  <2>3. \A m \in 1 .. Len(log) : log[m].now \in Nat /\ log[m].returned \in Int
    BY LogTypes DEF Inv, TypeOK
  <2> QED BY <2>1, <2>2, <2>3
<1>2. /\ i \in 1 .. Len(log) /\ j \in 1 .. Len(log) /\ log[i].key = k /\ log[j].key = k
      /\ log[i].returned \in w .. u /\ log[j].returned \in w .. u
      /\ log[i].returned # Pending /\ log[j].returned # Pending
  BY <1>1 DEF Returned
<1> HIDE DEF w
<1>3. T \in SUBSET (0 .. Len(log)) /\ i \in T
  BY <1>1, <1>2
<1>4. PICK p \in T : \A n \in T : n <= p
  <2> HIDE DEF T
  <2> QED BY <1>1, <1>3, GreatestNumber
<1>5. p \in i .. j - 1 /\ p \in 1 .. Len(log) /\ log[p].key = k
  BY <1>1, <1>2, <1>4
<1>6. Successive(p, j)
  <2>1. \A m \in p + 1 .. j - 1 : m \in i .. j - 1 /\ m > p
    BY <1>5, <1>2
  <2>2. \A m \in p + 1 .. j - 1 : m \notin T
    BY <1>4, <2>1, <1>5
  <2> QED BY <1>2, <1>5, <2>1, <2>2 DEF Successive
<1>7. log[j].returned > log[p].now + Interval - Ms
  BY <1>1, <1>2, <1>5, <1>6 DEF Inv, SpacedFromPredecessor
<1>8. log[p].now < w
  BY <1>1, <1>2, <1>5, <1>7, TimeAssumption DEF w
<1>9. CASE p = i
  BY <1>2, <1>5, <1>8, <1>9 DEF Crosses, w
<1>10. CASE p # i /\ log[i].now < w
  <2>1. i \in i .. j - 1 /\ Crosses(i, w)
    BY <1>1, <1>2, <1>5, <1>10 DEF Crosses
  <2> QED BY <2>1 DEF w
<1>11. CASE p # i /\ log[i].now >= w
  <2>1. i < p
    BY <1>1, <1>2, <1>5, <1>11
  <2>2. log[p].returned # Pending => log[p].returned >= log[i].now
    BY <1>2, <1>5, <2>1 DEF OrderInv, Ordered
  <2>3. log[p].returned = Pending \/ log[p].returned >= w
    BY <1>1, <1>2, <1>5, <1>11, <2>2
  <2> QED BY <1>5, <1>8, <2>3 DEF Crosses, w
<1> QED BY <1>1, <1>2, <1>9, <1>10, <1>11

(* A set with at most one element outside of A.                            *)
LEMMA AllButOne ==
  ASSUME NEW S, IsFiniteSet(S), NEW A \in SUBSET S, \A a, b \in S \ A : a = b
  PROVE  Cardinality(S) <= Cardinality(A) + 1
<1>1. IsFiniteSet(A) /\ Cardinality(A) \in Nat
  BY FS_Subset, FS_CardinalityType
<1>2. CASE S = A
  BY <1>1, <1>2
<1>3. ASSUME NEW x \in S \ A PROVE Cardinality(S) <= Cardinality(A) + 1
  <2>1. S = A \cup {x}
    BY <1>3
  <2>2. Cardinality(A \cup {x}) = Cardinality(A) + 1
    BY <1>1, <1>3, FS_AddElement
  <2> QED BY <1>1, <2>1, <2>2
<1> QED BY <1>2, <1>3

(* So the failures that are followed by another can be told apart by their *)
(* threads, and one remains.                                               *)
LEMMA ReturnedCount ==
  ASSUME Inv, OrderInv, NEW k \in Key, NEW u \in Nat
  PROVE  Cardinality(Returned(k, u)) <= Cardinality(Thread) + 1
<1> DEFINE w == u - (Interval - Ms)
           S == Returned(k, u)
           A == {i \in S : \E j \in S : i < j}
           Choice(i) == CHOOSE c \in 1 .. Len(log) :
                          i <= c /\ Crosses(c, w) /\ \A j \in S : i < j => c < j
           f == [i \in A |-> log[Choice(i)].thread]
<1>1. /\ DOMAIN log = 1 .. Len(log) /\ Len(log) \in Nat /\ w \in Int
      /\ S \subseteq 1 .. Len(log)
      /\ \A m \in 1 .. Len(log) :
           log[m].now \in Nat /\ log[m].returned \in Int /\ log[m].thread \in Thread
  BY LogTypes, TimeAssumption DEF Inv, TypeOK, Returned
<1>2. IsFiniteSet(S) /\ IsFiniteSet(A) /\ IsFiniteSet(S \ A)
  <2>1. IsFiniteSet(1 .. Len(log))
    BY <1>1, FS_Interval
  <2> HIDE DEF S
  <2>2. IsFiniteSet(S)
    BY <1>1, <2>1, FS_Subset
  <2>3. A \in SUBSET S /\ S \ A \in SUBSET S
    OBVIOUS
  <2> QED BY <2>2, <2>3, FS_Subset
<1>3. ASSUME NEW i \in A
      PROVE  /\ Choice(i) \in 1 .. Len(log) /\ i <= Choice(i) /\ Crosses(Choice(i), w)
             /\ \A j \in S : i < j => Choice(i) < j
  <2> DEFINE N == {j \in S : i < j}
  <2>1. N # {} /\ N \in SUBSET Nat /\ i \in S
    BY <1>1
  <2>2. PICK n \in N : \A j \in N : n <= j
    <3> HIDE DEF N, S
    <3> QED BY <2>1, LeastNumber
  <2>3. n \in S /\ i < n /\ i \in 1 .. Len(log) /\ n \in 1 .. Len(log)
    BY <1>1, <2>1, <2>2
  <2>4. PICK c \in i .. n - 1 : Crosses(c, w)
    BY <2>1, <2>3, CrossingCall
  <2>5. c \in 1 .. Len(log) /\ i <= c
    BY <2>3, <2>4
  <2>6. ASSUME NEW j \in S, i < j PROVE c < j
    <3>1. n <= j /\ j \in Nat
      BY <1>1, <2>2, <2>6
    <3> QED BY <2>3, <2>4, <3>1
  <2> HIDE DEF S, w
  <2> QED BY <2>4, <2>5, <2>6
<1> HIDE DEF Choice
<1>4. f \in Injection(A, Thread)
  <2>1. f \in [A -> Thread]
    <3>1. \A i \in A : log[Choice(i)].thread \in Thread
      BY <1>1, <1>3
    <3> HIDE DEF A
    <3> QED BY <3>1
  <2>2. ASSUME NEW a \in A, NEW b \in A, a < b PROVE f[a] # f[b]
    <3>1. /\ Choice(a) \in 1 .. Len(log) /\ Choice(b) \in 1 .. Len(log)
          /\ Crosses(Choice(a), w) /\ Crosses(Choice(b), w) /\ Choice(a) < b /\ b <= Choice(b)
      BY <1>3, <2>2
    <3>2. Choice(a) < Choice(b)
      BY <1>1, <3>1
    <3>3. SUFFICES ASSUME log[Choice(a)].thread = log[Choice(b)].thread PROVE FALSE
      OBVIOUS
    <3>4. /\ log[Choice(a)].returned # Pending
          /\ log[Choice(a)].returned <= log[Choice(b)].now
      BY <3>1, <3>2, <3>3 DEF OrderInv, Ordered
    <3>5. log[Choice(a)].returned >= w /\ log[Choice(b)].now < w
      BY <3>1, <3>4 DEF Crosses
    <3> HIDE DEF w
    <3> QED BY <1>1, <3>1, <3>4, <3>5
  <2>3. ASSUME NEW a \in A, NEW b \in A, f[a] = f[b] PROVE a = b
    <3>1. a \in Nat /\ b \in Nat
      BY <1>1
    <3>2. ~(a < b) /\ ~(b < a)
      <4> HIDE DEF A, f
      <4> QED BY <2>2, <2>3
    <3> QED BY <3>1, <3>2
  <2> HIDE DEF A, f
  <2> QED BY <2>1, <2>3, Fun_IsInj
<1>5. Cardinality(A) <= Cardinality(Thread)
  <2> HIDE DEF A, f
  <2> QED BY <1>4, ThreadAssumption, FS_Injection
<1>6. \A a, b \in S \ A : a = b
  <2> SUFFICES ASSUME NEW a \in S \ A, NEW b \in S \ A PROVE a = b
    OBVIOUS
  <2>1. a \in Nat /\ b \in Nat /\ ~(a < b) /\ ~(b < a)
    BY <1>1
  <2> QED BY <2>1
<1>7. A \in SUBSET S
  OBVIOUS
<1> HIDE DEF S, A
<1>8. Cardinality(A) \in Nat /\ Cardinality(S) \in Nat /\ Cardinality(Thread) \in Nat
  BY <1>2, ThreadAssumption, FS_CardinalityType
<1>9. Cardinality(S) <= Cardinality(A) + 1
  BY <1>2, <1>6, <1>7, AllButOne
<1>10. Cardinality(S) <= Cardinality(Thread) + 1
  BY <1>5, <1>8, <1>9
<1> QED BY <1>10 DEF S

(* An application with n threads sees at most n + 1 failures of a key in   *)
(* an interval (Crypto.cpp:486-516), however the threads interleave and    *)
(* whatever the map has forgotten.                                         *)
THEOREM ThrottleRate == Spec => []RateBound
<1>1. Inv /\ OrderInv => RateBound
  <2> SUFFICES ASSUME Inv, OrderInv, NEW k \in Key, NEW u \in 0 .. clock
               PROVE  Cardinality(Returned(k, u)) <= Cardinality(Thread) + 1
    BY DEF RateBound
  <2>1. u \in Nat
    BY DEF Inv, TypeOK
  <2> QED BY <2>1, ReturnedCount
<1> QED BY <1>1, InvAlways, OrderAlways, PTL
=============================================================================
