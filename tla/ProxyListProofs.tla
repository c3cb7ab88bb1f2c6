--------------------------- MODULE ProxyListProofs ---------------------------
(***************************************************************************)
(* Proofs about ProxyList: whatever the number of endpoints, slots and the *)
(* timeout, a result is its endpoint's own, the test ends in time, and the *)
(* list that comes of it is complete, true to the results and in order.    *)
(*                                                                         *)
(* The end in time is a counting argument.  As long as an endpoint waits,  *)
(* every slot is taken at every instant; a probe holds its slot for at     *)
(* most one timeout; so Slots more probes have begun with every timeout    *)
(* that has passed.  After Rounds - 1 of them all have begun.              *)
(*                                                                         *)
(* The list is followed from the loop that makes its rows, one for every   *)
(* key, over the sort, whose less function is a strict total order on      *)
(* them, to the writer, which exits with 0 only when it has written all.   *)
(***************************************************************************)
EXTENDS ProxyList, SequenceLemmas

Probing == {k \in Keys : probe[k] = "probing"}
Waiting == {k \in Keys : probe[k] = "spawned"}

\* The probes that had begun at time t.
Begun(t) == {k \in Keys : probe[k] \in {"probing", "done"} /\ started[k] <= t}

TypeOK ==
    /\ request \in [output : {"list", "file", "countries", "export"},
                    estimate : BOOLEAN, sortBy : {"speed", "country", "ip"}]
    /\ phase \in {"start", "testing", "printing", "exited"}
    /\ now \in Nat
    /\ probe \in [Keys -> {"none", "spawned", "probing", "done"}]
    /\ started \in [Keys -> Nat]
    /\ answer \in [Keys -> [takes : 0..Slowest, fails : BOOLEAN]]
    /\ DOMAIN results \subseteq {k \in Keys : probe[k] = "done"}
    /\ \A k \in DOMAIN results : results[k] \in [ok : BOOLEAN, duration : Nat]
    /\ inUse = Cardinality(Probing)

\* There is a goroutine for every endpoint from the start of the test on, and
\* none before, when the clock has not moved.
Spawned ==
    /\ phase = "start" => now = 0 /\ \A k \in Keys : probe[k] = "none"
    /\ phase = "testing" => \A k \in Keys : probe[k] # "none"

\* The clock does not pass the moment at which a probe is due.
OnTime ==
    \A k \in Probing : started[k] <= now /\ Elapsed(k) <= Timeout
                                         /\ Elapsed(k) <= answer[k].takes

\* While an endpoint waits, Slots more probes have begun at every multiple of
\* the timeout that has passed.
WorkConserved ==
    Waiting # {} => \A n \in Nat : n * Timeout < now =>
                        Cardinality(Begun(n * Timeout)) >= Slots * (n + 1)

\* No probe begins in the last round's timeout or later.
BegunInTime == \A k \in Probing : started[k] <= (Rounds - 1) * Timeout

IInv == TypeOK /\ Spawned /\ OnTime /\ WorkConserved /\ BegunInTime /\ OwnResult /\ EndsInTime

\* What has a result at the time, and what has been tested by the time the
\* list is printed.
Tested ==
    /\ DOMAIN results = {k \in Keys : probe[k] = "done"}
    /\ ~request.estimate => phase # "testing" /\ \A k \in Keys : probe[k] = "none"
    /\ phase \in {"printing", "exited"} =>
           \A k \in Keys : probe[k] = IF request.estimate THEN "done" ELSE "none"

\* The rows are what ListingFaithful asks of a list of proxies.
Shown(s) ==
    /\ Len(s) = Cardinality(Keys)
    /\ {<<row.country, row.ip, row.port>> : row \in ToSet(s)} = Keys
    /\ \A row \in ToSet(s) :
         LET key == <<row.country, row.ip, row.port>> IN
         /\ row.tested = request.estimate
         /\ row.tested => [ok |-> row.ok, duration |-> row.duration] = results[key]
         /\ \E i \in DOMAIN Entries : /\ key \in KeysOf(Entries[i])
                                     /\ row.host = HostOf(i) /\ row.name = Entries[i].name
    /\ \A i, j \in DOMAIN s : i < j => LexLess(Rank(s[i]), Rank(s[j]))

\* They are so from the start of the printing on, and an exit with 0 has
\* written them all.
Printed ==
    request.output \in {"list", "file"} =>
        /\ phase = "printing" => Shown(rows)
        /\ phase = "exited" /\ code = 0 => Shown(rows) /\ flushed = Len(rows)

LInv == IInv /\ Tested /\ Printed

-----------------------------------------------------------------------------
(* Arithmetic *)

\* Rounds is the number of groups of Slots the endpoints make.
LEMMA RoundsProperties ==
    /\ Cardinality(Keys) \in Nat
    /\ Rounds \in Nat /\ Rounds >= 1
    /\ Slots * Rounds >= Cardinality(Keys)
<1>1. Cardinality(Keys) \in Nat /\ Cardinality(Keys) # 0
  BY ProxyListAssumption, FS_CardinalityType, FS_EmptySet
<1>2. ASSUME NEW c \in Nat, NEW s \in Nat, c > 0, s > 0
      PROVE  /\ (c + s - 1) \div s \in Int /\ (c + s - 1) \div s >= 1
             /\ s * ((c + s - 1) \div s) >= c
  <2> DEFINE d == (c + s - 1) \div s
             m == (c + s - 1) % s
  <2>1. d \in Int /\ m \in 0..(s - 1) /\ c + s - 1 = s * d + m
    BY <1>2
  <2> HIDE DEF d, m
  <2>2. s * d >= c
    BY <2>1, <1>2
  <2>3. d >= 1
    BY <2>1, <2>2, <1>2
  <2> QED BY <2>1, <2>2, <2>3 DEF d
<1>3. Slots \in Nat /\ Slots > 0
  BY ProxyListAssumption
<1> QED BY <1>1, <1>2, <1>3 DEF Rounds

\* A multiple that is behind is behind by one timeout at least.
LEMMA Multiples ==
    ASSUME NEW n \in Nat, NEW t \in Nat, NEW w \in Nat, w > 0, n * w < t + 1
    PROVE  /\ n * w \in Nat /\ (n - 1) * w = n * w - w
           /\ n * w < t \/ n * w = t
<1>1. n * w \in Nat /\ (n - 1) * w = n * w - w
  OBVIOUS
<1> QED BY <1>1

-----------------------------------------------------------------------------
(* What is known at every state of the test *)

\* Sets of keys are finite, and counted by natural numbers.
LEMMA KeySets ==
    ASSUME NEW S \in SUBSET Keys
    PROVE  IsFiniteSet(S) /\ Cardinality(S) \in Nat /\ Cardinality(S) <= Cardinality(Keys)
BY ProxyListAssumption, FS_Subset, FS_CardinalityType

\* An endpoint waits only in the time of the rounds before the last one.
LEMMA WaitingIsEarly ==
    ASSUME IInv, Waiting # {}
    PROVE  now <= (Rounds - 1) * Timeout
<1> SUFFICES ASSUME ~(now <= (Rounds - 1) * Timeout)
             PROVE  FALSE
  OBVIOUS
<1> DEFINE n == Rounds - 1
           B == Begun(n * Timeout)
<1>1. n \in Nat /\ Slots * (n + 1) >= Cardinality(Keys) /\ Cardinality(Keys) \in Nat
  BY RoundsProperties
<1>2. n * Timeout < now
  <2>1. n * Timeout \in Int /\ now \in Int
    BY <1>1, ProxyListAssumption DEF IInv, TypeOK
  <2> QED BY <2>1
<1>3. Cardinality(B) >= Slots * (n + 1)
  BY <1>1, <1>2 DEF IInv, WorkConserved
<1>4. PICK k \in Waiting : TRUE
  OBVIOUS
<1>5. B \in SUBSET Keys /\ k \in Keys /\ k \notin B
  BY <1>4 DEF Begun, Waiting
<1> HIDE DEF n, B
<1>6. Cardinality(B) \in Nat /\ Cardinality(B) <= Cardinality(Keys) /\ Cardinality(B) # Cardinality(Keys)
  BY <1>5, KeySets, ProxyListAssumption, FS_Subset
<1>7. Slots * (n + 1) \in Int
  BY <1>1, ProxyListAssumption
<1> QED BY <1>1, <1>3, <1>6, <1>7

\* One more timeout, Slots more probes: if nothing is due, all slots are taken
\* by probes that began less than a timeout ago.
LEMMA OneMoreRound ==
    ASSUME IInv, Waiting # {}, \A k \in Keys : ~Due(k),
           NEW n \in Nat, n * Timeout = now
    PROVE  Cardinality(Begun(now)) >= Slots * (n + 1)
<1> USE DEF IInv
<1>1. /\ now \in Nat /\ Timeout \in Nat /\ Timeout > 0 /\ Slots \in Nat
      /\ inUse = Cardinality(Probing)
  BY ProxyListAssumption DEF TypeOK
<1>2. /\ Probing \in SUBSET Keys /\ Begun(now) \in SUBSET Keys
      /\ Begun(now - Timeout) \in SUBSET Keys
  BY DEF Probing, Begun
<1>3. /\ IsFiniteSet(Probing) /\ Cardinality(Probing) \in Nat
      /\ IsFiniteSet(Begun(now)) /\ Cardinality(Begun(now)) \in Nat
      /\ IsFiniteSet(Begun(now - Timeout)) /\ Cardinality(Begun(now - Timeout)) \in Nat
  BY <1>2, KeySets
<1>4. Cardinality(Probing) >= Slots
  <2>1. PICK k \in Waiting : TRUE
    OBVIOUS
  <2>2. k \in Keys /\ probe[k] = "spawned" /\ ~Due(k)
    BY <2>1 DEF Waiting
  <2>3. ~(inUse < Slots)
    BY <2>2 DEF Due
  <2> QED BY <1>1, <1>3, <2>3
<1>5. \A k \in Probing : started[k] \in Nat /\ started[k] <= now /\ started[k] > now - Timeout
  <2> SUFFICES ASSUME NEW k \in Probing
               PROVE  started[k] \in Nat /\ started[k] <= now /\ started[k] > now - Timeout
    OBVIOUS
  <2>1. k \in Keys /\ probe[k] = "probing" /\ ~Due(k) /\ started[k] \in Nat /\ started[k] <= now
    BY DEF Probing, OnTime, TypeOK
  <2>2. ~(now - started[k] >= Timeout)
    BY <2>1 DEF Due, Elapsed
  <2> QED BY <1>1, <2>1, <2>2
<1>6. Probing \subseteq Begun(now)
  BY <1>5 DEF Begun, Probing
<1>7. CASE n = 0
  <2>1. Cardinality(Probing) <= Cardinality(Begun(now))
    BY <1>3, <1>6, FS_Subset
  <2> QED BY <1>1, <1>3, <1>4, <1>7, <2>1
<1>8. CASE n # 0
  <2> DEFINE E == Begun(now - Timeout)
  <2>1. n - 1 \in Nat /\ (n - 1) * Timeout = now - Timeout /\ now - Timeout < now
    <3>1. (n - 1) * Timeout = n * Timeout - Timeout
      BY <1>1
    <3> QED BY <1>1, <1>8, <3>1
  <2>2. Cardinality(E) >= Slots * n
    <3>1. Cardinality(Begun((n - 1) * Timeout)) >= Slots * ((n - 1) + 1)
      BY <2>1 DEF WorkConserved
    <3>2. (n - 1) + 1 = n
      OBVIOUS
    <3> QED BY <2>1, <3>1, <3>2
  <2>3. E \cap Probing = {}
    BY <1>5, <1>1 DEF Begun
  <2>4. E \cup Probing \subseteq Begun(now)
    <3>1. E \subseteq Begun(now)
      BY <1>1 DEF Begun, TypeOK
    <3> QED BY <1>6, <3>1
  <2> HIDE DEF E
  <2>5. IsFiniteSet(E) /\ Cardinality(E) \in Nat
    BY <1>3 DEF E
  <2>6. Cardinality(E \cup Probing) = Cardinality(E) + Cardinality(Probing)
    <3>1. Cardinality(E \cup Probing)
            = Cardinality(E) + Cardinality(Probing) - Cardinality(E \cap Probing)
      BY <1>3, <2>5, FS_Union
    <3>2. Cardinality(E \cap Probing) = 0
      BY <2>3, FS_EmptySet
    <3> QED BY <1>3, <2>5, <3>1, <3>2
  <2>7. Cardinality(E \cup Probing) <= Cardinality(Begun(now))
    BY <1>3, <2>4, FS_Subset
  <2>8. Slots * (n + 1) = Slots * n + Slots /\ Slots * n \in Nat
    BY <1>1
  <2> QED BY <1>1, <1>3, <1>4, <2>2, <2>5, <2>6, <2>7, <2>8
<1> QED BY <1>7, <1>8

-----------------------------------------------------------------------------
(* The steps *)

\* Time passes only while nothing is due.
LEMMA ClockInvariant == IInv /\ ClockTicks => IInv'
<1> SUFFICES ASSUME IInv, ClockTicks
             PROVE  IInv'
  OBVIOUS
<1> USE DEF IInv
<1>1. /\ phase = "testing" /\ now' = now + 1
      /\ \A k \in Keys : ~Due(k)
      /\ UNCHANGED <<request, phase, probe, started, answer, results, inUse>>
      /\ now \in Nat /\ Timeout \in Nat /\ Timeout > 0 /\ Slots \in Nat
  BY ProxyListAssumption DEF ClockTicks, TypeOK
<1>2. TypeOK' /\ Spawned'
  BY <1>1 DEF TypeOK, Spawned, Probing
<1>3. Probing' = Probing /\ Waiting' = Waiting /\ \A t \in Int : Begun(t)' = Begun(t)
  BY <1>1 DEF Probing, Waiting, Begun
<1>4. ASSUME NEW k \in Probing
      PROVE  /\ k \in Keys /\ probe[k] = "probing" /\ started[k] \in Nat
             /\ started[k] <= now /\ answer[k].takes \in Nat
             /\ now - started[k] < Timeout /\ now - started[k] < answer[k].takes
  <2>1. /\ k \in Keys /\ probe[k] = "probing" /\ ~Due(k) /\ started[k] \in Nat
        /\ started[k] <= now /\ answer[k].takes \in Nat
    BY <1>1, ProxyListAssumption DEF Probing, OnTime, TypeOK
  <2>2. ~(now - started[k] >= Timeout) /\ ~(now - started[k] >= answer[k].takes)
    BY <2>1 DEF Due, Elapsed
  <2> QED BY <1>1, <2>1, <2>2
<1>5. OnTime'
  <2> SUFFICES ASSUME NEW k \in Probing
               PROVE  /\ started[k] <= now + 1 /\ (now + 1) - started[k] <= Timeout
                      /\ (now + 1) - started[k] <= answer[k].takes
    BY <1>1, <1>3 DEF OnTime, Elapsed
  <2> QED BY <1>1, <1>4
<1>6. WorkConserved'
  <2> SUFFICES ASSUME Waiting # {}, NEW n \in Nat, n * Timeout < now + 1
               PROVE  Cardinality(Begun(n * Timeout)) >= Slots * (n + 1)
    BY <1>1, <1>3 DEF WorkConserved
  <2>1. n * Timeout < now \/ n * Timeout = now
    BY <1>1, Multiples
  <2>2. CASE n * Timeout < now
    BY <2>2 DEF WorkConserved
  <2>3. CASE n * Timeout = now
    BY <1>1, <2>3, OneMoreRound
  <2> QED BY <2>1, <2>2, <2>3
<1>7. BegunInTime'
  BY <1>1, <1>3 DEF BegunInTime, Rounds
<1>8. OwnResult'
  BY <1>1 DEF OwnResult
<1>9. EndsInTime'
  <2>1. PICK k \in Keys : probe[k] # "done"
    BY DEF ClockTicks
  <2>2. Rounds \in Nat /\ Rounds >= 1
    BY RoundsProperties
  <2> DEFINE before == (Rounds - 1) * Timeout
  <2>3. before \in Int /\ LatestEnd = before + Timeout
    BY <1>1, <2>2 DEF LatestEnd
  <2> HIDE DEF before
  <2>4. CASE probe[k] = "spawned"
    <3>1. now <= before
      BY <2>4, WaitingIsEarly DEF Waiting, before
    <3> QED BY <1>1, <2>3, <3>1 DEF EndsInTime, LatestEnd, Rounds
  <2>5. CASE probe[k] = "probing"
    <3>1. k \in Probing
      BY <2>5 DEF Probing
    <3>2. started[k] \in Nat /\ now - started[k] < Timeout /\ started[k] <= before
      BY <1>4, <3>1 DEF BegunInTime, before
    <3> QED BY <1>1, <2>3, <3>2 DEF EndsInTime, LatestEnd, Rounds
  <2>6. probe[k] \in {"spawned", "probing"}
    BY <1>1, <2>1 DEF Spawned, TypeOK
  <2> QED BY <2>4, <2>5, <2>6
<1> QED BY <1>2, <1>5, <1>6, <1>7, <1>8, <1>9

\* A goroutine takes its slot: it is the first time that counts for it.
LEMMA TakeSlotInvariant ==
    ASSUME IInv, NEW k \in Keys, TakeSlot(k)
    PROVE  IInv'
<1> USE DEF IInv
<1>1. /\ probe[k] = "spawned" /\ inUse < Slots
      /\ probe' = [probe EXCEPT ![k] = "probing"]
      /\ started' = [started EXCEPT ![k] = now]
      /\ inUse' = inUse + 1
      /\ UNCHANGED <<request, phase, now, results>>
      /\ now \in Nat
  BY DEF TakeSlot, StartTime, TypeOK
<1>2. PICK a \in Answers : answer' = [answer EXCEPT ![k] = a]
  BY DEF TakeSlot
<1>3. a \in [takes : 0..Slowest, fails : BOOLEAN] /\ a.takes \in Nat
  BY <1>2, ProxyListAssumption DEF Answers
<1>4. Probing' = Probing \cup {k} /\ k \notin Probing /\ Waiting' \subseteq Waiting
      /\ k \in Waiting
  BY <1>1 DEF Probing, Waiting, TypeOK
<1>5. \A j \in Keys : j # k => /\ probe'[j] = probe[j] /\ started'[j] = started[j]
                               /\ answer'[j] = answer[j]
  BY <1>1, <1>2 DEF TypeOK
<1>6. /\ probe'[k] = "probing" /\ started'[k] = now /\ answer'[k] = a
      /\ answer'[k].takes \in Nat
  BY <1>1, <1>2, <1>3 DEF TypeOK
<1>7. TypeOK'
  <2>1. /\ probe' \in [Keys -> {"none", "spawned", "probing", "done"}]
        /\ started' \in [Keys -> Nat]
        /\ answer' \in [Keys -> [takes : 0..Slowest, fails : BOOLEAN]]
    BY <1>1, <1>2, <1>3 DEF TypeOK
  <2>2. DOMAIN results \subseteq {j \in Keys : probe'[j] = "done"}
    BY <1>1, <1>5 DEF TypeOK
  <2>3. inUse' = Cardinality(Probing')
    <3>1. IsFiniteSet(Probing)
      BY KeySets DEF Probing
    <3> QED BY <1>1, <1>4, <3>1, FS_AddElement DEF TypeOK
  <2> QED BY <1>1, <2>1, <2>2, <2>3 DEF TypeOK
<1>8. Spawned'
  BY <1>1, <1>5, <1>6 DEF Spawned
<1>9. OnTime'
  <2> SUFFICES ASSUME NEW j \in Probing'
               PROVE  /\ started'[j] <= now /\ now - started'[j] <= Timeout
                      /\ now - started'[j] <= answer'[j].takes
    BY <1>1 DEF OnTime, Elapsed
  <2>1. CASE j = k
    BY <1>1, <1>6, <2>1, ProxyListAssumption
  <2>2. CASE j # k
    BY <1>4, <1>5, <2>2 DEF OnTime, Elapsed, Probing
  <2> QED BY <2>1, <2>2
<1>10. WorkConserved'
  <2> SUFFICES ASSUME NEW n \in Nat, n * Timeout < now
               PROVE  Cardinality(Begun(n * Timeout)') >= Slots * (n + 1)
    BY <1>1 DEF WorkConserved, Begun
  <2>1. n * Timeout \in Int
    BY ProxyListAssumption
  <2>2. Begun(n * Timeout)' = Begun(n * Timeout)
    BY <1>1, <1>5, <1>6, <2>1 DEF Begun
  <2> QED BY <1>4, <2>2 DEF WorkConserved
<1>11. BegunInTime'
  <2>1. now <= (Rounds - 1) * Timeout
    BY <1>4, WaitingIsEarly
  <2> SUFFICES ASSUME NEW j \in Probing'
               PROVE  started'[j] <= (Rounds - 1) * Timeout
    BY DEF BegunInTime, Rounds
  <2>2. CASE j = k
    BY <1>6, <2>1, <2>2
  <2>3. CASE j # k
    BY <1>4, <1>5, <2>3 DEF BegunInTime, Probing
  <2> QED BY <2>2, <2>3
<1>12. OwnResult'
  <2>1. \A j \in DOMAIN results : j \in Keys /\ j # k
    BY <1>1 DEF TypeOK
  <2> QED BY <1>1, <1>5, <2>1 DEF OwnResult
<1>13. EndsInTime'
  BY <1>1 DEF EndsInTime, LatestEnd, Rounds
<1> QED BY <1>7, <1>8, <1>9, <1>10, <1>11, <1>12, <1>13

\* A probe that ends gives its slot back and records what belongs to it.
LEMMA RecordInvariant ==
    ASSUME IInv, NEW k \in Keys, ProbeEnds(k) \/ ProbeTimesOut(k)
    PROVE  IInv'
<1> USE DEF IInv
<1> DEFINE a == answer[k]
<1>1. PICK ok \in BOOLEAN :
         /\ Record(k, ok)
         /\ \/ now - started[k] >= a.takes /\ ok = ~a.fails
            \/ now - started[k] >= Timeout /\ ok = FALSE
  BY DEF ProbeEnds, ProbeTimesOut, Elapsed, TypeOK
<1>2. probe[k] = "probing" /\ k \in Probing
  BY DEF ProbeEnds, ProbeTimesOut, Probing
<1>3. /\ probe' = [probe EXCEPT ![k] = "done"] /\ inUse' = inUse - 1
      /\ UNCHANGED <<request, phase, now, started, answer>>
      /\ now \in Nat /\ started[k] \in Nat /\ started[k] <= now
      /\ now - started[k] <= Timeout /\ now - started[k] <= a.takes
      /\ a.takes \in Nat /\ a.fails \in BOOLEAN /\ Timeout \in Nat
  BY <1>1, <1>2, ProxyListAssumption DEF Record, TypeOK, OnTime, Elapsed
<1> DEFINE r == [ok |-> ok, duration |-> now - started[k]]
<1>4. /\ DOMAIN results' = {k} \cup DOMAIN results
      /\ results'[k] = r
      /\ \A j \in DOMAIN results : j # k => results'[j] = results[j]
  BY <1>1 DEF Record, WithResult, Elapsed
<1>5. /\ a.takes < Timeout => ok = ~a.fails /\ now - started[k] = a.takes
      /\ a.takes > Timeout => ~ok
      /\ now - started[k] \in Nat /\ now - started[k] <= Timeout
  BY <1>1, <1>3
<1>6. \A j \in Keys : j # k => probe'[j] = probe[j]
  BY <1>3 DEF TypeOK
<1>7. /\ probe'[k] = "done" /\ Probing' = Probing \ {k} /\ Waiting' = Waiting
      /\ \A t \in Int : Begun(t)' = Begun(t)
  BY <1>2, <1>3, <1>6 DEF TypeOK, Probing, Waiting, Begun
<1> HIDE DEF a
<1>8. TypeOK'
  <2>1. probe' \in [Keys -> {"none", "spawned", "probing", "done"}]
    BY <1>3 DEF TypeOK
  <2>2. DOMAIN results' \subseteq {j \in Keys : probe'[j] = "done"}
    BY <1>4, <1>6, <1>7 DEF TypeOK
  <2>3. \A j \in DOMAIN results' : results'[j] \in [ok : BOOLEAN, duration : Nat]
    <3>1. r \in [ok : BOOLEAN, duration : Nat]
      BY <1>5
    <3> HIDE DEF r
    <3> QED BY <1>4, <3>1 DEF TypeOK
  <2>4. inUse' = Cardinality(Probing')
    <3>1. IsFiniteSet(Probing) /\ Cardinality(Probing) \in Nat
      BY KeySets DEF Probing
    <3> QED BY <1>2, <1>3, <1>7, <3>1, FS_RemoveElement DEF TypeOK
  <2> QED BY <1>3, <2>1, <2>2, <2>3, <2>4 DEF TypeOK
<1>9. Spawned'
  <2>1. phase # "start"
    BY <1>2 DEF Spawned
  <2> QED BY <1>3, <1>6, <1>7, <2>1 DEF Spawned
<1>10. OnTime' /\ BegunInTime'
  BY <1>3, <1>7 DEF OnTime, BegunInTime, Elapsed, Rounds
<1>11. WorkConserved'
  <2>1. \A n \in Nat : n * Timeout \in Int
    BY <1>3
  <2> QED BY <1>3, <1>7, <2>1 DEF WorkConserved
<1>12. OwnResult'
  <2> SUFFICES ASSUME NEW j \in DOMAIN results'
               PROVE  /\ answer[j].takes < Timeout =>
                           results'[j] = [ok |-> ~answer[j].fails, duration |-> answer[j].takes]
                      /\ answer[j].takes > Timeout => ~results'[j].ok
                      /\ results'[j].duration <= Timeout
    BY <1>3 DEF OwnResult
  <2>1. CASE j = k
    BY <1>4, <1>5, <2>1 DEF a
  <2>2. CASE j # k
    BY <1>4, <2>2 DEF OwnResult
  <2> QED BY <2>1, <2>2
<1>13. EndsInTime'
  BY <1>3 DEF EndsInTime, LatestEnd, Rounds
<1> QED BY <1>8, <1>9, <1>10, <1>11, <1>12, <1>13

\* The test starts: all goroutines are spawned at once.
LEMMA SpawnInvariant == IInv /\ Spawn => IInv'
<1> SUFFICES ASSUME IInv, Spawn
             PROVE  IInv'
  OBVIOUS
<1> USE DEF IInv
<1>1. /\ phase' = "testing" /\ now = 0
      /\ \A k \in Keys : probe[k] = "none"
      /\ probe' = [k \in Keys |-> "spawned"]
      /\ UNCHANGED <<request, now, started, answer, results, inUse>>
  BY DEF Spawn, Spawned
<1>2. Probing = {} /\ Probing' = {} /\ DOMAIN results = {}
  BY <1>1 DEF Probing, TypeOK
<1>3. TypeOK'
  BY <1>1, <1>2 DEF TypeOK
<1>4. Spawned' /\ OnTime' /\ BegunInTime'
  BY <1>1, <1>2 DEF Spawned, OnTime, BegunInTime
<1>5. WorkConserved'
  <2>1. \A n \in Nat : ~(n * Timeout < 0)
    BY ProxyListAssumption
  <2> QED BY <1>1, <2>1 DEF WorkConserved
<1>6. OwnResult'
  BY <1>1, <1>2 DEF OwnResult
<1>7. EndsInTime'
  <2>1. Rounds \in Nat /\ Timeout \in Nat
    BY RoundsProperties, ProxyListAssumption
  <2>2. 0 <= Rounds * Timeout
    BY <2>1
  <2> QED BY <1>1, <2>2 DEF EndsInTime, LatestEnd, Rounds
<1> QED BY <1>3, <1>4, <1>5, <1>6, <1>7

\* Printing and writing leave the test alone.
LEMMA PrintInvariant ==
    IInv /\ (BeginPrinting \/ WriteRow \/ WriteFails \/ Finish \/ UNCHANGED vars) => IInv'
<1> SUFFICES ASSUME IInv, BeginPrinting \/ WriteRow \/ WriteFails \/ Finish \/ UNCHANGED vars
             PROVE  IInv'
  OBVIOUS
<1> USE DEF IInv
<1>1. /\ UNCHANGED <<request, now, probe, started, answer, results, inUse>>
      /\ phase' = phase \/ phase' \in {"printing", "exited"}
  BY DEF BeginPrinting, WriteRow, WriteFails, Finish, vars, testVars, printVars
<1>2. Probing' = Probing /\ Waiting' = Waiting /\ \A t \in Int : Begun(t)' = Begun(t)
  BY <1>1 DEF Probing, Waiting, Begun
<1>3. TypeOK'
  BY <1>1, <1>2 DEF TypeOK
<1>4. Spawned' /\ OnTime' /\ BegunInTime'
  BY <1>1, <1>2 DEF Spawned, OnTime, BegunInTime, Elapsed, Rounds
<1>5. WorkConserved'
  <2>1. \A n \in Nat : n * Timeout \in Int
    BY ProxyListAssumption
  <2> QED BY <1>1, <1>2, <2>1 DEF WorkConserved
<1>6. OwnResult' /\ EndsInTime'
  BY <1>1 DEF OwnResult, EndsInTime, LatestEnd, Rounds
<1> QED BY <1>3, <1>4, <1>5, <1>6

-----------------------------------------------------------------------------
(* The rows of a list: one for every endpoint *)

KeyOf(row) == <<row.country, row.ip, row.port>>

\* The rows of an entry, and of the whole list.
RowsFor(i) == {Row(i, p) : p \in ToSet(PortsOf(Entries[i]))}
RowSet == UNION {RowsFor(i) : i \in DOMAIN Entries}

\* An entry has ports, each of them once.
LEMMA PortsAre ==
  ASSUME NEW i \in DOMAIN Entries
  PROVE  /\ Entries[i].country \in Nat /\ Entries[i].name \in Nat /\ Entries[i].ip \in Nat
         /\ PortsOf(Entries[i]) \in Seq(Nat) /\ IsInjective(PortsOf(Entries[i]))
<1> DEFINE Entry == [country : Nat, name : Nat, host : Nat, ip : Nat, ports : Seq(Nat)]
<1>1. Entries[i] \in Entry
  <2>1. Entries \in Seq(Entry)
    BY ProxyListAssumption
  <2> HIDE DEF Entry
  <2> QED BY <2>1
<1>2. PortsOf(Entries[i]) \in Seq(Nat)
  BY <1>1 DEF PortsOf
<1> QED BY <1>1, <1>2, ProxyListAssumption

\* The row of a port has the key of the port, and what is known of that key.
LEMMA RowIs ==
  ASSUME TypeOK, NEW i \in DOMAIN Entries, NEW p \in ToSet(PortsOf(Entries[i]))
  PROVE  LET r == Row(i, p) IN
         /\ KeyOf(r) = <<Entries[i].country, Entries[i].ip, p>> /\ r.host = HostOf(i)
         /\ r.name = Entries[i].name /\ r.name \in Nat
         /\ r.country \in Nat /\ r.ip \in Nat /\ r.port \in Nat
         /\ r.ok \in BOOLEAN /\ r.duration \in Nat
         /\ r.tested = (KeyOf(r) \in DOMAIN results)
         /\ r.tested => [ok |-> r.ok, duration |-> r.duration] = results[KeyOf(r)]
<1> DEFINE e == Entries[i]
           key == <<e.country, e.ip, p>>
           r == Row(i, p)
<1>1. e.country \in Nat /\ e.name \in Nat /\ e.ip \in Nat /\ p \in Nat
  <2>1. PortsOf(Entries[i]) \in Seq(Nat)
    BY PortsAre
  <2>2. p \in Nat
    BY <2>1 DEF ToSet
  <2> QED BY <2>2, PortsAre
<1>2. r = [country |-> e.country, name |-> e.name, host |-> HostOf(i), ip |-> e.ip,
           port |-> p,
           tested |-> key \in DOMAIN results,
           ok |-> key \in DOMAIN results /\ results[key].ok,
           duration |-> IF key \in DOMAIN results THEN results[key].duration ELSE 0]
  BY DEF Row
<1> HIDE DEF e, r
<1>3. /\ r.country = e.country /\ r.name = e.name /\ r.ip = e.ip /\ r.port = p /\ r.host = HostOf(i)
      /\ r.tested = (key \in DOMAIN results)
      /\ r.ok = (key \in DOMAIN results /\ results[key].ok)
      /\ r.duration = IF key \in DOMAIN results THEN results[key].duration ELSE 0
  BY <1>2
<1>4. KeyOf(r) = key
  BY <1>3 DEF KeyOf
<1>5. key \in DOMAIN results => results[key] \in [ok : BOOLEAN, duration : Nat]
  BY DEF TypeOK
<1> HIDE DEF key
<1>6. r.ok \in BOOLEAN /\ r.duration \in Nat
  BY <1>3, <1>5
<1>7. r.tested => [ok |-> r.ok, duration |-> r.duration] = results[key]
  BY <1>3, <1>5
<1> QED BY <1>1, <1>3, <1>4, <1>6, <1>7 DEF r, e, key

\* The keys of an entry's rows are those of the entry.
LEMMA RowKeys ==
  ASSUME TypeOK, NEW i \in DOMAIN Entries
  PROVE  /\ \A r \in RowsFor(i) : KeyOf(r) \in KeysOf(Entries[i])
         /\ \A k \in KeysOf(Entries[i]) : \E r \in RowsFor(i) : KeyOf(r) = k
<1>1. \A p \in ToSet(PortsOf(Entries[i])) :
         KeyOf(Row(i, p)) = <<Entries[i].country, Entries[i].ip, p>>
  BY RowIs
<1> QED BY <1>1 DEF RowsFor, KeysOf

\* No key has two rows.
LEMMA OneRowPerKey ==
  ASSUME TypeOK, NEW a \in RowSet, NEW b \in RowSet, KeyOf(a) = KeyOf(b)
  PROVE  a = b
<1>1. PICK i \in DOMAIN Entries : a \in RowsFor(i)
  BY DEF RowSet
<1>2. PICK j \in DOMAIN Entries : b \in RowsFor(j)
  BY DEF RowSet
<1>3. i = j
  <2>1. KeyOf(a) \in KeysOf(Entries[i]) \cap KeysOf(Entries[j])
    BY <1>1, <1>2, RowKeys
  <2> QED BY <2>1, ProxyListAssumption
<1>4. PICK p \in ToSet(PortsOf(Entries[i])) : a = Row(i, p)
  BY <1>1 DEF RowsFor
<1>5. PICK q \in ToSet(PortsOf(Entries[i])) : b = Row(i, q)
  BY <1>2, <1>3 DEF RowsFor
<1>6. /\ KeyOf(a) = <<Entries[i].country, Entries[i].ip, p>>
      /\ KeyOf(b) = <<Entries[i].country, Entries[i].ip, q>>
  BY <1>4, <1>5, RowIs
<1>7. p = q
  <2>1. \A c, x : <<c, x, p>> = <<c, x, q>> => p = q
    OBVIOUS
  <2> QED BY <1>6, <2>1
<1> QED BY <1>4, <1>5, <1>7

\* The rows an entry adds.
LEMMA RowsOfIs ==
  ASSUME TypeOK, NEW i \in DOMAIN Entries
  PROVE  /\ RowsOf(i) \in Seq(RowSet) /\ IsInjective(RowsOf(i))
         /\ ToSet(RowsOf(i)) = RowsFor(i)
<1> DEFINE ports == PortsOf(Entries[i])
           s == RowsOf(i)
           n == Len(ports)
<1>1. ports \in Seq(Nat) /\ IsInjective(ports) /\ n \in Nat /\ DOMAIN ports = 1..n
  BY PortsAre
<1>2. s = [j \in 1..n |-> Row(i, ports[j])]
  BY <1>1 DEF RowsOf
<1>3. ToSet(ports) = {ports[j] : j \in 1..n}
  BY <1>1 DEF ToSet
<1>4. \A j \in 1..n : /\ ports[j] \in ToSet(ports)
                      /\ Row(i, ports[j]) \in RowsFor(i)
  BY <1>3 DEF RowsFor
<1>5. \A r \in RowsFor(i) : \E j \in 1..n : r = Row(i, ports[j])
  BY <1>3 DEF RowsFor
<1>6. RowsFor(i) \subseteq RowSet
  BY DEF RowSet
<1>7. \A j, l \in 1..n : Row(i, ports[j]) = Row(i, ports[l]) => j = l
  <2> SUFFICES ASSUME NEW j \in 1..n, NEW l \in 1..n, Row(i, ports[j]) = Row(i, ports[l])
               PROVE  j = l
    OBVIOUS
  <2>1. /\ KeyOf(Row(i, ports[j])) = <<Entries[i].country, Entries[i].ip, ports[j]>>
        /\ KeyOf(Row(i, ports[l])) = <<Entries[i].country, Entries[i].ip, ports[l]>>
    BY <1>4, RowIs
  <2>2. ports[j] = ports[l]
    BY <2>1
  <2> QED BY <2>2, <1>1 DEF IsInjective
<1> HIDE DEF ports, s, n
<1>8. s \in [1..n -> RowSet]
  BY <1>2, <1>4, <1>6
<1>9. s \in Seq(RowSet)
  BY <1>1, <1>8, IsSequence
<1>10. DOMAIN s = 1..n /\ \A j \in 1..n : s[j] = Row(i, ports[j])
  BY <1>2
<1>11. IsInjective(s)
  BY <1>10, <1>7 DEF IsInjective
<1>12. ToSet(s) = RowsFor(i)
  BY <1>10, <1>4, <1>5 DEF ToSet
<1> QED BY <1>9, <1>11, <1>12 DEF s

\* The turns of the loop over the entries.
LEMMA AllRowsSteps ==
  ASSUME TypeOK
  PROVE  \E u \in [0..Len(Entries) -> Seq(RowSet)] :
            /\ u[0] = <<>>
            /\ \A n \in 1..Len(Entries) : u[n] = u[n - 1] \o RowsOf(n)
            /\ AllRows = u[Len(Entries)]
<1> DEFINE N == Len(Entries)
           D == Seq(RowSet)
           turn == [n \in 1..N |-> [acc \in D |-> acc \o RowsOf(n)]]
           Body(u) == [n \in 0..N |-> IF n = 0 THEN <<>> ELSE u[n - 1] \o RowsOf(n)]
           e == CHOOSE u : u = Body(u)
<1>1. N \in Nat /\ <<>> \in D /\ DOMAIN Entries = 1..N
  BY ProxyListAssumption
<1>2. \A acc \in D, n \in 1..N : acc \o RowsOf(n) \in D
  <2> SUFFICES ASSUME NEW acc \in D, NEW n \in 1..N PROVE acc \o RowsOf(n) \in D
    OBVIOUS
  <2>1. RowsOf(n) \in Seq(RowSet)
    BY <1>1, RowsOfIs
  <2> QED BY <2>1
<1>3. turn \in [1..N -> [D -> D]]
  BY <1>2
<1>4. PICK f \in [0..N -> D] : f[0] = <<>> /\ \A n \in 1..N : f[n] = turn[n][f[n - 1]]
  <2> DEFINE base == <<>>
  <2>1. base \in D
    BY <1>1
  <2> HIDE DEF D, N, turn, base
  <2>2. \E f : Runs(f, N, D, base, turn)
    BY <1>1, <2>1, <1>3, Recursion
  <2> QED BY <2>2 DEF base, Runs
<1>5. \A n \in 1..N : f[n - 1] \in D
  BY <1>4
<1>6. \A n \in 1..N : f[n] = f[n - 1] \o RowsOf(n)
  BY <1>4, <1>5
<1>7. f = Body(f)
  BY <1>4, <1>6
<1>8. e = Body(e)
  <2> HIDE DEF Body
  <2> QED BY <1>7
<1>9. AllRows = e[N]
  BY DEF AllRows
<1> HIDE DEF e
<1>10. \A n \in 0..N : e[n] = IF n = 0 THEN <<>> ELSE e[n - 1] \o RowsOf(n)
  <2> HIDE DEF N
  <2> QED BY <1>8
<1>11. DOMAIN e = 0..N /\ e = [n \in 0..N |-> e[n]]
  BY <1>8
<1>12. /\ 0 \in 0..N /\ e[0] = <<>>
       /\ \A n \in 1..N : n \in 0..N /\ e[n] = e[n - 1] \o RowsOf(n)
  <2>1. 0 \in 0..N /\ \A n \in 1..N : n \in 0..N /\ n # 0
    BY <1>1
  <2> HIDE DEF N
  <2> QED BY <2>1, <1>10
<1>13. \A n \in 0..N : e[n] \in D
  <2> DEFINE S == {n \in 0..N : e[n] \in D}
  <2>1. 0 \in S
    <3>1. e[0] \in D /\ 0 \in 0..N
      BY <1>1, <1>12
    <3> HIDE DEF D, N
    <3> QED BY <3>1
  <2>2. ASSUME NEW n \in 1..N, n - 1 \in S PROVE n \in S
    <3>1. e[n - 1] \o RowsOf(n) \in D
      BY <2>2, <1>2
    <3> HIDE DEF D, N
    <3> QED BY <3>1, <1>12
  <2> HIDE DEF S, D
  <2>3. 0..N \subseteq S
    BY <1>1, <2>1, <2>2, UpTo
  <2> QED BY <2>3 DEF S
<1>14. e \in [0..N -> D]
  BY <1>11, <1>13
<1> QED BY <1>9, <1>14, <1>12

\* There is one row for every endpoint, and no other.
LEMMA AllRowsAre ==
  ASSUME TypeOK
  PROVE  /\ AllRows \in Seq(RowSet) /\ IsInjective(AllRows)
         /\ ToSet(AllRows) = RowSet
<1> DEFINE N == Len(Entries)
           Upper(n) == UNION {RowsFor(i) : i \in 1..n}
<1>1. PICK u \in [0..N -> Seq(RowSet)] :
            /\ u[0] = <<>>
            /\ \A n \in 1..N : u[n] = u[n - 1] \o RowsOf(n)
            /\ AllRows = u[N]
  BY AllRowsSteps
<1>2. N \in Nat /\ DOMAIN Entries = 1..N
  BY ProxyListAssumption
<1> DEFINE S == {n \in 0..N : IsInjective(u[n]) /\ ToSet(u[n]) = Upper(n)}
<1>3. 0 \in S
  <2>1. IsInjective(<<>>) /\ ToSet(<<>>) = {}
    BY DEF IsInjective, ToSet
  <2>2. Upper(0) = {}
    OBVIOUS
  <2> QED BY <1>1, <1>2, <2>1, <2>2
<1>4. ASSUME NEW n \in 1..N, n - 1 \in S PROVE n \in S
  <2>1. /\ u[n - 1] \in Seq(RowSet) /\ IsInjective(u[n - 1])
        /\ ToSet(u[n - 1]) = Upper(n - 1) /\ u[n] = u[n - 1] \o RowsOf(n)
    BY <1>1, <1>4
  <2>2. /\ RowsOf(n) \in Seq(RowSet) /\ IsInjective(RowsOf(n))
        /\ ToSet(RowsOf(n)) = RowsFor(n)
    BY <1>2, RowsOfIs
  <2>3. Upper(n) = Upper(n - 1) \cup RowsFor(n)
    <3>1. \A i \in 1..n : i = n \/ i \in 1..(n - 1)
      OBVIOUS
    <3>2. n \in 1..n /\ \A i \in 1..(n - 1) : i \in 1..n
      OBVIOUS
    <3> QED BY <3>1, <3>2
  <2>4. Upper(n - 1) \cap RowsFor(n) = {}
    <3> SUFFICES ASSUME NEW i \in 1..(n - 1), NEW r \in RowsFor(i), r \in RowsFor(n)
                 PROVE  FALSE
      OBVIOUS
    <3>1. i \in DOMAIN Entries /\ n \in DOMAIN Entries /\ i # n
      BY <1>2
    <3>2. KeyOf(r) \in KeysOf(Entries[i]) \cap KeysOf(Entries[n])
      BY <3>1, RowKeys
    <3> QED BY <3>1, <3>2, ProxyListAssumption
  <2> HIDE DEF Upper
  <2>5. IsInjective(u[n])
    BY <2>1, <2>2, <2>4, ConcatInjective
  <2>6. ToSet(u[n]) = Upper(n)
    BY <2>1, <2>2, <2>3, ConcatSet
  <2> QED BY <2>5, <2>6
<1>5. N \in S
  <2> HIDE DEF S, N
  <2>1. 0..N \subseteq S
    BY <1>2, <1>3, <1>4, UpTo
  <2> QED BY <2>1, <1>2
<1>6. Upper(N) = RowSet
  BY <1>2 DEF RowSet
<1> QED BY <1>1, <1>2, <1>5, <1>6

\* The rows are counted by the endpoints.
LEMMA RowsCounted ==
  ASSUME TypeOK
  PROVE  Len(AllRows) = Cardinality(Keys) /\ {KeyOf(r) : r \in RowSet} = Keys
<1> DEFINE n == Len(AllRows)
           f == [p \in 1..n |-> KeyOf(AllRows[p])]
<1>1. /\ AllRows \in Seq(RowSet) /\ n \in Nat /\ IsInjective(AllRows)
      /\ DOMAIN AllRows = 1..n /\ ToSet(AllRows) = RowSet
  BY AllRowsAre
<1>2. {KeyOf(r) : r \in RowSet} = Keys
  <2>1. \A r \in RowSet : KeyOf(r) \in Keys
    <3> SUFFICES ASSUME NEW i \in DOMAIN Entries, NEW r \in RowsFor(i) PROVE KeyOf(r) \in Keys
      BY DEF RowSet
    <3>1. Entries[i] \in ToSet(Entries) /\ KeyOf(r) \in KeysOf(Entries[i])
      BY RowKeys DEF ToSet
    <3> QED BY <3>1 DEF Keys
  <2>2. \A k \in Keys : \E r \in RowSet : KeyOf(r) = k
    <3> SUFFICES ASSUME NEW k \in Keys PROVE \E r \in RowSet : KeyOf(r) = k
      OBVIOUS
    <3>1. PICK i \in DOMAIN Entries : k \in KeysOf(Entries[i])
      BY DEF Keys, ToSet
    <3>2. PICK r \in RowsFor(i) : KeyOf(r) = k
      BY <3>1, RowKeys
    <3> QED BY <3>2 DEF RowSet
  <2> QED BY <2>1, <2>2
<1>3. \A p \in 1..n : AllRows[p] \in RowSet /\ KeyOf(AllRows[p]) \in Keys
  BY <1>1, <1>2
<1>4. f \in [1..n -> Keys]
  BY <1>3
<1>5. \A p, q \in 1..n : f[p] = f[q] => p = q
  <2> SUFFICES ASSUME NEW p \in 1..n, NEW q \in 1..n, f[p] = f[q] PROVE p = q
    OBVIOUS
  <2>1. AllRows[p] = AllRows[q]
    BY <1>3, OneRowPerKey
  <2> QED BY <2>1, <1>1 DEF IsInjective
<1>6. \A k \in Keys : \E p \in 1..n : f[p] = k
  <2> SUFFICES ASSUME NEW k \in Keys PROVE \E p \in 1..n : f[p] = k
    OBVIOUS
  <2>1. PICK r \in ToSet(AllRows) : KeyOf(r) = k
    BY <1>1, <1>2
  <2>2. PICK p \in 1..n : AllRows[p] = r
    BY <1>1 DEF ToSet
  <2> QED BY <2>1, <2>2
<1>7. f \in Bijection(1..n, Keys)
  <2> HIDE DEF f, n
  <2>1. f \in Injection(1..n, Keys) /\ f \in Surjection(1..n, Keys)
    BY <1>4, <1>5, <1>6, Fun_IsInj DEF Surjection
  <2> QED BY <2>1 DEF Bijection
<1> HIDE DEF f, n
<1>8. Cardinality(Keys) = n
  BY <1>1, <1>7, FS_CountingElements DEF ExistsBijection
<1> QED BY <1>2, <1>8 DEF n

-----------------------------------------------------------------------------
(* The order of the rows *)

\* What a row can be compared by.
LEMMA RowFields ==
  ASSUME TypeOK, NEW r \in RowSet
  PROVE  /\ r.country \in Nat /\ r.name \in Nat /\ r.ip \in Nat /\ r.port \in Nat
         /\ r.ok \in BOOLEAN /\ r.duration \in Nat
<1>1. PICK i \in DOMAIN Entries : r \in RowsFor(i)
  BY DEF RowSet
<1>2. PICK p \in ToSet(PortsOf(Entries[i])) : r = Row(i, p)
  BY <1>1 DEF RowsFor
<1> QED BY <1>2, RowIs

\* The less function is irreflexive and tells any two rows apart.
LEMMA RowBeforeTotal ==
  ASSUME TypeOK, NEW a \in RowSet, NEW b \in RowSet
  PROVE  ~RowBefore(a, a) /\ (a # b => RowBefore(a, b) \/ RowBefore(b, a))
<1>1. /\ a.country \in Nat /\ a.name \in Nat /\ a.ip \in Nat /\ a.port \in Nat
      /\ a.ok \in BOOLEAN /\ a.duration \in Nat
      /\ b.country \in Nat /\ b.name \in Nat /\ b.ip \in Nat /\ b.port \in Nat
      /\ b.ok \in BOOLEAN /\ b.duration \in Nat
  BY RowFields
<1>2. a # b => a.country # b.country \/ a.ip # b.ip \/ a.port # b.port
  BY OneRowPerKey DEF KeyOf
<1>3. request.sortBy \in {"speed", "country", "ip"}
  BY DEF TypeOK
<1>4. ~RowBefore(a, a)
  BY <1>1, <1>3 DEF RowBefore
<1>5. ASSUME a # b PROVE RowBefore(a, b) \/ RowBefore(b, a)
  <2>1. a.country # b.country \/ a.ip # b.ip \/ a.port # b.port
    BY <1>2, <1>5
  <2>2. CASE request.sortBy = "country"
    BY <1>1, <2>1, <2>2 DEF RowBefore
  <2>3. CASE request.sortBy = "ip"
    BY <1>1, <2>1, <2>3 DEF RowBefore
  <2>4. CASE request.sortBy = "speed"
    BY <1>1, <2>1, <2>4 DEF RowBefore
  <2> QED BY <1>3, <2>2, <2>3, <2>4
<1> QED BY <1>4, <1>5

\* It is transitive.
LEMMA RowBeforeTransitive ==
  ASSUME TypeOK, NEW a \in RowSet, NEW b \in RowSet, NEW c \in RowSet,
         RowBefore(a, b), RowBefore(b, c)
  PROVE  RowBefore(a, c)
<1>1. /\ a.country \in Nat /\ a.name \in Nat /\ a.ip \in Nat /\ a.port \in Nat
      /\ a.ok \in BOOLEAN /\ a.duration \in Nat
      /\ b.country \in Nat /\ b.name \in Nat /\ b.ip \in Nat /\ b.port \in Nat
      /\ b.ok \in BOOLEAN /\ b.duration \in Nat
      /\ c.country \in Nat /\ c.name \in Nat /\ c.ip \in Nat /\ c.port \in Nat
      /\ c.ok \in BOOLEAN /\ c.duration \in Nat
  BY RowFields
<1>2. CASE request.sortBy = "country"
  BY <1>1, <1>2 DEF RowBefore
<1>3. CASE request.sortBy = "ip"
  BY <1>1, <1>3 DEF RowBefore
<1>4. CASE request.sortBy = "speed"
  BY <1>1, <1>4 DEF RowBefore
<1> QED BY <1>2, <1>3, <1>4 DEF TypeOK

\* Tuples that differ first at a place.
LEMMA LessAtPlace ==
  ASSUME NEW s, NEW t, NEW n \in DOMAIN s, s[n] < t[n], \A m \in 1..(n - 1) : s[m] = t[m]
  PROVE  LexLess(s, t)
BY DEF LexLess

\* Tuples of three numbers.
LEMMA LessTriple ==
  ASSUME NEW s \in Nat \X Nat \X Nat, NEW t \in Nat \X Nat \X Nat,
         \/ s[1] < t[1]
         \/ s[1] = t[1] /\ s[2] < t[2]
         \/ s[1] = t[1] /\ s[2] = t[2] /\ s[3] < t[3]
  PROVE  LexLess(s, t)
<1>1. DOMAIN s = 1..3 /\ 1 \in 1..3 /\ 2 \in 1..3 /\ 3 \in 1..3
  OBVIOUS
<1>2. 1..(1 - 1) = {} /\ 1..(2 - 1) = {1} /\ 1..(3 - 1) = {1, 2}
  OBVIOUS
<1>3. CASE s[1] < t[1]
  BY <1>1, <1>2, <1>3, LessAtPlace
<1>4. CASE s[1] = t[1] /\ s[2] < t[2]
  BY <1>1, <1>2, <1>4, LessAtPlace
<1>5. CASE s[1] = t[1] /\ s[2] = t[2] /\ s[3] < t[3]
  BY <1>1, <1>2, <1>5, LessAtPlace
<1> QED BY <1>3, <1>4, <1>5

\* Tuples of four.
LEMMA LessQuadruple ==
  ASSUME NEW s \in Nat \X Nat \X Nat \X Nat, NEW t \in Nat \X Nat \X Nat \X Nat,
         \/ s[1] < t[1]
         \/ s[1] = t[1] /\ s[2] < t[2]
         \/ s[1] = t[1] /\ s[2] = t[2] /\ s[3] < t[3]
         \/ s[1] = t[1] /\ s[2] = t[2] /\ s[3] = t[3] /\ s[4] < t[4]
  PROVE  LexLess(s, t)
<1>1. DOMAIN s = 1..4 /\ 1 \in 1..4 /\ 2 \in 1..4 /\ 3 \in 1..4 /\ 4 \in 1..4
  OBVIOUS
<1>2. 1..(1 - 1) = {} /\ 1..(2 - 1) = {1} /\ 1..(3 - 1) = {1, 2} /\ 1..(4 - 1) = {1, 2, 3}
  OBVIOUS
<1>3. CASE s[1] < t[1]
  BY <1>1, <1>2, <1>3, LessAtPlace
<1>4. CASE s[1] = t[1] /\ s[2] < t[2]
  BY <1>1, <1>2, <1>4, LessAtPlace
<1>5. CASE s[1] = t[1] /\ s[2] = t[2] /\ s[3] < t[3]
  BY <1>1, <1>2, <1>5, LessAtPlace
<1>6. CASE s[1] = t[1] /\ s[2] = t[2] /\ s[3] = t[3] /\ s[4] < t[4]
  BY <1>1, <1>2, <1>6, LessAtPlace
<1> QED BY <1>3, <1>4, <1>5, <1>6

\* Tuples of five.
LEMMA LessQuintuple ==
  ASSUME NEW s \in Nat \X Nat \X Nat \X Nat \X Nat,
         NEW t \in Nat \X Nat \X Nat \X Nat \X Nat,
         \/ s[1] < t[1]
         \/ s[1] = t[1] /\ s[2] < t[2]
         \/ s[1] = t[1] /\ s[2] = t[2] /\ s[3] < t[3]
         \/ s[1] = t[1] /\ s[2] = t[2] /\ s[3] = t[3] /\ s[4] < t[4]
         \/ s[1] = t[1] /\ s[2] = t[2] /\ s[3] = t[3] /\ s[4] = t[4] /\ s[5] < t[5]
  PROVE  LexLess(s, t)
<1>1. DOMAIN s = 1..5 /\ 1 \in 1..5 /\ 2 \in 1..5 /\ 3 \in 1..5 /\ 4 \in 1..5 /\ 5 \in 1..5
  OBVIOUS
<1>2. /\ 1..(1 - 1) = {} /\ 1..(2 - 1) = {1} /\ 1..(3 - 1) = {1, 2}
      /\ 1..(4 - 1) = {1, 2, 3} /\ 1..(5 - 1) = {1, 2, 3, 4}
  OBVIOUS
<1>3. CASE s[1] < t[1]
  BY <1>1, <1>2, <1>3, LessAtPlace
<1>4. CASE s[1] = t[1] /\ s[2] < t[2]
  BY <1>1, <1>2, <1>4, LessAtPlace
<1>5. CASE s[1] = t[1] /\ s[2] = t[2] /\ s[3] < t[3]
  BY <1>1, <1>2, <1>5, LessAtPlace
<1>6. CASE s[1] = t[1] /\ s[2] = t[2] /\ s[3] = t[3] /\ s[4] < t[4]
  BY <1>1, <1>2, <1>6, LessAtPlace
<1>7. CASE s[1] = t[1] /\ s[2] = t[2] /\ s[3] = t[3] /\ s[4] = t[4] /\ s[5] < t[5]
  BY <1>1, <1>2, <1>7, LessAtPlace
<1> QED BY <1>3, <1>4, <1>5, <1>6, <1>7

\* A row that comes before another has the lower rank.
LEMMA RowBeforeRanks ==
  ASSUME TypeOK, NEW a \in RowSet, NEW b \in RowSet, RowBefore(a, b)
  PROVE  LexLess(Rank(a), Rank(b))
<1>1. /\ a.country \in Nat /\ a.name \in Nat /\ a.ip \in Nat /\ a.port \in Nat
      /\ a.ok \in BOOLEAN /\ a.duration \in Nat
      /\ b.country \in Nat /\ b.name \in Nat /\ b.ip \in Nat /\ b.port \in Nat
      /\ b.ok \in BOOLEAN /\ b.duration \in Nat
  BY RowFields
<1>2. CASE request.sortBy = "country"
  <2> DEFINE s == <<a.country, a.name, a.ip, a.port>>
             t == <<b.country, b.name, b.ip, b.port>>
  <2>1. \/ a.country < b.country
        \/ a.country = b.country /\ a.name < b.name
        \/ a.country = b.country /\ a.name = b.name /\ a.ip < b.ip
        \/ a.country = b.country /\ a.name = b.name /\ a.ip = b.ip /\ a.port < b.port
    BY <1>2 DEF RowBefore
  <2>2. LexLess(s, t)
    <3>1. s \in Nat \X Nat \X Nat \X Nat /\ t \in Nat \X Nat \X Nat \X Nat
      BY <1>1
    <3> QED BY <2>1, <3>1, LessQuadruple
  <2>3. Rank(a) = s /\ Rank(b) = t
    BY <1>2 DEF Rank
  <2> QED BY <2>2, <2>3
<1>3. CASE request.sortBy = "ip"
  <2> DEFINE s == <<a.ip, a.port, a.country>>
             t == <<b.ip, b.port, b.country>>
  <2>1. \/ a.ip < b.ip
        \/ a.ip = b.ip /\ a.port < b.port
        \/ a.ip = b.ip /\ a.port = b.port /\ a.country < b.country
    BY <1>3 DEF RowBefore
  <2>2. LexLess(s, t)
    <3>1. s \in Nat \X Nat \X Nat /\ t \in Nat \X Nat \X Nat
      BY <1>1
    <3> QED BY <2>1, <3>1, LessTriple
  <2>3. Rank(a) = s /\ Rank(b) = t
    BY <1>3 DEF Rank
  <2> QED BY <2>2, <2>3
<1>4. CASE request.sortBy = "speed"
  <2> DEFINE Place(r, k, d) == <<k, d, r.country, r.ip, r.port>>
  <2>1. \A r \in {a, b} : Rank(r) = IF r.ok THEN Place(r, 0, r.duration) ELSE Place(r, 1, 0)
    BY <1>4, <1>1 DEF Rank
  <2>2. \A k, d \in Nat : /\ Place(a, k, d) \in Nat \X Nat \X Nat \X Nat \X Nat
                          /\ Place(b, k, d) \in Nat \X Nat \X Nat \X Nat \X Nat
    BY <1>1
  <2>3. CASE a.ok /\ b.ok
    <3>1. \/ a.duration < b.duration
          \/ a.duration = b.duration /\ a.country < b.country
          \/ a.duration = b.duration /\ a.country = b.country /\ a.ip < b.ip
          \/ a.duration = b.duration /\ a.country = b.country /\ a.ip = b.ip /\ a.port < b.port
      BY <1>4, <2>3 DEF RowBefore
    <3>2. LexLess(Place(a, 0, a.duration), Place(b, 0, b.duration))
      <4>1. /\ Place(a, 0, a.duration) \in Nat \X Nat \X Nat \X Nat \X Nat
            /\ Place(b, 0, b.duration) \in Nat \X Nat \X Nat \X Nat \X Nat
        BY <1>1, <2>2
      <4> QED BY <3>1, <4>1, LessQuintuple
    <3> QED BY <2>1, <2>3, <3>2
  <2>4. CASE a.ok /\ ~b.ok
    <3>1. LexLess(Place(a, 0, a.duration), Place(b, 1, 0))
      <4>1. /\ Place(a, 0, a.duration) \in Nat \X Nat \X Nat \X Nat \X Nat
            /\ Place(b, 1, 0) \in Nat \X Nat \X Nat \X Nat \X Nat
        BY <1>1, <2>2
      <4> QED BY <4>1, LessQuintuple
    <3> QED BY <2>1, <2>4, <3>1
  <2>5. ~(~a.ok /\ b.ok)
    BY <1>1, <1>4 DEF RowBefore
  <2>6. CASE ~a.ok /\ ~b.ok
    <3>1. \/ a.country < b.country
          \/ a.country = b.country /\ a.ip < b.ip
          \/ a.country = b.country /\ a.ip = b.ip /\ a.port < b.port
      BY <1>1, <1>4, <2>6 DEF RowBefore
    <3>2. LexLess(Place(a, 1, 0), Place(b, 1, 0))
      <4>1. /\ Place(a, 1, 0) \in Nat \X Nat \X Nat \X Nat \X Nat
            /\ Place(b, 1, 0) \in Nat \X Nat \X Nat \X Nat \X Nat
        BY <2>2
      <4> QED BY <3>1, <4>1, LessQuintuple
    <3> QED BY <2>1, <2>6, <3>2
  <2> QED BY <1>1, <2>3, <2>4, <2>5, <2>6
<1> QED BY <1>2, <1>3, <1>4 DEF TypeOK

\* What a list of proxies says.
LEMMA ListingIs ==
  ASSUME TypeOK, request.output \in {"list", "file"}
  PROVE  /\ Listing \in Seq(RowSet) /\ Len(Listing) = Cardinality(Keys)
         /\ ToSet(Listing) = RowSet
         /\ \A i, j \in DOMAIN Listing : i < j => LexLess(Rank(Listing[i]), Rank(Listing[j]))
<1> DEFINE s == AllRows
           B == {q \in ToSet(s) \X ToSet(s) : RowBefore(q[1], q[2])}
           t == Sort(s, B)
<1>1. Listing = t
  BY DEF Listing
<1>2. /\ s \in Seq(RowSet) /\ ToSet(s) = RowSet /\ Len(s) \in Nat /\ DOMAIN s = 1..Len(s)
      /\ \A i, j \in DOMAIN s : i # j => s[i] # s[j]
  BY AllRowsAre DEF IsInjective
<1>3. Len(s) = Cardinality(Keys)
  BY RowsCounted
<1> HIDE DEF s
<1>4. \A a, b \in RowSet : <<a, b>> \in B <=> RowBefore(a, b)
  BY <1>2
<1> HIDE DEF B
<1>5. /\ \A x \in ToSet(s) : <<x, x>> \notin B
      /\ \A x, y \in ToSet(s) : x # y => <<x, y>> \in B \/ <<y, x>> \in B
  BY <1>2, <1>4, RowBeforeTotal
<1>6. \A x, y, z \in ToSet(s) : <<x, y>> \in B /\ <<y, z>> \in B => <<x, z>> \in B
  BY <1>2, <1>4, RowBeforeTransitive
<1>7. /\ t \in Seq(RowSet) /\ Len(t) = Len(s) /\ ToSet(t) = ToSet(s)
      /\ \A p, q \in 1..Len(s) : p < q => <<t[p], t[q]>> \in B
  BY <1>2, <1>5, <1>6, SortIs
<1> HIDE DEF t
<1>8. DOMAIN t = 1..Len(s) /\ \A p \in 1..Len(s) : t[p] \in RowSet
  BY <1>7
<1>9. \A i, j \in DOMAIN t : i < j => LexLess(Rank(t[i]), Rank(t[j]))
  BY <1>4, <1>7, <1>8, RowBeforeRanks
<1> QED BY <1>1, <1>2, <1>3, <1>7, <1>9

-----------------------------------------------------------------------------
(* From the rows to the output *)

\* When the test is over, or there is none, the list is what it should be.
LEMMA ListingShown ==
  ASSUME TypeOK, Tested, request.output \in {"list", "file"},
         \A k \in Keys : probe[k] = IF request.estimate THEN "done" ELSE "none"
  PROVE  Shown(Listing)
<1> DEFINE s == Listing
<1>1. /\ s \in Seq(RowSet) /\ Len(s) = Cardinality(Keys) /\ ToSet(s) = RowSet
      /\ \A i, j \in DOMAIN s : i < j => LexLess(Rank(s[i]), Rank(s[j]))
  BY ListingIs
<1>2. {KeyOf(r) : r \in RowSet} = Keys
  BY RowsCounted
<1>3. ASSUME NEW row \in RowSet
      PROVE  /\ row.tested = request.estimate
             /\ row.tested => [ok |-> row.ok, duration |-> row.duration] = results[KeyOf(row)]
             /\ \E i \in DOMAIN Entries :
                   /\ KeyOf(row) \in KeysOf(Entries[i])
                   /\ row.host = HostOf(i) /\ row.name = Entries[i].name
  <2>1. PICK i \in DOMAIN Entries : row \in RowsFor(i)
    BY DEF RowSet
  <2>2. PICK p \in ToSet(PortsOf(Entries[i])) : row = Row(i, p)
    BY <2>1 DEF RowsFor
  <2>3. /\ row.host = HostOf(i) /\ row.name = Entries[i].name
        /\ row.tested = (KeyOf(row) \in DOMAIN results)
        /\ row.tested => [ok |-> row.ok, duration |-> row.duration] = results[KeyOf(row)]
    BY <2>2, RowIs
  <2>4. KeyOf(row) \in KeysOf(Entries[i])
    BY <2>1, RowKeys
  <2>5. KeyOf(row) \in Keys
    BY <1>2
  <2>6. (KeyOf(row) \in DOMAIN results) = request.estimate
    <3>1. request.estimate \in BOOLEAN
      BY DEF TypeOK
    <3>2. KeyOf(row) \in DOMAIN results <=> probe[KeyOf(row)] = "done"
      BY <2>5 DEF Tested
    <3>3. probe[KeyOf(row)] = IF request.estimate THEN "done" ELSE "none"
      BY <2>5
    <3> QED BY <3>1, <3>2, <3>3
  <2> QED BY <2>3, <2>4, <2>6
<1> HIDE DEF s
<1>4. Shown(s)
  BY <1>1, <1>2, <1>3 DEF Shown, KeyOf
<1> QED BY <1>4 DEF s

\* What is shown does not change while the arguments and the results do not.
LEMMA ShownStays ==
  ASSUME UNCHANGED <<request, results>>, NEW s, rows' = s
  PROVE  Shown(s) <=> Shown(rows)'
BY DEF Shown, Rank, LexLess

\* The test comes before the printing.
LEMMA TestSteps ==
  ASSUME LInv, Spawn \/ ClockTicks \/ \E k \in Keys : TakeSlot(k) \/ ProbeEnds(k) \/ ProbeTimesOut(k)
  PROVE  Tested' /\ Printed'
<1> USE DEF LInv
<1>1. CASE Spawn
  <2>1. /\ phase = "start" /\ request.estimate /\ phase' = "testing"
        /\ probe' = [k \in Keys |-> "spawned"] /\ UNCHANGED <<request, results>>
    BY <1>1 DEF Spawn
  <2>2. \A k \in Keys : probe[k] = "none"
    BY <2>1 DEF IInv, Spawned
  <2> QED BY <2>1, <2>2 DEF Tested, Printed
<1>2. CASE ClockTicks
  <2>1. phase = "testing" /\ UNCHANGED <<request, phase, probe, results>>
    BY <1>2 DEF ClockTicks
  <2> QED BY <2>1 DEF Tested, Printed
<1>3. ASSUME NEW k \in Keys, TakeSlot(k)
      PROVE  Tested' /\ Printed'
  <2>1. /\ probe[k] = "spawned" /\ probe' = [probe EXCEPT ![k] = "probing"]
        /\ UNCHANGED <<request, phase, results>>
    BY <1>3 DEF TakeSlot
  <2>2. /\ probe'[k] = "probing" /\ \A j \in Keys : j # k => probe'[j] = probe[j]
    BY <2>1 DEF IInv, TypeOK
  <2>3. request.estimate /\ phase \notin {"printing", "exited"}
    BY <2>1 DEF Tested
  <2>4. {j \in Keys : probe'[j] = "done"} = {j \in Keys : probe[j] = "done"}
    BY <2>1, <2>2
  <2> QED BY <2>1, <2>3, <2>4 DEF Tested, Printed
<1>4. ASSUME NEW k \in Keys, ProbeEnds(k) \/ ProbeTimesOut(k)
      PROVE  Tested' /\ Printed'
  <2>1. PICK ok : Record(k, ok)
    BY <1>4 DEF ProbeEnds, ProbeTimesOut
  <2>2. /\ probe[k] = "probing" /\ probe' = [probe EXCEPT ![k] = "done"]
        /\ UNCHANGED <<request, phase>>
    BY <1>4, <2>1 DEF ProbeEnds, ProbeTimesOut, Record
  <2>3. DOMAIN results' = DOMAIN results \cup {k}
    BY <2>1 DEF Record, WithResult
  <2>4. /\ probe'[k] = "done" /\ \A j \in Keys : j # k => probe'[j] = probe[j]
    BY <2>2 DEF IInv, TypeOK
  <2>5. request.estimate /\ phase \notin {"printing", "exited"}
    BY <2>2 DEF Tested
  <2>6. DOMAIN results' = {j \in Keys : probe'[j] = "done"}
    BY <2>3, <2>4 DEF Tested
  <2> QED BY <2>2, <2>5, <2>6 DEF Tested, Printed
<1> QED BY <1>1, <1>2, <1>3, <1>4

\* The printing begins when every result there will be is there, and leaves
\* them alone.
LEMMA PrintSteps ==
  ASSUME LInv, BeginPrinting \/ WriteRow \/ WriteFails \/ Finish \/ UNCHANGED vars
  PROVE  Tested' /\ Printed'
<1> USE DEF LInv
<1>1. CASE BeginPrinting
  <2>1. /\ \/ phase = "start" /\ ~request.estimate
           \/ phase = "testing" /\ NoneLeft
        /\ \/ phase' = "printing" /\ rows' = Listing
           \/ request.output = "file" /\ phase' = "exited" /\ code' = 17
        /\ UNCHANGED <<request, probe, results>>
    BY <1>1 DEF BeginPrinting, testVars
  <2>2. request.estimate \in BOOLEAN
    BY DEF IInv, TypeOK
  <2>3. \A k \in Keys : probe[k] = IF request.estimate THEN "done" ELSE "none"
    BY <2>1, <2>2 DEF IInv, Spawned, Tested, NoneLeft
  <2>4. Tested'
    BY <2>1, <2>3 DEF Tested
  <2>5. Printed'
    <3> SUFFICES ASSUME request.output \in {"list", "file"}, phase' = "printing"
                 PROVE  Shown(rows)'
      BY <2>1 DEF Printed
    <3>1. Shown(Listing)
      BY <2>3, ListingShown DEF IInv
    <3>2. PICK s : s = Listing
      OBVIOUS
    <3>3. Shown(s) /\ rows' = s
      BY <2>1, <3>1, <3>2
    <3> QED BY <2>1, <3>3, ShownStays
  <2> QED BY <2>4, <2>5
<1>2. CASE WriteRow \/ WriteFails \/ Finish \/ UNCHANGED vars
  <2>1. UNCHANGED <<request, probe, results, rows>>
    BY <1>2 DEF WriteRow, WriteFails, Finish, vars, testVars, printVars
  <2>2. Shown(rows) <=> Shown(rows)'
    <3>1. PICK s : s = rows
      OBVIOUS
    <3>2. Shown(s) <=> Shown(rows)'
      BY <2>1, <3>1, ShownStays
    <3> QED BY <3>1, <3>2
  <2>3. phase' = phase \/ (phase = "printing" /\ phase' = "exited")
    BY <1>2 DEF WriteRow, WriteFails, Finish, vars
  <2>4. Tested'
    BY <2>1, <2>3 DEF Tested
  <2>5. Printed'
    <3>1. CASE WriteRow
      <4>1. phase = "printing" /\ phase' = "printing"
        BY <3>1 DEF WriteRow
      <4> QED BY <2>1, <2>2, <4>1 DEF Printed
    <3>2. CASE WriteFails
      <4>1. phase' = "exited" /\ code' = ErrorCode
        BY <3>2 DEF WriteFails
      <4>2. request.output \in {"list", "file"} => ErrorCode # 0
        BY DEF ErrorCode
      <4> QED BY <2>1, <4>1, <4>2 DEF Printed
    <3>3. CASE Finish
      <4>1. /\ phase = "printing" /\ written = Len(rows) /\ phase' = "exited"
            /\ (flushed' = written /\ code' = 0) \/ code' = LastFlushError
        BY <3>3 DEF Finish
      <4>2. request.output \in {"list", "file"} => LastFlushError # 0
        BY DEF LastFlushError, ErrorCode
      <4> QED BY <2>1, <2>2, <4>1, <4>2 DEF Printed
    <3>4. CASE UNCHANGED vars
      <4>1. UNCHANGED <<phase, code, flushed>>
        BY <3>4 DEF vars, printVars
      <4> QED BY <2>1, <2>2, <4>1 DEF Printed
    <3> QED BY <1>2, <3>1, <3>2, <3>3, <3>4
  <2> QED BY <2>4, <2>5
<1> QED BY <1>1, <1>2

-----------------------------------------------------------------------------

\* The invariant holds at the start.
LEMMA InitInvariant == Init => IInv
<1> SUFFICES ASSUME Init
             PROVE  IInv
  OBVIOUS
<1>1. /\ phase = "start" /\ now = 0 /\ inUse = 0
      /\ probe = [k \in Keys |-> "none"] /\ started = [k \in Keys |-> 0]
      /\ answer = [k \in Keys |-> Unknown]
      /\ request \in [output : {"list", "file", "countries", "export"},
                      estimate : BOOLEAN, sortBy : {"speed", "country", "ip"}]
  BY DEF Init
<1>2. Probing = {} /\ Waiting = {} /\ DOMAIN results = {}
  BY DEF Init, Probing, Waiting
<1>3. Unknown \in [takes : 0..Slowest, fails : BOOLEAN]
  BY ProxyListAssumption DEF Unknown
<1>4. TypeOK
  BY <1>1, <1>2, <1>3, FS_EmptySet DEF TypeOK
<1>5. Spawned /\ OnTime /\ WorkConserved /\ BegunInTime /\ OwnResult /\ EndsInTime
  BY <1>1, <1>2 DEF Spawned, OnTime, WorkConserved, BegunInTime, OwnResult, EndsInTime
<1> QED BY <1>4, <1>5 DEF IInv

\* The invariant is inductive.
LEMMA NextInvariant == IInv /\ [Next]_vars => IInv'
BY SpawnInvariant, ClockInvariant, TakeSlotInvariant, RecordInvariant, PrintInvariant DEF Next

\* Every variable of the test has its type; a slot is in use for every probe
\* under way and for no other (main.go:1747-1748).
THEOREM TypeCorrect == Spec => []TypeOK
<1>1. IInv => TypeOK
  BY DEF IInv
<1> QED BY InitInvariant, NextInvariant, <1>1, PTL DEF Spec

\* An endpoint's result does not depend on how long its probe waited for a
\* slot (main.go:1750-1763).
THEOREM ResultsOwn == Spec => []OwnResult
<1>1. IInv => OwnResult
  BY DEF IInv
<1> QED BY InitInvariant, NextInvariant, <1>1, PTL DEF Spec

\* For every list, number of slots and timeout the test is over after one
\* timeout per group of Slots endpoints (main.go:1732, 1747-1748, 1777).
THEOREM TestEndsInTime == Spec => []EndsInTime
<1>1. IInv => EndsInTime
  BY DEF IInv
<1> QED BY InitInvariant, NextInvariant, <1>1, PTL DEF Spec

\* The invariant that goes on to the output.
LEMMA ListingInvariant == Spec => []LInv
<1>1. Init => LInv
  <2> SUFFICES ASSUME Init PROVE LInv
    OBVIOUS
  <2>1. IInv
    BY InitInvariant
  <2>2. /\ phase = "start" /\ DOMAIN results = {}
        /\ probe = [k \in Keys |-> "none"]
    BY DEF Init
  <2>3. Tested /\ Printed
    BY <2>2 DEF Tested, Printed
  <2> QED BY <2>1, <2>3 DEF LInv
<1>2. LInv /\ [Next]_vars => LInv'
  <2> SUFFICES ASSUME LInv, [Next]_vars PROVE LInv'
    OBVIOUS
  <2>1. IInv'
    BY NextInvariant DEF LInv
  <2>2. Tested' /\ Printed'
    BY TestSteps, PrintSteps DEF Next
  <2> QED BY <2>1, <2>2 DEF LInv
<1> QED BY <1>1, <1>2, PTL DEF Spec

(***************************************************************************)
(* Whatever the list and however it is sorted, a list of proxies that      *)
(* exits with 0 has every endpoint once, with its result and in order, and *)
(* has been written to its end (main.go:1106-1150, 1646-1726).             *)
(***************************************************************************)
THEOREM ListingFaithfulHolds == Spec => []ListingFaithful
<1>1. LInv => ListingFaithful
  BY DEF LInv, Printed, Shown, ListingFaithful
<1> QED BY <1>1, ListingInvariant, PTL
=============================================================================
