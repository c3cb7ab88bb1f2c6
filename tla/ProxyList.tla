------------------------------ MODULE ProxyList ------------------------------
(***************************************************************************)
(* The output modes of run() (main.go): the speed test of a proxy list,    *)
(* one goroutine per endpoint under a semaphore, the rows built and sorted *)
(* from its results, and the writing of the CSV - also of the country list *)
(* and of the dumbproxy export - through a buffered writer whose errors    *)
(* come late.                                                              *)
(*                                                                         *)
(* Entries are those discovery returns: [country, name, host, ip, ports],  *)
(* as in Endpoints with the name that came with the country's code, no     *)
(* endpoint twice.  Time is counted in steps of a clock that moves on only *)
(* when no goroutine has anything left to do.                              *)
(***************************************************************************)
EXTENDS Lists

CONSTANTS Entries, \* ips, the list at hand
          Slots,   \* capacity of sem
          Timeout, \* args.proxySpeedTimeout
          Slowest  \* bound on the time an endpoint takes to answer

PortsOf(e) == IF e.ports = <<>> THEN <<443>> ELSE e.ports

\* proxyEndpointKey of every endpoint of the list.
KeysOf(e) == {<<e.country, e.ip, p>> : p \in ToSet(PortsOf(e))}
Keys == UNION {KeysOf(e) : e \in ToSet(Entries)}

\* Discovery returns a list that is not empty and has every endpoint once.
ASSUME ProxyListAssumption ==
    /\ Slots \in Nat \ {0} /\ Timeout \in Nat \ {0} /\ Slowest \in Nat \ {0}
    /\ Entries \in Seq([country : Nat, name : Nat, host : Nat, ip : Nat, ports : Seq(Nat)])
    /\ Keys # {} /\ IsFiniteSet(Keys)
    /\ \A i \in DOMAIN Entries : IsInjective(PortsOf(Entries[i]))
    /\ \A i, j \in DOMAIN Entries : i # j => KeysOf(Entries[i]) \cap KeysOf(Entries[j]) = {}

VARIABLES
    request,  \* [output, estimate, sortBy]: the arguments, fixed
    phase,    \* "start", "testing", "printing" or "exited"
    now,      \* the monotonic clock
    probe,    \* probe[k]: its goroutine is "none", "spawned", "probing" or "done"
    started,  \* when it took its slot
    answer,   \* what its endpoint does: [takes, fails], or Unknown
    results,  \* the map of results: [ok, duration] by key, for those recorded
    inUse,    \* slots taken
    rows,     \* rows to write, the header not counted
    written,  \* rows handed to the CSV writer
    flushed,  \* rows that reached the file or stdout
    code      \* run()'s result

testVars == <<now, probe, started, answer, results, inUse>>
printVars == <<rows, written, flushed, code>>
vars == <<request, phase, testVars, printVars>>

Unknown == [takes |-> 0, fails |-> FALSE]

\* -list-proxies-all implies -estimate-proxy-speed; "file" writes to
\* -list-proxies-all-out.
Init ==
    /\ request \in [output : {"list", "file", "countries", "export"},
                    estimate : BOOLEAN, sortBy : {"speed", "country", "ip"}]
    /\ request.output = "file" => request.estimate
    /\ request.output \in {"countries", "export"} => ~request.estimate /\ request.sortBy = "speed"
    /\ phase = "start" /\ now = 0
    /\ probe = [k \in Keys |-> "none"]
    /\ started = [k \in Keys |-> 0]
    /\ answer = [k \in Keys |-> Unknown]
    /\ results = <<>> /\ inUse = 0
    /\ rows = <<>> /\ written = 0 /\ flushed = 0 /\ code = 0

-----------------------------------------------------------------------------
(* benchmarkProxyEndpoints and probeProxyEndpoint *)

\* wg.Add and a goroutine for every port of every entry.
Spawn ==
    /\ phase = "start" /\ request.estimate
    /\ phase' = "testing"
    /\ probe' = [k \in Keys |-> "spawned"]
    /\ UNCHANGED <<request, now, started, answer, results, inUse, printVars>>

Answers == [takes : 1..Slowest, fails : BOOLEAN]

\* Mutant: time and timeout run from the start of the goroutine.
StartTimeAtSpawn == 0

StartTime == now

\* sem <- struct{}{}; the duration and the timeout start behind it.
TakeSlot(k) ==
    /\ probe[k] = "spawned" /\ inUse < Slots
    /\ probe' = [probe EXCEPT ![k] = "probing"]
    /\ started' = [started EXCEPT ![k] = StartTime]
    /\ \E a \in Answers : answer' = [answer EXCEPT ![k] = a]
    /\ inUse' = inUse + 1
    /\ UNCHANGED <<request, phase, now, results, printVars>>

Elapsed(k) == now - started[k]

\* results[key] = r
WithResult(k, ok) ==
    [j \in DOMAIN results \cup {k} |->
        IF j = k THEN [ok |-> ok, duration |-> Elapsed(k)] ELSE results[j]]

\* Mutant: an error leaves the goroutine without giving the slot back.
RecordKeepingSlot(k, ok) ==
    /\ results' = WithResult(k, ok)
    /\ probe' = [probe EXCEPT ![k] = "done"]
    /\ inUse' = IF ok THEN inUse - 1 ELSE inUse
    /\ UNCHANGED <<request, phase, now, started, answer, printVars>>

\* The result goes into the map under mu; the deferred calls give the slot
\* back and tell the WaitGroup.
Record(k, ok) ==
    /\ results' = WithResult(k, ok)
    /\ probe' = [probe EXCEPT ![k] = "done"]
    /\ inUse' = inUse - 1
    /\ UNCHANGED <<request, phase, now, started, answer, printVars>>

\* A dial, a status other than 200 or the body ends the probe with an error;
\* the body up to the limit ends it well.
ProbeEnds(k) ==
    /\ probe[k] = "probing" /\ Elapsed(k) >= answer[k].takes
    /\ Record(k, ~answer[k].fails)

\* The context's deadline, which ends a request wherever it is.
ProbeTimesOut(k) ==
    /\ probe[k] = "probing" /\ Elapsed(k) >= Timeout
    /\ Record(k, FALSE)

Due(k) == \/ probe[k] = "spawned" /\ inUse < Slots
          \/ probe[k] = "probing" /\ (Elapsed(k) >= Timeout \/ Elapsed(k) >= answer[k].takes)

\* The most time the test can take, by Slots at a time.
Rounds == (Cardinality(Keys) + Slots - 1) \div Slots
LatestEnd == Rounds * Timeout

\* Time passes; the clock stops one step behind the bound.
ClockTicks ==
    /\ phase = "testing" /\ now <= LatestEnd
    /\ \E k \in Keys : probe[k] # "done"
    /\ \A k \in Keys : ~Due(k)
    /\ now' = now + 1
    /\ UNCHANGED <<request, phase, probe, started, answer, results, inUse, printVars>>

-----------------------------------------------------------------------------
(* buildProxyRows, sortProxyRows and dpExport *)

\* The host of the row: the entry's, or one made of its country and index.
HostOf(i) == IF Entries[i].host # 0 THEN <<Entries[i].host>> ELSE <<Entries[i].country, i>>

Row(i, port) ==
    LET e == Entries[i]
        key == <<e.country, e.ip, port>>
    IN [country |-> e.country, name |-> e.name, host |-> HostOf(i), ip |-> e.ip,
        port |-> port,
        tested |-> key \in DOMAIN results,
        ok |-> key \in DOMAIN results /\ results[key].ok,
        duration |-> IF key \in DOMAIN results THEN results[key].duration ELSE 0]

RowsOf(i) == LET ports == PortsOf(Entries[i]) IN [j \in DOMAIN ports |-> Row(i, ports[j])]

AllRows ==
    LET upTo[n \in 0..Len(Entries)] == IF n = 0 THEN <<>> ELSE upTo[n - 1] \o RowsOf(n)
    IN upTo[Len(Entries)]

\* The less function of sortProxyRows.
RowBefore(a, b) ==
    LET byPlace == \/ a.country < b.country
                   \/ a.country = b.country /\ a.ip < b.ip
                   \/ a.country = b.country /\ a.ip = b.ip /\ a.port < b.port
        byAddress == \/ a.ip < b.ip
                     \/ a.ip = b.ip /\ a.port < b.port
                     \/ a.ip = b.ip /\ a.port = b.port /\ a.country < b.country
        byName == \/ a.country < b.country
                  \/ a.country = b.country /\ a.name < b.name
                  \/ a.country = b.country /\ a.name = b.name /\ a.ip < b.ip
                  \/ /\ a.country = b.country /\ a.name = b.name
                     /\ a.ip = b.ip /\ a.port < b.port
    IN CASE request.sortBy = "country" -> byName
         [] request.sortBy = "ip" -> byAddress
         [] OTHER -> IF a.ok # b.ok THEN a.ok
                     ELSE IF a.ok /\ a.duration # b.duration THEN a.duration < b.duration
                     ELSE byPlace

\* One line per entry that has ports, for its first port, with a peer name made
\* of the index whatever the host; all but the first line are commented out.
ExportRows ==
    LET chosen == SelectSeq([i \in DOMAIN Entries |-> i], LAMBDA i : Entries[i].ports # <<>>)
    IN [j \in DOMAIN chosen |->
            LET e == Entries[chosen[j]]
            IN [active |-> j = 1, ip |-> e.ip, port |-> e.ports[1],
                peer |-> <<e.country, chosen[j]>>]]

\* What there is to write.  A list of countries is written as it came.
Listing == CASE request.output = "export" -> ExportRows
             [] request.output = "countries" -> [i \in DOMAIN Entries |-> Entries[i].country]
             [] OTHER -> Sort(AllRows, {q \in ToSet(AllRows) \X ToSet(AllRows) :
                                           RowBefore(q[1], q[2])})

\* Mutant: wg.Add inside the goroutine, which may not have run yet.
NoneCounted == \A k \in Keys : probe[k] # "probing"

\* The counter of the WaitGroup is zero.
NoneLeft == \A k \in Keys : probe[k] = "done"

\* Without a speed test the list is printed at once, else after wg.Wait.  17:
\* os.Create fails.
BeginPrinting ==
    /\ \/ phase = "start" /\ ~request.estimate
       \/ phase = "testing" /\ NoneLeft
    /\ \/ phase' = "printing" /\ rows' = Listing /\ UNCHANGED code
       \/ request.output = "file" /\ phase' = "exited" /\ code' = 17 /\ UNCHANGED rows
    /\ UNCHANGED <<request, testVars, written, flushed>>

-----------------------------------------------------------------------------
(* emitProxyCSV, printCountryList and dpExport through csv.Writer *)

\* What an error of the writer becomes: dpExport looks at none.
ErrorCode == CASE request.output = "file" -> 17 [] request.output = "export" -> 0 [] OTHER -> 1

\* The writer's buffer takes a row, and is emptied when it is full.
WriteRow ==
    /\ phase = "printing" /\ written < Len(rows)
    /\ written' = written + 1
    /\ flushed' \in {flushed, written + 1}
    /\ UNCHANGED <<request, phase, testVars, rows, code>>

\* Emptying the buffer fails, in the middle or not at all written; later
\* writes fail, too.  dpExport goes on to its end.
WriteFails ==
    /\ phase = "printing" /\ written < Len(rows)
    /\ phase' = "exited" /\ code' = ErrorCode
    /\ flushed' \in flushed..written
    /\ UNCHANGED <<request, testVars, rows, written>>

\* wr.Error() behind the last Flush is looked at for a list of proxies only;
\* elsewhere the flush is deferred and its error lost.
LastFlushError == IF request.output \in {"list", "file"} THEN ErrorCode ELSE 0

Finish ==
    /\ phase = "printing" /\ written = Len(rows)
    /\ phase' = "exited"
    /\ \/ flushed' = written /\ code' = 0
       \/ flushed' \in flushed..(written - 1) /\ code' = LastFlushError
    /\ UNCHANGED <<request, testVars, rows, written>>

-----------------------------------------------------------------------------

Next ==
    \/ Spawn \/ ClockTicks \/ BeginPrinting \/ WriteRow \/ WriteFails \/ Finish
    \/ \E k \in Keys : TakeSlot(k) \/ ProbeEnds(k) \/ ProbeTimesOut(k)

Spec == Init /\ [][Next]_vars

-----------------------------------------------------------------------------

(***************************************************************************)
(* An endpoint's result is its own: what it is and how long it took do not *)
(* depend on how many probes were in the queue before it.  In particular   *)
(* waiting for a slot neither counts as its time nor uses up its timeout   *)
(* (main.go:1750-1763).                                                    *)
(***************************************************************************)
OwnResult ==
    \A k \in DOMAIN results :
        LET a == answer[k] r == results[k] IN
        /\ a.takes < Timeout => r = [ok |-> ~a.fails, duration |-> a.takes]
        /\ a.takes > Timeout => ~r.ok
        /\ r.duration <= Timeout

(***************************************************************************)
(* However slow or dead the endpoints are, the test is over after one      *)
(* timeout per group of Slots endpoints: no slot is lost, and none is idle *)
(* while an endpoint waits (main.go:1732, 1747-1748, 1777).                *)
(***************************************************************************)
EndsInTime == phase = "testing" => now <= LatestEnd

(***************************************************************************)
(* A list of proxies that exits with 0 has been written to its end; it has *)
(* each endpoint once, with its result if a test was asked for; and it is  *)
(* sorted as asked: by speed means the working ones first, the fastest at  *)
(* the top, and the others by place (main.go:1106-1150, 1646-1726).        *)
(***************************************************************************)
LexLess(s, t) == \E n \in DOMAIN s : s[n] < t[n] /\ \A m \in 1..(n - 1) : s[m] = t[m]
Rank(row) ==
    CASE request.sortBy = "country" -> <<row.country, row.name, row.ip, row.port>>
      [] request.sortBy = "ip" -> <<row.ip, row.port, row.country>>
      [] OTHER -> IF row.ok THEN <<0, row.duration, row.country, row.ip, row.port>>
                  ELSE <<1, 0, row.country, row.ip, row.port>>

ListingFaithful ==
    phase = "exited" /\ code = 0 /\ request.output \in {"list", "file"} =>
        /\ flushed = Len(rows) /\ Len(rows) = Cardinality(Keys)
        /\ {<<row.country, row.ip, row.port>> : row \in ToSet(rows)} = Keys
        /\ \A row \in ToSet(rows) :
             LET key == <<row.country, row.ip, row.port>> IN
             /\ row.tested = request.estimate
             /\ row.tested => [ok |-> row.ok, duration |-> row.duration] = results[key]
             /\ \E i \in DOMAIN Entries : /\ key \in KeysOf(Entries[i])
                                         /\ row.host = HostOf(i) /\ row.name = Entries[i].name
        /\ \A i, j \in DOMAIN rows : i < j => LexLess(Rank(rows[i]), Rank(rows[j]))
=============================================================================
