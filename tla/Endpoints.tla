------------------------------ MODULE Endpoints ------------------------------
(***************************************************************************)
(* How run() gets its list of proxy endpoints (main.go): discover passes   *)
(* over one country or over all of them, the blacklist, removal of         *)
(* duplicates, the CSV file that replaces the API or stands in for it when *)
(* it answers 801, sorting, and the retry of the whole step.               *)
(*                                                                         *)
(* An entry is [country, host, ip, ports]; ports may be empty, which means *)
(* 443.  Countries, addresses and ports are numbers, ordered like the      *)
(* code's strings.  A CSV file is a sequence of rows [country, host, ip,   *)
(* port, valid]; the empty sequence is a file that is missing or has no    *)
(* usable header.  Deadlines and cancellation are among DiscoverFails.     *)
(***************************************************************************)
EXTENDS Lists

CONSTANTS Countries,      \* what GeoList returns
          Answers,        \* what Discover may return: sequences of entries
          CsvFiles,       \* what the CSV file may hold
          Blacklists,     \* what -proxy-blacklist may hold: sets of <<ip, port>>
          DiscoverRepeat  \* args.discoverRepeat

Entries == [country : Nat, host : Nat, ip : Nat, ports : Seq(Nat)]
Rows == [country : Nat, host : Nat, ip : Nat, port : Nat, valid : BOOLEAN]

ASSUME EndpointsAssumption ==
    /\ DiscoverRepeat \in Nat \ {0}
    /\ Answers \subseteq Seq(Entries) /\ CsvFiles \subseteq Seq(Rows)

VARIABLES
    request, \* the arguments: [all, wanted, useCsv, file, blacklist], fixed
    pc,      \* "start", "discover" or "done"
    left,    \* requests still to do, as sets of countries; the first is in progress
    pass,    \* the discover pass of that request
    one,     \* what its passes have given so far: [list, seen]
    all,     \* what the requests before have given: [list, seen]
    asked,   \* endpoints the API offered for the request in progress
    offered, \* endpoints offered by the sources the result is made of
    result   \* the list returned; empty for an error

vars == <<request, pc, left, pass, one, all, asked, offered, result>>

Empty == [list |-> <<>>, seen |-> {}]

PortsOf(e) == IF e.ports = <<>> THEN <<443>> ELSE e.ports

\* proxyEndpointKey of every endpoint of an entry, and in a list of entries.
KeysOf(e) == {<<e.country, e.ip, p>> : p \in ToSet(PortsOf(e))}
Keys(list) == UNION {KeysOf(e) : e \in ToSet(list)}

Address(key) == <<key[2], key[3]>>

-----------------------------------------------------------------------------
(* Operations on lists of entries *)

\* Mutant: an entry without ports is not looked up.
UnlistedUnchecked(e, blacklist) ==
    IF e.ports = <<>> THEN PortsOf(e)
    ELSE Keep(e.ports, {p \in ToSet(e.ports) : <<e.ip, p>> \notin blacklist})

Unlisted(e, blacklist) ==
    Keep(PortsOf(e), {p \in ToSet(PortsOf(e)) : <<e.ip, p>> \notin blacklist})

\* What is left of an entry.  One that has ports is built anew, without its Host.
Kept(e, blacklist) ==
    IF e.ports = <<>> THEN e
    ELSE [e EXCEPT !.ports = Unlisted(e, blacklist), !.host = 0]

FilterBlacklisted(entries, blacklist) ==
    IF blacklist = {} THEN entries
    ELSE LET some == Keep(entries, {e \in ToSet(entries) : Unlisted(e, blacklist) # <<>>})
         IN [i \in DOMAIN some |-> Kept(some[i], blacklist)]

\* Mutants: one known port disqualifies the entry; seen is only looked at.
AddEntryAllOrNothing(acc, e) ==
    IF KeysOf(e) \cap acc.seen # {} THEN acc
    ELSE [list |-> Append(acc.list, [e EXCEPT !.ports = PortsOf(e)]),
          seen |-> acc.seen \cup KeysOf(e)]

AddEntryForgetful(acc, e) ==
    [list |-> Append(acc.list, [e EXCEPT !.ports = PortsOf(e)]), seen |-> acc.seen]

\* One turn of appendUniqueProxies: the ports not seen yet, each once.
AddEntry(acc, e) ==
    LET unseen == {p \in ToSet(PortsOf(e)) : <<e.country, e.ip, p>> \notin acc.seen}
        fresh == Distinct(Keep(PortsOf(e), unseen))
    IN IF fresh = <<>> THEN acc
       ELSE [list |-> Append(acc.list, [e EXCEPT !.ports = fresh]),
             seen |-> acc.seen \cup {<<e.country, e.ip, p>> : p \in ToSet(fresh)}]

AppendUnique(acc, entries) ==
    LET added[n \in 0..Len(entries)] ==
            IF n = 0 THEN acc ELSE AddEntry(added[n - 1], entries[n])
    IN added[Len(entries)]

Before(a, b) ==
    \/ a.country < b.country
    \/ a.country = b.country /\ a.ip < b.ip
    \/ a.country = b.country /\ a.ip = b.ip /\ PortsOf(a)[1] < PortsOf(b)[1]

\* sortProxyEntries: the ports of each entry, then the entries.
Sorted(list) ==
    LET entries == [i \in DOMAIN list |->
                       [list[i] EXCEPT !.ports = Sort(@, Ascending(ToSet(@)))]]
        members == ToSet(entries)
    IN Sort(entries, {q \in members \X members : Before(q[1], q[2])})

RowEntry(row) == [country |-> row.country, host |-> row.host, ip |-> row.ip,
                  ports |-> <<row.port>>]

\* Rows of other countries are skipped before their fields are looked at.
RowsOf(file, wanted) == Keep(file, {row \in ToSet(file) : row.country \in wanted})

\* loadProxyEntriesFromCSV; empty for an error, which no row left is as well.
LoadCSV(file, wanted, blacklist) ==
    LET rows == RowsOf(file, wanted)
        entries == [i \in DOMAIN rows |-> RowEntry(rows[i])]
    IN IF \E i \in DOMAIN rows : ~rows[i].valid THEN <<>>
       ELSE Sorted(FilterBlacklisted(AppendUnique(Empty, entries).list, blacklist))

CsvKeys(file, wanted) == {<<row.country, row.ip, row.port>> : row \in ToSet(RowsOf(file, wanted))}

-----------------------------------------------------------------------------

\* The countries of -country are requested: at once, or one after the other from
\* those GeoList knows (all).
Init ==
    /\ request \in [all : BOOLEAN, wanted : (SUBSET Countries) \ {{}}, useCsv : BOOLEAN,
                    file : CsvFiles, blacklist : Blacklists]
    /\ pc = "start" /\ left = <<>> /\ pass = 1
    /\ one = Empty /\ all = Empty
    /\ asked = {} /\ offered = {} /\ result = <<>>

Return(list) ==
    /\ result' = list
    /\ pc' = "done"

\* -discover-csv: the API is not asked.
ReadCSV ==
    /\ pc = "start" /\ request.useCsv
    /\ Return(LoadCSV(request.file, request.wanted, request.blacklist))
    /\ offered' = CsvKeys(request.file, request.wanted)
    /\ UNCHANGED <<request, left, pass, one, all, asked>>

\* One request in which -country stands as it is, or one for each country of
\* GeoList's answer that is wanted.
Begin ==
    /\ pc = "start" /\ ~request.useCsv
    /\ left' \in (IF request.all
                  THEN {[i \in DOMAIN geo |-> {geo[i]}] :
                            geo \in {Keep(list, request.wanted) : list \in SetToSeqs(Countries)}}
                  ELSE {<<request.wanted>>})
    /\ pc' = "discover"
    /\ UNCHANGED <<request, pass, one, all, asked, offered, result>>

GeoListFails ==
    /\ pc = "start" /\ ~request.useCsv /\ request.all
    /\ Return(<<>>)
    /\ UNCHANGED <<request, left, pass, one, all, asked, offered>>

\* discoverCountryWithContext returns list for the request in progress.
CountryDone(list, source) ==
    /\ offered' = offered \cup source
    /\ one' = Empty /\ pass' = 1 /\ asked' = {}
    /\ left' = Tail(left)
    /\ IF request.all
         THEN all' = AppendUnique(all, list) /\ UNCHANGED <<pc, result>>
         ELSE Return(list) /\ UNCHANGED all
    /\ UNCHANGED request

\* One pass: filter, drop what an earlier pass has given, and sort at the end.
\* The API says of each entry where it is; that may be another country than
\* the one (or the region) asked for.
DiscoverAnswers ==
    /\ pc = "discover" /\ left # <<>>
    /\ \E answer \in Answers :
         LET next == AppendUnique(one, FilterBlacklisted(answer, request.blacklist))
             seenNow == asked \cup Keys(answer)
         IN IF pass < DiscoverRepeat
              THEN /\ one' = next /\ asked' = seenNow /\ pass' = pass + 1
                   /\ UNCHANGED <<request, pc, left, all, offered, result>>
              ELSE CountryDone(Sorted(next.list), seenNow)

\* Error 801: the CSV file answers for the countries of the request, whose
\* earlier passes are dropped.  Nothing usable in the file fails the whole step.
Discover801 ==
    /\ pc = "discover" /\ left # <<>>
    /\ LET list == LoadCSV(request.file, Head(left), request.blacklist)
       IN IF list = <<>>
            THEN Return(<<>>) /\ UNCHANGED <<request, left, pass, one, all, asked, offered>>
            ELSE CountryDone(list, CsvKeys(request.file, Head(left)))

\* Any other error, of any pass of any country.
DiscoverFails ==
    /\ pc = "discover" /\ left # <<>>
    /\ Return(<<>>)
    /\ UNCHANGED <<request, left, pass, one, all, asked, offered>>

AllDone ==
    /\ pc = "discover" /\ left = <<>>
    /\ Return(Sorted(all.list))
    /\ UNCHANGED <<request, left, pass, one, all, asked, offered>>

\* retryPolicy: an error or an empty list starts the step afresh.
Retry ==
    /\ pc = "done" /\ result = <<>>
    /\ pc' = "start" /\ left' = <<>> /\ pass' = 1
    /\ one' = Empty /\ all' = Empty
    /\ asked' = {} /\ offered' = {} /\ result' = <<>>
    /\ UNCHANGED request

Next ==
    \/ ReadCSV \/ Begin \/ GeoListFails
    \/ DiscoverAnswers \/ Discover801 \/ DiscoverFails
    \/ AllDone \/ Retry

Spec == Init /\ [][Next]_vars

-----------------------------------------------------------------------------

(***************************************************************************)
(* No blacklisted endpoint is ever offered to server selection, whether it *)
(* came from the API or a CSV file, with its port or with the implied 443. *)
(***************************************************************************)
NoBlacklisted == \A key \in Keys(result) : Address(key) \notin request.blacklist

(***************************************************************************)
(* An endpoint is listed once per country however often the sources repeat *)
(* it - in one answer, over passes, in a port list - and the list is       *)
(* sorted, so "-server-selection first" means the same in every run.       *)
(***************************************************************************)
SortedOnce ==
    /\ \A i, j \in DOMAIN result : i < j => Before(result[i], result[j])
    /\ \A i \in DOMAIN result : Cardinality(KeysOf(result[i])) = Len(PortsOf(result[i]))
    /\ \A i, j \in DOMAIN result : i # j => KeysOf(result[i]) \cap KeysOf(result[j]) = {}

(***************************************************************************)
(* Nothing else is lost or invented: a list that is returned has exactly   *)
(* the endpoints its sources offered - every pass, every country, the CSV  *)
(* rows of the countries it stood in for - less the blacklisted ones.      *)
(***************************************************************************)
NothingLost ==
    pc = "done" /\ result # <<>> =>
        Keys(result) = {key \in offered : Address(key) \notin request.blacklist}
=============================================================================
