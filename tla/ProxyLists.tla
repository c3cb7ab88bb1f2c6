----------------------------- MODULE ProxyLists -----------------------------
(***************************************************************************)
(* The lists of proxies run() reads: the API proxy candidates of a file or *)
(* a download (main.go), and the pages of a free-proxy site                *)
(* (freeproxy_fetch.go).                                                   *)
(*                                                                         *)
(* A line is <<server, form>>: a comment, blank lines among them, an entry *)
(* normalizeAPIProxy refuses ("bad"), or a server written "bare"           *)
(* (host:port), as the "url" a bare one is turned into, or in some "other" *)
(* way that is kept as it is, such as a URL with a trailing slash.         *)
(* A row of a page is <<ip, port>>, either of which may be Missing or not  *)
(* decode.                                                                 *)
(***************************************************************************)
EXTENDS Lists

-----------------------------------------------------------------------------
(* loadAPIProxyListFromReader, normalizeAPIProxy *)

\* host:port becomes http://host:port.
Normalized(line) == IF line[2] = "bare" THEN <<line[1], "url">> ELSE line

EntriesOf(lines) == Keep(lines, {l \in ToSet(lines) : l[2] # "comment"})

\* One entry that is refused fails the list, and so does a list without any.
ListLoads(lines) ==
    /\ EntriesOf(lines) # <<>>
    /\ \A i \in DOMAIN lines : lines[i][2] # "bad"

ListOf(lines) ==
    LET entries == EntriesOf(lines)
    IN Distinct([i \in DOMAIN entries |-> Normalized(entries[i])])

\* What a blank -api-proxy is: the empty string, which connects directly.
Direct == <<0, "other">>

\* Mutant: the explicit proxy is put in front and stays where it was, too.
ExplicitTwice(explicit, candidates) == <<Normalized(explicit)>> \o candidates

\* An explicit -api-proxy, a blank one too, comes first and is not tested twice.
ExplicitFirst(explicit, candidates) ==
    <<Normalized(explicit)>> \o Keep(candidates, ToSet(candidates) \ {Normalized(explicit)})

-----------------------------------------------------------------------------
(* fetchFreeProxyPage *)

Missing == 0
Garbled == -1

\* The addresses and the ports of a page are matched separately, then paired.
Matched(page, column) ==
    LET values == [i \in DOMAIN page |-> page[i][column]]
    IN Keep(values, ToSet(values) \ {Missing})

PagePairs(page) ==
    LET ips == Matched(page, 1)
        ports == Matched(page, 2)
        rowCount == IF Len(ips) < Len(ports) THEN Len(ips) ELSE Len(ports)
    IN [i \in 1..rowCount |-> <<ips[i], ports[i]>>]

PageDecodes(page) == \A p \in ToSet(PagePairs(page)) : p[1] # Garbled /\ p[2] # Garbled
=============================================================================
