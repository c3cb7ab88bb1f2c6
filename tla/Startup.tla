------------------------------- MODULE Startup -------------------------------
(***************************************************************************)
(* run() (main.go) from its arguments to the listening server or the exit: *)
(* the files and lists it reads, the API client (one of many candidates,   *)
(* or a single one initialised under retryPolicy), discovery, the choice   *)
(* of an endpoint, the bypass rules, the refresh ticker and the listener,  *)
(* each with the exit code of its failure; and the download of a           *)
(* free-proxy list (freeproxy_fetch.go), a mode of its own.                *)
(*                                                                         *)
(* A step that uses the API succeeds only while it answers; it may fail at *)
(* any time.  The candidate pool, discovery, the output of lists and the   *)
(* refresh loop have modules of their own and are single steps here.       *)
(***************************************************************************)
EXTENDS ProxyLists

CONSTANTS MaxRetries, \* bound on args.initRetries
          ListFiles,  \* what an API proxy list may hold: sequences of lines
          Explicits,  \* what -api-proxy may be: lines
          Pages,      \* what a page of a free-proxy site may hold
          MaxPages    \* bound on the pages of a site that ends

\* An explicit proxy is an argument: it is no comment.
ASSUME StartupAssumption ==
    /\ MaxRetries \in Nat /\ MaxPages \in Nat
    /\ ListFiles \subseteq Seq(Nat \X {"comment", "bad", "bare", "url", "other"})
    /\ Explicits \subseteq Nat \X {"bad", "bare", "url", "other"}
    /\ Pages \subseteq Seq(Int \X Int)

VARIABLES
    args,       \* the arguments that decide the path, fixed
    step,       \* where run() is
    attempt,    \* number of the attempt of the step under retryPolicy
    list,       \* the API proxy list until it was tested: [lines, explicit, candidates]
    fetch,      \* the free-proxy list: [pages, offered, proxies], pages: those left
    rules,      \* there are bypass rules
    client,     \* seclient: "none", "made", "registered" or "ready"
    endpoints,  \* ips is not empty
    dialer,     \* handlerDialer: "none", "selected" or "override"
    refreshing, \* RunTicker was called
    code,       \* run()'s result, once step is "exited"
    cause,      \* the step that exited
    apiUp       \* the network and the API answer

lists == <<list, fetch, rules>>
prepared == <<client, endpoints, dialer, refreshing>>
progress == <<lists, prepared>>
vars == <<args, step, attempt, progress, code, cause, apiUp>>

Arguments ==
    [output   : {"serve", "countries", "list", "export"},
     listFrom : {"none", "url", "file", "both"}, \* -api-proxy-list-url, -api-proxy-file
     override : {"none", "fine", "blacklisted"},
     socks    : BOOLEAN,
     retries  : 0..MaxRetries,                   \* 0: no limit
     endless  : {FALSE}]
    \cup
    [output : {"fetch"}, listFrom : {"none"}, override : {"none"}, socks : {FALSE},
     retries : {1}, endless : BOOLEAN]           \* endless: every page has rows

NoLine == <<0, "none">>
NoList == [lines |-> <<>>, explicit |-> NoLine, candidates |-> <<>>]

Init ==
    /\ args \in Arguments
    /\ step = IF args.output = "fetch" THEN "fetch" ELSE "blacklist"
    /\ attempt = 1
    /\ list = NoList /\ rules = FALSE
    /\ fetch = [pages |-> MaxPages, offered |-> {}, proxies |-> <<>>]
    /\ client = "none" /\ endpoints = FALSE /\ dialer = "none" /\ refreshing = FALSE
    /\ code = 0 /\ cause = "none"
    /\ apiUp \in BOOLEAN

Go(next) == step' = next /\ attempt' = 1 /\ UNCHANGED <<args, code, cause, apiUp>>

Exit(result) ==
    /\ step' = "exited" /\ code' = result /\ cause' = step
    /\ UNCHANGED <<args, attempt, progress, apiUp>>

ApiChanges ==
    /\ step \notin {"serving", "exited"}
    /\ apiUp' = ~apiUp
    /\ UNCHANGED <<args, step, attempt, progress, code, cause>>

\* Where run() goes with a client that is registered with its device.
AfterClient == IF args.output = "countries" THEN "geolist"
               ELSE IF args.output # "serve" THEN "discover"
               ELSE IF args.override = "none" THEN "discover" ELSE "override"

\* A list that is there need not be discovered again.
AfterDiscover == IF args.output = "serve" THEN "select" ELSE "print"

-----------------------------------------------------------------------------
(* -fetch-freeproxy-out *)

\* One page after the other until one has no rows; any error fails them all.
FetchPage ==
    /\ step = "fetch"
    /\ \E page \in Pages :
          /\ PageDecodes(page)
          /\ args.endless => PagePairs(page) # <<>>
          /\ fetch.pages = 0 => PagePairs(page) = <<>>
          /\ IF PagePairs(page) = <<>>
               THEN Go("save") /\ UNCHANGED fetch
               ELSE /\ fetch' = [pages |-> IF args.endless THEN fetch.pages ELSE fetch.pages - 1,
                                 offered |-> fetch.offered \cup ToSet(page),
                                 proxies |-> Distinct(fetch.proxies \o PagePairs(page))]
                    /\ UNCHANGED <<args, step, attempt, code, cause, apiUp>>
    /\ UNCHANGED <<list, rules, prepared>>

FetchFails ==
    /\ step = "fetch"
    /\ Exit(19)

\* No proxies is an error; otherwise the file is written, or is not.
Save ==
    /\ step = "save"
    /\ \/ fetch.proxies # <<>> /\ Exit(0)
       \/ Exit(19)

-----------------------------------------------------------------------------
(* Steps before the first RPC *)

\* What the steps exit with: the blacklist file, the CA certificates, the base
\* proxy, the fallback list of bypass rules, and the dialer of a single client.
Preparation ==
    [blacklist |-> {18}, ca |-> {15}, base |-> {6, 7}, bypassList |-> {7},
     apiDialer |-> {4, 6, 7, 8}]

AfterPreparation ==
    CASE step = "blacklist" -> "ca"
      [] step = "ca" -> "base"
      [] step = "base" -> "bypassList"
      [] step = "bypassList" -> IF args.listFrom = "none" THEN "apiDialer"
                                ELSE IF args.listFrom = "file" THEN "listFile" ELSE "listURL"
      [] OTHER -> "register"

\* Bypass rules come from the arguments or the fallback file, which may be missing.
Prepare ==
    /\ step \in DOMAIN Preparation
    /\ Go(AfterPreparation)
    /\ rules' \in (IF step = "bypassList" THEN BOOLEAN ELSE {rules})
    /\ client' = IF step = "apiDialer" THEN "made" ELSE client
    /\ UNCHANGED <<list, fetch, endpoints, dialer, refreshing>>

PreparationFails ==
    /\ step \in DOMAIN Preparation
    /\ \E c \in Preparation[step] : Exit(c)

-----------------------------------------------------------------------------
(* The API proxy list *)

\* The list is read to its end, from the download or the file.
LoadList ==
    /\ step \in {"listURL", "listFile"}
    /\ \E lines \in ListFiles :
          /\ ListLoads(lines)
          /\ list' = [list EXCEPT !.lines = lines, !.candidates = ListOf(lines)]
    /\ Go("explicit")
    /\ UNCHANGED <<fetch, rules, prepared>>

\* The download or the file fails, or what came cannot be used.
LoadListFails ==
    \/ step = "listURL" /\ args.listFrom = "both" /\ Go("listFile") /\ UNCHANGED progress
    \/ step = "listURL" /\ args.listFrom = "url" /\ Exit(8)
    \/ step = "listFile" /\ Exit(8)

AddExplicit ==
    /\ step = "explicit"
    /\ \/ Go("candidates") /\ UNCHANGED list
       \/ \E e \in Explicits :
            /\ e[2] # "bad"
            /\ list' = [list EXCEPT !.explicit = e,
                                   !.candidates = ExplicitFirst(e, list.candidates)]
            /\ Go("candidates")
    /\ UNCHANGED <<fetch, rules, prepared>>

ExplicitFails ==
    /\ step = "explicit" /\ \E e \in Explicits : e[2] = "bad"
    /\ Exit(6)

-----------------------------------------------------------------------------
(* selectAPIProxyCandidate, which also discovers and lists countries *)

NeedDiscover == args.output \in {"list", "export"} \/ args.override = "none"

SelectCandidate ==
    /\ step = "candidates" /\ apiUp
    /\ list' = NoList
    /\ client' = "ready"
    /\ endpoints' = NeedDiscover
    /\ Go(IF args.output = "countries" THEN "print"
          ELSE IF NeedDiscover THEN AfterDiscover ELSE "override")
    /\ UNCHANGED <<fetch, rules, dialer, refreshing>>

\* No retry: the pool has failed once with every candidate.
AllCandidatesFail ==
    /\ step = "candidates"
    /\ Exit(12)

-----------------------------------------------------------------------------
(* Steps under retryPolicy *)

Tried == {"register", "device", "geolist", "discover"}
ExitCode(s) == IF s = "register" THEN 9 ELSE IF s = "device" THEN 10
               ELSE IF s = "geolist" THEN 11 ELSE 12

TrySucceeds ==
    /\ step \in Tried /\ apiUp
    /\ client' = IF step = "register" THEN "registered"
                 ELSE IF step = "device" THEN "ready" ELSE client
    /\ endpoints' = (endpoints \/ step = "discover")
    /\ Go(IF step = "register" THEN "device"
          ELSE IF step = "device" THEN AfterClient
          ELSE IF step = "geolist" THEN "print" ELSE AfterDiscover)
    /\ UNCHANGED <<lists, dialer, refreshing>>

\* Mutants: the limit is never reached; the exit reports success.
TryFailsForEver ==
    /\ step \in Tried
    /\ UNCHANGED vars

TryFailsQuietly ==
    /\ step \in Tried
    /\ IF args.retries > 0 /\ attempt >= args.retries
         THEN Exit(0)
         ELSE /\ attempt' = IF args.retries > 0 THEN attempt + 1 ELSE attempt
              /\ UNCHANGED <<args, step, progress, code, cause, apiUp>>

\* A failed attempt: sleep and try again, or give up with the step's code.
TryFails ==
    /\ step \in Tried
    /\ IF args.retries > 0 /\ attempt >= args.retries
         THEN Exit(ExitCode(step))
         ELSE /\ attempt' = IF args.retries > 0 THEN attempt + 1 ELSE attempt
              /\ UNCHANGED <<args, step, progress, code, cause, apiUp>>

-----------------------------------------------------------------------------
(* Output and exit *)

\* The country list, the proxy list (17: the CSV file) or the export.
Output ==
    /\ step = "print"
    /\ \E c \in {0} \cup (IF args.output = "list" THEN {1, 17}
                          ELSE IF args.output = "countries" THEN {1} ELSE {}) : Exit(c)

-----------------------------------------------------------------------------
(* The handler's dialer, the ticker and the listener *)

\* The server selection function; "first" and "random" need no network.  Its
\* failure is not retried.
Select ==
    /\ step = "select"
    /\ dialer' = "selected"
    /\ Go("bypass")
    /\ UNCHANGED <<lists, client, endpoints, refreshing>>

SelectFails ==
    /\ step = "select"
    /\ Exit(12)

\* Mutant: an overriding endpoint is not looked up in the blacklist.
OverrideUnchecked ==
    /\ step = "override"
    /\ dialer' = "override" /\ Go("bypass")
    /\ UNCHANGED <<lists, client, endpoints, refreshing>>

Override ==
    /\ step = "override"
    /\ IF args.override = "blacklisted"
         THEN Exit(12)
         ELSE /\ dialer' = "override" /\ Go("bypass")
              /\ UNCHANGED <<lists, client, endpoints, refreshing>>

\* With rules, NewBypassDialer is wrapped around the handler's dialer, or refuses one.
Bypass ==
    /\ step = "bypass"
    /\ \/ Go("refresh") /\ UNCHANGED progress
       \/ rules /\ Exit(7)

StartRefresh ==
    /\ step = "refresh"
    /\ refreshing' = TRUE
    /\ Go("listen")
    /\ UNCHANGED <<lists, client, endpoints, dialer>>

\* NewSocksServer fails, or the server runs, at once or never to stop.
Listen ==
    /\ step = "listen"
    /\ \/ Go("serving") /\ UNCHANGED progress
       \/ args.socks /\ Exit(16)

\* ListenAndServe returns, for instance because the address is taken.
ServerStops ==
    /\ step = "serving"
    /\ Exit(0)

-----------------------------------------------------------------------------

Try == TrySucceeds \/ TryFails
Fetch == FetchPage \/ FetchFails \/ Save
LoadLists == LoadList \/ LoadListFails \/ AddExplicit \/ ExplicitFails
Run == \/ Fetch \/ Prepare \/ PreparationFails \/ LoadLists \/ SelectCandidate
       \/ AllCandidatesFail \/ Try \/ Output
       \/ Select \/ SelectFails \/ Override \/ Bypass \/ StartRefresh \/ Listen

Next == ApiChanges \/ Run \/ ServerStops

\* run() is sequential and each of its calls ends; an attempt made while the
\* API answers succeeds sooner or later.
Fairness == WF_vars(Run) /\ SF_vars(TrySucceeds)

Spec == Init /\ [][Next]_vars /\ Fairness

-----------------------------------------------------------------------------

(***************************************************************************)
(* The proxy never listens half prepared: whatever path led there, client  *)
(* and device are registered, so dials have credentials; the refresh loop  *)
(* runs; and the endpoint was selected from a non-empty list, or is an     *)
(* override that is not blacklisted.                                       *)
(***************************************************************************)
ServesPrepared ==
    step = "serving" =>
        /\ args.output = "serve" /\ client = "ready" /\ refreshing
        /\ \/ dialer = "selected" /\ endpoints
           \/ dialer = "override" /\ args.override = "fine"

(***************************************************************************)
(* The exit code is honest: 0 is returned only by the last step of the     *)
(* path asked for, with the list it prints at hand; a failed               *)
(* initialisation step exits with its own code (main.go:617-1050).  A      *)
(* free-proxy file that was saved has every row of the site once, from the *)
(* page it is on, provided that no row lacked its address or port          *)
(* (freeproxy_fetch.go:20-108).                                            *)
(***************************************************************************)
LastStep == CASE args.output = "serve" -> "serving"
              [] args.output = "fetch" -> "save"
              [] OTHER -> "print"

RowsWhole == \A row \in fetch.offered : row[1] # Missing /\ row[2] # Missing

ExitHonest ==
    step = "exited" =>
        /\ code = 0 => /\ cause = LastStep
                       /\ args.output # "fetch" => client = "ready"
                       /\ args.output \in {"list", "export"} => endpoints
                       /\ args.output = "fetch" =>
                             /\ fetch.proxies # <<>> /\ IsInjective(fetch.proxies)
                             /\ RowsWhole => ToSet(fetch.proxies) = fetch.offered
        /\ cause \in Tried => code = ExitCode(cause)

(***************************************************************************)
(* What is tested as API proxy candidates: the explicit proxy first, then  *)
(* everything the list names, in the order in which it is first named, and *)
(* nothing twice - two candidates are the same server only if one of them  *)
(* is written in a way of its own (main.go:320-378, 734-778).              *)
(***************************************************************************)
FirstNamed(c) == Min({i \in DOMAIN list.lines : Normalized(list.lines[i]) = c})

CandidatesSound ==
    step = "candidates" =>
        LET c == list.candidates
            named == {Normalized(l) : l \in ToSet(EntriesOf(list.lines))}
            explicit == IF list.explicit = NoLine THEN {} ELSE {Normalized(list.explicit)}
        IN /\ c # <<>> /\ ToSet(c) = named \cup explicit
           /\ \A e \in explicit : c[1] = e
           /\ \A i, j \in DOMAIN c : i < j =>
                /\ c[i] # c[j]
                /\ c[i][1] = c[j][1] => c[i][2] = "other" \/ c[j][2] = "other"
                /\ c[i] \notin explicit => FirstNamed(c[i]) < FirstNamed(c[j])

(***************************************************************************)
(* Startup ends: with a limit on retries always, without one if the API    *)
(* answers in the end; a download of free proxies, if the site has a page  *)
(* without any.                                                            *)
(***************************************************************************)
StartupEnds ==
    (~args.endless /\ (args.retries > 0 \/ <>[]apiUp)) => <>(step \in {"serving", "exited"})

(***************************************************************************)
(* "init-retries: number of attempts for initialization steps, zero for    *)
(* unlimited retry" (README.md:144): an initialisation step ends the       *)
(* program only after that number of attempts, and never without a limit.  *)
(***************************************************************************)
InitStepsRetried ==
    step = "exited" /\ cause \in Tried \cup {"candidates"} =>
        args.retries > 0 /\ attempt = args.retries
=============================================================================
