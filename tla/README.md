# opera-proxy in TLA+

opera-proxy registers an anonymous SurfEasy account, finds upstream proxies in
a country, chooses one, and serves it on a local port as an HTTP or SOCKS5
proxy; a desktop program launches such proxies and shows their logs. This
directory models the Go program's control - its goroutines, locks, channels,
retries and error paths - and the desktop program's log view in TLA+, checks
small instances with TLC, and proves every invariant the passing runs check with
TLAPS, for every value of the constants. File names and line numbers below are relative
to `src/`.

## Inventory

| Part | Code | State it keeps | Operations | What is hard | What makes it correct |
| --- | --- | --- | --- | --- | --- |
| Candidate pool | `main.go` 482-615 | jobs and results channels, the shared context | hand out, test in steps, report, collect, cancel and wait | workers, dispatcher and collector race with the cancellation | no candidate is lost or reported twice, no report waits, an honest answer, nothing left running |
| Races | `resolver/fast.go`, `dialer/selection.go` | two unbuffered channels, a derived context | start all, take the first success, collect errors | cancellation, hanging upstreams | an honest answer or all the errors, no leaked goroutine |
| Requests | `handler/handler.go`, `handler/socks.go`, `handler/tls_sni.go` | two connections, two copying goroutines or a round trip | dial, hijack or reply, copy, close | half-closes, vanishing peers, data before the reply, a ClientHello in pieces | the stream arrives intact, the real server name does not, both ends get closed |
| ClientHello rewriting | `handler/tls_sni.go` 74-227 | none | parse and patch a record | four nested lengths, inconsistent input | a record that parses, with the new name and nothing else changed |
| API client | `seclient/`, refresh in `main.go` 1011-1032 | account, device, password, cookie jar, `Mux` | register, register device, login, new password, read credentials | lost and late calls, dials in between | calls in an order the API accepts, no revoked password for long |
| Ticker | `clock/clock.go` | a deadline by two clocks | wait, fire, call back | sleep, clock changes | neither late nor early |
| Log queue | `log/logwriter.go` | a bounded channel | write, loop, close | a stderr that is slow or stuck | accepted lines come out whole and in order, Close returns |
| Endpoint lists | `main.go` 1187-1633 | lists of entries, the set of those seen | discover passes, filter, deduplicate, sort, read CSV | overlapping answers, the 801 fallback in mid-way | nothing blacklisted, doubled, lost or invented |
| Startup | `main.go` 617-1051, `freeproxy_fetch.go` | the client, the lists, the dialer | fetch, load lists, initialise, discover, select, listen, print | many paths, retries, failures, lists that repeat themselves | it serves only when prepared, tests each candidate once, exits honestly, and ends |
| Proxy list output | `main.go` 1053-1185, 1646-1800 | the map of results, the semaphore, the CSV writer | probe all endpoints, build and sort rows, write | dozens of probes for eight slots, timeouts, write errors that come late | a result is its endpoint's own, the test ends in time, a list that exits with 0 is whole and sorted |
| Dialer chain | `dialer/upstream.go`, `bypass.go`, `fixed.go`, `resolver.go` | none between dials | bypass or proxy, resolve, connect, CONNECT | error paths, the end of a short answer, an upstream that stays silent | the first address that works, a tunnel that starts exactly behind the header, an end |
| Desktop log view | `opera-proxy-gui/electron/main/index.ts`, `opera-proxy-gui/src/ui/pages/LogsPage.tsx` | the page's effect, the main process's tail sessions and timers | select a run, start and stop a tail, push snapshots, refresh, clear | calls, answers and snapshots cross between two processes while the page changes | no session is forgotten, the page comes to show the selected run |
| Desktop launcher | `opera-proxy-gui/electron/main/proxy-service.ts` | processes, run directories | launch, stop, rotate, clear | two launches at the one await, files held by processes | one process per port, live logs are kept |

How they interact: `run()` calls everything in order (`Startup`). With a list
of API proxies it leaves initialisation to the candidate pool, each of whose
tests owns an API client and runs discovery; otherwise it initialises one
client itself, under `retryPolicy`. The API's address may be resolved by a
resolver race, and the endpoint chosen by a selection race over dialers. The
ticker calls the client's refresh from its goroutine - `RefreshLoop` composes
the two - while the handlers' tunnels dial through the dialer chain, which
reads the client's credentials under the same mutex. All of them write to the
log queue.

`PROJECT.json` lists every part with its status, and the hazards found in the
code at their lines, with the properties that cover them or the reason why none
does yet.

## Modules

| Module | Models | Correspondence |
| --- | --- | --- |
| `FirstSuccess` | abstract | What the three races promise: attempts settle one by one; the caller gets a success, a failure when all have failed, or its own cancellation. |
| `CandidatePool` | `selectAPIProxyCandidate`, `testAPIProxyCandidate` | `stage[c]` is how far a candidate's test is, `wpc[w]` where a worker is in its loop, `results` everything ever sent on the channel, `received` how much the collector has taken. One action per branch of a select, per step of a test and per turn of the collecting loop. |
| `FanOut` | `LookupNetIP`, `NewFastestServerSelectionFunc` | The two are the same code line for line, so they share a module. A send on an unbuffered channel and its receive are one step. |
| `Tunnel` | `HandleTunnel`, `proxy`, `handleSocksConnect`, `copyWithSNIRewrite`, `HandleRequest`, `copyBody` | `ltr` and `rtl` are the goroutines of `proxy`; `ltr` goes through Peek, ReadFull and io.Copy. `leftClosed` and `rightClosed` say what this side has closed. Peers write, half-close or vanish at any time. In mode "plain" the handler's own goroutine copies the body, and the HTTP server's read-ahead is what notices a client that leaves. |
| `SniRewrite`, `MCSniRewrite` | `rewriteTLSClientHelloRecordServerName` | A record is its length fields and its real length; bytes that are copied count by their number. |
| `SEClient` | `seclient.go`, retries and refresh in `main.go`, credential reads in `upstream.go` | `rpc` is the call in progress and with it the owner of `Mux`; `current` is who knows the password the server accepts. The API is external, modelled from what the client relies on. |
| `WallClock` | `AfterWallClock`, `RunTicker` | Both clocks count down in ticker periods relative to the deadline. |
| `RefreshLoop` | `RunTicker` with the callback of `main.go` 1011-1032 | Composition of `SEClient` and `WallClock`: a firing timer is the start of `Login`, the end of the callback's last call is its return, and whether it was a success chooses the next wait. |
| `LogQueue` | `LogWriter` | `accepted` is everything sent on the channel, `taken` the part the goroutine has received. |
| `Endpoints`, `MCEndpoints` | discovery and list operations of `main.go` | The list operations are operators on sequences; an action is a discover pass, a file or the end of a step. |
| `ProxyLists` | `loadAPIProxyListFromReader`, `normalizeAPIProxy`, the explicit proxy in `run()`, `fetchFreeProxyPage` | Operators on sequences of lines and of page rows, used by `Startup`. A blank `-api-proxy` is the direct connection (`Direct`), a candidate like any other. |
| `Lists` | the loops and sorts all lists go through | Filtering, sorting and gathering without repetitions, by the place each element takes, in a form the provers can expand. |
| `ProxyList`, `MCProxyList` | `benchmarkProxyEndpoints`, `probeProxyEndpoint`, `buildProxyRows`, `sortProxyRows`, `emitProxyCSV`, `printCountryList`, `dpExport` | `probe[k]` is the goroutine of an endpoint, `inUse` the semaphore, `now` a clock that moves on when no goroutine can; `written` and `flushed` are the two ends of the CSV writer's buffer. |
| `DialChain` | `BypassDialer`, `FixedDialer`, `ResolvingDialer`, `ProxyDialer`, `readResponse` | One dial. `chain` is the way `run()` and the bypass patterns send it, `turn` the address of the resolver's loop, `bytes` and `ending` what the upstream proxy answers, `b` and `buf` the one-byte buffer and the collected answer of `readResponse`. |
| `LogTail` | `LogsPage`, the handlers and window events of `index.ts` | `place` follows a tail from the renderer's call to its session's id, `effect` is the effect that has not been cleaned up, `sessions` is `logTailSessions`; `stops`, `refreshes` and `data` are what is on its way. |
| `Startup`, `MCStartup` | `run()`, `fetchFreeProxyList` | One action per step and one per way it fails, with the exit code; `attempt` is the loop variable of `retryPolicy`, `list` the API proxy list, `fetch` the free-proxy list. |
| `SequenceLemmas` | | What the operators of `Lists` compute, for sequences of every length. |
| `RaceProofs` | | Theorems about `CandidatePool` and `FanOut`. |
| `RequestProofs` | | Theorems about `Tunnel`, `SniRewrite` and `DialChain`: what happens to one request. |
| `LogProofs` | | Theorems about `LogQueue` and `LogTail`. |
| `RefreshLoopProofs`, `EndpointsProofs`, `StartupProofs`, `ProxyListProofs` | | Theorems about the module of that name. |

A proof module extends the components it is about, so that it can speak of their
properties by name. Where two of them share one, the names of the second and
third carry a prefix: `Race` in `FanOut` (`RaceInit`, `RaceNext`, `RaceSpec`),
`View` in `LogTail`, `Sni` in `SniRewrite` and `Dial` in `DialChain`.

`CandidatePool` and `FanOut` instantiate `FirstSuccess` with a refinement
mapping and have its specification as a property. `RefreshLoop`
instantiates the client and the ticker over one set of variables and joins
their actions. `Startup` uses the results of
the pool, of `Endpoints`, of `ProxyList` and of `SEClient` as single steps; what it assumes of
them - they end, and they succeed or fail - is what those modules show.
Operators whose comment starts with "Mutant" are plausible mistakes of the
code, kept beside the definition each would replace, and show that the
properties can fail. No specification uses them.

## Runs

| Run | Bounds | Shows |
| --- | --- | --- |
| `candidate_pool` | 4 candidates, 2 workers, all test steps | With `-discover-csv`, so that one step of a test does not look at the context and can succeed behind the cancellation (`Calls`). A worker gets more than one job, jobs remain when the first success comes, and a worker is busy at the cancellation. `EachCandidateOnce`, `SendNeverBlocks`, `PreferenceBound`, the refinement of `FirstSuccess` with its liveness, and `Quiesces`. |
| `fan_out` | 3 upstreams | A winner, a failure and a straggler at once. Refinement, `ErrorAccountsForAll`, `NoGoroutineLeak`. |
| `tunnel` | 2 units for a record header, 3 for a record, 5 client units, 3 upstream units | The header and the record can each arrive in pieces and be cut off, with two more units behind the record. CONNECT, SOCKS5 and plain requests, with and without fake-SNI, and every first record; a client of a plain request that stays, leaves, or has already sent its next request. |
| `sni_rewrite` | some 2600 states over records with up to two extensions, fake names of 1, 11, 30 and 90 bytes | Names shorter, equal and longer; slack in every structure; fragmented and inconsistent hellos; records close to 65535 bytes. Extensions with two bytes behind their list of names, which become part of the list, as the property says. |
| `refresh_loop` | one dial at a time, 2 attempts per step, 3 faults; waits of 3 ticks and 1 tick, drift up to 4 | Three faults suffice for a lost reply followed by a failed retry and a late effect of the first call; the drift exceeds the longest wait, so the deadline can pass at once or never by the wall clock. A dial keeps nothing but `Mux`, so that one, again and again, meets every state of the loop. Two properties are about the whole: a client the server no longer accepts is in its short wait (`StaleOnlyBriefly`), and once calls stop failing every wait is the long one (`RefreshesSettle`). |
| `log_queue` | 2 loggers, 3 lines each, room for 2 | The queue fills and empties more than once; the nil meets a full queue. |
| `endpoints` | 2 countries, asked for one by one or both in one request, 2 addresses, 2 ports, 5 answers, 3 files, 3 blacklists, 2 passes | Entries repeat within an answer, over passes and over countries, with and without ports, partly and wholly blacklisted; 801 in the first or second pass. |
| `dial_chain` | 2 addresses, answers of up to 5 bytes over CR, LF and others | A blank line with a byte in front or behind, cut-off ones, answers shorter than one, with the end of the input after or with the last byte, and silence at every point. The first address fails in each of its steps. |
| `log_tail` | 2 runs, 3 effects, reloads at any time | Three effects suffice for a tail that is shown, one being stopped and one whose id is still on the way, or for a return to the first run. |
| `startup` | retry limits 0 (none), 1 and 2; API proxy lists of up to two lines, an explicit proxy in each form, a blank one among them; sites of up to two pages with two rows, or without an end | Every path, with the API changing between up and down. Two lines suffice for a duplicate, in the same form or in another, and for an explicit proxy that is in the list, first or second; two rows for one that lacks its port in front of a whole one. |
| `init_retries` | retry limits as in `startup`, one list, no pages to speak of | A violation: see below. |
| `proxy_list` | 4 endpoints in 3 entries, two names for one country, 3 slots, a timeout of 2, answers after 1 to 3 | One endpoint waits for a slot, behind successes, failures and timeouts; answers come before, at and past the timeout. All outputs and sort orders; write errors at every row and in the last flush. |

Deadlock is not checked: every system here may stop, because the function
returns, the process exits or the tunnel is over - in `refresh_loop` because the
initialisation gives up - and the .cfg says which. That nothing stops too early
is what the liveness properties are for. The type invariant of the pool is
checked by its run; those of the other state machines were checked, too, and
are the first conjunct of what is proved.

### What the code does differently from its documentation

`init_retries`: README.md:144 promises a number of attempts for initialisation
steps, or unlimited ones. With `-api-proxy-file` or `-api-proxy-list-url` these
steps run inside `selectAPIProxyCandidate`, which is called once and outside of
`try` (`main.go` 780-783), so that one failed round of candidates exits with 12
whatever `-init-retries` says.

Other observations the models contain without a violated property: a failed
hijack leaves the dialed upstream connection open (`handler.go` 59-63;
`NoConnectionLeak` excludes that path); a client's half-close closes the whole
upstream connection (`handler.go` 129), so `ResponseComplete` is about clients
that stay open; the blacklist filter drops an entry's host name (`main.go`
1256); `LogWriter.Close` may wait for ever on its first send (`logwriter.go`
51); a listener that cannot bind exits with 0 (`main.go` 1050); an upstream
proxy that accepts and then stays silent holds a dial for ever (`upstream.go`
164 and 194), whatever README.md:158 says of a timeout, and `OnlySilenceHangs`
says that nothing else does; an error after the connection to the upstream was
made leaves it open (`upstream.go` 109-176); a reload of the renderer, from the
log page or from another with the reply still on its way, leaves its tail session
running until the window closes; the rewriting of a ClientHello makes what is
behind the list of names in its extension, of which a well-formed one has nothing,
part of the list (`tls_sni.go` 164); a blank `-api-proxy` in front of a list is a
candidate, the direct connection (`main.go` 279-283, 756-763); and clearing the logs selects the
deleted run again, because `clearLogs` refreshes with the selection of the render
it was clicked in (`LogsPage.tsx` 49, 20). A body the upstream cuts off looks
complete to a client that gets it in chunks, because `copyBody` drops the read
error (`handler.go` 248); a client of a plain request that has sent its next one
and leaves is not noticed while the upstream is idle, since the HTTP server has
stopped reading ahead, so `EndsWithEitherPeer` excepts it; an error of the
deferred `Flush` lets a cut-off country list or export exit with 0 (`main.go`
1055, 1148); a row of a free-proxy page that lacks its address or port shifts
the pairs behind it (`freeproxy_fetch.go` 104-108), and a site that repeats its
pages is read for ever (39); and a list that
names one server with and without a trailing slash has it tested twice (`main.go`
320-378).

## Fairness

Goroutines that can run eventually do, so their actions are weakly fair. Beyond
that:

* `CandidatePool`: a step of a test ends, because `callWithTimeout` and the
  discover passes put a timeout on every call.
* `FanOut`: either the caller's context ends (server selection passes a
  timeout) or every upstream gives up by itself (resolvers have timeouts), and a
  done context ends every attempt.
* `Tunnel`: nothing is assumed of what the peers send. A dial ends, and so does
  a round trip and a write, since a peer reads or goes away; the code itself sets no deadline, so
  a peer that does neither is outside of what the run shows.
* `RefreshLoop`: time passes and a ready select runs; a call ends by
  `args.timeout`. Callers waiting for `Mux` are strongly fair because it comes
  free again and again and Go's mutex hands over to a waiter that has starved.
  Faults are finite in number, which is what "once calls stop failing" means in
  `PasswordHeals` and `RefreshesSettle`. `SEClient` and `WallClock` state no fairness of their own:
  what one of them waits for is the other's step.
* `LogQueue`: the goroutine runs, and the timer fires; stderr owes nothing.
* `Startup`: attempts made while the API answers succeed sooner or later
  (strong fairness of `TrySucceeds`). Without a retry limit `StartupEnds`
  therefore says nothing of a cause that never goes away.
* `DialChain`: every call ends except the handshake and the reads of an
  upstream that falls silent, of which nothing is assumed; nor is the context
  assumed to end.
* `LogTail`: messages between the processes arrive and the interval timer
  fires; the user may stop at any point.
* `Endpoints`, `SniRewrite` and `ProxyList` have safety properties only. That
  the speed test ends is `EndsInTime`, a bound on the clock, which moves only
  when no goroutine has anything left to do.

## Proofs

Eight modules hold theorems. Each states `Spec => []P` for properties `P` that a
run checks, from the named assumption of the module about its constants, which
TLC evaluates in the run: bounds are natural numbers, inputs have their types,
and what the code needs to be positive or finite is so - the number of candidates
and workers (`parse_args` and the check for an empty list), the capacity of the
log queue, the slots and the timeout of the speed test, the set of upstreams or
endpoints. `ProxyList` assumes of its list that no endpoint is in it twice, which
is what `SortedOnce` of `Endpoints` says of the list discovery returns.

| Run | Proved for all constants | Only model-checked |
| --- | --- | --- |
| `candidate_pool` | `TypeOK`, `EachCandidateOnce`, `SendNeverBlocks`, `PreferenceBound`, the safety part of `ImplementsFirstSuccess` | `Quiesces` and the liveness of the refinement |
| `fan_out` | `ErrorAccountsForAll`, the safety part of `RaceImplementsFirstSuccess` | `NoGoroutineLeak` and the liveness of the refinement |
| `tunnel` | `StreamIntact`, `RealNameHidden`, `NoConnectionLeak`, `ResponseComplete` | `EndsWithEitherPeer`, `AllForwarded` |
| `sni_rewrite` | `RewriteSound` | |
| `refresh_loop` | `CallsAllowed`, `NoStaleRead`, `WakesAfterSleep`, `StaleOnlyBriefly`, that the composition implements its parts, and the action property `NeverEarly` of `WallClock` | `PasswordHeals`, `DialsGetCredentials`, `RefreshesSettle` |
| `log_queue` | `NothingGarbledOrDropped` | `CloseReturns` |
| `endpoints` | `NothingLost`, `NoBlacklisted`, `SortedOnce` | |
| `startup` | `ServesPrepared`, `ExitHonest`, `CandidatesSound` | `StartupEnds` |
| `dial_chain` | `CleanHandover`, `FirstThatWorks` | `OnlySilenceHangs` |
| `proxy_list` | `OwnResult`, `EndsInTime`, `ListingFaithful` | |
| `log_tail` | `SessionsAccountedFor` | `TailShows` |

None of these properties is inductive by itself. In every module `IInv`
(`RaceIInv`, `ViewIInv`, `SniIInv`, `DialIInv`) is the inductive invariant, a
conjunction of named parts; TLC agreed with it on the run's instance before it
was proved, and one lemma per action or group of actions shows that it is kept.

**`RaceProofs`, the pool.** `IInv == TypeOK /\ Places /\ Progress /\ Collected`:

* `Places`: no candidate is in two places - `results` does not repeat itself,
  workers hold different candidates, no held candidate has been reported, and
  all of them have been handed out. It bounds the length of `results`: its
  entries and the candidate of a worker about to send are distinct members of
  `1..N`, so a worker that wants to send finds `results` shorter than `N`
  (`SendsNeverBlock`).
* `Progress`: where a candidate is decides how far its test is; in particular a
  candidate that is about to be reported or has been is settled, and one not
  handed out is queued. A settled candidate's stage then never changes, which
  makes what the collector read stay true.
* `Collected`: everything received so far failed, except a chosen candidate,
  which is the last one; and the collector leaves its loop only with a choice
  or after `N` receives.

`NoCandidateLost` adds `Custody`: every candidate handed out is reported, or
some worker still answers for it; with `Places` that worker is the only one.
`PreferenceKept` adds `Overtaking`: a report overtakes fewer earlier candidates
than there are workers, since each of those is in the hands of another worker -
an injection from the overtaken candidates into the other workers, made from
`Custody`.

The refinement's one hard step (`PoolRefinesFirstSuccess`) is `Return` with an
error: `N` receives of distinct candidates of `1..N` are all of them
(`GaveUpMeansAllFailed`, by cardinality), and all of those have failed.
`PoolHonest` follows from it.

**`RaceProofs`, the fan-out.** The caller counts errors, the property names
upstreams. `Counted` says that the count is the number of upstreams whose error
was taken, each of which has ended, so that none is counted twice; a count of all
of them is all of them, again by cardinality. `Returned` ties a goroutine's place
to the outcome of its call, which is what the refinement maps.

**`RequestProofs`, the tunnel.** `Phases` says which part of its work each routine
is in by the phase of the handler, `Closed` that a routine that is done has closed
the other side. `Relayed` describes what was written so far by two shapes - all
units as sent, or the rewritten record and the units behind the record - and that
nothing is written before one of them is chosen; with it `StreamKept` is a
statement about the two shapes. `Hidden` adds that copying goes on only behind
the rewritten record. `Answered` is the argument of `ResponseDelivered`: whenever
something is torn down there is a reason other than the end of this side's work
(`Excused`), and once there is one there always is.

**`RequestProofs`, the ClientHello.** What the parser of a rewritten record sees is
decided by where its extensions start. `ExtStart` adds up their lengths;
`StartsAscend` and `StartsMove` carry over that sum what each extension does to
it: those up to the patched one start where they did, those behind it are moved by
the difference of the names. So every extension fits exactly if it did before,
and the parser comes to the same one (`FindsAgain`); the lengths above it
have grown by the same difference, and fit their fields because the record's
does (`RewrittenIs`). The list's own length has grown by that difference and by
what was behind the list, which is nothing in an extension the list fills.

**`RequestProofs`, the dial.** `readResponse` looks at `buf`, the property at what
the upstream sent. `Collecting` says that `buf` is what was read, followed by
copies of the last byte once the input has ended. `NoFalseEnd` shows that such
copies never complete a blank line: its last two bytes differ, and the buffer of
an upstream that sent nothing holds only zeros. `IsSuffix` and `SubSeq` are first
spelt out byte by byte (`EndsResponseMeaning`, `EndsHeaderMeaning`).

**`RefreshLoopProofs`.** The invariant is that of the client, that of the timer,
and `Turns`, which joins them: the timer waits exactly while no refresh is under
way. A step of the loop is a step of each part or leaves it alone (`ClientStep`,
`ClockStep`; `LoopImplementsParts` is their temporal form), so the parts'
invariants are shown on their own. `Calls` and `Known` give `CallsAllowed`: whose
call is outstanding is the step its caller is in, and what a step needs was
brought by the one before. `Password` gives `NoStaleRead`: as long as nothing
went wrong the current password is with the client, except between the server's
processing of a call and the return of the call, when `Mux` is held. `Clocks`
bounds the drift and says that a waiting tick shows the wall clock as it stands,
which gives `CallbackNeverEarly`. `StaleOnlyBriefly` needs `Turns`: the callback's error is what
chooses the wait.

**`LogProofs`, the queue.** `Handled` says that everything received is written,
except what is in hand, and `InHand` what that is; a line could be lost or doubled
only between its receipt and its write.

**`LogProofs`, the view.** The invariant adds three facts to
`SessionsAccountedFor`: an effect that has not run has asked for nothing
(`Fresh`), the active effect's tail is called for, on its way or known but never
given up (`Live`), and there is no session before its call has arrived
(`Begun`). They are needed where the page moves on: the tail of the effect that
is cleaned up then either has no session yet, or its id is on the way, or it is
known and so gets stopped.

**`SequenceLemmas`.** Discovery, the lists of API proxies, the pages of a
free-proxy site and the rows of a list are loops over sequences, so what they
compute for every input is an induction. The library's theorems for that take an
operator as a parameter, which the provers cannot instantiate; here they are
restated for sets. `Induction` and `UpTo` follow from the well-foundedness of the
natural numbers: a property of the turns of a loop is the set of turns after
which it holds. A loop is written as a recursive function on `0..n`, which TLA+
defines as a `CHOOSE`; `Recursion` shows that a function with its equations
exists, so that the chosen one has them. From there: a filter keeps the elements
asked for in their order (`KeepIs`), a sort by a strict total order gives the same
elements in that order (`SortIs`), and gathering with a check for repetitions
gives each element once, in the order of first occurrence (`DistinctIs`).

**`EndpointsProofs`.** The properties compare keys - country, address and port -
while the code moves entries about, splits them, and looks at what it has seen.
`Gathering` says that the entries gathered have the keys in `seen`, each once
(`Once`); `IInv`, that these are the keys offered so far without the blacklisted
ones. Every list operation gets a lemma about what it does to the keys
(`FilterIs`, `AppendUniqueIs`, `SortedIs`, `LoadCSVIs`), and the steps of discovery
follow by set algebra. That the sorted list is strictly sorted (`SortedOnceHolds`)
comes from `Once`: two entries the less function cannot tell apart would share a
key.

**`StartupProofs`.** `Path` says of every step which way leads to it and what that
has prepared, which gives `ServesPrepared` and, with the codes each action sets,
`ExitHonest`. `Loaded` is the state of the list between its reading and the
explicit proxy: exactly the list of its lines. `ListSound` and `ExplicitSound`
are then about operators alone: `Distinct` keeps the order in which servers are
named first (`NamedInOrder`), and the explicit proxy goes in front of the
others. `Fetched` says the same of the pages: what was gathered does not repeat
itself, and if no row lacks its address or port it is what the site offered.

**`ProxyListProofs`.** `ResultsOwn` rests on `OnTime`: the clock does not pass
the moment at which a probe's answer or its deadline is due. `TestEndsInTime` is
a counting argument: while an endpoint waits, at every multiple `n` of the timeout
that has passed `Slots * (n + 1)` probes have begun (`WorkConserved`), because all
slots are taken by probes that began within the last timeout (`OneMoreRound`). So
none waits beyond `Rounds - 1` timeouts, and each that begins ends within one
more. `ListingFaithfulHolds` follows the rows from their making to the writer:
the loop over the entries makes one row for every key and no other (`AllRowsAre`,
`RowsCounted`), the less function of each of the three orders is a strict total
order on them whose pairs ascend in rank (`RowBeforeTotal`,
`RowBeforeTransitive`, `RowBeforeRanks`), and so the sorted list is what the
property asks for (`ListingShown`) when the printing begins. `Tested` says that
every endpoint has its result by then, or none has if no test was asked for, and
`Printed` that an exit with 0 comes only behind the last row.

What is only model-checked is liveness under fairness, which TLAPS does not prove:
the properties in the last column of the table, and with them that the two
refinements of `FirstSuccess` keep its fairness.

## Not modelled

HTTP/2 tunnels (`proxyh2`): the listener is a plain `http.ListenAndServe`, so
the code cannot be reached. Parsing of flags, the config file, the blacklist and
bypass rules, and of URLs into dialers and resolvers; random identifiers and
message shapes; the conditional logger; packaging, scripts and the user
interface: they are text, I/O or single calls, without a state or an order of
steps. The desktop launcher is not modelled: after the one script it awaits, a
launch is a synchronous loop, so no handler meets another's half-done work, and
what could go wrong - two launches with the same ports, a rotation that meets
files in use - is decided by Windows and its file locks, of which the source
says nothing that a model could be compared with.
Of the dialer chain the matching of bypass patterns is left out - whether a host
bypasses the proxy is a choice - and so are an additional `-proxy` in front of
everything, which would be one more turn of the same CONNECT exchange, and the
connections a failed dial leaves open, since no path of the code closes them.

## Plan

1. Done: the core - `CandidatePool` with its proofs, `FanOut`, `Tunnel`,
   `SEClient` - then `WallClock`, `LogQueue`, `Endpoints`, `Startup`,
   `SniRewrite`; `DialChain`, `LogTail` with its proof.
2. Done: `RefreshLoop`, the composition of `SEClient` and `WallClock`;
   `ProxyList`; plain requests in `Tunnel`; lists, the fetch mode and the bypass
   rules in `Startup`, with `ProxyLists`.
3. Done: the proofs of the table above - the races, the tunnel, the refresh loop,
   the log queue, the dial chain, the speed test and the log view first, then
   the components that work on lists: `SequenceLemmas`, `EndpointsProofs`,
   `StartupProofs`, the sums of lengths of `SniRewrite` and the rows of
   `ProxyList`.
4. Left: liveness, for which there is no prover here; the desktop launcher, if
   what its file locks do is ever written down; the matching of bypass patterns.
