--------------------------- MODULE CandidatePool ---------------------------
(***************************************************************************)
(* selectAPIProxyCandidate and testAPIProxyCandidate (main.go): a pool of  *)
(* worker goroutines tests API proxy candidates in parallel, a dispatcher  *)
(* hands them out over an unbuffered channel, and the caller collects      *)
(* results from a buffered channel until one succeeds or all have failed,  *)
(* then cancels the shared context and waits for the workers.              *)
(*                                                                         *)
(* An RPC of a test is one step that succeeds or fails; it always ends,    *)
(* because callWithTimeout bounds it (so do the discover passes).  A call  *)
(* that starts on a cancelled context fails; making a client and reading a *)
(* CSV file are no calls.  Error texts are left out.                       *)
(***************************************************************************)
EXTENDS Integers, Sequences, FiniteSets

CONSTANTS N,                \* number of candidates
          ApiProxyParallel, \* args.apiProxyParallel
          NeedCountries,    \* a test also fetches the geo list
          NeedDiscover,     \* a test also discovers endpoints
          DiscoverCSV       \* -discover-csv: from a file

ASSUME PoolAssumption ==
    /\ N \in Nat \ {0}                 \* an empty list is refused up front
    /\ ApiProxyParallel \in Nat \ {0}  \* parse_args refuses less than 1
    /\ NeedCountries \in BOOLEAN
    /\ NeedDiscover \in BOOLEAN
    /\ DiscoverCSV \in BOOLEAN

Candidates == 1..N
Parallelism == IF ApiProxyParallel > N THEN N ELSE ApiProxyParallel
Workers == 1..Parallelism

\* Mutant: the buffer sized by the workers, not by the candidates.
ResultsCapPerWorker == Parallelism

\* results := make(chan apiProxyCandidateResult, len(candidates))
ResultsCap == N

Steps == {"client", "anon", "register", "geo", "discover"}

VARIABLES
    stage,      \* stage[c]: "queued", the step candidate c is in, "ok" or "failed"
    wpc,        \* wpc[w]: where worker w is
    job,        \* job[w]: the candidate worker w took last, 0 before the first
    late,       \* the workers whose current call started on a cancelled context
    dispatched, \* candidates sent on jobs so far
    jobsClosed, \* close(jobs) has run
    results,    \* everything ever sent on results, oldest first
    received,   \* how many of those the collector has taken
    ctxDone,    \* cancel() has run
    mpc,        \* where the collector is
    chosen      \* the candidate it picked, as a set

workerVars == <<stage, wpc, job, late>>
mainVars == <<received, ctxDone, mpc, chosen>>
vars == <<stage, wpc, job, late, dispatched, jobsClosed, results, received,
          ctxDone, mpc, chosen>>

Init ==
    /\ stage = [c \in Candidates |-> "queued"]
    /\ wpc = [w \in Workers |-> "recv"]
    /\ job = [w \in Workers |-> 0]
    /\ late = {}
    /\ dispatched = 0
    /\ jobsClosed = FALSE
    /\ results = <<>>
    /\ received = 0
    /\ ctxDone = FALSE
    /\ mpc = "collect"
    /\ chosen = {}

-----------------------------------------------------------------------------
(* The dispatcher goroutine *)

\* Mutants: one candidate too many; the list walked from its end.
HandoffPastEnd(w) ==
    /\ ~jobsClosed /\ dispatched <= N
    /\ wpc[w] = "recv"
    /\ dispatched' = dispatched + 1
    /\ job' = [job EXCEPT ![w] = dispatched + 1]
    /\ wpc' = [wpc EXCEPT ![w] = "check"]
    /\ UNCHANGED <<stage, late, jobsClosed, results, mainVars>>

HandoffReversed(w) ==
    /\ ~jobsClosed /\ dispatched < N
    /\ wpc[w] = "recv"
    /\ dispatched' = dispatched + 1
    /\ job' = [job EXCEPT ![w] = N - dispatched]
    /\ wpc' = [wpc EXCEPT ![w] = "check"]
    /\ UNCHANGED <<stage, late, jobsClosed, results, mainVars>>

\* jobs is unbuffered: the send and worker w's receive are one step.  The
\* select may still take this branch after the context is done.
Handoff(w) ==
    /\ ~jobsClosed /\ dispatched < N
    /\ wpc[w] = "recv"
    /\ dispatched' = dispatched + 1
    /\ job' = [job EXCEPT ![w] = dispatched + 1]
    /\ wpc' = [wpc EXCEPT ![w] = "check"]
    /\ UNCHANGED <<stage, late, jobsClosed, results, mainVars>>

\* Mutant: the dispatcher's select has no ctx.Done branch.
CloseJobsAtEndOnly ==
    /\ ~jobsClosed
    /\ dispatched = N
    /\ jobsClosed' = TRUE
    /\ UNCHANGED <<workerVars, dispatched, results, mainVars>>

\* The deferred close(jobs), after the last candidate or on a done context.
CloseJobs ==
    /\ ~jobsClosed
    /\ dispatched = N \/ ctxDone
    /\ jobsClosed' = TRUE
    /\ UNCHANGED <<workerVars, dispatched, results, mainVars>>

-----------------------------------------------------------------------------
(* The workers *)

\* range over a closed jobs channel ends the worker.
NoMoreJobs(w) ==
    /\ wpc[w] = "recv" /\ jobsClosed
    /\ wpc' = [wpc EXCEPT ![w] = "exit"]
    /\ UNCHANGED <<stage, job, late, dispatched, jobsClosed, results, mainVars>>

\* if ctx.Err() != nil { return }: the job is dropped, untested.
CheckContext(w) ==
    /\ wpc[w] = "check"
    /\ IF ctxDone
         THEN /\ wpc' = [wpc EXCEPT ![w] = "exit"]
              /\ UNCHANGED stage
         ELSE /\ wpc' = [wpc EXCEPT ![w] = "test"]
              /\ stage' = [stage EXCEPT ![job[w]] = "client"]
    /\ UNCHANGED <<job, late, dispatched, jobsClosed, results, mainVars>>

\* The step after s; optional steps are skipped.
NextStage(s) ==
    IF s = "client" THEN "anon"
    ELSE IF s = "anon" THEN "register"
    ELSE IF s = "register" /\ NeedCountries THEN "geo"
    ELSE IF s # "discover" /\ NeedDiscover THEN "discover"
    ELSE "ok"

\* The steps that look at the context: all but newSEClient and a discover that
\* reads a file.
Calls == Steps \ ({"client"} \cup (IF DiscoverCSV THEN {"discover"} ELSE {}))

\* A step of the test succeeds.
StepSucceeds(w) ==
    /\ wpc[w] = "test"
    /\ w \notin late
    /\ LET next == NextStage(stage[job[w]]) IN
         /\ stage' = [stage EXCEPT ![job[w]] = next]
         /\ wpc' = [wpc EXCEPT ![w] = IF next = "ok" THEN "send" ELSE "test"]
         /\ late' = IF ctxDone /\ next \in Calls THEN late \cup {w} ELSE late
    /\ UNCHANGED <<job, dispatched, jobsClosed, results, mainVars>>

\* A step fails: a bad proxy URL, an RPC error, a timeout, the cancelled
\* context, or a discover that found no endpoint.
StepFails(w) ==
    /\ wpc[w] = "test"
    /\ stage' = [stage EXCEPT ![job[w]] = "failed"]
    /\ wpc' = [wpc EXCEPT ![w] = "send"]
    /\ late' = late \ {w}
    /\ UNCHANGED <<job, dispatched, jobsClosed, results, mainVars>>

CanSend == Len(results) - received < ResultsCap

SendResult(w) ==
    /\ wpc[w] = "send"
    /\ CanSend
    /\ results' = Append(results, job[w])
    /\ wpc' = [wpc EXCEPT ![w] = "recv"]
    /\ UNCHANGED <<stage, job, late, dispatched, jobsClosed, mainVars>>

\* Mutant: a result is dropped whenever the collector is not ready for it.
DropResultAtAnyTime(w) ==
    /\ wpc[w] = "send"
    /\ wpc' = [wpc EXCEPT ![w] = "exit"]
    /\ UNCHANGED <<stage, job, late, dispatched, jobsClosed, results, mainVars>>

\* The other branch of the select: the result is dropped.
DropResult(w) ==
    /\ wpc[w] = "send" /\ ctxDone
    /\ wpc' = [wpc EXCEPT ![w] = "exit"]
    /\ UNCHANGED <<stage, job, late, dispatched, jobsClosed, results, mainVars>>

-----------------------------------------------------------------------------
(* The collector: selectAPIProxyCandidate itself *)

\* Mutant: the collecting loop is one turn short.
ReceiveOneShort ==
    /\ mpc = "collect" /\ received < Len(results)
    /\ received' = received + 1
    /\ LET c == results[received + 1]
           last == stage[c] = "ok" \/ received + 2 >= N
       IN /\ chosen' = IF stage[c] = "ok" THEN {c} ELSE {}
          /\ ctxDone' = last
          /\ mpc' = IF last THEN "wait" ELSE "collect"
    /\ UNCHANGED <<workerVars, dispatched, jobsClosed, results>>

\* One turn of the collecting loop.  A success ends it; so does the N-th
\* failure.  Both cancel the context and go on to wg.Wait().
Receive ==
    /\ mpc = "collect" /\ received < Len(results)
    /\ received' = received + 1
    /\ LET c == results[received + 1]
           last == stage[c] = "ok" \/ received + 1 = N
       IN /\ chosen' = IF stage[c] = "ok" THEN {c} ELSE {}
          /\ ctxDone' = last
          /\ mpc' = IF last THEN "wait" ELSE "collect"
    /\ UNCHANGED <<workerVars, dispatched, jobsClosed, results>>

Return ==
    /\ mpc = "wait"
    /\ \A w \in Workers : wpc[w] = "exit"
    /\ mpc' = "returned"
    /\ UNCHANGED <<workerVars, dispatched, jobsClosed, results, received,
                   ctxDone, chosen>>

-----------------------------------------------------------------------------

Worker(w) ==
    \/ NoMoreJobs(w) \/ CheckContext(w)
    \/ StepSucceeds(w) \/ StepFails(w)
    \/ SendResult(w) \/ DropResult(w)

Dispatcher == CloseJobs \/ \E w \in Workers : Handoff(w)

Main == Receive \/ Return

Next == Dispatcher \/ Main \/ \E w \in Workers : Worker(w)

\* Every goroutine that can run eventually does; every call ends by its timeout.
Fairness ==
    /\ WF_vars(Dispatcher)
    /\ WF_vars(Main)
    /\ \A w \in Workers : WF_vars(Worker(w))

Spec == Init /\ [][Next]_vars /\ Fairness

-----------------------------------------------------------------------------

\* Workers that have taken a job and neither reported nor dropped it.
Holding == {w \in Workers : wpc[w] \in {"check", "test", "send"}}

Reported == {results[i] : i \in DOMAIN results}

TypeOK ==
    /\ stage \in [Candidates -> {"queued", "ok", "failed"} \cup Steps]
    /\ wpc \in [Workers -> {"recv", "check", "test", "send", "exit"}]
    /\ job \in [Workers -> 0..N]
    /\ \A w \in Holding : job[w] # 0
    /\ late \in SUBSET Workers
    /\ dispatched \in 0..N
    /\ jobsClosed \in BOOLEAN
    /\ results \in Seq(Candidates)
    /\ received \in 0..Len(results)
    /\ ctxDone \in BOOLEAN
    /\ mpc \in {"collect", "wait", "returned"}
    /\ chosen \in SUBSET Candidates

(***************************************************************************)
(* The collector counts len(candidates) receives and nothing else tells    *)
(* it to stop, so while the context is live no candidate may vanish or be  *)
(* reported twice: each one handed out is in the hands of exactly one      *)
(* worker or exactly once in results (main.go:564-583, 596-607).           *)
(***************************************************************************)
EachCandidateOnce ==
    ~ctxDone => /\ Cardinality(Reported) = Len(results)
                /\ Cardinality(Holding) + Len(results) = dispatched
                /\ Reported \cup {job[w] : w \in Holding} = 1..dispatched

(***************************************************************************)
(* The capacity of results is enough for every send, whatever the          *)
(* collector does: a worker never waits to report (main.go:561, 573).      *)
(***************************************************************************)
SendNeverBlocks == \A w \in Workers : wpc[w] = "send" => CanSend

(***************************************************************************)
(* How far the file's order of preference is respected: the candidate      *)
(* picked passes over fewer earlier candidates than there are workers.     *)
(* With -api-proxy-parallel 1 every earlier candidate was tried and failed.*)
(***************************************************************************)
PreferenceBound ==
    \A c \in chosen :
        Cardinality({d \in 1..(c - 1) : stage[d] # "failed"}) < Parallelism

\* The promise of FirstSuccess, read off the pool's state.
FS == INSTANCE FirstSuccess WITH
    Attempts    <- Candidates,
    Cancellable <- FALSE,
    outcome     <- [c \in Candidates |-> IF stage[c] \in {"ok", "failed"}
                                         THEN stage[c] ELSE "pending"],
    verdict     <- IF mpc # "returned" THEN "none"
                   ELSE IF chosen = {} THEN "failed" ELSE "winner",
    winner      <- IF mpc = "returned" THEN chosen ELSE {}

(***************************************************************************)
(* The pool implements the race: it returns a candidate whose whole test   *)
(* succeeded, or an error only after every candidate failed, and it does   *)
(* return (main.go:596-614).                                               *)
(***************************************************************************)
ImplementsFirstSuccess == FS!Spec

(***************************************************************************)
(* Nothing is left running: the call returns, and every worker and the     *)
(* dispatcher end, also those that were busy when the context was          *)
(* cancelled.                                                              *)
(***************************************************************************)
Quiesces == <>[](/\ mpc = "returned" /\ jobsClosed
                 /\ \A w \in Workers : wpc[w] = "exit")
=============================================================================
