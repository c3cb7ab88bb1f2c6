------------------------------ MODULE RaceProofs ------------------------------
(***************************************************************************)
(* Proofs about the two races of the program, for every number of          *)
(* contestants.                                                            *)
(*                                                                         *)
(* CandidatePool: for every degree of parallelism and either choice of     *)
(* optional steps, no candidate is lost or tested twice, no report blocks, *)
(* and the pool is a race of FirstSuccess.  The invariant (Places,         *)
(* Progress, Collected) says where each candidate is.                      *)
(*                                                                         *)
(* FanOut: what a caller is told is true, also when upstreams hang and its *)
(* context ends.  The invariant adds to its property what the caller has   *)
(* counted and where each goroutine is.                                    *)
(***************************************************************************)
EXTENDS CandidatePool, FanOut, FiniteSetTheorems, FunctionTheorems, TLAPS

-----------------------------------------------------------------------------
(* The inductive invariant *)

Settled(c) == stage[c] \in {"ok", "failed"}

\* Where the candidates are: no candidate is in two places.
Places ==
    /\ \A i, j \in 1..Len(results) : results[i] = results[j] => i = j
    /\ \A i \in 1..Len(results) : results[i] <= dispatched
    /\ \A w \in Holding : job[w] \in 1..dispatched
    /\ \A w \in Holding : \A i \in 1..Len(results) : results[i] # job[w]
    /\ \A v, w \in Holding : job[v] = job[w] => v = w

\* What is known of a candidate from where it is.
Progress ==
    /\ \A i \in 1..Len(results) : Settled(results[i])
    /\ \A w \in Workers : wpc[w] = "send" => Settled(job[w])
    /\ \A w \in Workers : wpc[w] = "test" => stage[job[w]] \in Steps
    /\ \A w \in Workers : wpc[w] = "check" => stage[job[w]] = "queued"
    /\ \A c \in Candidates : c > dispatched => stage[c] = "queued"

\* What the collector has seen.
Collected ==
    /\ \A i \in 1..received : \/ stage[results[i]] = "failed"
                              \/ i = received /\ chosen = {results[i]}
    /\ chosen # {} => /\ received > 0
                      /\ chosen = {results[received]}
                      /\ stage[results[received]] = "ok"
    /\ mpc = "collect" => chosen = {}
    /\ mpc # "collect" => chosen # {} \/ received = N

IInv == TypeOK /\ Places /\ Progress /\ Collected

-----------------------------------------------------------------------------
(* The constants *)

\* There is at least one worker, and never more than one per candidate.
LEMMA ParallelismType == Parallelism \in 1..N
  BY PoolAssumption DEF Parallelism

\* The steps of a test lead to a further step or to success.
LEMMA NextStageType == ASSUME NEW s PROVE NextStage(s) \in Steps \cup {"ok"}
  BY DEF NextStage, Steps

-----------------------------------------------------------------------------
(* Type correctness *)

\* Every variable has its type at the start.
LEMMA InitType == Init => TypeOK
<1> SUFFICES ASSUME Init PROVE TypeOK
  OBVIOUS
<1>1. Holding = {}
  BY DEF Init, Holding
<1>2. \A w \in Holding : job[w] # 0
  BY <1>1
<1>3. results \in Seq(Candidates) /\ received \in 0..Len(results)
  BY DEF Init
<1>4. stage \in [Candidates -> {"queued", "ok", "failed"} \cup Steps]
  BY DEF Init
<1>5. wpc \in [Workers -> {"recv", "check", "test", "send", "exit"}]
  BY DEF Init
<1>6. job \in [Workers -> 0..N] /\ dispatched \in 0..N
  BY PoolAssumption DEF Init
<1> QED
  BY <1>2, <1>3, <1>4, <1>5, <1>6 DEF Init, TypeOK

\* Every step of the pool preserves the types, action by action.
LEMMA NextType == TypeOK /\ [Next]_vars => TypeOK'
<1> SUFFICES ASSUME TypeOK, [Next]_vars PROVE TypeOK'
  OBVIOUS
<1> USE PoolAssumption, ParallelismType DEF TypeOK, Holding, Candidates, Workers, workerVars, mainVars
<1>1. CASE UNCHANGED vars
  BY <1>1 DEF vars
<1>2. ASSUME NEW w \in Workers, Handoff(w) PROVE TypeOK'
  BY <1>2 DEF Handoff
<1>3. CASE CloseJobs
  BY <1>3 DEF CloseJobs
<1>4. ASSUME NEW w \in Workers, NoMoreJobs(w) PROVE TypeOK'
  BY <1>4 DEF NoMoreJobs
<1>5. ASSUME NEW w \in Workers, CheckContext(w) PROVE TypeOK'
  <2>1. stage' \in [Candidates -> {"queued", "ok", "failed"} \cup Steps]
    BY <1>5 DEF CheckContext, Steps
  <2> QED BY <1>5, <2>1 DEF CheckContext
<1>6. ASSUME NEW w \in Workers, StepSucceeds(w) PROVE TypeOK'
  <2>1. NextStage(stage[job[w]]) \in Steps \cup {"ok"}
    BY NextStageType
  <2> QED BY <1>6, <2>1 DEF StepSucceeds
<1>7. ASSUME NEW w \in Workers, StepFails(w) PROVE TypeOK'
  BY <1>7 DEF StepFails
<1>8. ASSUME NEW w \in Workers, SendResult(w) PROVE TypeOK'
  <2>1. results' \in Seq(Candidates) /\ Len(results') = Len(results) + 1
    BY <1>8 DEF SendResult
  <2> QED BY <1>8, <2>1 DEF SendResult
<1>9. ASSUME NEW w \in Workers, DropResult(w) PROVE TypeOK'
  BY <1>9 DEF DropResult
<1>10. CASE Receive
  <2>1. received + 1 \in 1..Len(results) /\ results[received + 1] \in Candidates
    BY <1>10 DEF Receive
  <2>2. /\ received' \in 0..Len(results')
        /\ ctxDone' \in BOOLEAN
        /\ mpc' \in {"collect", "wait", "returned"}
        /\ chosen' \in SUBSET Candidates
    BY <1>10, <2>1 DEF Receive
  <2> QED BY <1>10, <2>2 DEF Receive
<1>11. CASE Return
  BY <1>11 DEF Return
<1> QED
  BY <1>1, <1>2, <1>3, <1>4, <1>5, <1>6, <1>7, <1>8, <1>9, <1>10, <1>11
     DEF Next, Dispatcher, Main, Worker

(***************************************************************************)
(* Every variable keeps its type: in particular no worker ever holds an    *)
(* index outside the candidate list, and the collector never reads past    *)
(* what was sent.                                                          *)
(***************************************************************************)
THEOREM TypeCorrect == Spec => []TypeOK
  BY InitType, NextType, PTL DEF Spec

\* What an element of the log is.
LEMMA ResultsType == TypeOK => \A i \in 1..Len(results) : results[i] \in 1..N
<1>1. TypeOK => \A i \in 1..Len(results) : results[i] \in Candidates
  BY DEF TypeOK
<1> QED BY <1>1 DEF Candidates

-----------------------------------------------------------------------------
(* Where the candidates are *)

\* At the start no candidate is anywhere.
LEMMA InitPlaces == Init => Places
  BY DEF Init, Places, Holding

\* Handing out, reporting and dropping keep candidates in one place each.
LEMMA NextPlaces == TypeOK /\ TypeOK' /\ Places /\ [Next]_vars => Places'
<1> SUFFICES ASSUME TypeOK, TypeOK', Places, [Next]_vars PROVE Places'
  OBVIOUS
<1> USE DEF Places, workerVars, mainVars
<1>1. CASE UNCHANGED vars
  BY <1>1 DEF vars, Holding
<1>2. ASSUME NEW w \in Workers, Handoff(w) PROVE Places'
  <2>1. /\ dispatched' = dispatched + 1
        /\ results' = results
        /\ job'[w] = dispatched + 1
        /\ \A v \in Workers : v # w => job'[v] = job[v] /\ wpc'[v] = wpc[v]
    BY <1>2 DEF Handoff, TypeOK
  <2>2. Holding' \subseteq Holding \cup {w}
    BY <2>1 DEF Holding
  <2>3. w \notin Holding
    BY <1>2 DEF Handoff, Holding
  <2>4. dispatched \in Nat /\ \A i \in 1..Len(results) : results[i] # job'[w]
    BY <2>1 DEF TypeOK, Candidates
  <2>5. \A v \in Holding' : v = w \/ (v \in Holding /\ job'[v] = job[v])
    BY <2>1, <2>2, <2>3 DEF Holding
  <2>6. \A v \in Holding' : \A i \in 1..Len(results') : results'[i] # job'[v]
    BY <2>1, <2>4, <2>5
  <2>7. \A u, v \in Holding' : job'[u] = job'[v] => u = v
    BY <2>1, <2>4, <2>5
  <2>8. \A v \in Holding' : job'[v] \in 1..dispatched'
    BY <2>1, <2>4, <2>5
  <2>9. \A i \in 1..Len(results') : results'[i] <= dispatched'
    <3>1. \A i \in 1..Len(results) : results[i] \in 1..N
      BY ResultsType
    <3> QED BY <2>1, <2>4, <3>1
  <2> QED BY <2>1, <2>6, <2>7, <2>8, <2>9
<1>3. CASE CloseJobs
  BY <1>3 DEF CloseJobs, TypeOK, Holding
<1>4. ASSUME NEW w \in Workers, NoMoreJobs(w) PROVE Places'
  BY <1>4 DEF NoMoreJobs, TypeOK, Holding
<1>5. ASSUME NEW w \in Workers, CheckContext(w) PROVE Places'
  <2>1. Holding' \subseteq Holding
    BY <1>5 DEF CheckContext, TypeOK, Holding
  <2> QED BY <1>5, <2>1 DEF CheckContext
<1>6. ASSUME NEW w \in Workers, StepSucceeds(w) PROVE Places'
  BY <1>6 DEF StepSucceeds, TypeOK, Holding
<1>7. ASSUME NEW w \in Workers, StepFails(w) PROVE Places'
  BY <1>7 DEF StepFails, TypeOK, Holding
<1>8. ASSUME NEW w \in Workers, SendResult(w) PROVE Places'
  <2>1. Holding' = Holding \ {w}
    BY <1>8 DEF SendResult, TypeOK, Holding
  <2>2. /\ Len(results') = Len(results) + 1
        /\ \A i \in 1..Len(results) : results'[i] = results[i]
        /\ results'[Len(results) + 1] = job[w]
    BY <1>8 DEF SendResult, TypeOK, Holding
  <2>3. w \in Holding /\ dispatched' = dispatched /\ job' = job
    BY <1>8 DEF SendResult, TypeOK, Holding
  <2>4. \A i \in 1..Len(results') : i \in 1..Len(results) \/ i = Len(results) + 1
    BY <2>2 DEF TypeOK
  <2>5. \A i, j \in 1..Len(results') : results'[i] = results'[j] => i = j
    BY <2>2, <2>3, <2>4
  <2>6. \A i \in 1..Len(results') : results'[i] <= dispatched'
    BY <2>2, <2>3, <2>4
  <2>7. \A v \in Holding' : \A i \in 1..Len(results') : results'[i] # job'[v]
    BY <2>1, <2>2, <2>3, <2>4
  <2> QED BY <2>1, <2>3, <2>5, <2>6, <2>7
<1>9. ASSUME NEW w \in Workers, DropResult(w) PROVE Places'
  BY <1>9 DEF DropResult, TypeOK, Holding
<1>10. CASE Receive
  BY <1>10 DEF Receive, TypeOK, Holding
<1>11. CASE Return
  BY <1>11 DEF Return, TypeOK, Holding
<1> QED
  BY <1>1, <1>2, <1>3, <1>4, <1>5, <1>6, <1>7, <1>8, <1>9, <1>10, <1>11
     DEF Next, Dispatcher, Main, Worker

\* So a candidate is never in two places.
LEMMA PlacesInvariant == Spec => []Places
<1>1. TypeOK /\ TypeOK' /\ Places /\ [Next]_vars => Places'
  BY NextPlaces
<1> QED BY <1>1, InitPlaces, TypeCorrect, PTL DEF Spec

(***************************************************************************)
(* A worker never waits to report: with the candidates not yet reported    *)
(* distinct from those in results, the buffer of len(candidates) has room. *)
(***************************************************************************)
THEOREM SendsNeverBlock == Spec => []SendNeverBlocks
<1>1. TypeOK /\ Places => SendNeverBlocks
  <2> SUFFICES ASSUME TypeOK, Places, NEW w \in Workers, wpc[w] = "send"
               PROVE  CanSend
    BY DEF SendNeverBlocks
  <2> DEFINE L == Len(results)
             f == [i \in 1..(L + 1) |-> IF i <= L THEN results[i] ELSE job[w]]
  <2>1. L \in Nat /\ N \in Nat /\ w \in Holding
    BY PoolAssumption DEF TypeOK, Holding
  <2>2. f \in Injection(1..(L + 1), 1..N)
    <3>1. \A i \in 1..(L + 1) : i \in 1..L \/ i = L + 1
      BY <2>1
    <3>2. f \in [1..(L + 1) -> 1..N]
      BY <2>1, <3>1 DEF TypeOK, Candidates, Places
    <3>3. \A i, j \in 1..(L + 1) : f[i] = f[j] => i = j
      BY <2>1, <3>1 DEF Places
    <3> HIDE DEF f
    <3> QED BY <3>2, <3>3, Fun_IsInj
  <2>3. /\ IsFiniteSet(1..(L + 1)) /\ Cardinality(1..(L + 1)) = L + 1
        /\ IsFiniteSet(1..N) /\ Cardinality(1..N) = N
    <3> HIDE DEF L, f
    <3>1. 1 \in Int /\ L + 1 \in Int /\ N \in Int /\ ~(1 > L + 1)
      BY <2>1
    <3>2. /\ IsFiniteSet(1..(L + 1))
          /\ Cardinality(1..(L + 1)) = (L + 1) - 1 + 1
      BY <3>1, FS_Interval
    <3>3. /\ IsFiniteSet(1..N)
          /\ Cardinality(1..N) = IF 1 > N THEN 0 ELSE N - 1 + 1
      BY <3>1, FS_Interval
    <3> QED BY <2>1, <3>2, <3>3
  <2>4. L + 1 <= N
    BY <2>2, <2>3, FS_Injection
  <2>5. received \in Nat
    BY DEF TypeOK
  <2> QED BY <2>1, <2>4, <2>5 DEF CanSend, ResultsCap
<1> QED BY <1>1, TypeCorrect, PlacesInvariant, PTL

-----------------------------------------------------------------------------
(* What is known of a candidate from where it is *)

\* A worker moves the stage of its own candidate only, so what is known of
\* the others stays known.
LEMMA NextProgress ==
    TypeOK /\ TypeOK' /\ Places /\ Progress /\ [Next]_vars => Progress'
<1> SUFFICES ASSUME TypeOK, TypeOK', Places, Progress, [Next]_vars
             PROVE  Progress'
  OBVIOUS
<1> USE DEF Progress, Settled, workerVars, mainVars
<1>1. CASE UNCHANGED vars
  BY <1>1 DEF vars
<1>2. ASSUME NEW w \in Workers, Handoff(w) PROVE Progress'
  <2>1. /\ dispatched' = dispatched + 1 /\ UNCHANGED <<stage, results>>
        /\ dispatched \in Nat /\ dispatched + 1 \in Candidates
        /\ job'[w] = dispatched + 1 /\ wpc'[w] = "check"
        /\ \A v \in Workers : v # w => wpc'[v] = wpc[v] /\ job'[v] = job[v]
    BY <1>2 DEF Handoff, TypeOK, Candidates
  <2> QED BY <2>1 DEF Candidates
<1>3. CASE CloseJobs
  BY <1>3 DEF CloseJobs
<1>4. ASSUME NEW w \in Workers, NoMoreJobs(w) PROVE Progress'
  BY <1>4 DEF NoMoreJobs, TypeOK
\* A worker changes the stage of its own job only, and no other worker holds
\* that candidate, nor is it in results.
<1>5. ASSUME NEW w \in Workers, w \in Holding,
             NEW s \in Steps \cup {"ok", "failed"}, NEW pc,
             stage' = [stage EXCEPT ![job[w]] = s],
             wpc' = [wpc EXCEPT ![w] = pc],
             (pc = "test" /\ s \in Steps) \/ (pc = "send" /\ s \in {"ok", "failed"}),
             UNCHANGED <<job, results, dispatched>>
      PROVE  Progress'
  <2>1. /\ job[w] \in Candidates
        /\ stage'[job[w]] = s
        /\ \A c \in Candidates : c # job[w] => stage'[c] = stage[c]
    BY <1>5 DEF TypeOK, Candidates, Holding
  <2>2. \A i \in 1..Len(results) : results[i] # job[w] /\ results[i] \in Candidates
    BY <1>5, ResultsType DEF Places, Candidates
  <2>3. \A v \in Workers : v # w /\ wpc[v] \in {"check", "test", "send"} =>
                            job[v] # job[w] /\ job[v] \in Candidates
    BY <1>5 DEF Places, Holding, TypeOK, Candidates
  <2>4. wpc'[w] = pc /\ \A v \in Workers : v # w => wpc'[v] = wpc[v]
    BY <1>5 DEF TypeOK
  <2>5. \A i \in 1..Len(results') : Settled(results[i])'
    BY <1>5, <2>1, <2>2
  <2>6. \A v \in Workers : wpc'[v] = "send" => Settled(job[v])'
    BY <1>5, <2>1, <2>3, <2>4
  <2>7. \A v \in Workers : wpc'[v] = "test" => stage'[job'[v]] \in Steps
    BY <1>5, <2>1, <2>3, <2>4
  <2>8. \A v \in Workers : wpc'[v] = "check" => stage'[job'[v]] = "queued"
    BY <1>5, <2>1, <2>3, <2>4
  <2>9. \A c \in Candidates : c > dispatched' => stage'[c] = "queued"
    BY <1>5, <2>1 DEF Places, TypeOK, Candidates
  <2> QED BY <2>5, <2>6, <2>7, <2>8, <2>9
<1>6. ASSUME NEW w \in Workers, CheckContext(w) PROVE Progress'
  <2>1. CASE ctxDone
    BY <1>6, <2>1 DEF CheckContext, TypeOK
  <2>2. CASE ~ctxDone
    <3>1. /\ "client" \in Steps /\ w \in Holding
          /\ stage' = [stage EXCEPT ![job[w]] = "client"]
          /\ wpc' = [wpc EXCEPT ![w] = "test"]
          /\ UNCHANGED <<job, results, dispatched>>
      BY <1>6, <2>2 DEF CheckContext, Holding, Steps
    <3> HIDE DEF Progress, Settled
    <3> QED BY <1>5, <3>1
  <2> QED BY <2>1, <2>2
<1>7. ASSUME NEW w \in Workers, StepSucceeds(w) PROVE Progress'
  <2> DEFINE next == NextStage(stage[job[w]])
  <2>1. next \in Steps \cup {"ok"} /\ "ok" \notin Steps
    BY NextStageType DEF Steps
  <2> HIDE DEF next
  <2>2. /\ stage' = [stage EXCEPT ![job[w]] = next]
        /\ wpc' = [wpc EXCEPT ![w] = IF next = "ok" THEN "send" ELSE "test"]
        /\ w \in Holding /\ UNCHANGED <<job, results, dispatched>>
    BY <1>7 DEF StepSucceeds, Holding, next
  <2> HIDE DEF Progress, Settled
  <2>3. CASE next = "ok"
    BY <1>5, <2>1, <2>2, <2>3
  <2>4. CASE next \in Steps
    BY <1>5, <2>1, <2>2, <2>4
  <2> QED BY <2>1, <2>3, <2>4
<1>8. ASSUME NEW w \in Workers, StepFails(w) PROVE Progress'
  BY <1>5, <1>8 DEF StepFails, Holding
<1>9. ASSUME NEW w \in Workers, SendResult(w) PROVE Progress'
  <2>1. /\ \A i \in 1..Len(results') : i \in 1..Len(results) \/ i = Len(results) + 1
        /\ \A i \in 1..Len(results) : results'[i] = results[i]
        /\ results'[Len(results) + 1] = job[w]
    BY <1>9 DEF SendResult, TypeOK, Holding
  <2>2. /\ UNCHANGED <<stage, job, dispatched>>
        /\ \A v \in Workers : wpc'[v] = wpc[v] \/ wpc'[v] = "recv"
    BY <1>9 DEF SendResult, TypeOK
  <2>3. Settled(job[w])
    BY <1>9 DEF SendResult
  <2> QED BY <2>1, <2>2, <2>3
<1>10. ASSUME NEW w \in Workers, DropResult(w) PROVE Progress'
  BY <1>10 DEF DropResult, TypeOK
<1>11. CASE Receive
  BY <1>11 DEF Receive
<1>12. CASE Return
  BY <1>12 DEF Return
<1> QED
  BY <1>1, <1>2, <1>3, <1>4, <1>6, <1>7, <1>8, <1>9, <1>10, <1>11, <1>12
     DEF Next, Dispatcher, Main, Worker

-----------------------------------------------------------------------------
(* What the collector has seen *)

\* Only the collector changes the collector's variables, and nothing rewrites
\* the log or the stage of a candidate that is in it.
LEMMA LogStable ==
    ASSUME TypeOK, Places, [Next]_vars
    PROVE  /\ \A i \in 1..Len(results) :
                 /\ i \in 1..Len(results')
                 /\ results'[i] = results[i]
                 /\ stage'[results[i]] = stage[results[i]]
           /\ UNCHANGED mainVars \/ Receive \/ Return
<1> DEFINE Stable == \A i \in 1..Len(results) :
                       /\ i \in 1..Len(results')
                       /\ results'[i] = results[i]
                       /\ stage'[results[i]] = stage[results[i]]
<1>1. ASSUME NEW w \in Workers, w \in Holding, NEW s,
             stage' = [stage EXCEPT ![job[w]] = s], UNCHANGED results
      PROVE  Stable
  <2>1. \A i \in 1..Len(results) : results[i] # job[w] /\ results[i] \in Candidates
    BY <1>1, ResultsType DEF Places, Candidates
  <2> QED BY <1>1, <2>1 DEF TypeOK
<1>2. ASSUME UNCHANGED <<stage, results>> PROVE Stable
  BY <1>2
<1>3. ASSUME NEW w \in Workers, SendResult(w) PROVE Stable
  BY <1>3 DEF SendResult, TypeOK, Holding, workerVars
<1>4. ASSUME UNCHANGED vars PROVE Stable
  BY <1>2, <1>4 DEF vars, mainVars
<1>5. ASSUME Dispatcher PROVE Stable
  BY <1>2, <1>5 DEF Dispatcher, CloseJobs, Handoff, workerVars
<1>6. ASSUME Main PROVE Stable
  BY <1>2, <1>6 DEF Main, Receive, Return, workerVars
<1>7. ASSUME NEW w \in Workers, Worker(w) PROVE Stable
  <2>1. CASE NoMoreJobs(w) \/ DropResult(w)
    BY <1>2, <2>1 DEF NoMoreJobs, DropResult
  <2>2. CASE CheckContext(w)
    BY <1>1, <1>2, <2>2 DEF CheckContext, Holding
  <2>3. CASE StepSucceeds(w)
    BY <1>1, <2>3 DEF StepSucceeds, Holding
  <2>4. CASE StepFails(w)
    BY <1>1, <2>4 DEF StepFails, Holding
  <2> QED BY <1>3, <1>7, <2>1, <2>2, <2>3, <2>4 DEF Worker
<1>8. UNCHANGED mainVars \/ Receive \/ Return
  <2>1. Dispatcher => UNCHANGED mainVars
    BY DEF Dispatcher, CloseJobs, Handoff
  <2>2. ASSUME NEW w \in Workers, Worker(w) PROVE UNCHANGED mainVars
    BY <2>2 DEF Worker, NoMoreJobs, DropResult, CheckContext, StepSucceeds,
                StepFails, SendResult
  <2>3. UNCHANGED vars => UNCHANGED mainVars
    BY DEF vars, mainVars
  <2> QED BY <2>1, <2>2, <2>3 DEF Next, Main
<1> QED BY <1>4, <1>5, <1>6, <1>7, <1>8 DEF Next

\* What the collector has concluded from results stays true.
LEMMA NextCollected ==
    TypeOK /\ Places /\ Progress /\ Collected /\ [Next]_vars => Collected'
<1> SUFFICES ASSUME TypeOK, Places, Progress, Collected, [Next]_vars
             PROVE  Collected'
  OBVIOUS
<1>1. CASE UNCHANGED mainVars
  <2>1. \A i \in 1..received : i \in 1..Len(results)
    BY DEF TypeOK
  <2>2. received > 0 => received \in 1..received
    BY DEF TypeOK
  <2> QED BY <1>1, <2>1, <2>2, LogStable DEF Collected, mainVars
<1>2. CASE Receive
  <2> DEFINE c == results[received + 1]
  <2>1. /\ received \in Nat /\ received + 1 \in 1..Len(results)
        /\ c \in Candidates /\ stage[c] \in {"ok", "failed"}
    BY <1>2 DEF Receive, TypeOK, Progress, Settled
  <2>2. /\ mpc = "collect" /\ chosen = {} /\ received' = received + 1
        /\ UNCHANGED <<stage, results>>
        /\ chosen' = IF stage[c] = "ok" THEN {c} ELSE {}
        /\ mpc' = IF stage[c] = "ok" \/ received + 1 = N THEN "wait" ELSE "collect"
    BY <1>2 DEF Receive, Collected, workerVars
  <2> HIDE DEF c
  <2>3. \A i \in 1..received : stage[results[i]] = "failed"
    BY <2>1, <2>2 DEF Collected
  <2>4. \A i \in 1..received' : i \in 1..received \/ i = received + 1
    BY <2>1, <2>2
  <2>5. results'[received + 1] = c
    BY <2>2 DEF c
  <2> QED BY <2>1, <2>2, <2>3, <2>4, <2>5 DEF Collected
<1>3. CASE Return
  BY <1>3 DEF Return, Collected, TypeOK, workerVars
<1> QED BY <1>1, <1>2, <1>3, LogStable

\* The inductive invariant holds throughout.
LEMMA Invariance == Spec => []IInv
<1>1. Init => Progress /\ Collected
  BY DEF Init, Progress, Collected, Candidates
<1>2. TypeOK /\ TypeOK' /\ Places /\ Progress /\ [Next]_vars => Progress'
  BY NextProgress
<1>3. TypeOK /\ Places /\ Progress /\ Collected /\ [Next]_vars => Collected'
  BY NextCollected
<1>4. TypeOK /\ Places /\ Progress /\ Collected => IInv
  BY DEF IInv
<1> QED BY <1>1, <1>2, <1>3, <1>4, TypeCorrect, PlacesInvariant, PTL DEF Spec

-----------------------------------------------------------------------------
(* Who answers for a candidate that was handed out *)

\* The program counters of a worker that still answers for its job: it holds
\* it, or it dropped it because the context was done.
Custodian == {"check", "test", "send"} \cup (IF ctxDone THEN {"exit"} ELSE {})

\* No candidate that was handed out is lost: it is reported or some worker
\* answers for it.
Custody ==
    /\ mpc = "collect" => ~ctxDone
    /\ \A d \in 1..dispatched :
          \/ d \in Reported
          \/ \E v \in Workers : job[v] = d /\ wpc[v] \in Custodian

\* The earlier candidates that the i-th report overtook.
Overtaken(i) == {d \in 1..(results[i] - 1) : \A j \in 1..(i - 1) : results[j] # d}

\* A report overtakes fewer candidates than there are workers.
Overtaking == \A i \in 1..Len(results) : Cardinality(Overtaken(i)) < Parallelism

\* A candidate stays reported or in custody: a worker that takes a new job
\* answers for none, and a job is dropped only on a done context.
LEMMA NextCustody == TypeOK /\ TypeOK' /\ Custody /\ [Next]_vars => Custody'
<1> SUFFICES ASSUME TypeOK, TypeOK', Custody, [Next]_vars PROVE Custody'
  OBVIOUS
<1> USE DEF workerVars, mainVars
<1> DEFINE Kept(d) == \/ d \in Reported
                      \/ \E v \in Workers : job[v] = d /\ wpc[v] \in Custodian
\* A step that leaves the collector, the job and the log alone, and moves one
\* worker on among those that answer for a job.
<1>1. ASSUME NEW w \in Workers, NEW pc, wpc' = [wpc EXCEPT ![w] = pc],
             wpc[w] \in Custodian => pc \in Custodian,
             UNCHANGED <<job, results, dispatched, ctxDone, mpc>>
      PROVE  Custody'
  <2>1. UNCHANGED <<Custodian, Reported>>
    BY <1>1 DEF Custodian, Reported
  <2>2. \A v \in Workers : wpc[v] \in Custodian => wpc'[v] \in Custodian
    BY <1>1 DEF TypeOK
  <2> QED BY <1>1, <2>1, <2>2 DEF Custody
<1>2. ASSUME UNCHANGED <<wpc, job, results, dispatched, ctxDone>>,
             mpc' = "collect" => mpc = "collect"
      PROVE  Custody'
  BY <1>2 DEF Custody, Custodian, Reported
<1>3. CASE UNCHANGED vars
  BY <1>2, <1>3 DEF vars
<1>4. CASE CloseJobs
  BY <1>2, <1>4 DEF CloseJobs
<1>5. ASSUME NEW w \in Workers, Handoff(w) PROVE Custody'
  <2>1. /\ dispatched' = dispatched + 1 /\ dispatched \in Nat
        /\ job'[w] = dispatched + 1 /\ wpc'[w] = "check"
        /\ \A v \in Workers : v # w => job'[v] = job[v] /\ wpc'[v] = wpc[v]
        /\ UNCHANGED <<results, ctxDone, mpc>>
    BY <1>5 DEF Handoff, TypeOK
  <2>2. UNCHANGED <<Custodian, Reported>>
    BY <2>1 DEF Custodian, Reported
  <2>3. wpc[w] \notin Custodian /\ "check" \in Custodian
    BY <1>5 DEF Handoff, Custodian
  <2>4. \A d \in 1..dispatched' : d \in 1..dispatched \/ d = dispatched + 1
    BY <2>1
  <2> QED BY <2>1, <2>2, <2>3, <2>4 DEF Custody
<1>6. ASSUME NEW w \in Workers, NoMoreJobs(w) PROVE Custody'
  <2>1. wpc[w] \notin Custodian
    BY <1>6 DEF NoMoreJobs, Custodian
  <2> QED BY <1>1, <1>6, <2>1 DEF NoMoreJobs
<1>7. ASSUME NEW w \in Workers, CheckContext(w) PROVE Custody'
  <2>1. CASE ctxDone
    BY <1>1, <1>7, <2>1 DEF CheckContext, Custodian
  <2>2. CASE ~ctxDone
    BY <1>1, <1>7, <2>2 DEF CheckContext, Custodian
  <2> QED BY <2>1, <2>2
<1>8. ASSUME NEW w \in Workers, StepSucceeds(w) PROVE Custody'
  <2>1. "send" \in Custodian /\ "test" \in Custodian
    BY DEF Custodian
  <2> QED BY <1>1, <1>8, <2>1 DEF StepSucceeds
<1>9. ASSUME NEW w \in Workers, StepFails(w) PROVE Custody'
  BY <1>1, <1>9 DEF StepFails, Custodian
<1>10. ASSUME NEW w \in Workers, DropResult(w) PROVE Custody'
  BY <1>1, <1>10 DEF DropResult, Custodian
<1>11. ASSUME NEW w \in Workers, SendResult(w) PROVE Custody'
  <2>1. /\ Len(results) \in Nat
        /\ Len(results') = Len(results) + 1
        /\ \A i \in 1..Len(results) : results'[i] = results[i]
        /\ results'[Len(results) + 1] = job[w]
        /\ DOMAIN results = 1..Len(results) /\ DOMAIN results' = 1..Len(results')
    BY <1>11 DEF SendResult, TypeOK, Holding
  <2>2. Reported \subseteq Reported' /\ job[w] \in Reported'
    BY <2>1 DEF Reported
  <2>3. /\ \A v \in Workers : v # w => wpc'[v] = wpc[v]
        /\ UNCHANGED <<job, dispatched, ctxDone, mpc>>
    BY <1>11 DEF SendResult, TypeOK
  <2>4. Custodian' = Custodian
    BY <2>3 DEF Custodian
  <2> QED BY <2>2, <2>3, <2>4 DEF Custody
<1>12. CASE Receive
  <2>1. ~ctxDone /\ (mpc' = "collect" => ~ctxDone')
        /\ UNCHANGED <<wpc, job, results, dispatched>>
    BY <1>12 DEF Receive, Custody
  <2>2. Custodian \subseteq Custodian' /\ Reported' = Reported
    BY <2>1 DEF Custodian, Reported
  <2> QED BY <2>1, <2>2 DEF Custody
<1>13. CASE Return
  BY <1>2, <1>13 DEF Return
<1> QED
  BY <1>3, <1>4, <1>5, <1>6, <1>7, <1>8, <1>9, <1>10, <1>11, <1>12, <1>13
     DEF Next, Dispatcher, Main, Worker

\* When worker w reports, the earlier candidates without a report are the jobs
\* of other workers, one each.
LEMMA NextOvertaking ==
    TypeOK /\ Places /\ Custody /\ Overtaking /\ [Next]_vars => Overtaking'
<1> SUFFICES ASSUME TypeOK, Places, Custody, Overtaking, [Next]_vars
             PROVE  Overtaking'
  OBVIOUS
<1>1. CASE UNCHANGED results
  BY <1>1 DEF Overtaking, Overtaken
<1>2. ASSUME NEW w \in Workers, SendResult(w) PROVE Overtaking'
  <2> DEFINE L == Len(results)
             S == {d \in 1..(job[w] - 1) : \A j \in 1..L : results[j] # d}
             Others == Workers \ {w}
             f == [d \in S |-> CHOOSE v \in Others : job[v] = d]
  <2>1. /\ L \in Nat /\ Len(results') = L + 1
        /\ \A j \in 1..L : results'[j] = results[j]
        /\ results'[L + 1] = job[w]
        /\ job[w] \in 1..dispatched /\ dispatched \in Nat
        /\ \A j \in 1..L : results[j] # job[w]
    BY <1>2 DEF SendResult, TypeOK, Holding, Places
  <2>2. \A d \in S : \E v \in Others : job[v] = d
    <3> SUFFICES ASSUME NEW d \in S PROVE \E v \in Others : job[v] = d
      OBVIOUS
    <3>1. d \in 1..dispatched /\ d # job[w]
      BY <2>1
    <3>2. d \notin Reported
      <4>1. DOMAIN results = 1..L
        BY DEF TypeOK
      <4>2. \A j \in 1..L : results[j] # d
        OBVIOUS
      <4> HIDE DEF L, S
      <4> QED BY <4>1, <4>2 DEF Reported
    <3> QED BY <3>1, <3>2 DEF Custody
  <2>3. f \in Injection(S, Others)
    <3>1. \A d \in S : f[d] \in Others /\ job[f[d]] = d
      BY <2>2
    <3>2. f \in [S -> Others]
      BY <3>1
    <3> HIDE DEF f
    <3> QED BY <3>1, <3>2, Fun_IsInj
  <2>4. IsFiniteSet(Others) /\ Cardinality(Others) = Parallelism - 1
    <3>1. Parallelism \in Nat /\ Parallelism >= 1
      BY ParallelismType, PoolAssumption
    <3>2. IsFiniteSet(Workers) /\ Cardinality(Workers) = Parallelism
      BY <3>1, FS_Interval DEF Workers
    <3> QED BY <3>2, FS_RemoveElement
  <2>5. Cardinality(S) < Parallelism
    <3>1. Cardinality(S) <= Cardinality(Others) /\ IsFiniteSet(S)
      BY <2>3, <2>4, FS_Injection
    <3>2. Cardinality(S) \in Nat /\ Parallelism \in Nat
      BY <3>1, FS_CardinalityType, ParallelismType, PoolAssumption
    <3> HIDE DEF S
    <3> QED BY <2>4, <3>1, <3>2
  <2>6. SUFFICES ASSUME NEW i \in 1..(L + 1)
                 PROVE  Cardinality(Overtaken(i)') < Parallelism
    BY <2>1 DEF Overtaking
  <2>7. CASE i = L + 1
    <3>1. Overtaken(i)' = S
      BY <2>1, <2>7 DEF Overtaken
    <3> QED BY <2>5, <3>1
  <2>8. CASE i \in 1..L
    <3>1. Overtaken(i)' = Overtaken(i)
      BY <2>1, <2>8 DEF Overtaken
    <3> QED BY <2>8, <3>1 DEF Overtaking
  <2> QED BY <2>1, <2>7, <2>8
<1>3. UNCHANGED results \/ \E w \in Workers : SendResult(w)
  BY DEF Next, vars, Dispatcher, Main, Worker, Handoff, CloseJobs, NoMoreJobs,
         CheckContext, StepSucceeds, StepFails, DropResult, Receive, Return
<1> QED BY <1>1, <1>2, <1>3

\* Both hold throughout.
LEMMA CustodyInvariant == Spec => [](Custody /\ Overtaking)
<1>1. Init => Custody /\ Overtaking
  BY DEF Init, Custody, Overtaking
<1>2. TypeOK /\ TypeOK' /\ Custody /\ [Next]_vars => Custody'
  BY NextCustody
<1>3. TypeOK /\ Places /\ Custody /\ Overtaking /\ [Next]_vars => Overtaking'
  BY NextOvertaking
<1> QED BY <1>1, <1>2, <1>3, TypeCorrect, PlacesInvariant, PTL DEF Spec

(***************************************************************************)
(* While the context is live no candidate is lost and none is reported     *)
(* twice, so the loop that counts len(candidates) receives cannot wait for *)
(* a result that never comes, nor stop before the last one.                *)
(***************************************************************************)
THEOREM NoCandidateLost == Spec => []EachCandidateOnce
<1>1. TypeOK /\ Places /\ Custody => EachCandidateOnce
  <2> SUFFICES ASSUME TypeOK, Places, Custody, ~ctxDone
               PROVE  /\ Cardinality(Reported) = Len(results)
                      /\ Cardinality(Holding) + Len(results) = dispatched
                      /\ Reported \cup {job[w] : w \in Holding} = 1..dispatched
    BY DEF EachCandidateOnce
  <2> DEFINE L == Len(results)
             Held == {job[w] : w \in Holding}
             r == [i \in 1..L |-> results[i]]
             h == [w \in Holding |-> job[w]]
  <2>1. L \in Nat /\ DOMAIN results = 1..L /\ dispatched \in Nat
    BY DEF TypeOK
  <2>2. Reported = {results[i] : i \in 1..L}
    BY <2>1 DEF Reported
  <2>3. IsFiniteSet(Reported) /\ Cardinality(Reported) = L
    <3>1. r \in Bijection(1..L, Reported)
      <4>1. r \in [1..L -> Reported] /\ \A c \in Reported : \E i \in 1..L : r[i] = c
        BY <2>2
      <4>2. \A i, j \in 1..L : r[i] = r[j] => i = j
        BY DEF Places
      <4> HIDE DEF r
      <4> QED BY <4>1, <4>2, Fun_IsBij
    <3> HIDE DEF r, L
    <3>2. IsFiniteSet(1..L) /\ Cardinality(1..L) = L
      BY <2>1, FS_Interval
    <3> QED BY <3>1, <3>2, FS_Bijection DEF ExistsBijection
  <2>4. IsFiniteSet(Held) /\ Cardinality(Held) = Cardinality(Holding)
    <3>1. h \in Bijection(Holding, Held)
      <4>1. h \in [Holding -> Held] /\ \A c \in Held : \E w \in Holding : h[w] = c
        OBVIOUS
      <4>2. \A v, w \in Holding : h[v] = h[w] => v = w
        BY DEF Places
      <4> HIDE DEF h, Held
      <4> QED BY <4>1, <4>2, Fun_IsBij
    <3>2. IsFiniteSet(Holding)
      <4>1. IsFiniteSet(Workers)
        BY ParallelismType, PoolAssumption, FS_Interval DEF Workers
      <4> QED BY <4>1, FS_Subset DEF Holding
    <3> HIDE DEF h, Held
    <3> QED BY <3>1, <3>2, FS_Bijection DEF ExistsBijection
  <2>5. Reported \cup Held = 1..dispatched
    <3>1. \A c \in Reported : c \in 1..dispatched
      BY <2>1, <2>2, ResultsType DEF Places
    <3>2. \A c \in Held : c \in 1..dispatched
      BY DEF Places
    <3>3. \A d \in 1..dispatched : d \in Reported \/ d \in Held
      BY DEF Custody, Custodian, Holding
    <3> HIDE DEF Held
    <3> QED BY <3>1, <3>2, <3>3
  <2>6. Reported \cap Held = {}
    BY <2>2 DEF Places
  <2>7. Cardinality(1..dispatched) = dispatched
    BY <2>1, FS_Interval
  <2>8. Cardinality(Holding) \in Nat
    BY <2>4, FS_CardinalityType
  <2> HIDE DEF L, Held
  <2>9. Cardinality(Reported \cup Held) = L + Cardinality(Holding)
    <3>1. Cardinality(Reported \cap Held) = 0
      BY <2>6, FS_EmptySet
    <3>2. Cardinality(Reported \cup Held) =
            Cardinality(Reported) + Cardinality(Held) - Cardinality(Reported \cap Held)
      BY <2>3, <2>4, FS_Union
    <3>3. Cardinality(Reported \cup Held) = L + Cardinality(Holding) - 0
      BY <2>3, <2>4, <3>1, <3>2
    <3> QED BY <2>1, <2>8, <3>3
  <2>10. Cardinality(Holding) + L = dispatched
    <3>1. dispatched = L + Cardinality(Holding)
      BY <2>5, <2>7, <2>9, Zenon
    <3> QED BY <2>1, <2>8, <3>1
  <2> QED BY <2>3, <2>5, <2>10 DEF L, Held
<1> QED BY <1>1, TypeCorrect, PlacesInvariant, CustodyInvariant, PTL

-----------------------------------------------------------------------------
(* The pool implements the race *)

\* The log is full of failures when the collector gives up, so by the
\* pigeonhole principle every candidate failed.
LEMMA GaveUpMeansAllFailed ==
    IInv /\ mpc # "collect" /\ chosen = {}
        => \A c \in Candidates : stage[c] = "failed"
<1> SUFFICES ASSUME IInv, mpc # "collect", chosen = {}
             PROVE  \A c \in Candidates : stage[c] = "failed"
  OBVIOUS
<1> USE DEF IInv
<1>1. received = N /\ N \in Nat
  BY PoolAssumption DEF Collected
<1> DEFINE f == [i \in 1..N |-> results[i]]
<1>2. Len(results) \in Nat /\ \A i \in 1..N : i \in 1..Len(results)
  BY <1>1 DEF TypeOK
<1>3. f \in [1..N -> 1..N]
  BY <1>2, ResultsType
<1>4. \A i, j \in 1..N : f[i] = f[j] => i = j
  BY <1>2 DEF Places
<1>5. \A i \in 1..N : stage[f[i]] = "failed"
  BY <1>1 DEF Collected
<1>6. f \in Surjection(1..N, 1..N)
  <2> HIDE DEF f
  <2>1. f \in Injection(1..N, 1..N)
    BY <1>3, <1>4, Fun_IsInj
  <2>2. IsFiniteSet(1..N) /\ Cardinality(1..N) = N
    BY <1>1, FS_Interval
  <2> QED BY <2>1, <2>2, FS_Injection
<1> HIDE DEF f
<1>7. \A c \in 1..N : \E i \in 1..N : f[i] = c
  BY <1>6, Fun_SurjectionProperties
<1> QED BY <1>5, <1>7 DEF Candidates

\* The abstract variables, as FS substitutes them.
absOutcome == [c \in Candidates |-> IF stage[c] \in {"ok", "failed"}
                                   THEN stage[c] ELSE "pending"]
absVerdict == IF mpc # "returned" THEN "none"
              ELSE IF chosen = {} THEN "failed" ELSE "winner"
absWinner == IF mpc = "returned" THEN chosen ELSE {}

\* The pool starts where the abstract race starts.
LEMMA InitRefines == Init => FS!Init
  BY DEF Init, FS!Init

\* A worker's step settles its candidate or leaves it pending.
LEMMA WorkerRefines ==
    ASSUME IInv, NEW w \in Workers, Worker(w)
    PROVE  FS!Next \/ UNCHANGED <<absOutcome, absVerdict, absWinner>>
<1> USE DEF IInv
<1>1. UNCHANGED <<absVerdict, absWinner>>
  BY DEF Worker, NoMoreJobs, DropResult, CheckContext, StepSucceeds, StepFails,
         SendResult, mainVars, absVerdict, absWinner
<1>2. CASE UNCHANGED stage
  BY <1>1, <1>2 DEF absOutcome
<1>3. ASSUME NEW c \in Candidates, NEW s \in Steps \cup {"ok", "failed"},
             stage[c] \notin {"ok", "failed"}, stage' = [stage EXCEPT ![c] = s]
      PROVE  FS!Next \/ UNCHANGED <<absOutcome, absVerdict, absWinner>>
  <2>1. /\ absOutcome[c] = "pending"
        /\ absOutcome' = [absOutcome EXCEPT ![c] =
                            IF s \in {"ok", "failed"} THEN s ELSE "pending"]
    BY <1>3 DEF absOutcome, TypeOK
  <2>2. CASE s \in {"ok", "failed"}
    <3>1. FS!Settle(c)
      BY <1>1, <2>1, <2>2 DEF FS!Settle, absOutcome, absVerdict, absWinner
    <3> QED BY <3>1 DEF FS!Next
  <2>3. CASE s \notin {"ok", "failed"}
    <3>1. absOutcome' = absOutcome
      BY <2>1, <2>3 DEF absOutcome
    <3> QED BY <1>1, <3>1
  <2> QED BY <2>2, <2>3
<1>4. wpc[w] \in {"check", "test"} => /\ job[w] \in Candidates
                                      /\ stage[job[w]] \notin {"ok", "failed"}
  BY DEF TypeOK, Holding, Candidates, Progress, Steps
<1>5. CASE CheckContext(w)
  BY <1>2, <1>3, <1>4, <1>5 DEF CheckContext, Steps
<1>6. CASE StepSucceeds(w)
  <2>1. NextStage(stage[job[w]]) \in Steps \cup {"ok", "failed"}
    BY NextStageType
  <2> QED BY <1>3, <1>4, <1>6, <2>1 DEF StepSucceeds
<1>7. CASE StepFails(w)
  BY <1>3, <1>4, <1>7 DEF StepFails
<1>8. CASE NoMoreJobs(w) \/ SendResult(w) \/ DropResult(w)
  BY <1>2, <1>8 DEF NoMoreJobs, SendResult, DropResult
<1> QED BY <1>5, <1>6, <1>7, <1>8 DEF Worker

\* Every step of the pool is a step of the abstract race or none.
LEMMA NextRefines ==
    IInv /\ [Next]_vars => FS!Next \/ UNCHANGED <<absOutcome, absVerdict, absWinner>>
<1> SUFFICES ASSUME IInv, [Next]_vars
             PROVE  FS!Next \/ UNCHANGED <<absOutcome, absVerdict, absWinner>>
  OBVIOUS
<1> USE DEF absOutcome, absVerdict, absWinner
<1>1. CASE UNCHANGED vars
  BY <1>1 DEF vars
<1>2. CASE Dispatcher
  BY <1>2 DEF Dispatcher, CloseJobs, Handoff, workerVars, mainVars
<1>3. CASE Receive
  <2>1. mpc = "collect" /\ mpc' \in {"wait", "collect"} /\ stage' = stage
    BY <1>3 DEF Receive, workerVars
  <2> QED BY <2>1
<1>4. CASE Return
  <2>1. /\ mpc = "wait" /\ mpc' = "returned"
        /\ UNCHANGED <<stage, chosen>>
    BY <1>4 DEF Return, workerVars
  <2>2. CASE chosen = {}
    <3>1. \A c \in Candidates : stage[c] = "failed"
      BY <2>1, <2>2, GaveUpMeansAllFailed
    <3>2. FS!GiveUp
      BY <2>1, <2>2, <3>1 DEF FS!GiveUp
    <3> QED BY <3>2 DEF FS!Next
  <2>3. CASE chosen # {}
    <3>1. PICK c \in Candidates : chosen = {c} /\ stage[c] = "ok"
      <4>1. received \in 1..Len(results) /\ results[received] \in Candidates
        BY <2>3 DEF IInv, Collected, TypeOK
      <4> QED BY <2>3, <4>1 DEF IInv, Collected
    <3>2. FS!Choose(c)
      BY <2>1, <3>1 DEF FS!Choose
    <3> QED BY <3>2 DEF FS!Next
  <2> QED BY <2>2, <2>3
<1>5. ASSUME NEW w \in Workers, Worker(w)
      PROVE  FS!Next \/ UNCHANGED <<absOutcome, absVerdict, absWinner>>
  BY <1>5, WorkerRefines
<1> QED BY <1>1, <1>2, <1>3, <1>4, <1>5 DEF Next, Main

(***************************************************************************)
(* The pool implements the safety of FirstSuccess: initial states map to   *)
(* initial states and each step to a step or a stutter, so the candidate   *)
(* returned passed its whole test, and an error is returned only when      *)
(* every candidate failed.                                                 *)
(***************************************************************************)
THEOREM PoolRefinesFirstSuccess == Spec => FS!Init /\ [][FS!Next]_FS!vars
<1>1. IInv /\ [Next]_vars => [FS!Next]_FS!vars
  BY NextRefines DEF FS!vars, absOutcome, absVerdict, absWinner
<1> QED BY <1>1, InitRefines, Invariance, PTL DEF Spec

\* The promise of FirstSuccess is kept by every step of the abstract race.
LEMMA RaceStaysHonest ==
    FS!TypeOK /\ FS!HonestAnswer /\ [FS!Next]_FS!vars => FS!TypeOK' /\ FS!HonestAnswer'
<1> SUFFICES ASSUME FS!TypeOK, FS!HonestAnswer, [FS!Next]_FS!vars
             PROVE  FS!TypeOK' /\ FS!HonestAnswer'
  OBVIOUS
<1> HIDE DEF absOutcome, absVerdict, absWinner
<1> USE DEF FS!TypeOK, FS!HonestAnswer, FS!Outcomes, FS!Verdicts
<1>1. CASE UNCHANGED FS!vars
  BY <1>1 DEF FS!vars
<1>2. ASSUME NEW a \in Candidates, FS!Settle(a) PROVE FS!TypeOK' /\ FS!HonestAnswer'
  BY <1>2 DEF FS!Settle
<1>3. ASSUME NEW a \in Candidates, FS!Choose(a) PROVE FS!TypeOK' /\ FS!HonestAnswer'
  BY <1>3 DEF FS!Choose
<1>4. CASE FS!GiveUp
  BY <1>4 DEF FS!GiveUp
<1>5. CASE FS!Cancel
  BY <1>5 DEF FS!Cancel
<1> QED BY <1>1, <1>2, <1>3, <1>4, <1>5 DEF FS!Next

(***************************************************************************)
(* What selectAPIProxyCandidate tells run() is true: the candidate it      *)
(* returned passed its whole test, and "all candidates failed" means that  *)
(* every one of them was tested and failed.                                *)
(***************************************************************************)
THEOREM PoolHonest == Spec => []FS!HonestAnswer
<1>1. FS!Init => FS!TypeOK /\ FS!HonestAnswer
  BY DEF FS!Init, FS!TypeOK, FS!HonestAnswer, FS!Outcomes, FS!Verdicts
<1> QED BY <1>1, RaceStaysHonest, PoolRefinesFirstSuccess, PTL

(***************************************************************************)
(* The candidate returned passes over fewer earlier candidates than there  *)
(* are workers, however the tests interleave: every report before its own  *)
(* was a failure, and its own overtook fewer than Parallelism candidates.  *)
(***************************************************************************)
THEOREM PreferenceKept == Spec => []PreferenceBound
<1>1. IInv /\ Overtaking => PreferenceBound
  <2> SUFFICES ASSUME IInv, Overtaking, NEW c \in chosen
               PROVE  Cardinality({d \in 1..(c - 1) : stage[d] # "failed"})
                        < Parallelism
    BY DEF PreferenceBound
  <2> DEFINE Passed == {d \in 1..(c - 1) : stage[d] # "failed"}
  <2>1. received \in 1..Len(results) /\ c = results[received] /\ c \in 1..N
    BY ResultsType DEF IInv, Collected, TypeOK
  <2>2. received \in Nat /\ \A j \in 1..(received - 1) : stage[results[j]] = "failed"
    BY <2>1 DEF IInv, Collected, TypeOK
  <2>3. Passed \subseteq Overtaken(received)
    BY <2>1, <2>2 DEF Overtaken
  <2>4. IsFiniteSet(Overtaken(received)) /\ Overtaken(received) \subseteq 1..(c - 1)
    <3>1. c - 1 \in Int /\ Overtaken(received) \subseteq 1..(c - 1)
      BY <2>1 DEF Overtaken
    <3>2. IsFiniteSet(1..(c - 1))
      BY <3>1, FS_Interval
    <3> QED BY <3>1, <3>2, FS_Subset
  <2>5. Cardinality(Passed) <= Cardinality(Overtaken(received)) /\ IsFiniteSet(Passed)
    BY <2>3, <2>4, FS_Subset
  <2>6. Cardinality(Overtaken(received)) < Parallelism
    BY <2>1 DEF Overtaking
  <2>7. /\ Cardinality(Passed) \in Nat /\ Cardinality(Overtaken(received)) \in Nat
        /\ Parallelism \in Nat
    BY <2>4, <2>5, FS_CardinalityType, ParallelismType, PoolAssumption
  <2> HIDE DEF Passed
  <2>8. Cardinality(Passed) < Parallelism
    BY <2>5, <2>6, <2>7
  <2> QED BY <2>8 DEF Passed
<1> QED BY <1>1, Invariance, CustodyInvariant, PTL

-----------------------------------------------------------------------------
(* FanOut *)

-----------------------------------------------------------------------------
(* The inductive invariant *)

\* What the caller has counted: each turn of its loop that did not return took
\* the error of another goroutine, which ended with that.
Counted ==
    /\ verdict # "winner" => taken = Cardinality(errs)
    /\ \A a \in errs : gpc[a] = "end"

\* Where a goroutine is says whether its call has returned.
Returned == \A a \in Attempts : gpc[a] = "run" <=> outcome[a] = "pending"

RaceIInv == RaceTypeOK /\ Counted /\ Returned /\ ErrorAccountsForAll

-----------------------------------------------------------------------------

\* The errors of all attempts are the errors of each.
LEMMA FullCount ==
    ASSUME NEW S \in SUBSET Attempts, Cardinality(S) = Cardinality(Attempts)
    PROVE  S = Attempts
  BY FanOutAssumption, FS_Subset

\* A further error is counted once.
LEMMA OneMore ==
    ASSUME NEW S \in SUBSET Attempts, NEW a \in Attempts, a \notin S
    PROVE  Cardinality(S \cup {a}) = Cardinality(S) + 1
<1>1. IsFiniteSet(S)
  BY FanOutAssumption, FS_Subset
<1> QED BY <1>1, FS_AddElement

\* The number of attempts is a number.
LEMMA AttemptsCount == Cardinality(Attempts) \in Nat
  BY FanOutAssumption, FS_CardinalityType

\* A race starts with nothing returned, counted or told.
LEMMA InitInv == RaceInit => RaceIInv
<1> SUFFICES ASSUME RaceInit PROVE RaceIInv
  OBVIOUS
<1>1. RaceTypeOK
  <2>1. taken \in 0..Cardinality(Attempts) /\ errs \in SUBSET {a \in Attempts : outcome[a] = "failed"}
    BY AttemptsCount DEF RaceInit
  <2>2. /\ gpc \in [Attempts -> {"run", "send", "end"}]
        /\ outcome \in [Attempts -> {"pending", "ok", "failed"}]
    BY DEF RaceInit
  <2>3. /\ parentDone \in BOOLEAN /\ winner \in SUBSET Attempts
        /\ verdict \in {"none", "winner", "failed", "cancelled"}
    BY DEF RaceInit
  <2> QED BY <2>1, <2>2, <2>3 DEF RaceTypeOK
<1>2. Counted
  <2>1. Cardinality({}) = 0
    BY FS_EmptySet
  <2> QED BY <2>1 DEF RaceInit, Counted
<1>3. Returned /\ ErrorAccountsForAll
  BY DEF RaceInit, Returned, ErrorAccountsForAll
<1> QED BY <1>1, <1>2, <1>3 DEF RaceIInv

\* Every step of a goroutine, the caller or its context keeps the invariant.
LEMMA NextInv == RaceIInv /\ [RaceNext]_raceVars => RaceIInv'
<1> SUFFICES ASSUME RaceIInv, [RaceNext]_raceVars PROVE RaceIInv'
  OBVIOUS
<1> USE AttemptsCount DEF RaceIInv, RaceTypeOK, Counted, Returned, ErrorAccountsForAll, callerVars
<1>1. CASE UNCHANGED raceVars
  BY <1>1 DEF raceVars
<1>2. CASE ParentEnds
  BY <1>2 DEF ParentEnds
<1>3. ASSUME NEW a \in Attempts, Finish(a) PROVE RaceIInv'
  <2>1. PICK o \in {"ok", "failed"} : outcome' = [outcome EXCEPT ![a] = o]
    BY <1>3 DEF Finish
  <2>2. outcome[a] = "pending" /\ a \notin errs
    BY <1>3 DEF Finish
  <2>3. RaceTypeOK'
    BY <1>3, <2>1, <2>2 DEF Finish
  <2>4. Counted' /\ Returned' /\ ErrorAccountsForAll'
    BY <1>3, <2>1, <2>2 DEF Finish
  <2> QED BY <2>3, <2>4
<1>4. ASSUME NEW a \in Attempts, Leave(a) PROVE RaceIInv'
  BY <1>4 DEF Leave
<1>5. ASSUME NEW a \in Attempts, TakeSuccess(a) PROVE RaceIInv'
  BY <1>5 DEF TakeSuccess
<1>6. ASSUME NEW a \in Attempts, TakeError(a) PROVE RaceIInv'
  <2>1. /\ a \notin errs /\ errs \in SUBSET Attempts
        /\ errs' = errs \cup {a} /\ taken' = taken + 1
        /\ verdict = "none" /\ outcome[a] = "failed"
        /\ UNCHANGED <<outcome, parentDone, verdict, winner>>
    BY <1>6 DEF TakeError
  <2>2. Cardinality(errs') = Cardinality(errs) + 1
    BY <2>1, OneMore
  <2>3. RaceTypeOK'
    BY <1>6, <2>1 DEF TakeError
  <2>4. Counted' /\ Returned' /\ ErrorAccountsForAll'
    BY <1>6, <2>1, <2>2 DEF TakeError
  <2> QED BY <2>3, <2>4
<1>7. CASE CallerCancelled
  BY <1>7 DEF CallerCancelled
<1>8. CASE Exhausted
  <2>1. errs = Attempts
    BY <1>8, FullCount DEF Exhausted
  <2> QED BY <1>8, <2>1 DEF Exhausted
<1> QED BY <1>1, <1>2, <1>3, <1>4, <1>5, <1>6, <1>7, <1>8 DEF RaceNext, Caller

\* The inductive invariant holds throughout.
LEMMA RaceInvariance == RaceSpec => []RaceIInv
  BY InitInv, NextInv, PTL DEF RaceSpec

(***************************************************************************)
(* A lookup or a selection that reports failure carries the error of every *)
(* upstream, and one that reports a cancellation was cancelled by its      *)
(* caller, whatever the number of upstreams (fast.go:64-75,                *)
(* selection.go:121-133).                                                  *)
(***************************************************************************)
THEOREM ErrorsComplete == RaceSpec => []ErrorAccountsForAll
<1>1. RaceIInv => ErrorAccountsForAll
  BY DEF RaceIInv
<1> QED BY <1>1, RaceInvariance, PTL

-----------------------------------------------------------------------------
(* The race of goroutines implements FirstSuccess *)

\* Every step of the goroutines and the caller is a step of the abstract race
\* or none.
LEMMA RaceNextRefines == RaceIInv /\ [RaceNext]_raceVars => [Race!Next]_Race!vars
<1> SUFFICES ASSUME RaceIInv, [RaceNext]_raceVars PROVE [Race!Next]_Race!vars
  OBVIOUS
<1> USE DEF callerVars, Race!vars
<1>1. CASE UNCHANGED raceVars
  BY <1>1 DEF raceVars
<1>2. CASE ParentEnds
  BY <1>2 DEF ParentEnds
<1>3. ASSUME NEW a \in Attempts, Finish(a) PROVE Race!Settle(a)
  BY <1>3 DEF Finish, Race!Settle, RaceIInv, Returned
<1>4. ASSUME NEW a \in Attempts, Leave(a) PROVE UNCHANGED Race!vars
  BY <1>4 DEF Leave
<1>5. ASSUME NEW a \in Attempts, TakeSuccess(a) PROVE Race!Choose(a)
  BY <1>5 DEF TakeSuccess, Race!Choose
<1>6. ASSUME NEW a \in Attempts, TakeError(a) PROVE UNCHANGED Race!vars
  BY <1>6 DEF TakeError
<1>7. CASE CallerCancelled
  <2>1. Race!Cancel
    BY <1>7 DEF CallerCancelled, Race!Cancel
  <2> QED BY <2>1 DEF Race!Next
<1>8. CASE Exhausted
  <2>1. errs = Attempts
    BY <1>8, FullCount DEF Exhausted, RaceIInv, RaceTypeOK, Counted
  <2>2. \A a \in Attempts : outcome[a] = "failed"
    BY <2>1 DEF RaceIInv, RaceTypeOK
  <2>3. Race!GiveUp
    BY <1>8, <2>2 DEF Exhausted, Race!GiveUp
  <2> QED BY <2>3 DEF Race!Next
<1> QED
  BY <1>1, <1>2, <1>3, <1>4, <1>5, <1>6, <1>7, <1>8 DEF RaceNext, Caller, Race!Next

(***************************************************************************)
(* Both races implement the safety of FirstSuccess: the value a caller     *)
(* gets is that of an attempt that succeeded, failure is reported only     *)
(* when every attempt has failed, and an answer is given once.             *)
(***************************************************************************)
THEOREM RaceRefinesFirstSuccess == RaceSpec => Race!Init /\ [][Race!Next]_Race!vars
<1>1. RaceInit => Race!Init
  BY DEF RaceInit, Race!Init
<1> QED BY <1>1, RaceNextRefines, RaceInvariance, PTL DEF RaceSpec
=============================================================================
