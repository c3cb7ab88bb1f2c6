------------------------------ MODULE LogQueue ------------------------------
(***************************************************************************)
(* LogWriter (log/logwriter.go): the loggers of run() write lines to a     *)
(* bounded channel without ever waiting, one goroutine copies them to      *)
(* stderr, and Close, deferred by run(), sends a nil, waits for the        *)
(* goroutine for at most QUEUE_SHUTDOWN_TIMEOUT, and the process exits.    *)
(*                                                                         *)
(* stderr may stop taking data for a while or for good.  A line is the     *)
(* pair of its logger and a number; wording and levels are left out.       *)
(***************************************************************************)
EXTENDS Integers, Sequences, SequencesExt

CONSTANTS Loggers,      \* the goroutines' loggers
          MAX_LOG_QLEN, \* capacity of the channel
          MaxLines      \* bound on the lines a logger writes

ASSUME LogQueueAssumption == MAX_LOG_QLEN \in Nat \ {0} /\ MaxLines \in Nat

VARIABLES
    lines,    \* lines[l]: lines logger l has tried to write
    accepted, \* everything sent on ch, oldest first: lines, then a shutdown nil
    taken,    \* how many of those the goroutine has received
    written,  \* what stderr has got
    stuck,    \* stderr takes no data at the moment
    lpc,      \* the goroutine: "recv", "write", "signal" or "end"
    cpc       \* run(): "open", "closing", "waiting", "flushed" or "timedOut"

vars == <<lines, accepted, taken, written, stuck, lpc, cpc>>

Shutdown == <<"nil", 0>>
Lines == Loggers \X (1..MaxLines)
Running == cpc \notin {"flushed", "timedOut"}
Queued == Len(accepted) - taken
Latest == accepted[taken]

Init ==
    /\ lines = [l \in Loggers |-> 0]
    /\ accepted = <<>> /\ taken = 0 /\ written = <<>>
    /\ stuck = FALSE /\ lpc = "recv" /\ cpc = "open"

-----------------------------------------------------------------------------

\* Write: the line is queued, or refused when the queue is full.  The caller
\* ignores the error.
Write(l) ==
    /\ Running /\ lines[l] < MaxLines
    /\ lines' = [lines EXCEPT ![l] = @ + 1]
    /\ accepted' = IF Queued < MAX_LOG_QLEN
                   THEN Append(accepted, <<l, lines[l] + 1>>)
                   ELSE accepted
    /\ UNCHANGED <<taken, written, stuck, lpc, cpc>>

\* loop: a nil ends it, a line goes on to the writer.
LoopReceives ==
    /\ Running /\ lpc = "recv" /\ Queued > 0
    /\ taken' = taken + 1
    /\ lpc' = IF accepted[taken + 1] = Shutdown THEN "signal" ELSE "write"
    /\ UNCHANGED <<lines, accepted, written, stuck, cpc>>

\* Mutant: Write queues its argument, which the logger reuses for the next line.
PayloadShared == <<Latest[1], lines[Latest[1]]>>

\* buf is a copy made by Write: what was queued is what is written.
Payload == Latest

LoopWrites ==
    /\ Running /\ lpc = "write" /\ ~stuck
    /\ written' = Append(written, Payload)
    /\ lpc' = "recv"
    /\ UNCHANGED <<lines, accepted, taken, stuck, cpc>>

\* lw.done is unbuffered: the goroutine signals when Close listens.
LoopSignals ==
    /\ lpc = "signal" /\ cpc = "waiting"
    /\ lpc' = "end" /\ cpc' = "flushed"
    /\ UNCHANGED <<lines, accepted, taken, written, stuck>>

StderrChanges ==
    /\ Running
    /\ stuck' = ~stuck
    /\ UNCHANGED <<lines, accepted, taken, written, lpc, cpc>>

RunReturns ==
    /\ cpc = "open"
    /\ cpc' = "closing"
    /\ UNCHANGED <<lines, accepted, taken, written, stuck, lpc>>

\* lw.ch <- nil: this send does wait for room.
CloseSends ==
    /\ cpc = "closing" /\ Queued < MAX_LOG_QLEN
    /\ accepted' = Append(accepted, Shutdown)
    /\ cpc' = "waiting"
    /\ UNCHANGED <<lines, taken, written, stuck, lpc>>

\* Mutant: Close waits without the timer.
NeverTimesOut == FALSE /\ UNCHANGED vars

CloseTimesOut ==
    /\ cpc = "waiting"
    /\ cpc' = "timedOut"
    /\ UNCHANGED <<lines, accepted, taken, written, stuck, lpc>>

Loop == LoopReceives \/ LoopWrites \/ LoopSignals

Next ==
    \/ \E l \in Loggers : Write(l)
    \/ Loop \/ StderrChanges
    \/ RunReturns \/ CloseSends \/ CloseTimesOut

\* The goroutine runs when stderr lets it; the timer fires.
Fairness == WF_vars(Loop) /\ WF_vars(CloseSends) /\ WF_vars(CloseTimesOut)

Spec == Init /\ [][Next]_vars /\ Fairness

-----------------------------------------------------------------------------

TypeOK ==
    /\ lines \in [Loggers -> 0..MaxLines]
    /\ accepted \in Seq(Lines \cup {Shutdown})
    /\ taken \in 0..Len(accepted) /\ Queued <= MAX_LOG_QLEN
    /\ written \in Seq(Lines)
    /\ stuck \in BOOLEAN
    /\ lpc \in {"recv", "write", "signal", "end"}
    /\ cpc \in {"open", "closing", "waiting", "flushed", "timedOut"}

(***************************************************************************)
(* stderr gets exactly the lines Write accepted, each as its logger gave   *)
(* it although loggers reuse their buffers, in the order of acceptance;    *)
(* and when Close returns because the goroutine is done, none of those     *)
(* accepted before Close is missing (logwriter.go:22-27, 40-57).           *)
(***************************************************************************)
NothingGarbledOrDropped ==
    /\ IsPrefix(written, accepted)
    /\ \A i \in DOMAIN written : written[i] # Shutdown
    /\ cpc = "flushed" =>
         Append(written, Shutdown) = SubSeq(accepted, 1, Len(written) + 1)

(***************************************************************************)
(* The process is not kept from exiting by its log: once the shutdown nil  *)
(* is queued Close returns whatever stderr does, because of the timer; and *)
(* it returns in any case when stderr takes data again.  (With stderr      *)
(* stuck for good and the queue full "lw.ch <- nil" waits for ever, before *)
(* the timer has started.)                                                 *)
(***************************************************************************)
CloseReturns ==
    /\ (cpc = "waiting") ~> ~Running
    /\ <>[]~stuck => ((cpc # "open") ~> ~Running)
=============================================================================
