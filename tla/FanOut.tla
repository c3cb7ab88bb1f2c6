------------------------------- MODULE FanOut -------------------------------
(***************************************************************************)
(* The race that FastResolver.LookupNetIP (resolver/fast.go) and the       *)
(* function made by NewFastestServerSelectionFunc (dialer/selection.go)    *)
(* both run, line for line: one goroutine per upstream, two unbuffered     *)
(* channels, and a caller that takes the first success, collects errors,   *)
(* or leaves when its context ends.  An attempt is a DNS lookup in the one *)
(* and a probe download in the other.                                      *)
(*                                                                         *)
(* The caller's context may end by itself (the server selection timeout,   *)
(* the client of a lookup going away).  An attempt may outlive everything  *)
(* but a done context: both libraries give up on one.                      *)
(***************************************************************************)
EXTENDS FiniteSets, Integers

CONSTANT Attempts  \* r.upstreams, or the dialers to choose from

ASSUME FanOutAssumption == IsFiniteSet(Attempts) /\ Attempts # {}

VARIABLES gpc,        \* gpc[a]: attempt a's goroutine: "run", "send" or "end"
          outcome,    \* outcome[a]: what its call returned
          parentDone, \* the caller's own context is done
          taken,      \* turns of the receive loop so far
          errs,       \* attempts whose error resErr carries
          verdict,    \* what the caller got: "none" while it still waits
          winner      \* the attempt whose value it got

raceVars == <<gpc, outcome, parentDone, taken, errs, verdict, winner>>
callerVars == <<taken, errs, verdict, winner>>

RaceInit ==
    /\ gpc = [a \in Attempts |-> "run"]
    /\ outcome = [a \in Attempts |-> "pending"]
    /\ parentDone = FALSE
    /\ taken = 0
    /\ errs = {}
    /\ verdict = "none"
    /\ winner = {}

\* The derived context is done with its parent, or by "defer cl()" on return.
CtxDone == parentDone \/ verdict # "none"

ParentEnds ==
    /\ ~parentDone
    /\ parentDone' = TRUE
    /\ UNCHANGED <<gpc, outcome, callerVars>>

\* The lookup or probe of attempt a returns.
Finish(a) ==
    /\ gpc[a] = "run"
    /\ \E o \in {"ok", "failed"} : outcome' = [outcome EXCEPT ![a] = o]
    /\ gpc' = [gpc EXCEPT ![a] = "send"]
    /\ UNCHANGED <<parentDone, callerVars>>

\* Mutant: the goroutine's select has no ctx.Done branch.
LeaveNever(a) == gpc[a] = "send" /\ FALSE /\ UNCHANGED raceVars

\* case <-ctx.Done() in the goroutine: nobody receives its result.
Leave(a) ==
    /\ gpc[a] = "send" /\ CtxDone
    /\ gpc' = [gpc EXCEPT ![a] = "end"]
    /\ UNCHANGED <<outcome, parentDone, callerVars>>

\* success <- v meets the caller's receive.
TakeSuccess(a) ==
    /\ verdict = "none" /\ taken < Cardinality(Attempts)
    /\ gpc[a] = "send" /\ outcome[a] = "ok"
    /\ gpc' = [gpc EXCEPT ![a] = "end"]
    /\ taken' = taken + 1
    /\ verdict' = "winner"
    /\ winner' = {a}
    /\ UNCHANGED <<outcome, parentDone, errs>>

TakeErrorOverwriting(a) ==
    /\ verdict = "none" /\ taken < Cardinality(Attempts)
    /\ gpc[a] = "send" /\ outcome[a] = "failed"
    /\ gpc' = [gpc EXCEPT ![a] = "end"]
    /\ taken' = taken + 1
    /\ errs' = {a}
    /\ UNCHANGED <<outcome, parentDone, verdict, winner>>

\* errors <- err meets the caller's receive: multierror.Append.
TakeError(a) ==
    /\ verdict = "none" /\ taken < Cardinality(Attempts)
    /\ gpc[a] = "send" /\ outcome[a] = "failed"
    /\ gpc' = [gpc EXCEPT ![a] = "end"]
    /\ taken' = taken + 1
    /\ errs' = errs \cup {a}
    /\ UNCHANGED <<outcome, parentDone, verdict, winner>>

\* case <-ctx.Done() in the caller's loop.
CallerCancelled ==
    /\ verdict = "none" /\ taken < Cardinality(Attempts)
    /\ parentDone
    /\ verdict' = "cancelled"
    /\ UNCHANGED <<gpc, outcome, parentDone, taken, errs, winner>>

\* Mutant: the receive loop is one turn short.
ExhaustedEarly ==
    /\ verdict = "none" /\ taken + 1 >= Cardinality(Attempts)
    /\ verdict' = "failed"
    /\ UNCHANGED <<gpc, outcome, parentDone, taken, errs, winner>>

\* The loop is over without a success: return nil, resErr.
Exhausted ==
    /\ verdict = "none" /\ taken = Cardinality(Attempts)
    /\ verdict' = "failed"
    /\ UNCHANGED <<gpc, outcome, parentDone, taken, errs, winner>>

Caller ==
    \/ CallerCancelled \/ Exhausted
    \/ \E a \in Attempts : TakeSuccess(a) \/ TakeError(a)

RaceNext ==
    \/ ParentEnds \/ Caller
    \/ \E a \in Attempts : Finish(a) \/ Leave(a)

\* Either the caller's context ends (server selection has a timeout), or every
\* upstream gives up by itself (a resolver has timeouts of its own); a done
\* context ends every attempt.
RaceFairness ==
    /\ WF_raceVars(ParentEnds) \/ \A a \in Attempts : WF_raceVars(Finish(a))
    /\ WF_raceVars(Caller)
    /\ \A a \in Attempts : WF_raceVars(CtxDone /\ Finish(a)) /\ WF_raceVars(Leave(a))

RaceSpec == RaceInit /\ [][RaceNext]_raceVars /\ RaceFairness

-----------------------------------------------------------------------------

RaceTypeOK ==
    /\ gpc \in [Attempts -> {"run", "send", "end"}]
    /\ outcome \in [Attempts -> {"pending", "ok", "failed"}]
    /\ parentDone \in BOOLEAN
    /\ taken \in 0..Cardinality(Attempts)
    /\ errs \in SUBSET {a \in Attempts : outcome[a] = "failed"}
    /\ verdict \in {"none", "winner", "failed", "cancelled"}
    /\ winner \in SUBSET Attempts

(***************************************************************************)
(* The error a caller gets tells it of every upstream that failed, and is  *)
(* ctx.Err() only when the caller's own context ended, never because the   *)
(* function cancelled the derived one.                                     *)
(***************************************************************************)
ErrorAccountsForAll ==
    /\ verdict = "failed" => errs = Attempts
    /\ verdict = "cancelled" => parentDone

Race == INSTANCE FirstSuccess WITH Cancellable <- TRUE

(***************************************************************************)
(* The race keeps the promise of FirstSuccess: a winner that really        *)
(* succeeded, failure only when all failed, and always an answer, also     *)
(* when an upstream hangs (fast.go:64-73, selection.go:121-131).           *)
(***************************************************************************)
RaceImplementsFirstSuccess == Race!Spec

(***************************************************************************)
(* No goroutine is left behind on an unbuffered channel: after the caller  *)
(* has its answer every loser finds the context done and ends.             *)
(***************************************************************************)
NoGoroutineLeak == <>[](\A a \in Attempts : gpc[a] = "end")
=============================================================================
