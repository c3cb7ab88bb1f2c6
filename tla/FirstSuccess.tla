---------------------------- MODULE FirstSuccess ----------------------------
(***************************************************************************)
(* What the program's three "race a number of attempts" routines promise   *)
(* their callers: selectAPIProxyCandidate (main.go), FastResolver.         *)
(* LookupNetIP (resolver/fast.go) and NewFastestServerSelectionFunc        *)
(* (dialer/selection.go).  Attempts settle one by one; the caller gets one *)
(* successful attempt, or a failure once every attempt has failed, or - if *)
(* the caller's own context can be cancelled - the cancellation.           *)
(***************************************************************************)

CONSTANTS Attempts,    \* the things tried
          Cancellable  \* TRUE iff the caller's context can end the race

VARIABLES outcome,  \* outcome[a]: what attempt a came to
          verdict,  \* what the caller was told
          winner    \* the attempt handed to the caller, as a set

vars == <<outcome, verdict, winner>>

Outcomes == {"pending", "ok", "failed"}
Verdicts == {"none", "winner", "failed", "cancelled"}

TypeOK ==
    /\ outcome \in [Attempts -> Outcomes]
    /\ verdict \in Verdicts
    /\ winner \in SUBSET Attempts

Init ==
    /\ outcome = [a \in Attempts |-> "pending"]
    /\ verdict = "none"
    /\ winner = {}

Settle(a) ==
    /\ outcome[a] = "pending"
    /\ \E o \in {"ok", "failed"} : outcome' = [outcome EXCEPT ![a] = o]
    /\ UNCHANGED <<verdict, winner>>

Choose(a) ==
    /\ verdict = "none"
    /\ outcome[a] = "ok"
    /\ verdict' = "winner"
    /\ winner' = {a}
    /\ UNCHANGED outcome

GiveUp ==
    /\ verdict = "none"
    /\ \A a \in Attempts : outcome[a] = "failed"
    /\ verdict' = "failed"
    /\ UNCHANGED <<outcome, winner>>

Cancel ==
    /\ Cancellable
    /\ verdict = "none"
    /\ verdict' = "cancelled"
    /\ UNCHANGED <<outcome, winner>>

Next ==
    \/ \E a \in Attempts : Settle(a) \/ Choose(a)
    \/ GiveUp
    \/ Cancel

\* The race goes on for as long as the caller has no answer.
Fairness == WF_vars(verdict = "none" /\ Next)

Spec == Init /\ [][Next]_vars /\ Fairness

(***************************************************************************)
(* The answer is honest: a winner did succeed, and failure is reported     *)
(* only when nothing succeeded and nothing is still running.               *)
(***************************************************************************)
HonestAnswer ==
    /\ verdict = "winner" => winner # {} /\ \A a \in winner : outcome[a] = "ok"
    /\ verdict = "failed" => \A a \in Attempts : outcome[a] = "failed"

\* Every call gets an answer.
Answered == <>(verdict # "none")
=============================================================================
