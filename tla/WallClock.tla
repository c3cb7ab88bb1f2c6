----------------------------- MODULE WallClock -----------------------------
(***************************************************************************)
(* AfterWallClock and RunTicker (clock/clock.go): the refresh callback     *)
(* runs after an interval measured by whichever clock gets there first,    *)
(* the monotonic one (which stands still while the machine sleeps) or the  *)
(* wall clock (which may be set forward or back).                          *)
(*                                                                         *)
(* Time is counted in periods of the one-second ticker and kept relative   *)
(* to the deadlines.  A goroutine whose select has a ready case runs       *)
(* before the clocks move on.  The context is context.Background(), which  *)
(* is never done.                                                          *)
(***************************************************************************)
EXTENDS Integers

CONSTANTS Interval, RetryInterval, \* args.refresh, args.refreshRetry
          MaxDrift                 \* bound on wall against monotonic time

WallClockAssumption ==
    /\ Interval \in Nat /\ RetryInterval \in Nat /\ MaxDrift \in Nat

VARIABLES
    phase,    \* "waiting" in AfterWallClock, or "running" the callback
    monoLeft, \* monotonic time until after_ch fires
    wallLeft, \* wall-clock time until the deadline; negative: past it
    ticked,   \* a tick waits in ticker.C
    tickLeft  \* the wall time left, at the latest tick

vars == <<phase, monoLeft, wallLeft, ticked, tickLeft>>

Longest == IF Interval > RetryInterval THEN Interval ELSE RetryInterval

\* A new AfterWallClock(d).
StartWaiting(d) ==
    /\ phase' = "waiting"
    /\ monoLeft' = d /\ wallLeft' = d
    /\ ticked' = FALSE /\ tickLeft' = d

Init ==
    /\ phase = "waiting"
    /\ monoLeft = Interval /\ wallLeft = Interval
    /\ ticked = FALSE /\ tickLeft = Interval

TimerReady == monoLeft <= 0

\* Mutant: the deadline kept its monotonic reading.
MonotonicPast == ticked /\ monoLeft < 0

\* t.After(deadline), both read from the wall clock: Truncate(0) took the
\* monotonic reading off the deadline.
PastDeadline == ticked /\ tickLeft < 0

\* Time passes; the ticker is armed along with the timer.
Tick ==
    /\ phase = "waiting" /\ ~ticked /\ ~TimerReady
    /\ monoLeft' = monoLeft - 1
    /\ wallLeft' = wallLeft - 1
    /\ ticked' = TRUE /\ tickLeft' = wallLeft - 1
    /\ UNCHANGED phase

\* The machine sleeps for a while or its clock is set, either way.
WallClockJumps ==
    /\ phase = "waiting" /\ ~ticked
    /\ \E left \in (monoLeft - MaxDrift)..(monoLeft + MaxDrift) : wallLeft' = left
    /\ UNCHANGED <<phase, monoLeft, ticked, tickLeft>>

\* case t = <-after_ch, or a tick past the deadline: RunTicker calls cb.
Fire ==
    /\ phase = "waiting"
    /\ TimerReady \/ PastDeadline
    /\ phase' = "running"
    /\ UNCHANGED <<monoLeft, wallLeft, ticked, tickLeft>>

IgnoreTick ==
    /\ phase = "waiting" /\ ticked /\ ~PastDeadline
    /\ ticked' = FALSE
    /\ UNCHANGED <<phase, monoLeft, wallLeft, tickLeft>>

\* Mutant: the callback's error is not kept.
NextIntervalFixed(failed) == Interval

NextInterval(failed) == IF failed THEN RetryInterval ELSE Interval

\* cb returns; an error makes the next wait RetryInterval.
CallbackReturns(failed) ==
    /\ phase = "running"
    /\ StartWaiting(NextInterval(failed))

Wait == Tick \/ WallClockJumps \/ IgnoreTick
Next == Wait \/ Fire \/ \E failed \in BOOLEAN : CallbackReturns(failed)

Spec == Init /\ [][Next]_vars

-----------------------------------------------------------------------------

(***************************************************************************)
(* The ranges of the variables; in particular a wait never outlasts its    *)
(* interval by the monotonic clock, wherever the wall clock was set to.    *)
(***************************************************************************)
TypeOK ==
    /\ phase \in {"waiting", "running"}
    /\ monoLeft \in 0..Longest
    /\ wallLeft \in (-1 - MaxDrift)..(Longest + MaxDrift)
    /\ ticked \in BOOLEAN
    /\ tickLeft \in (-1 - MaxDrift)..(Longest + MaxDrift)

(***************************************************************************)
(* After a sleep or a clock change past the deadline the wait ends with    *)
(* the next tick: no tick that saw the deadline pass has been ignored.     *)
(***************************************************************************)
WakesAfterSleep == phase = "waiting" /\ ~ticked => tickLeft >= 0

\* The callback never starts early: one of the two clocks reached the deadline.
NeverEarly ==
    [][phase = "waiting" /\ phase' = "running" => monoLeft = 0 \/ wallLeft < 0]_vars
=============================================================================
