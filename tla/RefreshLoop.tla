----------------------------- MODULE RefreshLoop -----------------------------
(***************************************************************************)
(* The refresh of the login and the device password, from timer to timer:  *)
(* RunTicker's loop (clock/clock.go, WallClock) and the callback it runs   *)
(* on the API client (main.go 1011-1032, SEClient), which share the        *)
(* goroutine.  A firing timer is the start of Login; the return of the     *)
(* last call is the callback's, and whether it was a success decides the   *)
(* next wait.  The clocks count only while run() is serving, because       *)
(* RunTicker is called behind the initialisation; what they do during the  *)
(* callback has no effect.                                                 *)
(***************************************************************************)
EXTENDS Integers

CONSTANTS Dials, InitRetries, MaxFaults,       \* as in SEClient
          Interval, RetryInterval, MaxDrift    \* as in WallClock

VARIABLES
    mpc, attempts, rpc, refresh, late, faults, session, accountKnown,
    deviceKnown, current, dial,                                       \* SEClient
    phase, monoLeft, wallLeft, ticked, tickLeft,                      \* WallClock
    lateEffect \* the password was last changed by a call processed late

Client == INSTANCE SEClient
Clock == INSTANCE WallClock

ASSUME RefreshLoopAssumption ==
    Client!SEClientAssumption /\ Clock!WallClockAssumption

clientVars == <<mpc, attempts, rpc, refresh, late, faults, session, accountKnown,
                deviceKnown, current, dial>>
clockVars == <<phase, monoLeft, wallLeft, ticked, tickLeft>>
vars == <<clientVars, clockVars, lateEffect>>

Init == Client!Init /\ Clock!Init /\ lateEffect = FALSE

-----------------------------------------------------------------------------

\* The goroutine waits in AfterWallClock.
Waits(clockStep) ==
    /\ mpc = "serving" /\ clockStep
    /\ UNCHANGED <<clientVars, lateEffect>>

\* Mutant: the timer starts the password call, without a new login.
FiresWithoutLogin ==
    /\ Clock!Fire /\ mpc = "serving" /\ refresh = "wait" /\ Client!Free
    /\ refresh' = "password"
    /\ rpc' = Client!Sent(Client!Refresher, "password")
    /\ UNCHANGED <<mpc, attempts, late, faults, session, accountKnown, deviceKnown,
                   current, dial, lateEffect>>

\* The timer fires and cb starts with its Login.
Fires ==
    /\ Clock!Fire /\ Client!Login
    /\ UNCHANGED lateEffect

\* Mutant: an error is kept behind the successes that follow it.
CallEndsKeepingError(callStep, ok) ==
    /\ callStep
    /\ IF rpc.owner = Client!Refresher /\ refresh' # "password"
         THEN Clock!CallbackReturns(faults > 0 \/ ~(ok /\ rpc.op = "password"))
         ELSE UNCHANGED clockVars
    /\ UNCHANGED lateEffect

\* The call in progress ends.  If it was the callback's and no other follows,
\* cb returns: nil behind a new password only.
CallEnds(callStep, ok) ==
    /\ callStep
    /\ IF rpc.owner = Client!Refresher /\ refresh' # "password"
         THEN Clock!CallbackReturns(~(ok /\ rpc.op = "password"))
         ELSE UNCHANGED clockVars
    /\ UNCHANGED lateEffect

Returns == CallEnds(Client!CallReturns, rpc.state = "ok")
TimesOut == CallEnds(Client!CallTimesOut, FALSE)

\* The steps of the client, its users and the API that the timer has no part in.
Undisturbed(clientStep) == clientStep /\ UNCHANGED <<clockVars, lateEffect>>

Initialises == Undisturbed(Client!Initialise)
GivesUp == Undisturbed(Client!GiveUp)
AsksPassword == Undisturbed(Client!DeviceGeneratePassword)
Dialing(d) == Undisturbed(Client!DialConnects(d) \/ Client!GetProxyCredentials(d) \/ Client!DialEnds(d))
SessionExpires == Undisturbed(Client!SessionExpires)
ServerRejects == Undisturbed(Client!ServerRejects)

ServerProcesses ==
    /\ Client!ServerProcesses
    /\ lateEffect' = (lateEffect /\ current' = current)
    /\ UNCHANGED clockVars

ServerProcessesLate(op) ==
    /\ Client!ServerProcessesLate(op)
    /\ lateEffect' = (lateEffect \/ current' # current)
    /\ UNCHANGED clockVars

Network == ServerProcesses \/ ServerRejects \/ Returns \/ TimesOut

Next ==
    \/ Waits(Clock!Wait) \/ Fires
    \/ Initialises \/ GivesUp \/ AsksPassword \/ Network \/ SessionExpires
    \/ \E op \in Client!Ops : ServerProcessesLate(op)
    \/ \E d \in Dials : Dialing(d)

\* Time passes, and a goroutine whose select is ready goes on; a call ends by
\* its timeout; a waiter gets Mux, which Go hands over fairly to those who wait
\* long.
Fairness ==
    /\ WF_vars(Waits(Clock!Tick)) /\ WF_vars(Waits(Clock!IgnoreTick)) /\ WF_vars(Fires)
    /\ SF_vars(Initialises) /\ SF_vars(AsksPassword) /\ WF_vars(GivesUp)
    /\ WF_vars(Network)
    /\ \A op \in Client!Ops : WF_vars(ServerProcessesLate(op))
    /\ \A d \in Dials : /\ SF_vars(Undisturbed(Client!GetProxyCredentials(d)))
                        /\ WF_vars(Undisturbed(Client!DialEnds(d)))

Spec == Init /\ [][Next]_vars /\ Fairness

-----------------------------------------------------------------------------

(***************************************************************************)
(* A client whose password the server no longer accepts tries again soon:  *)
(* the wait it is in is the short one, because the callback's error is     *)
(* what chooses it - unless a call that came to the server late changed    *)
(* the password behind the refresh's back (clock.go:38-46,                 *)
(* main.go:1011-1032).                                                     *)
(***************************************************************************)
StaleOnlyBriefly ==
    mpc = "serving" /\ phase = "waiting" /\ current = {} /\ ~lateEffect
        => monoLeft <= RetryInterval

(***************************************************************************)
(* And a healthy client does not log in too often: once calls have stopped *)
(* to go wrong, every wait that begins is the long one.  An error is not   *)
(* followed by short waits for ever: err is that of the latest callback    *)
(* (clock.go:33-46, main.go:1011-1032).                                    *)
(***************************************************************************)
RefreshesSettle ==
    <>[][phase = "running" /\ phase' = "waiting" => monoLeft' = Interval]_vars

\* What the parts promise holds of the whole.
WakesAfterSleep == Clock!WakesAfterSleep
CallsAllowed == Client!CallsAllowed
NoStaleRead == Client!NoStaleRead
PasswordHeals == Client!PasswordHeals
DialsGetCredentials == Client!DialsGetCredentials
=============================================================================
