-------------------------- MODULE RefreshLoopProofs --------------------------
(***************************************************************************)
(* Proofs about RefreshLoop for every number of connections, attempts and  *)
(* faults and every length of the waits: the API client and the timer that *)
(* drives its refresh, over the whole life of the process.                 *)
(***************************************************************************)
EXTENDS RefreshLoop, TLAPS

-----------------------------------------------------------------------------
(* The inductive invariant *)

\* Whose call is outstanding: that of the step its caller is in.
Calls ==
    /\ rpc.owner = Client!Main => rpc.op = mpc /\ mpc \in {"register", "device"}
    /\ rpc.owner = Client!Refresher => rpc.op = refresh /\ refresh # "wait"
    /\ refresh # "wait" => mpc = "serving"
    /\ refresh = "login" => rpc.owner = Client!Refresher

\* What both sides know of each other when a step begins.
Known ==
    /\ mpc \in {"device", "serving"} => accountKnown
    /\ mpc = "serving" => deviceKnown
    /\ mpc = "device" \/ refresh = "password" => session
    /\ rpc.op = "register" /\ rpc.state = "ok" => accountKnown

\* Where the current password is as long as no call went wrong.
Password ==
    /\ faults = 0 => late = {} /\ rpc.state # "rejected"
    /\ faults = 0 /\ rpc.op \in {"device", "password"} /\ rpc.state = "ok"
         => current = {"reply"}
    /\ faults = 0 /\ mpc = "serving" /\ ~(rpc.op = "password" /\ rpc.state = "ok")
         => current = {"client"}
    /\ \A d \in Dials : dial[d] = "connected" => mpc = "serving"
    /\ NoStaleRead

\* The two clocks never drift too far apart, and a tick that waits is of now.
Clocks ==
    /\ wallLeft \in (monoLeft - MaxDrift)..(monoLeft + MaxDrift)
    /\ ticked => tickLeft = wallLeft
    /\ WakesAfterSleep

\* The timer and the callback take turns, and the reply to a call brings the
\* password unless a late call took it away.
Turns ==
    /\ lateEffect \in BOOLEAN
    /\ phase = "waiting" <=> refresh = "wait"
    /\ rpc.op \in {"device", "password"} /\ rpc.state = "ok" /\ ~lateEffect
         => current = {"reply"}
    /\ StaleOnlyBriefly

ClientInv == Client!TypeOK /\ Calls /\ Known /\ Password
ClockInv == Clock!TypeOK /\ Clocks

IInv == ClientInv /\ ClockInv /\ Turns

-----------------------------------------------------------------------------
(* The loop is made of its parts *)

\* Every step of the loop is a step of the client or leaves it alone.
LEMMA ClientStep == [Next]_vars => [Client!Next]_(Client!vars)
<1> SUFFICES ASSUME [Next]_vars PROVE [Client!Next]_(Client!vars)
  OBVIOUS
<1> USE DEF clientVars, Client!vars, Client!callers, Client!serverVars, Client!clientVars
<1>1. CASE UNCHANGED vars \/ Waits(Clock!Wait)
  BY <1>1 DEF vars, Waits
<1>2. CASE Fires \/ AsksPassword
  BY <1>2 DEF Fires, AsksPassword, Undisturbed, Client!Next, Client!Refresh
<1>3. CASE Initialises \/ GivesUp \/ SessionExpires
  BY <1>3 DEF Initialises, GivesUp, SessionExpires, Undisturbed, Client!Next
<1>4. CASE Network
  BY <1>4 DEF Network, ServerProcesses, ServerRejects, Returns, TimesOut, CallEnds,
              Undisturbed, Client!Next, Client!Network
<1>5. ASSUME NEW op \in Client!Ops, ServerProcessesLate(op) PROVE Client!Next
  BY <1>5 DEF ServerProcessesLate, Client!Next
<1>6. ASSUME NEW d \in Dials, Dialing(d) PROVE Client!Next
  BY <1>6 DEF Dialing, Undisturbed, Client!Next
<1> QED BY <1>1, <1>2, <1>3, <1>4, <1>5, <1>6 DEF Next

\* Every step of the loop is a step of the timer or leaves it alone.
LEMMA ClockStep == [Next]_vars => [Clock!Next]_(Clock!vars)
<1> SUFFICES ASSUME [Next]_vars PROVE [Clock!Next]_(Clock!vars)
  OBVIOUS
<1> USE DEF clockVars, Clock!vars
<1>1. CASE UNCHANGED vars
  BY <1>1 DEF vars
<1>2. CASE Waits(Clock!Wait) \/ Fires
  BY <1>2 DEF Waits, Fires, Clock!Next
<1>3. CASE AsksPassword \/ Initialises \/ GivesUp \/ SessionExpires
  BY <1>3 DEF AsksPassword, Initialises, GivesUp, SessionExpires, Undisturbed
<1>4. CASE Network
  <2>1. CASE ServerProcesses \/ ServerRejects
    BY <2>1 DEF ServerProcesses, ServerRejects, Undisturbed
  <2>2. CASE Returns
    <3>1. \/ \E failed \in BOOLEAN : Clock!CallbackReturns(failed)
          \/ UNCHANGED clockVars
      BY <2>2 DEF Returns, CallEnds
    <3> QED BY <3>1 DEF Clock!Next
  <2>3. CASE TimesOut
    <3>1. \/ \E failed \in BOOLEAN : Clock!CallbackReturns(failed)
          \/ UNCHANGED clockVars
      BY <2>3 DEF TimesOut, CallEnds
    <3> QED BY <3>1 DEF Clock!Next
  <2> QED BY <1>4, <2>1, <2>2, <2>3 DEF Network
<1>5. ASSUME NEW op \in Client!Ops, ServerProcessesLate(op) PROVE UNCHANGED clockVars
  BY <1>5 DEF ServerProcessesLate
<1>6. ASSUME NEW d \in Dials, Dialing(d) PROVE UNCHANGED clockVars
  BY <1>6 DEF Dialing, Undisturbed
<1> QED BY <1>1, <1>2, <1>3, <1>4, <1>5, <1>6 DEF Next

(***************************************************************************)
(* The composition adds no behaviour to its parts: the loop implements the *)
(* client and the timer, so what either promises holds of the whole.       *)
(***************************************************************************)
THEOREM LoopImplementsParts == Spec => Client!Spec /\ Clock!Spec
<1>1. Init => Client!Init /\ Clock!Init
  BY DEF Init
<1> QED BY <1>1, ClientStep, ClockStep, PTL DEF Spec, Client!Spec, Clock!Spec

-----------------------------------------------------------------------------
(* The timer *)

\* The lengths of the waits.
LEMMA ClockNumbers ==
    /\ Interval \in Nat /\ RetryInterval \in Nat /\ MaxDrift \in Nat
    /\ Clock!Longest \in Nat /\ Interval <= Clock!Longest
    /\ RetryInterval <= Clock!Longest
<1>1. Interval \in Nat /\ RetryInterval \in Nat /\ MaxDrift \in Nat
  BY RefreshLoopAssumption DEF Clock!WallClockAssumption
<1> QED BY <1>1 DEF Clock!Longest

\* A new wait has its deadline where the clocks stand.
LEMMA WaitStarts ==
    ASSUME NEW d \in {Interval, RetryInterval}, Clock!StartWaiting(d) PROVE ClockInv'
<1>1. d \in Nat /\ d <= Clock!Longest
  BY ClockNumbers
<1>2. /\ phase' = "waiting" /\ monoLeft' = d /\ wallLeft' = d
      /\ ticked' = FALSE /\ tickLeft' = d
  BY DEF Clock!StartWaiting
<1>3. Clock!TypeOK'
  <2>1. d \in 0..Clock!Longest /\ d \in (-1 - MaxDrift)..(Clock!Longest + MaxDrift)
    BY <1>1, ClockNumbers
  <2> QED BY <1>2, <2>1 DEF Clock!TypeOK, Clock!Longest
<1>4. Clocks'
  BY <1>1, <1>2, ClockNumbers DEF Clocks, WakesAfterSleep, Clock!WakesAfterSleep
<1> QED BY <1>3, <1>4 DEF ClockInv

\* The wait is over by the monotonic clock at the latest, and a tick past the
\* deadline is never ignored.
LEMMA NextClock == ClockInv /\ [Clock!Next]_(Clock!vars) => ClockInv'
<1> SUFFICES ASSUME ClockInv, [Clock!Next]_(Clock!vars) PROVE ClockInv'
  OBVIOUS
<1>1. /\ phase \in {"waiting", "running"} /\ monoLeft \in 0..Clock!Longest
      /\ wallLeft \in Int /\ tickLeft \in (-1 - MaxDrift)..(Clock!Longest + MaxDrift)
      /\ monoLeft - MaxDrift <= wallLeft /\ wallLeft <= monoLeft + MaxDrift
      /\ phase = "waiting" /\ ~ticked => tickLeft >= 0
      /\ ticked \in BOOLEAN /\ (ticked => tickLeft = wallLeft)
  BY ClockNumbers DEF ClockInv, Clock!TypeOK, Clocks, WakesAfterSleep, Clock!WakesAfterSleep
\* What is left to show, as the clocks stand after the step.
<1>2. SUFFICES ASSUME ~ \E d \in {Interval, RetryInterval} : Clock!StartWaiting(d)
      PROVE  /\ phase' \in {"waiting", "running"} /\ monoLeft' \in 0..Clock!Longest
             /\ tickLeft' \in (-1 - MaxDrift)..(Clock!Longest + MaxDrift)
             /\ ticked' \in BOOLEAN /\ (ticked' => tickLeft' = wallLeft')
             /\ wallLeft' \in Int
             /\ monoLeft' - MaxDrift <= wallLeft' /\ wallLeft' <= monoLeft' + MaxDrift
             /\ phase' = "waiting" /\ ~ticked' => tickLeft' >= 0
  <2>1. CASE \E d \in {Interval, RetryInterval} : Clock!StartWaiting(d)
    BY <2>1, WaitStarts
  <2>2. CASE ~ \E d \in {Interval, RetryInterval} : Clock!StartWaiting(d)
    <3>1. /\ monoLeft' \in 0..Clock!Longest /\ wallLeft' \in Int
          /\ monoLeft' - MaxDrift <= wallLeft' /\ wallLeft' <= monoLeft' + MaxDrift
          /\ phase' = "waiting" /\ ~ticked' => tickLeft' >= 0
          /\ ticked' => tickLeft' = wallLeft'
      BY <1>2, <2>2
    <3>2. /\ wallLeft' \in (-1 - MaxDrift)..(Clock!Longest + MaxDrift)
          /\ wallLeft' \in (monoLeft' - MaxDrift)..(monoLeft' + MaxDrift)
      <4>1. ASSUME NEW m \in 0..Clock!Longest, NEW w \in Int,
                   m - MaxDrift <= w, w <= m + MaxDrift
            PROVE  /\ w \in (-1 - MaxDrift)..(Clock!Longest + MaxDrift)
                   /\ w \in (m - MaxDrift)..(m + MaxDrift)
        BY <4>1, ClockNumbers
      <4> QED BY <3>1, <4>1
    <3>4. Clocks'
      BY <3>1, <3>2 DEF Clocks, WakesAfterSleep, Clock!WakesAfterSleep
    <3>3. Clock!TypeOK'
      BY <1>2, <2>2, <3>2 DEF Clock!TypeOK, Clock!Longest
    <3> QED BY <3>3, <3>4 DEF ClockInv
  <2> QED BY <2>1, <2>2
<1>3. CASE UNCHANGED Clock!vars
  BY <1>1, <1>3, ClockNumbers DEF Clock!vars
<1>4. CASE Clock!Tick
  BY <1>1, <1>4, ClockNumbers DEF Clock!Tick, Clock!TimerReady
<1>5. CASE Clock!WallClockJumps
  BY <1>1, <1>5, ClockNumbers DEF Clock!WallClockJumps
<1>6. CASE Clock!IgnoreTick
  <2>1. /\ phase' = phase /\ monoLeft' = monoLeft /\ wallLeft' = wallLeft
        /\ tickLeft' = tickLeft /\ ticked' = FALSE /\ ~(tickLeft < 0)
    BY <1>6 DEF Clock!IgnoreTick, Clock!PastDeadline
  <2>2. tickLeft' >= 0
    BY <1>1, <2>1, ClockNumbers
  <2> QED BY <1>1, <2>1, <2>2
<1>7. CASE Clock!Fire
  BY <1>1, <1>7, ClockNumbers DEF Clock!Fire
<1>8. ASSUME NEW failed \in BOOLEAN, Clock!CallbackReturns(failed) PROVE FALSE
  BY <1>2, <1>8 DEF Clock!CallbackReturns, Clock!NextInterval
<1> QED BY <1>3, <1>4, <1>5, <1>6, <1>7, <1>8 DEF Clock!Next, Clock!Wait

\* At the start the first wait has its whole interval left.
LEMMA InitClock == Clock!Init => ClockInv
<1> SUFFICES ASSUME Clock!Init PROVE ClockInv
  OBVIOUS
<1>1. Interval \in 0..Clock!Longest /\ Interval \in (-1 - MaxDrift)..(Clock!Longest + MaxDrift)
  BY ClockNumbers
<1>2. Clock!TypeOK
  BY <1>1 DEF Clock!Init, Clock!TypeOK
<1>3. Clocks
  BY ClockNumbers DEF Clock!Init, Clocks, WakesAfterSleep, Clock!WakesAfterSleep
<1> QED BY <1>2, <1>3 DEF ClockInv

-----------------------------------------------------------------------------
(* The client *)

\* The parts of the client's types that need different arguments.
CallType ==
    rpc \in {Client!Idle} \cup [owner : {Client!Main, Client!Refresher}, op : Client!Ops,
                                state : {"sent", "ok", "rejected"}]

Flags ==
    /\ mpc \in {"register", "device", "serving", "exited"}
    /\ refresh \in {"wait", "login", "password"}
    /\ session \in BOOLEAN /\ accountKnown \in BOOLEAN /\ deviceKnown \in BOOLEAN

Counts == attempts \in 0..InitRetries /\ faults \in 0..MaxFaults

Others ==
    /\ late \in SUBSET Client!Ops
    /\ current \in {{}, {"client"}, {"reply"}}
    /\ dial \in [Dials -> {"idle", "connected", "fresh", "stale"}]

\* They are the whole of it.
LEMMA ClientTypeParts == Client!TypeOK <=> CallType /\ Flags /\ Counts /\ Others
  BY DEF Client!TypeOK, CallType, Flags, Counts, Others

\* Every step of the client is one of these.
LEMMA ClientActions ==
    ASSUME [Client!Next]_(Client!vars)
    PROVE  \/ UNCHANGED Client!vars
           \/ Client!AttemptsLeft /\ Client!AnonRegister
           \/ Client!AttemptsLeft /\ Client!RegisterDevice
           \/ Client!GiveUp \/ Client!Login \/ Client!DeviceGeneratePassword
           \/ Client!ServerProcesses \/ Client!ServerRejects
           \/ Client!CallReturns \/ Client!CallTimesOut \/ Client!SessionExpires
           \/ \E op \in Client!Ops : Client!ServerProcessesLate(op)
           \/ \E d \in Dials : \/ Client!DialConnects(d) \/ Client!GetProxyCredentials(d)
                               \/ Client!DialEnds(d)
  BY DEF Client!Next, Client!Initialise, Client!Refresh, Client!Network

\* The call in progress is one of the four, by one of the two.
LEMMA NextCall == CallType /\ [Client!Next]_(Client!vars) => CallType'
<1> SUFFICES ASSUME CallType, [Client!Next]_(Client!vars) PROVE CallType'
  OBVIOUS
<1> USE DEF Client!callers, Client!serverVars, Client!clientVars
<1> DEFINE Out == [owner : {Client!Main, Client!Refresher}, op : Client!Ops,
                   state : {"sent", "ok", "rejected"}]
<1>1. CASE rpc' = rpc \/ rpc' = Client!Idle
  BY <1>1 DEF CallType
<1>2. ASSUME NEW o \in {Client!Main, Client!Refresher}, NEW op \in Client!Ops,
             rpc' = Client!Sent(o, op)
      PROVE  CallType'
  BY <1>2 DEF Client!Sent, CallType
<1>3. CASE Client!ServerProcesses \/ Client!ServerRejects
  <2>1. rpc \in Out
    BY <1>3 DEF Client!ServerProcesses, Client!ServerRejects, Client!Idle, CallType
  <2>2. \/ rpc' = [rpc EXCEPT !.state = "ok"]
        \/ rpc' = [rpc EXCEPT !.state = "rejected"]
    BY <1>3 DEF Client!ServerProcesses, Client!ServerRejects
  <2> QED BY <2>1, <2>2 DEF CallType
<1>4. \/ rpc' = rpc \/ rpc' = Client!Idle
      \/ Client!ServerProcesses \/ Client!ServerRejects
      \/ \E o \in {Client!Main, Client!Refresher}, op \in Client!Ops :
            rpc' = Client!Sent(o, op)
  <2>1. UNCHANGED Client!vars => rpc' = rpc
    BY DEF Client!vars
  <2>2. /\ "register" \in Client!Ops /\ "device" \in Client!Ops
        /\ "login" \in Client!Ops /\ "password" \in Client!Ops
    BY DEF Client!Ops
  <2>3. Client!AnonRegister \/ Client!RegisterDevice \/ Client!Login
        \/ Client!DeviceGeneratePassword
          => \E o \in {Client!Main, Client!Refresher}, op \in Client!Ops :
                rpc' = Client!Sent(o, op)
    BY <2>2 DEF Client!AnonRegister, Client!RegisterDevice, Client!Login,
                Client!DeviceGeneratePassword
  <2>4. Client!CallReturns \/ Client!CallTimesOut => rpc' = Client!Idle
    BY DEF Client!CallReturns, Client!CallTimesOut
  <2>5. Client!GiveUp \/ Client!SessionExpires => rpc' = rpc
    BY DEF Client!GiveUp, Client!SessionExpires
  <2>6. ASSUME NEW op \in Client!Ops, Client!ServerProcessesLate(op) PROVE rpc' = rpc
    BY <2>6 DEF Client!ServerProcessesLate
  <2>7. ASSUME NEW d \in Dials, \/ Client!DialConnects(d) \/ Client!GetProxyCredentials(d)
                                \/ Client!DialEnds(d)
        PROVE  rpc' = rpc
    BY <2>7 DEF Client!DialConnects, Client!GetProxyCredentials, Client!DialEnds
  <2> QED BY <2>1, <2>3, <2>4, <2>5, <2>6, <2>7, ClientActions
<1> QED BY <1>1, <1>2, <1>3, <1>4

\* The return of a call leads its caller to a step there is.
LEMMA NextStepType ==
    ASSUME NEW ok \in BOOLEAN, Flags, Counts, Client!NextStep(ok)
    PROVE  /\ mpc' \in {"register", "device", "serving", "exited"}
           /\ refresh' \in {"wait", "login", "password"}
           /\ attempts' \in 0..InitRetries
<1>1. InitRetries \in Nat
  BY RefreshLoopAssumption DEF Client!SEClientAssumption
<1> QED BY <1>1 DEF Client!NextStep, Flags, Counts

\* Every step keeps the program counters and flags in their sets.
LEMMA NextFlags == Flags /\ Counts /\ [Client!Next]_(Client!vars) => Flags'
<1> SUFFICES ASSUME Flags, Counts, [Client!Next]_(Client!vars) PROVE Flags'
  OBVIOUS
<1> USE DEF Client!callers, Client!serverVars, Client!clientVars
<1>1. CASE UNCHANGED Client!vars
  BY <1>1 DEF Client!vars, Flags
<1>2. CASE Client!AnonRegister \/ Client!RegisterDevice \/ Client!GiveUp
  BY <1>2 DEF Client!AnonRegister, Client!RegisterDevice, Client!GiveUp, Flags
<1>3. CASE Client!Login \/ Client!DeviceGeneratePassword \/ Client!SessionExpires
  BY <1>3 DEF Client!Login, Client!DeviceGeneratePassword, Client!SessionExpires, Flags
<1>4. CASE Client!ServerProcesses \/ Client!ServerRejects
  BY <1>4 DEF Client!ServerProcesses, Client!ServerRejects, Client!ServerEffect, Flags
<1>5. CASE Client!CallReturns
  <2>1. /\ mpc' \in {"register", "device", "serving", "exited"}
        /\ refresh' \in {"wait", "login", "password"}
    <3>1. (rpc.state = "ok") \in BOOLEAN /\ Client!NextStep(rpc.state = "ok")
      BY <1>5 DEF Client!CallReturns
    <3> QED BY <3>1, NextStepType
  <2>2. /\ session' \in BOOLEAN /\ deviceKnown' \in BOOLEAN /\ accountKnown' = accountKnown
    BY <1>5 DEF Client!CallReturns, Client!Absorb, Flags
  <2> QED BY <2>1, <2>2 DEF Flags
<1>6. CASE Client!CallTimesOut
  <2>1. /\ mpc' \in {"register", "device", "serving", "exited"}
        /\ refresh' \in {"wait", "login", "password"}
    BY <1>6, NextStepType DEF Client!CallTimesOut
  <2> QED BY <1>6, <2>1 DEF Client!CallTimesOut, Flags
<1>7. ASSUME NEW op \in Client!Ops, Client!ServerProcessesLate(op) PROVE Flags'
  BY <1>7 DEF Client!ServerProcessesLate, Client!ServerEffect, Flags
<1>8. ASSUME NEW d \in Dials, \/ Client!DialConnects(d) \/ Client!GetProxyCredentials(d)
                              \/ Client!DialEnds(d)
      PROVE  Flags'
  BY <1>8 DEF Client!DialConnects, Client!GetProxyCredentials, Client!DialEnds, Flags
<1> QED BY <1>1, <1>2, <1>3, <1>4, <1>5, <1>6, <1>7, <1>8, ClientActions

\* No step counts past its bound: of attempts -init-retries allows, if it is
\* set at all, and of faults those of the behaviour.
LEMMA NextCounts == Flags /\ Counts /\ [Client!Next]_(Client!vars) => Counts'
<1> SUFFICES ASSUME Flags, Counts, [Client!Next]_(Client!vars) PROVE Counts'
  OBVIOUS
<1>0. InitRetries \in Nat /\ MaxFaults \in Nat
  BY RefreshLoopAssumption DEF Client!SEClientAssumption
<1> USE DEF Client!callers, Client!serverVars, Client!clientVars
<1>1. CASE UNCHANGED <<attempts, faults>>
  BY <1>1 DEF Counts
<1>2. CASE Client!AttemptsLeft /\ (Client!AnonRegister \/ Client!RegisterDevice)
  BY <1>0, <1>2 DEF Client!AttemptsLeft, Client!AnonRegister, Client!RegisterDevice, Counts
<1>3. CASE Client!ServerRejects
  BY <1>0, <1>3 DEF Client!ServerRejects, Counts
<1>4. CASE Client!CallReturns
  <2>1. (rpc.state = "ok") \in BOOLEAN /\ Client!NextStep(rpc.state = "ok")
        /\ faults' = faults
    BY <1>4 DEF Client!CallReturns
  <2> QED BY <2>1, NextStepType DEF Counts
<1>5. CASE Client!CallTimesOut
  <2>1. attempts' \in 0..InitRetries
    BY <1>5, NextStepType DEF Client!CallTimesOut
  <2> QED BY <1>0, <1>5, <2>1 DEF Client!CallTimesOut, Counts
<1>6. \/ UNCHANGED <<attempts, faults>>
      \/ Client!AttemptsLeft /\ (Client!AnonRegister \/ Client!RegisterDevice)
      \/ Client!ServerRejects \/ Client!CallReturns \/ Client!CallTimesOut
  BY ClientActions
     DEF Client!vars, Client!GiveUp, Client!Login, Client!DeviceGeneratePassword,
         Client!ServerProcesses, Client!SessionExpires, Client!ServerProcessesLate,
         Client!DialConnects, Client!GetProxyCredentials, Client!DialEnds
<1> QED BY <1>1, <1>2, <1>3, <1>4, <1>5, <1>6

\* Every step keeps the types of the rest.
LEMMA NextOthers == CallType /\ Others /\ [Client!Next]_(Client!vars) => Others'
<1> SUFFICES ASSUME CallType, Others, [Client!Next]_(Client!vars) PROVE Others'
  OBVIOUS
<1> USE DEF Client!callers, Client!serverVars, Client!clientVars
<1>1. CASE UNCHANGED <<late, current, dial>>
  BY <1>1 DEF Others
<1>2. CASE Client!AnonRegister
  BY <1>2 DEF Client!AnonRegister, Others
<1>3. CASE Client!ServerProcesses
  BY <1>3 DEF Client!ServerProcesses, Client!ServerEffect, Others
<1>4. CASE Client!CallReturns
  BY <1>4 DEF Client!CallReturns, Client!Absorb, Others
<1>5. CASE Client!CallTimesOut
  <2>1. rpc.op \in Client!Ops
    BY <1>5 DEF Client!CallTimesOut, Client!Free, CallType
  <2>2. late' \in {late, late \cup {rpc.op}}
    BY <1>5 DEF Client!CallTimesOut
  <2>3. current' = current \ {"reply"} /\ dial' = dial
    BY <1>5 DEF Client!CallTimesOut
  <2>4. current' \in {{}, {"client"}, {"reply"}}
    BY <2>3 DEF Others
  <2> QED BY <2>1, <2>2, <2>3, <2>4 DEF Others
<1>6. ASSUME NEW op \in Client!Ops, Client!ServerProcessesLate(op) PROVE Others'
  <2>1. /\ current' = current \/ current' = {}
        /\ late' = late \ {op} /\ dial' = dial
    BY <1>6 DEF Client!ServerProcessesLate, Client!ServerEffect
  <2> QED BY <2>1 DEF Others
<1>7. ASSUME NEW d \in Dials, \/ Client!DialConnects(d) \/ Client!GetProxyCredentials(d)
                              \/ Client!DialEnds(d)
      PROVE  Others'
  BY <1>7 DEF Client!DialConnects, Client!GetProxyCredentials, Client!DialEnds,
              Client!CredentialsRead, Others
<1>8. \/ UNCHANGED <<late, current, dial>> \/ Client!AnonRegister
      \/ Client!ServerProcesses \/ Client!CallReturns \/ Client!CallTimesOut
      \/ \E op \in Client!Ops : Client!ServerProcessesLate(op)
      \/ \E d \in Dials : \/ Client!DialConnects(d) \/ Client!GetProxyCredentials(d)
                          \/ Client!DialEnds(d)
  BY ClientActions
     DEF Client!vars, Client!GiveUp, Client!Login, Client!DeviceGeneratePassword,
         Client!ServerRejects, Client!SessionExpires, Client!RegisterDevice
<1> QED BY <1>1, <1>2, <1>3, <1>4, <1>5, <1>6, <1>7, <1>8

\* Every step of the client keeps its types.
LEMMA NextClientType == Client!TypeOK /\ [Client!Next]_(Client!vars) => Client!TypeOK'
<1>1. (CallType /\ Flags /\ Counts /\ Others)' => Client!TypeOK'
  BY ClientTypeParts, PTL
<1> QED BY <1>1, ClientTypeParts, NextCall, NextFlags, NextCounts, NextOthers

\* Of a call in progress there is an owner, a kind and a state.
LEMMA CallInProgress ==
    ASSUME CallType
    PROVE  /\ Client!Free <=> rpc.owner = "none"
           /\ ~Client!Free => /\ rpc.owner \in {Client!Main, Client!Refresher}
                              /\ rpc.op \in Client!Ops
                              /\ rpc.state \in {"sent", "ok", "rejected"}
           /\ Client!Free => rpc.op = "none" /\ rpc.state = "none"
           /\ Client!Main # Client!Refresher /\ Client!Main # "none"
           /\ Client!Refresher # "none"
  BY DEF CallType, Client!Free, Client!Idle, Client!Main, Client!Refresher

\* An answer of the server changes the state of the call only.
LEMMA Answer ==
    ASSUME CallType, Client!ServerProcesses \/ Client!ServerRejects
    PROVE  /\ rpc.state = "sent" /\ ~Client!Free
           /\ rpc'.owner = rpc.owner /\ rpc'.op = rpc.op
           /\ Client!ServerProcesses => rpc'.state = "ok"
           /\ Client!ServerRejects => rpc'.state = "rejected"
<1>1. rpc.state = "sent" /\ ~Client!Free
  BY CallInProgress DEF Client!ServerProcesses, Client!ServerRejects
<1>2. rpc \in [owner : {Client!Main, Client!Refresher}, op : Client!Ops,
               state : {"sent", "ok", "rejected"}]
  BY <1>1 DEF CallType, Client!Free
<1>3. /\ Client!ServerProcesses => rpc' = [rpc EXCEPT !.state = "ok"]
      /\ Client!ServerRejects => rpc' = [rpc EXCEPT !.state = "rejected"]
  BY DEF Client!ServerProcesses, Client!ServerRejects
<1> QED BY <1>1, <1>2, <1>3

\* A new call is the one its caller asked for.
LEMMA Request ==
    ASSUME NEW o, NEW op, rpc' = Client!Sent(o, op)
    PROVE  rpc'.owner = o /\ rpc'.op = op /\ rpc'.state = "sent"
  BY DEF Client!Sent

\* Nothing is outstanding.
LEMMA Silence ==
    ASSUME rpc' = Client!Idle
    PROVE  rpc'.owner = "none" /\ rpc'.op = "none" /\ rpc'.state = "none"
  BY DEF Client!Idle

\* A call belongs to the step its caller is in, and it is awaited there.
LEMMA NextCalls == CallType /\ Flags /\ Calls /\ [Client!Next]_(Client!vars) => Calls'
<1> SUFFICES ASSUME CallType, Flags, Calls, [Client!Next]_(Client!vars) PROVE Calls'
  OBVIOUS
<1> USE CallInProgress DEF Client!callers, Client!serverVars, Client!clientVars
<1>1. CASE UNCHANGED <<mpc, refresh, rpc>>
  BY <1>1 DEF Calls
<1>2. CASE Client!AnonRegister \/ Client!RegisterDevice
  BY <1>2, Request DEF Client!AnonRegister, Client!RegisterDevice, Calls
<1>3. CASE Client!Login \/ Client!DeviceGeneratePassword
  BY <1>3, Request DEF Client!Login, Client!DeviceGeneratePassword, Calls
<1>4. CASE Client!GiveUp
  BY <1>4 DEF Client!GiveUp, Calls
<1>5. CASE Client!ServerProcesses \/ Client!ServerRejects
  <2>1. UNCHANGED <<mpc, refresh>>
    BY <1>5 DEF Client!ServerProcesses, Client!ServerRejects
  <2> QED BY <1>5, <2>1, Answer DEF Calls
<1>6. CASE Client!CallReturns \/ Client!CallTimesOut
  <2>1. rpc' = Client!Idle /\ ~Client!Free
    BY <1>6 DEF Client!CallReturns, Client!CallTimesOut
  <2>2. PICK ok \in BOOLEAN : Client!NextStep(ok)
    BY <1>6 DEF Client!CallReturns, Client!CallTimesOut
  <2> QED BY <2>1, <2>2, Silence DEF Client!NextStep, Calls
<1>7. \/ UNCHANGED <<mpc, refresh, rpc>>
      \/ Client!AnonRegister \/ Client!RegisterDevice
      \/ Client!Login \/ Client!DeviceGeneratePassword \/ Client!GiveUp
      \/ Client!ServerProcesses \/ Client!ServerRejects
      \/ Client!CallReturns \/ Client!CallTimesOut
  BY ClientActions
     DEF Client!vars, Client!SessionExpires, Client!ServerProcessesLate,
         Client!DialConnects, Client!GetProxyCredentials, Client!DialEnds
<1> QED BY <1>1, <1>2, <1>3, <1>4, <1>5, <1>6, <1>7

\* What a step relies on was settled by the one before it.
LEMMA NextKnown ==
    CallType /\ Flags /\ Calls /\ Known /\ [Client!Next]_(Client!vars) => Known'
<1> SUFFICES ASSUME CallType, Flags, Calls, Known, [Client!Next]_(Client!vars)
             PROVE  Known'
  OBVIOUS
<1> USE CallInProgress DEF Client!callers, Client!serverVars, Client!clientVars
<1>1. CASE UNCHANGED <<mpc, refresh, rpc, session, accountKnown, deviceKnown>>
  BY <1>1 DEF Known
<1>2. CASE Client!AnonRegister
  BY <1>2, Request DEF Client!AnonRegister, Known, Calls
<1>3. CASE Client!RegisterDevice \/ Client!Login \/ Client!DeviceGeneratePassword
  BY <1>3, Request DEF Client!RegisterDevice, Client!Login,
                       Client!DeviceGeneratePassword, Known, Calls
<1>4. CASE Client!GiveUp
  BY <1>4 DEF Client!GiveUp, Known, Calls
<1>5. CASE Client!ServerProcesses
  <2>1. /\ UNCHANGED <<mpc, refresh, session, deviceKnown>>
        /\ accountKnown => accountKnown'
        /\ rpc.op = "register" => accountKnown'
    BY <1>5 DEF Client!ServerProcesses, Client!ServerEffect
  <2> QED BY <1>5, <2>1, Answer DEF Known
<1>6. CASE Client!ServerRejects
  <2>1. UNCHANGED <<mpc, refresh, session, accountKnown, deviceKnown>>
    BY <1>6 DEF Client!ServerRejects
  <2> QED BY <1>6, <2>1, Answer DEF Known
<1>7. CASE Client!CallReturns
  <2>1. /\ rpc' = Client!Idle /\ ~Client!Free /\ accountKnown' = accountKnown
        /\ Client!NextStep(rpc.state = "ok")
        /\ session => session'
        /\ deviceKnown => deviceKnown'
        /\ rpc.state = "ok" /\ rpc.op \in {"register", "login"} => session'
        /\ rpc.state = "ok" /\ rpc.op = "device" => deviceKnown'
    BY <1>7 DEF Client!CallReturns, Client!Absorb
  <2> QED BY <2>1, Silence DEF Client!NextStep, Known, Calls
<1>8. CASE Client!CallTimesOut
  <2>1. /\ rpc' = Client!Idle /\ Client!NextStep(FALSE)
        /\ UNCHANGED <<session, accountKnown, deviceKnown>>
    BY <1>8 DEF Client!CallTimesOut
  <2> QED BY <2>1, Silence DEF Client!NextStep, Known
<1>9. CASE Client!SessionExpires
  BY <1>9 DEF Client!SessionExpires, Known
<1>10. ASSUME NEW op \in Client!Ops, Client!ServerProcessesLate(op) PROVE Known'
  <2>1. /\ UNCHANGED <<mpc, refresh, rpc, session, deviceKnown>>
        /\ accountKnown => accountKnown'
    BY <1>10 DEF Client!ServerProcessesLate, Client!ServerEffect
  <2> QED BY <2>1 DEF Known
<1>11. ASSUME NEW d \in Dials, \/ Client!DialConnects(d) \/ Client!GetProxyCredentials(d)
                               \/ Client!DialEnds(d)
       PROVE  UNCHANGED <<mpc, refresh, rpc, session, accountKnown, deviceKnown>>
  BY <1>11 DEF Client!DialConnects, Client!GetProxyCredentials, Client!DialEnds
<1>12. UNCHANGED Client!vars =>
          UNCHANGED <<mpc, refresh, rpc, session, accountKnown, deviceKnown>>
  BY DEF Client!vars
<1> QED BY <1>1, <1>2, <1>3, <1>4, <1>5, <1>6, <1>7, <1>8, <1>9, <1>10, <1>11, <1>12,
           ClientActions

\* So what the caller of an outstanding call knows is what the API asks for.
LEMMA KnownAllows == CallType /\ Flags /\ Calls /\ Known => Client!CallsAllowed
<1> SUFFICES ASSUME CallType, Flags, Calls, Known, ~Client!Free PROVE Client!Allowed(rpc.op)
  BY DEF Client!CallsAllowed
<1>1. rpc.op \in Client!Ops /\ rpc.owner \in {Client!Main, Client!Refresher}
  BY CallInProgress
<1>2. CASE rpc.op = "register"
  BY <1>2 DEF Client!Allowed
<1>3. CASE rpc.op = "login"
  BY <1>1, <1>3 DEF Client!Allowed, Calls, Known
<1>4. CASE rpc.op = "device"
  <2>1. mpc = "device"
    BY <1>1, <1>4 DEF Calls, Flags
  <2> QED BY <1>4, <2>1 DEF Client!Allowed, Known
<1>5. CASE rpc.op = "password"
  <2>1. refresh = "password" /\ mpc = "serving"
    BY <1>1, <1>5 DEF Calls
  <2> QED BY <1>5, <2>1 DEF Client!Allowed, Known
<1> QED BY <1>1, <1>2, <1>3, <1>4, <1>5 DEF Client!Ops

\* While nothing went wrong, the client has the current password or its reply.
LEMMA NextPassword ==
    ASSUME CallType, Flags, Counts, Others, Calls, Known, Password,
           [Client!Next]_(Client!vars)
    PROVE  Password'
<1> USE CallInProgress DEF Client!callers, Client!serverVars, Client!clientVars
<1>0. faults \in Nat /\ \A d \in Dials : dial[d] = "connected" => mpc = "serving"
  BY RefreshLoopAssumption DEF Client!SEClientAssumption, Counts, Password
<1> DEFINE Asked == rpc.op \in {"device", "password"}
           Quiet == /\ late = {} /\ rpc.state # "rejected"
                    /\ Asked /\ rpc.state = "ok" => current = {"reply"}
                    /\ mpc = "serving" /\ ~(rpc.op = "password" /\ rpc.state = "ok")
                         => current = {"client"}
           Dialed == /\ \A d \in Dials : dial[d] = "connected" => mpc = "serving"
                     /\ faults = 0 => \A d \in Dials : dial[d] # "stale"
<1>1. Password <=> (faults = 0 => Quiet) /\ Dialed
  BY DEF Password, NoStaleRead, Client!NoStaleRead
<1>2. Password' <=> (faults' = 0 => Quiet') /\ Dialed'
  BY DEF Password, NoStaleRead, Client!NoStaleRead
<1>3. ASSUME faults' = faults, dial' = dial, mpc = "serving" => mpc' = "serving",
             faults = 0 /\ Quiet => Quiet'
      PROVE  Password'
  BY <1>1, <1>2, <1>3
<1>4. CASE UNCHANGED Client!vars \/ Client!SessionExpires
  BY <1>3, <1>4 DEF Client!vars, Client!SessionExpires
<1>5. CASE Client!AnonRegister \/ Client!RegisterDevice \/ Client!Login
           \/ Client!DeviceGeneratePassword
  <2>1. \E o, op : rpc' = Client!Sent(o, op)
    BY <1>5 DEF Client!AnonRegister, Client!RegisterDevice, Client!Login,
                Client!DeviceGeneratePassword
  <2>2. rpc'.state = "sent"
    BY <2>1, Request
  <2>3. /\ late' \subseteq late /\ rpc.op = "none"
        /\ UNCHANGED <<faults, dial, mpc, current>>
    BY <1>5 DEF Client!AnonRegister, Client!RegisterDevice, Client!Login,
                Client!DeviceGeneratePassword
  <2> QED BY <1>3, <2>2, <2>3
<1>6. CASE Client!GiveUp
  BY <1>3, <1>6 DEF Client!GiveUp
<1>7. CASE Client!ServerProcesses
  <2>1. /\ UNCHANGED <<faults, dial, mpc, late>>
        /\ Asked => current' = {"reply"}
        /\ rpc.op \in {"register", "login"} => current' = current
    BY <1>7 DEF Client!ServerProcesses, Client!ServerEffect
  <2>2. rpc.op = "device" => mpc # "serving"
    BY <1>7, Answer DEF Calls, Flags
  <2>3. /\ rpc'.op = rpc.op /\ rpc'.state = "ok" /\ rpc.state = "sent"
        /\ rpc.op \in Client!Ops
    BY <1>7, Answer
  <2> QED BY <1>3, <2>1, <2>2, <2>3 DEF Client!Ops
<1>8. CASE Client!ServerRejects
  <2>1. Client!Allowed(rpc.op)
    BY <1>8, Answer, KnownAllows DEF Client!CallsAllowed
  <2>2. faults' = faults + 1 /\ dial' = dial /\ mpc' = mpc
    BY <1>8, <2>1 DEF Client!ServerRejects
  <2> QED BY <1>0, <1>1, <1>2, <2>2
<1>9. CASE Client!CallReturns
  <2>1. rpc.state = "rejected" => faults' # 0
    BY <1>1, <1>9 DEF Client!CallReturns
  <2>2. ASSUME rpc.state # "rejected" PROVE Password'
    <3>1. /\ rpc' = Client!Idle /\ rpc.state = "ok" /\ ~Client!Free
          /\ Client!NextStep(TRUE) /\ UNCHANGED <<late, faults, dial>>
          /\ current' = IF Asked /\ "reply" \in current THEN {"client"} ELSE current
      BY <1>9, <2>2 DEF Client!CallReturns, Client!Absorb
    <3>2. mpc' = "serving" => mpc = "serving" \/ rpc.op = "device"
      BY <3>1 DEF Client!NextStep, Calls, Flags
    <3>3. mpc = "serving" => mpc' = "serving"
      BY <3>1 DEF Client!NextStep, Calls
    <3> QED BY <1>3, <3>1, <3>2, <3>3, Silence
  <2>3. ASSUME rpc.state = "rejected" PROVE Password'
    <3>1. dial' = dial /\ (mpc = "serving" => mpc' = "serving")
      BY <1>9, <2>3 DEF Client!CallReturns, Client!NextStep
    <3> QED BY <1>0, <1>2, <2>1, <2>3, <3>1
  <2> QED BY <2>2, <2>3
<1>10. CASE Client!CallTimesOut
  <2>1. faults' = faults + 1 /\ dial' = dial /\ (mpc = "serving" => mpc' = "serving")
    BY <1>10 DEF Client!CallTimesOut, Client!NextStep
  <2> QED BY <1>0, <1>2, <2>1
<1>11. ASSUME NEW op \in Client!Ops, Client!ServerProcessesLate(op) PROVE Password'
  <2>1. op \in late /\ UNCHANGED <<mpc, faults, dial>>
    BY <1>11 DEF Client!ServerProcessesLate
  <2> QED BY <1>3, <2>1
<1>12. ASSUME NEW d \in Dials, \/ Client!DialConnects(d) \/ Client!GetProxyCredentials(d)
                               \/ Client!DialEnds(d)
       PROVE  Password'
  <2>1. UNCHANGED <<mpc, rpc, late, faults, current>>
    BY <1>12 DEF Client!DialConnects, Client!GetProxyCredentials, Client!DialEnds
  <2>2. faults' = 0 => Quiet'
    BY <1>1, <2>1
  <2>3. CASE Client!DialConnects(d)
    <3>1. mpc = "serving" /\ dial' = [dial EXCEPT ![d] = "connected"]
      BY <2>3 DEF Client!DialConnects
    <3>2. \A e \in Dials : dial'[e] = dial[e] \/ dial'[e] = "connected"
      BY <3>1 DEF Others
    <3> QED BY <1>1, <1>2, <2>1, <2>2, <3>1, <3>2
  <2>4. CASE Client!GetProxyCredentials(d)
    <3>1. /\ rpc.op = "none" /\ dial[d] = "connected"
          /\ dial' = [dial EXCEPT ![d] = Client!CredentialsRead]
      BY <2>4 DEF Client!GetProxyCredentials
    <3>2. /\ Client!CredentialsRead \in {"fresh", "stale"}
          /\ faults = 0 => Client!CredentialsRead = "fresh"
      BY <1>0, <1>1, <3>1 DEF Client!CredentialsRead
    <3>3. \A e \in Dials : dial'[e] = dial[e] \/ dial'[e] = Client!CredentialsRead
      BY <3>1 DEF Others
    <3> QED BY <1>1, <1>2, <2>1, <2>2, <3>2, <3>3
  <2>5. CASE Client!DialEnds(d)
    <3>1. \A e \in Dials : dial'[e] = dial[e] \/ dial'[e] = "idle"
      BY <2>5 DEF Client!DialEnds, Others
    <3> QED BY <1>1, <1>2, <2>1, <2>2, <3>1
  <2> QED BY <1>12, <2>3, <2>4, <2>5
<1> QED BY <1>4, <1>5, <1>6, <1>7, <1>8, <1>9, <1>10, <1>11, <1>12, ClientActions

-----------------------------------------------------------------------------
(* The composition *)

\* When the callback returns, the next wait is short unless it got a password.
LEMMA CallbackWait ==
    ASSUME NEW failed \in BOOLEAN, Clock!CallbackReturns(failed)
    PROVE  phase' = "waiting" /\ (failed => monoLeft' = RetryInterval)
  BY DEF Clock!CallbackReturns, Clock!NextInterval, Clock!StartWaiting

\* Timer and callback take turns, and a password lost to the callback's own
\* error is asked for soon.
LEMMA NextTurns ==
    ASSUME CallType, Flags, Calls, ClockInv, Turns, [Next]_vars
    PROVE  Turns'
<1> USE CallInProgress, ClockNumbers
        DEF clientVars, clockVars, Client!callers, Client!serverVars, Client!clientVars
<1>0. /\ lateEffect \in BOOLEAN /\ phase \in {"waiting", "running"} /\ monoLeft \in Int
      /\ phase = "waiting" <=> refresh = "wait"
  BY DEF Turns, ClockInv, Clock!TypeOK
<1> DEFINE Asked == rpc.op \in {"device", "password"}
<1>1. CASE UNCHANGED vars
  BY <1>1 DEF vars, Turns, StaleOnlyBriefly
<1>2. CASE Waits(Clock!Wait)
  <2>1. /\ phase' = phase /\ UNCHANGED <<mpc, refresh, rpc, current, lateEffect>>
        /\ monoLeft' \in {monoLeft, monoLeft - 1}
    BY <1>2 DEF Waits, Clock!Wait, Clock!Tick, Clock!WallClockJumps, Clock!IgnoreTick
  <2> QED BY <1>0, <2>1 DEF Turns, StaleOnlyBriefly
<1>3. CASE Fires
  <2>1. /\ phase' = "running" /\ refresh' = "login" /\ UNCHANGED <<lateEffect, mpc, current>>
        /\ rpc' = Client!Sent(Client!Refresher, "login")
    BY <1>3 DEF Fires, Clock!Fire, Client!Login
  <2> QED BY <1>0, <2>1, Request DEF Turns, StaleOnlyBriefly
<1>4. CASE AsksPassword \/ Initialises
  <2>1. /\ \E o, op : rpc' = Client!Sent(o, op)
        /\ UNCHANGED <<mpc, refresh, current, lateEffect, phase, monoLeft>>
    BY <1>4 DEF AsksPassword, Initialises, Undisturbed, Client!Initialise,
                Client!DeviceGeneratePassword, Client!AnonRegister, Client!RegisterDevice
  <2> QED BY <2>1, Request DEF Turns, StaleOnlyBriefly
<1>5. CASE GivesUp
  <2>1. mpc' = "exited" /\ UNCHANGED <<rpc, refresh, current, lateEffect, phase>>
    BY <1>5 DEF GivesUp, Undisturbed, Client!GiveUp
  <2> QED BY <2>1 DEF Turns, StaleOnlyBriefly
<1>6. CASE SessionExpires
  <2>1. UNCHANGED <<mpc, rpc, refresh, current, lateEffect, phase, monoLeft>>
    BY <1>6 DEF SessionExpires, Undisturbed, Client!SessionExpires
  <2> QED BY <2>1 DEF Turns, StaleOnlyBriefly
<1>7. CASE ServerProcesses
  <2>1. /\ UNCHANGED <<mpc, refresh, phase, monoLeft>>
        /\ rpc'.op = rpc.op /\ rpc'.state = "ok" /\ ~Client!Free
        /\ lateEffect' = (lateEffect /\ current' = current)
        /\ Asked => current' = {"reply"}
        /\ rpc.op \in {"register", "login"} => current' = current
    BY <1>7, Answer DEF ServerProcesses, Client!ServerProcesses, Client!ServerEffect
  <2>2. ~(mpc = "serving" /\ refresh = "wait")
    BY <2>1 DEF Calls
  <2> QED BY <1>0, <2>1, <2>2 DEF Turns, StaleOnlyBriefly
<1>8. CASE ServerRejects
  <2>1. /\ UNCHANGED <<mpc, refresh, phase, monoLeft, current, lateEffect>>
        /\ rpc'.state = "rejected"
    BY <1>8, Answer DEF ServerRejects, Undisturbed, Client!ServerRejects
  <2> QED BY <2>1 DEF Turns, StaleOnlyBriefly
<1>9. CASE Returns
  <2>1. /\ rpc' = Client!Idle /\ ~Client!Free /\ lateEffect' = lateEffect
        /\ Client!NextStep(rpc.state = "ok")
        /\ rpc.state # "ok" => current' = current
        /\ rpc.state = "ok" =>
             current' = IF Asked /\ "reply" \in current THEN {"client"} ELSE current
    BY <1>9 DEF Returns, CallEnds, Client!CallReturns, Client!Absorb
  <2>2. CASE rpc.owner = Client!Refresher /\ refresh' # "password"
    <3>1. Clock!CallbackReturns(~(rpc.state = "ok" /\ rpc.op = "password"))
      BY <1>9, <2>2 DEF Returns, CallEnds
    <3>2. /\ phase' = "waiting"
          /\ (rpc.state = "ok" /\ rpc.op = "password") \/ monoLeft' = RetryInterval
      BY <3>1, CallbackWait
    <3>3. refresh' = "wait"
      BY <2>1, <2>2 DEF Client!NextStep
    <3>4. rpc.state = "ok" /\ rpc.op = "password" /\ ~lateEffect => current' = {"client"}
      BY <2>1 DEF Turns
    <3> QED BY <1>0, <2>1, <3>2, <3>3, <3>4, Silence DEF Turns, StaleOnlyBriefly
  <2>3. CASE ~(rpc.owner = Client!Refresher /\ refresh' # "password")
    <3>1. phase' = phase /\ monoLeft' = monoLeft
      BY <1>9, <2>3 DEF Returns, CallEnds
    <3>2. refresh' = "wait" <=> refresh = "wait"
      BY <2>1, <2>3 DEF Client!NextStep, Calls
    <3>3. CASE rpc.owner = Client!Main
      <4>1. /\ refresh' = refresh /\ refresh = "wait"
            /\ mpc' = "serving" => rpc.op = "device" /\ rpc.state = "ok"
        BY <2>1, <3>3 DEF Client!NextStep, Calls
      <4>2. mpc' = "serving" /\ ~lateEffect => current' = {"client"}
        BY <2>1, <4>1 DEF Turns
      <4> QED BY <1>0, <2>1, <3>1, <3>2, <4>2, Silence DEF Turns, StaleOnlyBriefly
    <3>4. CASE rpc.owner = Client!Refresher
      <4>1. refresh' = "password"
        BY <2>3, <3>4
      <4> QED BY <1>0, <2>1, <3>1, <3>2, <4>1, Silence DEF Turns, StaleOnlyBriefly
    <3> QED BY <2>1, <3>3, <3>4
  <2> QED BY <2>2, <2>3
<1>10. CASE TimesOut
  <2>1. /\ rpc' = Client!Idle /\ ~Client!Free /\ lateEffect' = lateEffect
        /\ Client!NextStep(FALSE)
    BY <1>10 DEF TimesOut, CallEnds, Client!CallTimesOut
  <2>2. CASE rpc.owner = Client!Refresher
    <3>1. refresh' = "wait"
      BY <2>1, <2>2 DEF Client!NextStep
    <3>2. Clock!CallbackReturns(~(FALSE /\ rpc.op = "password"))
      BY <1>10, <2>2, <3>1 DEF TimesOut, CallEnds
    <3>3. phase' = "waiting" /\ monoLeft' = RetryInterval
      BY <3>2, CallbackWait
    <3> QED BY <1>0, <2>1, <3>1, <3>3, Silence DEF Turns, StaleOnlyBriefly
  <2>3. CASE rpc.owner = Client!Main
    <3>1. /\ phase' = phase /\ refresh' = refresh /\ mpc' = mpc
          /\ mpc # "serving"
      BY <1>10, <2>1, <2>3 DEF TimesOut, CallEnds, Client!NextStep, Calls
    <3> QED BY <1>0, <2>1, <3>1, Silence DEF Turns, StaleOnlyBriefly
  <2> QED BY <2>1, <2>2, <2>3
<1>11. ASSUME NEW op \in Client!Ops, ServerProcessesLate(op) PROVE Turns'
  <2>1. /\ UNCHANGED <<mpc, rpc, refresh, phase, monoLeft>>
        /\ lateEffect' = (lateEffect \/ current' # current)
    BY <1>11 DEF ServerProcessesLate, Client!ServerProcessesLate
  <2> QED BY <1>0, <2>1 DEF Turns, StaleOnlyBriefly
<1>12. ASSUME NEW d \in Dials, Dialing(d) PROVE Turns'
  <2>1. UNCHANGED <<mpc, rpc, refresh, current, lateEffect, phase, monoLeft>>
    BY <1>12 DEF Dialing, Undisturbed, Client!DialConnects, Client!GetProxyCredentials,
                 Client!DialEnds
  <2> QED BY <2>1 DEF Turns, StaleOnlyBriefly
<1> QED BY <1>1, <1>2, <1>3, <1>4, <1>5, <1>6, <1>7, <1>8, <1>9, <1>10, <1>11, <1>12
        DEF Next, Network

-----------------------------------------------------------------------------
(* The results *)

\* The loop starts with nothing sent, known or read, in the first wait.
LEMMA InitInv == Init => IInv
<1> SUFFICES ASSUME Init PROVE IInv
  OBVIOUS
<1>1. InitRetries \in Nat /\ MaxFaults \in Nat
  BY RefreshLoopAssumption DEF Client!SEClientAssumption
<1>2. Client!Init /\ Clock!Init /\ lateEffect = FALSE
  BY DEF Init
<1>3. Client!TypeOK
  <2>1. CallType /\ Flags
    BY <1>2 DEF Client!Init, CallType, Flags
  <2>2. Counts
    BY <1>1, <1>2 DEF Client!Init, Counts
  <2>3. Others
    BY <1>2 DEF Client!Init, Others
  <2> QED BY <2>1, <2>2, <2>3, ClientTypeParts
<1>4. Calls /\ Known
  BY <1>2 DEF Client!Init, Client!Idle, Client!Main, Client!Refresher, Calls, Known
<1>5. Password
  BY <1>2 DEF Client!Init, Client!Idle, Password, NoStaleRead, Client!NoStaleRead
<1>6. Turns
  BY <1>2 DEF Client!Init, Client!Idle, Clock!Init, Turns, StaleOnlyBriefly
<1> QED BY <1>2, <1>3, <1>4, <1>5, <1>6, InitClock DEF IInv, ClientInv

\* Every step keeps the invariant: the parts keep theirs, and the composition
\* keeps what relates them.
LEMMA NextInv == IInv /\ [Next]_vars => IInv'
<1> SUFFICES ASSUME IInv, [Next]_vars PROVE IInv'
  OBVIOUS
<1>1. /\ Client!TypeOK /\ CallType /\ Flags /\ Counts /\ Others
      /\ Calls /\ Known /\ Password /\ ClockInv /\ Turns
  BY ClientTypeParts DEF IInv, ClientInv
<1>2. [Client!Next]_(Client!vars) /\ [Clock!Next]_(Clock!vars)
  BY ClientStep, ClockStep
<1>3. Client!TypeOK' /\ Calls' /\ Known' /\ Password'
  BY <1>1, <1>2, NextClientType, NextCalls, NextKnown, NextPassword
<1>4. ClockInv'
  BY <1>1, <1>2, NextClock
<1>5. Turns'
  BY <1>1, NextTurns
<1> QED BY <1>3, <1>4, <1>5 DEF IInv, ClientInv

\* The inductive invariant holds throughout.
LEMMA Invariance == Spec => []IInv
  BY InitInv, NextInv, PTL DEF Spec

(***************************************************************************)
(* Every variable of the client and the timer keeps its type: no step is   *)
(* tried more often than -init-retries allows, and no wait has more left   *)
(* than the longer interval.                                               *)
(***************************************************************************)
THEOREM TypesCorrect == Spec => [](Client!TypeOK /\ Clock!TypeOK)
<1>1. IInv => Client!TypeOK /\ Clock!TypeOK
  BY DEF IInv, ClientInv, ClockInv
<1> QED BY <1>1, Invariance, PTL

(***************************************************************************)
(* The client never makes a call the API has to refuse, whatever is lost,  *)
(* delayed or retried: it registered before it logs in, and has a session  *)
(* before it asks for a password.                                          *)
(***************************************************************************)
THEOREM CallsAlwaysAllowed == Spec => []CallsAllowed
<1>1. IInv => CallsAllowed
  BY KnownAllows, ClientTypeParts DEF IInv, ClientInv, CallsAllowed
<1> QED BY <1>1, Invariance, PTL

(***************************************************************************)
(* As long as no call went wrong, no connection is dialed with a password  *)
(* that the server has replaced, however refresh and dials interleave.     *)
(***************************************************************************)
THEOREM CredentialsFresh == Spec => []NoStaleRead
<1>1. IInv => NoStaleRead
  BY DEF IInv, ClientInv, Password
<1> QED BY <1>1, Invariance, PTL

(***************************************************************************)
(* A wait ends with the first tick that sees the deadline passed, however  *)
(* long the machine slept and wherever its clock was set.                  *)
(***************************************************************************)
THEOREM TickNeverMissed == Spec => []WakesAfterSleep
<1>1. IInv => WakesAfterSleep
  BY DEF IInv, ClockInv, Clocks
<1> QED BY <1>1, Invariance, PTL

(***************************************************************************)
(* The callback never starts early: one of the two clocks has reached the  *)
(* deadline, since the tick that is looked at shows the wall clock as it   *)
(* stands (clock.go:9-31).                                                 *)
(***************************************************************************)
THEOREM CallbackNeverEarly == Spec => Clock!NeverEarly
<1>1. ASSUME IInv, [Next]_vars
      PROVE  [phase = "waiting" /\ phase' = "running" => monoLeft = 0 \/ wallLeft < 0]_(Clock!vars)
  <2> SUFFICES ASSUME phase = "waiting", phase' = "running"
               PROVE  monoLeft = 0 \/ wallLeft < 0
    OBVIOUS
  <2>1. monoLeft \in Nat /\ (ticked => tickLeft = wallLeft)
    BY <1>1, ClockNumbers DEF IInv, ClockInv, Clocks, Clock!TypeOK
  <2>2. [Clock!Next]_(Clock!vars)
    BY <1>1, ClockStep
  <2>3. Clock!Fire
    BY <2>2 DEF Clock!Next, Clock!vars, Clock!Wait, Clock!Tick, Clock!WallClockJumps,
                Clock!IgnoreTick, Clock!CallbackReturns
  <2> QED BY <2>1, <2>3 DEF Clock!Fire, Clock!TimerReady, Clock!PastDeadline
<1> QED BY <1>1, Invariance, PTL DEF Spec, Clock!NeverEarly

(***************************************************************************)
(* A client left without a valid password by the refresh waits the short   *)
(* interval only: the callback's error reaches the timer.                  *)
(***************************************************************************)
THEOREM StaleIsBrief == Spec => []StaleOnlyBriefly
<1>1. IInv => StaleOnlyBriefly
  BY DEF IInv, Turns
<1> QED BY <1>1, Invariance, PTL
=============================================================================
