------------------------------ MODULE SEClient ------------------------------
(***************************************************************************)
(* The SurfEasy client and everything that shares it: run's initialisation *)
(* steps with their retries (main.go), the refresh callback RunTicker      *)
(* calls for ever (clock/clock.go), and the dials that read the proxy      *)
(* credentials in mid-connection (dialer/upstream.go).  Every method of    *)
(* SEClient (seclient/seclient.go) holds Mux from its first line to its    *)
(* return, the RPC included.                                               *)
(*                                                                         *)
(* Passwords are abstracted to whether their holder's copy is the one the  *)
(* server now accepts.  The network may lose, reject or delay a call; a    *)
(* call that timed out here may still be processed there later.  At most   *)
(* MaxFaults calls go wrong in a behaviour.                                *)
(***************************************************************************)
EXTENDS Integers, FiniteSets

CONSTANTS Dials,       \* connections being dialed through the proxy
          InitRetries, \* args.initRetries; 0 means no limit
          MaxFaults    \* bound on calls that fail

SEClientAssumption == InitRetries \in Nat /\ MaxFaults \in Nat

Main == "main"           \* owners of Mux
Refresher == "refresher"

VARIABLES
    mpc,          \* run(): "register", "device", "serving" or "exited"
    attempts,     \* attempts of the current initialisation step so far
    rpc,          \* the outstanding call: [owner, op, state], or Idle: Mux is free
    refresh,      \* where the refresh callback is: "wait", "login" or "password"
    late,         \* timed-out calls the server may still process
    faults,       \* calls gone wrong so far
    session,      \* the cookie jar holds a session the server knows
    accountKnown, \* the server knows SubscriberEmail
    deviceKnown,  \* AssignedDeviceID is a device of the server
    current,      \* who holds the password the server now accepts: "client", "reply"
    dial          \* dial[d]: "idle", "connected", "fresh" or "stale"

serverVars == <<accountKnown, current>>
clientVars == <<session, deviceKnown>>
callers == <<mpc, attempts, refresh>>
vars == <<callers, rpc, late, faults, serverVars, clientVars, dial>>

Idle == [owner |-> "none", op |-> "none", state |-> "none"]
Free == rpc = Idle
Ops == {"register", "device", "login", "password"}

Init ==
    /\ mpc = "register" /\ attempts = 0
    /\ rpc = Idle /\ refresh = "wait"
    /\ late = {} /\ faults = 0
    /\ session = FALSE /\ accountKnown = FALSE /\ deviceKnown = FALSE
    /\ current = {}
    /\ dial = [d \in Dials |-> "idle"]

Sent(owner, op) == [owner |-> owner, op |-> op, state |-> "sent"]

-----------------------------------------------------------------------------
(* run(): the initialisation steps *)

\* AnonRegister: a new random address for every attempt and an empty jar, then
\* the call.  A delayed registration of an earlier address concerns nobody.
AnonRegister ==
    /\ mpc = "register" /\ Free
    /\ rpc' = Sent(Main, "register")
    /\ attempts' = attempts + (IF InitRetries = 0 THEN 0 ELSE 1)
    /\ accountKnown' = FALSE
    /\ session' = FALSE
    /\ late' = late \ {"register"}
    /\ UNCHANGED <<mpc, refresh, faults, deviceKnown, current, dial>>

RegisterDevice ==
    /\ mpc = "device" /\ Free
    /\ rpc' = Sent(Main, "device")
    /\ attempts' = attempts + (IF InitRetries = 0 THEN 0 ELSE 1)
    /\ UNCHANGED <<mpc, refresh, late, faults, serverVars, clientVars, dial>>

\* retryPolicy gives up on a step after InitRetries failed attempts.
GiveUp ==
    /\ mpc \in {"register", "device"} /\ Free
    /\ InitRetries > 0 /\ attempts = InitRetries
    /\ mpc' = "exited"
    /\ UNCHANGED <<attempts, rpc, refresh, late, faults, serverVars, clientVars, dial>>

AttemptsLeft == InitRetries = 0 \/ attempts < InitRetries

-----------------------------------------------------------------------------
(* The refresh callback of RunTicker, for as long as the process runs *)

\* The timer fires and Login starts: empty jar, then the call.
Login ==
    /\ mpc = "serving" /\ refresh = "wait" /\ Free
    /\ refresh' = "login"
    /\ session' = FALSE
    /\ rpc' = Sent(Refresher, "login")
    /\ UNCHANGED <<mpc, attempts, late, faults, serverVars, deviceKnown, dial>>

DeviceGeneratePassword ==
    /\ refresh = "password" /\ Free
    /\ rpc' = Sent(Refresher, "password")
    /\ UNCHANGED <<callers, late, faults, serverVars, clientVars, dial>>

-----------------------------------------------------------------------------
(* The SurfEasy API, as seclient.go relies on it: registration and login   *)
(* open a session, the other calls need one; a generated password replaces *)
(* the device's previous one.                                              *)

\* The state a processed call leaves the server in; who is told the password.
ServerEffect(op, told) ==
    CASE op = "register" -> accountKnown' = TRUE /\ UNCHANGED current
      [] op = "login"    -> UNCHANGED serverVars
      [] OTHER           -> current' = told /\ UNCHANGED accountKnown

Allowed(op) ==
    CASE op = "register" -> TRUE
      [] op = "login"    -> accountKnown
      [] op = "device"   -> session
      [] op = "password" -> session /\ deviceKnown

ServerProcesses ==
    /\ rpc.state = "sent" /\ Allowed(rpc.op)
    /\ ServerEffect(rpc.op, {"reply"})
    /\ rpc' = [rpc EXCEPT !.state = "ok"]
    /\ UNCHANGED <<callers, late, faults, clientVars, dial>>

\* An error status: the call is not allowed, or a fault of the service.
ServerRejects ==
    /\ rpc.state = "sent"
    /\ ~Allowed(rpc.op) \/ faults < MaxFaults
    /\ faults' = IF Allowed(rpc.op) THEN faults + 1 ELSE faults
    /\ rpc' = [rpc EXCEPT !.state = "rejected"]
    /\ UNCHANGED <<callers, late, serverVars, clientVars, dial>>

\* A call whose caller has given up takes effect after all; a repeated device
\* registration may also give a device of its own.
ServerProcessesLate(op) ==
    /\ op \in late
    /\ late' = late \ {op}
    /\ ServerEffect(op, {}) \/ (op = "device" /\ UNCHANGED serverVars)
    /\ UNCHANGED <<callers, rpc, faults, clientVars, dial>>

\* A session lasts longer than the calls of one refresh, not until the next.
SessionExpires ==
    /\ mpc = "serving" /\ refresh = "wait" /\ session
    /\ session' = FALSE
    /\ UNCHANGED <<callers, rpc, late, faults, serverVars, deviceKnown, dial>>

-----------------------------------------------------------------------------
(* The return of a call: Mux is released and the caller goes on *)

\* Mutant: the refresh loop ends with its first error.
NextStepNoRetry(ok) ==
    /\ mpc' = IF rpc.owner = Main /\ ok
              THEN IF rpc.op = "register" THEN "device" ELSE "serving"
              ELSE mpc
    /\ attempts' = IF rpc.owner = Main /\ ok THEN 0 ELSE attempts
    /\ refresh' = IF rpc.owner = Refresher
                  THEN IF ~ok THEN "stopped"
                       ELSE IF rpc.op = "login" THEN "password" ELSE "wait"
                  ELSE refresh

NextStep(ok) ==
    /\ mpc' = IF rpc.owner = Main /\ ok
              THEN IF rpc.op = "register" THEN "device" ELSE "serving"
              ELSE mpc
    /\ attempts' = IF rpc.owner = Main /\ ok THEN 0 ELSE attempts
    /\ refresh' = IF rpc.owner = Refresher
                  THEN IF ok /\ rpc.op = "login" THEN "password" ELSE "wait"
                  ELSE refresh

\* What a successful reply changes in the client.
Absorb ==
    /\ session' = (session \/ rpc.op \in {"register", "login"})
    /\ deviceKnown' = (deviceKnown \/ rpc.op = "device")
    /\ current' = IF rpc.op \in {"device", "password"} /\ "reply" \in current
                  THEN {"client"} ELSE current

\* regRes.Status.Code is checked: only SE_STATUS_OK changes the client.
CallReturns ==
    /\ rpc.state \in {"ok", "rejected"}
    /\ rpc' = Idle
    /\ NextStep(rpc.state = "ok")
    /\ IF rpc.state = "ok" THEN Absorb ELSE UNCHANGED <<clientVars, current>>
    /\ UNCHANGED <<late, faults, accountKnown, dial>>

\* Mutant: the error path does not release Mux.
CallTimesOutKeepingMux ==
    /\ ~Free /\ faults < MaxFaults
    /\ faults' = faults + 1
    /\ rpc' = [rpc EXCEPT !.state = "abandoned"]
    /\ NextStep(FALSE)
    /\ UNCHANGED <<late, serverVars, clientVars, dial>>

\* The request or the reply is lost, or neither comes within args.timeout.
CallTimesOut ==
    /\ ~Free /\ faults < MaxFaults
    /\ faults' = faults + 1
    /\ rpc' = Idle
    /\ NextStep(FALSE)
    /\ late' \in {late, IF rpc.state = "sent" /\ Allowed(rpc.op)
                        THEN late \cup {rpc.op} ELSE late}
    /\ current' = current \ {"reply"}
    /\ UNCHANGED <<accountKnown, clientVars, dial>>

-----------------------------------------------------------------------------
(* ProxyDialer.DialContext: connect, then GetProxyCredentials, then CONNECT *)

DialConnects(d) ==
    /\ mpc = "serving" /\ dial[d] = "idle"
    /\ dial' = [dial EXCEPT ![d] = "connected"]
    /\ UNCHANGED <<callers, rpc, late, faults, serverVars, clientVars>>

CredentialsRead == IF "client" \in current THEN "fresh" ELSE "stale"

\* Mutant: the credentials are read without taking Mux.
GetProxyCredentialsUnlocked(d) ==
    /\ dial[d] = "connected"
    /\ dial' = [dial EXCEPT ![d] = CredentialsRead]
    /\ UNCHANGED <<callers, rpc, late, faults, serverVars, clientVars>>

\* GetProxyCredentials waits for Mux, that is for the call in progress.
GetProxyCredentials(d) ==
    /\ dial[d] = "connected" /\ Free
    /\ dial' = [dial EXCEPT ![d] = CredentialsRead]
    /\ UNCHANGED <<callers, rpc, late, faults, serverVars, clientVars>>

DialEnds(d) ==
    /\ dial[d] \in {"fresh", "stale"}
    /\ dial' = [dial EXCEPT ![d] = "idle"]
    /\ UNCHANGED <<callers, rpc, late, faults, serverVars, clientVars>>

-----------------------------------------------------------------------------

Initialise == AttemptsLeft /\ (AnonRegister \/ RegisterDevice)
Network == ServerProcesses \/ ServerRejects \/ CallReturns \/ CallTimesOut
Refresh == Login \/ DeviceGeneratePassword

Next ==
    \/ Initialise \/ GiveUp \/ Refresh \/ Network \/ SessionExpires
    \/ \E op \in Ops : ServerProcessesLate(op)
    \/ \E d \in Dials : DialConnects(d) \/ GetProxyCredentials(d) \/ DialEnds(d)

Spec == Init /\ [][Next]_vars

-----------------------------------------------------------------------------

TypeOK ==
    /\ mpc \in {"register", "device", "serving", "exited"}
    /\ attempts \in 0..InitRetries
    /\ rpc \in {Idle} \cup [owner : {Main, Refresher}, op : Ops,
                            state : {"sent", "ok", "rejected"}]
    /\ refresh \in {"wait", "login", "password"}
    /\ late \in SUBSET Ops /\ faults \in 0..MaxFaults
    /\ session \in BOOLEAN /\ accountKnown \in BOOLEAN /\ deviceKnown \in BOOLEAN
    /\ current \in {{}, {"client"}, {"reply"}}
    /\ dial \in [Dials -> {"idle", "connected", "fresh", "stale"}]

(***************************************************************************)
(* The client never makes a call the API has to refuse: it logs in to an   *)
(* account that was registered, also after a registration whose reply was  *)
(* lost, and it holds a session whenever it registers the device or asks   *)
(* for a password, also right after the jar was reset (seclient.go:132,    *)
(* 147, 228; main.go:846-862, 1011-1032).                                  *)
(***************************************************************************)
CallsAllowed == ~Free => Allowed(rpc.op)

(***************************************************************************)
(* As long as no call went wrong, a dial never reads a password that the   *)
(* server has already replaced: reading waits for the refresh in progress  *)
(* (seclient.go:250-251, 270-271).                                         *)
(***************************************************************************)
NoStaleRead == faults = 0 => \A d \in Dials : dial[d] # "stale"

(***************************************************************************)
(* A lost reply or a delayed call leaves the client with a password the    *)
(* server no longer accepts, but not for good: once calls stop failing,    *)
(* the client's password is the current one, or its reply is on its way.   *)
(***************************************************************************)
PasswordHeals ==
    <>[](mpc = "exited" \/ (mpc = "serving" /\ current # {}))

\* A dial that waits for Mux gets its credentials: no call keeps it for ever.
DialsGetCredentials ==
    \A d \in Dials : (dial[d] = "connected") ~> (dial[d] # "connected")
=============================================================================
