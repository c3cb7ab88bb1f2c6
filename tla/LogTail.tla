------------------------------- MODULE LogTail -------------------------------
(***************************************************************************)
(* The live log view of the desktop program: an effect of the page (the    *)
(* renderer process, ui/pages/LogsPage.tsx) starts and stops tail sessions *)
(* that live in the main process (electron/main/index.ts), by calls and    *)
(* answers that cross between the two.  A tail is numbered by the run of   *)
(* the effect that asks for it.                                            *)
(*                                                                         *)
(* Snapshots are identified by their run.  A session sends equal ones, so  *)
(* those on their way are a set of sessions; an error in reading them is   *)
(* sent in their place.  Nothing orders them with the answers to calls.    *)
(* The labels for loading and errors are left out.                         *)
(***************************************************************************)
EXTENDS Naturals

CONSTANTS Runs,    \* run directories
          MaxTails \* bound on the effects that ask for a tail

ASSUME TailAssumption == MaxTails \in Nat

Tails == 1..MaxTails
NoRun == "no run"
NoTail == 0

ASSUME RunAssumption == NoRun \notin Runs

VARIABLES
    window,    \* there is a window
    mounted,   \* it shows the Logs page
    active,    \* activeRunId
    effect,    \* the tail of the effect that has not been cleaned up
    used,      \* effects so far
    runOf,     \* the run of each tail
    place,     \* what the renderer knows of it: "calling" for it, the answer
               \* on its way ("replying"), its session "known", or "over"
    stops,     \* stopLogTail calls on their way
    lost,      \* tails of a renderer that was reloaded
    refreshes, \* runs whose getLogSnapshots was called by the button
    shown,     \* the run whose snapshots the page holds
    sessions,  \* logTailSessions of the main process
    data       \* sessions with logs:tailData on its way

page == <<mounted, active, effect>>
tails == <<used, runOf, place, stops, lost>>
viewVars == <<window, page, tails, refreshes, shown, sessions, data>>

ViewTypeOK ==
    /\ window \in BOOLEAN /\ mounted \in BOOLEAN
    /\ active \in Runs \cup {NoRun}
    /\ effect \in Tails \cup {NoTail}
    /\ used \in 0..MaxTails
    /\ runOf \in [Tails -> Runs \cup {NoRun}]
    /\ place \in [Tails -> {"unused", "calling", "replying", "known", "over"}]
    /\ stops \subseteq Tails /\ lost \subseteq Tails
    /\ sessions \subseteq Tails /\ data \subseteq Tails
    /\ refreshes \subseteq Runs
    /\ shown \in Runs \cup {NoRun}

ViewInit ==
    /\ window = TRUE /\ mounted = FALSE
    /\ active = NoRun /\ effect = NoTail
    /\ used = 0 /\ runOf = [k \in Tails |-> NoRun] /\ place = [k \in Tails |-> "unused"]
    /\ stops = {} /\ lost = {} /\ refreshes = {} /\ shown = NoRun
    /\ sessions = {} /\ data = {}

-----------------------------------------------------------------------------
(* The page *)

\* The effect's cleanup stops a session it knows the id of.
Cleanup == stops' = IF effect # NoTail /\ place[effect] = "known"
                      THEN stops \cup {effect} ELSE stops

\* The effect asks for a tail of its run.
Ask(r) ==
    /\ used < MaxTails
    /\ used' = used + 1 /\ effect' = used + 1
    /\ runOf' = [runOf EXCEPT ![used + 1] = r]
    /\ place' = [place EXCEPT ![used + 1] = "calling"]

OpenPage ==
    /\ window /\ ~mounted
    /\ mounted' = TRUE
    /\ UNCHANGED <<window, active, effect, tails, refreshes, shown, sessions, data>>

\* activeRunId changes, by choice or by refreshRuns: the old effect is cleaned
\* up, and the new one asks.  The snapshots stay until others arrive.
SelectRun(r) ==
    /\ mounted /\ active # r
    /\ active' = r
    /\ Cleanup
    /\ Ask(r)
    /\ UNCHANGED <<window, mounted, lost, refreshes, shown, sessions, data>>

\* clearLogs empties activeRunId and with it the snapshots.
ClearLogs ==
    /\ mounted
    /\ active' = NoRun /\ effect' = NoTail /\ shown' = NoRun
    /\ Cleanup
    /\ UNCHANGED <<window, mounted, used, runOf, place, lost, refreshes, sessions, data>>

LeavePage ==
    /\ mounted
    /\ mounted' = FALSE /\ active' = NoRun /\ effect' = NoTail
    /\ Cleanup
    /\ refreshes' = {} /\ shown' = NoRun
    /\ UNCHANGED <<window, used, runOf, place, lost, sessions, data>>

\* refreshSnapshots: its answer is shown whatever the run is by then.
RefreshLogs ==
    /\ mounted
    /\ IF active = NoRun
         THEN shown' = NoRun /\ UNCHANGED refreshes
         ELSE refreshes' = refreshes \cup {active} /\ UNCHANGED shown
    /\ UNCHANGED <<window, page, tails, sessions, data>>

RefreshArrives(r) ==
    /\ r \in refreshes
    /\ refreshes' = refreshes \ {r} /\ shown' = r
    /\ UNCHANGED <<window, page, tails, sessions, data>>

\* Mutant: the answer to an effect cleaned up in the meantime is dropped.
ReplyArrivesForgetful(k) ==
    /\ place[k] = "replying" /\ k \notin lost
    /\ place' = [place EXCEPT ![k] = IF effect = k THEN "known" ELSE "over"]
    /\ UNCHANGED <<window, page, used, runOf, stops, lost, refreshes, shown, sessions, data>>

\* The session's id arrives.  An effect no longer active stops it at once.
ReplyArrives(k) ==
    /\ place[k] = "replying" /\ k \notin lost
    /\ IF effect = k
         THEN place' = [place EXCEPT ![k] = "known"] /\ UNCHANGED stops
         ELSE place' = [place EXCEPT ![k] = "over"] /\ stops' = stops \cup {k}
    /\ UNCHANGED <<window, page, used, runOf, lost, refreshes, shown, sessions, data>>

\* Only the active effect listens, and only to the session it knows.
DataArrives(k) ==
    /\ k \in data
    /\ data' = data \ {k}
    /\ shown' = IF effect = k /\ place[k] = "known" THEN runOf[k] ELSE shown
    /\ UNCHANGED <<window, page, tails, refreshes, sessions>>

-----------------------------------------------------------------------------
(* The main process *)

\* logs:tailStart: the first snapshots leave before the answer does.
TailStart(k) ==
    /\ window /\ place[k] = "calling"
    /\ place' = [place EXCEPT ![k] = "replying"]
    /\ sessions' = sessions \cup {k}
    /\ data' = IF k \in lost THEN data ELSE data \cup {k}
    /\ UNCHANGED <<window, page, used, runOf, stops, lost, refreshes, shown>>

TailStop(k) ==
    /\ k \in stops
    /\ stops' = stops \ {k} /\ sessions' = sessions \ {k}
    /\ UNCHANGED <<window, page, used, runOf, place, lost, refreshes, shown, data>>

\* Mutant: the snapshots are sent at the start only.
TimerFiresNever(k) == FALSE /\ UNCHANGED viewVars

\* Every second.  A page that was reloaded has no listener for it.
TimerFires(k) ==
    /\ k \in sessions /\ k \notin lost
    /\ data' = data \cup {k}
    /\ UNCHANGED <<window, page, tails, refreshes, shown, sessions>>

-----------------------------------------------------------------------------
(* The window *)

\* The renderer is reloaded, whatever page it shows.  What it held is gone, and
\* so are the answers it waits for; calls it has made still reach the main process.
Reload ==
    /\ window
    /\ mounted' = FALSE /\ active' = NoRun /\ effect' = NoTail
    /\ lost' = lost \cup {k \in Tails : k = effect \/ place[k] \in {"calling", "replying"}}
    /\ refreshes' = {} /\ shown' = NoRun /\ data' = {}
    /\ UNCHANGED <<window, used, runOf, place, stops, sessions>>

\* "closed", and "window-all-closed" if it comes before the page has loaded:
\* every session of the window ends.
CloseWindow ==
    /\ window
    /\ window' = FALSE
    /\ mounted' = FALSE /\ active' = NoRun /\ effect' = NoTail
    /\ place' = [k \in Tails |-> IF k \in 1..used THEN "over" ELSE place[k]]
    /\ stops' = {} /\ sessions' = {} /\ data' = {}
    /\ refreshes' = {} /\ shown' = NoRun
    /\ UNCHANGED <<used, runOf, lost>>

\* "activate" of a program that outlives its window.
NewWindow ==
    /\ ~window /\ window' = TRUE
    /\ UNCHANGED <<page, tails, refreshes, shown, sessions, data>>

Crossing(k) == ReplyArrives(k) \/ DataArrives(k) \/ TailStart(k) \/ TailStop(k) \/ TimerFires(k)

User == \/ OpenPage \/ ClearLogs \/ LeavePage \/ RefreshLogs
        \/ Reload \/ CloseWindow \/ NewWindow
        \/ \E r \in Runs : SelectRun(r)

ViewNext ==
    \/ User
    \/ \E r \in Runs : RefreshArrives(r)
    \/ \E k \in Tails : Crossing(k)

\* Messages arrive and timers fire; the user owes nothing.
ViewFairness ==
    /\ \A r \in Runs : WF_viewVars(RefreshArrives(r))
    /\ \A k \in Tails : /\ WF_viewVars(ReplyArrives(k)) /\ WF_viewVars(DataArrives(k))
                        /\ WF_viewVars(TailStart(k)) /\ WF_viewVars(TailStop(k))
                        /\ WF_viewVars(TimerFires(k))

ViewSpec == ViewInit /\ [][ViewNext]_viewVars /\ ViewFairness

-----------------------------------------------------------------------------

(***************************************************************************)
(* No timer reads log files for nobody: a session in the main process is   *)
(* the one the page shows, or it is about to be stopped, by a call on its  *)
(* way or by the effect its id is still on the way to - also if the page   *)
(* was left or changed its run before the session existed.  Only a reload  *)
(* of the renderer loses one, that of the page it shows or one whose       *)
(* answer a page left before was waiting for (LogsPage.tsx:88-110,         *)
(* index.ts:12-30, 89-126).                                                *)
(***************************************************************************)
SessionsAccountedFor ==
    \A k \in sessions : \/ k = effect \/ k \in stops \/ k \in lost
                        \/ place[k] = "replying"

(***************************************************************************)
(* A page that stays on a run comes to hold that run's snapshots and keeps *)
(* them, although the first ones sent may arrive before the session's id   *)
(* and be dropped, and a late answer to the Refresh button may bring those *)
(* of another run (LogsPage.tsx:78-96, 31-32; index.ts:114-118).           *)
(***************************************************************************)
TailShows == \A r \in Runs : <>[](active = r) => <>[](shown = r)
=============================================================================
