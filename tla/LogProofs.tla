------------------------------ MODULE LogProofs -------------------------------
(***************************************************************************)
(* Proofs about the two ends of the log.                                   *)
(*                                                                         *)
(* LogQueue: what has reached stderr is what was accepted.  The property   *)
(* speaks of written and accepted only; the invariant ties both to taken   *)
(* and to the place of the goroutine, which is where a line could get lost *)
(* or be written twice: between its receipt and its write.                 *)
(*                                                                         *)
(* LogTail: no tail session is forgotten, for every set of runs and every  *)
(* number of effects.  The invariant adds where a tail can be while it is  *)
(* the active effect's or has a session.                                   *)
(***************************************************************************)
EXTENDS LogQueue, LogTail, SequenceTheorems, TLAPS

\* Every line received is written, except the one in hand.
Handled == Len(written) = IF lpc = "recv" THEN taken ELSE taken - 1

\* What is in hand, and what ends the loop.
InHand ==
    /\ lpc = "write" => taken > 0 /\ accepted[taken] \in Lines
    /\ lpc \in {"signal", "end"} => taken > 0 /\ accepted[taken] = Shutdown
    /\ cpc = "flushed" => lpc = "end"

\* What is written is what was accepted, place by place.
Copied == \A i \in 1..Len(written) : written[i] = accepted[i]

IInv == TypeOK /\ Handled /\ InHand /\ Copied

-----------------------------------------------------------------------------

\* The shutdown nil is not a line.
LEMMA ShutdownIsNoLine == Shutdown \notin Lines
  BY LogQueueAssumption DEF Shutdown, Lines

\* The invariant holds at the start.
LEMMA InitInvariant == Init => IInv
<1> SUFFICES ASSUME Init
             PROVE  IInv
  OBVIOUS
<1>1. /\ accepted \in Seq(Lines \cup {Shutdown}) /\ written \in Seq(Lines)
      /\ Len(accepted) = 0 /\ Len(written) = 0
  BY EmptySeq DEF Init
<1>2. lines \in [Loggers -> 0..MaxLines]
  BY LogQueueAssumption DEF Init
<1>3. taken \in 0..Len(accepted) /\ Queued <= MAX_LOG_QLEN
  BY <1>1, LogQueueAssumption DEF Init, Queued
<1>4. TypeOK
  BY <1>1, <1>2, <1>3 DEF Init, TypeOK
<1>5. Handled /\ InHand /\ Copied
  BY <1>1 DEF Init, Handled, InHand, Copied
<1> QED BY <1>4, <1>5 DEF IInv

\* A line that is appended to the channel: the length, the range and the
\* elements that were there.
LEMMA Appended ==
    ASSUME NEW S, NEW s \in Seq(S), NEW x \in S
    PROVE  /\ Append(s, x) \in Seq(S)
           /\ Len(s) \in Nat
           /\ Len(Append(s, x)) = Len(s) + 1
           /\ \A i \in 1..Len(s) : Append(s, x)[i] = s[i]
           /\ Append(s, x)[Len(s) + 1] = x
  BY AppendProperties, LenProperties

\* Writers append to the channel behind everything the goroutine has seen.
LEMMA WriteInvariant ==
    ASSUME IInv, NEW l \in Loggers, Write(l)
    PROVE  IInv'
<1> USE DEF IInv
<1>1. CASE Queued < MAX_LOG_QLEN
  <2> DEFINE x == <<l, lines[l] + 1>>
  <2>1. x \in Lines
    BY LogQueueAssumption DEF TypeOK, Write, Lines
  <2>2. accepted' = Append(accepted, x)
    BY <1>1 DEF Write
  <2>3. /\ accepted' \in Seq(Lines \cup {Shutdown})
        /\ Len(accepted) \in Nat /\ Len(accepted') = Len(accepted) + 1
        /\ \A i \in 1..Len(accepted) : accepted'[i] = accepted[i]
    <3>1. accepted \in Seq(Lines \cup {Shutdown}) /\ x \in Lines \cup {Shutdown}
      BY <2>1 DEF TypeOK
    <3> HIDE DEF x
    <3> QED BY <3>1, <2>2, Appended
  <2>4. TypeOK'
    <3>1. lines' \in [Loggers -> 0..MaxLines]
      BY LogQueueAssumption DEF TypeOK, Write
    <3>2. taken' \in 0..Len(accepted') /\ Queued' <= MAX_LOG_QLEN
      BY <1>1, <2>3, LogQueueAssumption DEF TypeOK, Write, Queued
    <3> QED BY <2>3, <3>1, <3>2 DEF TypeOK, Write
  <2>5. Handled'
    BY DEF Handled, Write
  <2>6. taken > 0 => accepted'[taken] = accepted[taken]
    BY <2>3 DEF TypeOK
  <2>7. InHand'
    BY <2>6 DEF InHand, Write
  <2>8. Copied'
    <3>1. Len(written) <= Len(accepted)
      BY <2>3 DEF TypeOK, Handled
    <3>2. \A i \in 1..Len(written) : accepted'[i] = accepted[i]
      BY <2>3, <3>1, LenProperties DEF TypeOK
    <3> QED BY <3>2 DEF Copied, Write
  <2> QED BY <2>4, <2>5, <2>7, <2>8
<1>2. CASE ~(Queued < MAX_LOG_QLEN)
  <2>1. UNCHANGED <<accepted, taken, written, stuck, lpc, cpc>>
    BY <1>2 DEF Write
  <2>2. TypeOK'
    <3>1. lines' \in [Loggers -> 0..MaxLines]
      BY LogQueueAssumption DEF TypeOK, Write
    <3> QED BY <2>1, <3>1 DEF TypeOK, Queued
  <2> QED BY <2>1, <2>2 DEF Handled, InHand, Copied
<1> QED BY <1>1, <1>2

\* A receipt puts the next line, or the nil, into hand.
LEMMA ReceiveInvariant == IInv /\ LoopReceives => IInv'
<1> SUFFICES ASSUME IInv, LoopReceives
             PROVE  IInv'
  OBVIOUS
<1> USE DEF IInv
<1>1. /\ Len(accepted) \in Nat /\ taken \in Nat /\ taken + 1 <= Len(accepted)
      /\ accepted[taken + 1] \in Lines \cup {Shutdown}
  BY LenProperties, ElementOfSeq DEF TypeOK, LoopReceives, Queued
<1>2. TypeOK'
  BY <1>1, LogQueueAssumption DEF TypeOK, LoopReceives, Queued
<1>3. Handled'
  BY <1>1, LenProperties DEF Handled, LoopReceives, TypeOK
<1>4. InHand'
  BY <1>1 DEF InHand, LoopReceives, TypeOK
<1>5. Copied'
  BY DEF Copied, LoopReceives
<1> QED BY <1>2, <1>3, <1>4, <1>5

\* A write puts out the line in hand, next to its predecessor.
LEMMA WritesInvariant == IInv /\ LoopWrites => IInv'
<1> SUFFICES ASSUME IInv, LoopWrites
             PROVE  IInv'
  OBVIOUS
<1> USE DEF IInv
<1>1. Latest \in Lines /\ taken > 0 /\ taken \in Nat /\ Len(written) = taken - 1
  BY LenProperties DEF InHand, LoopWrites, Latest, Handled, TypeOK
<1>2. /\ written' \in Seq(Lines)
      /\ Len(written') = Len(written) + 1
      /\ \A i \in 1..Len(written) : written'[i] = written[i]
      /\ written'[Len(written) + 1] = accepted[taken]
  BY <1>1, Appended DEF TypeOK, LoopWrites, Payload, Latest
<1>3. TypeOK'
  BY <1>2 DEF TypeOK, LoopWrites, Queued
<1>4. Handled' /\ InHand'
  BY <1>1, <1>2 DEF Handled, InHand, LoopWrites, TypeOK
<1>5. Copied'
  BY <1>1, <1>2 DEF Copied, LoopWrites
<1> QED BY <1>3, <1>4, <1>5

\* Close appends its nil behind everything the goroutine has seen.
LEMMA CloseSendsInvariant == IInv /\ CloseSends => IInv'
<1> SUFFICES ASSUME IInv, CloseSends
             PROVE  IInv'
  OBVIOUS
<1> USE DEF IInv
<1>1. /\ accepted' \in Seq(Lines \cup {Shutdown})
      /\ Len(accepted) \in Nat /\ Len(accepted') = Len(accepted) + 1
      /\ \A i \in 1..Len(accepted) : accepted'[i] = accepted[i]
  BY Appended DEF TypeOK, CloseSends
<1>2. TypeOK'
  BY <1>1, LogQueueAssumption DEF TypeOK, CloseSends, Queued
<1>3. Handled'
  BY DEF Handled, CloseSends
<1>4. InHand'
  BY <1>1 DEF InHand, CloseSends, TypeOK
<1>5. Len(written) <= Len(accepted)
  BY <1>1 DEF TypeOK, Handled
<1>6. Copied'
  <2>1. \A i \in 1..Len(written) : accepted'[i] = accepted[i]
    BY <1>1, <1>5, LenProperties DEF TypeOK
  <2> QED BY <2>1 DEF Copied, CloseSends
<1> QED BY <1>2, <1>3, <1>4, <1>6

\* The invariant is inductive.
LEMMA NextInvariant == IInv /\ [Next]_vars => IInv'
<1> SUFFICES ASSUME IInv, [Next]_vars
             PROVE  IInv'
  OBVIOUS
<1>1. ASSUME NEW l \in Loggers, Write(l)
      PROVE  IInv'
  BY <1>1, WriteInvariant
<1>2. CASE LoopReceives
  BY <1>2, ReceiveInvariant
<1>3. CASE LoopWrites
  BY <1>3, WritesInvariant
<1>4. CASE CloseSends
  BY <1>4, CloseSendsInvariant
<1>5. CASE LoopSignals \/ StderrChanges \/ RunReturns \/ CloseTimesOut
  BY <1>5 DEF IInv, TypeOK, Handled, InHand, Copied, Queued,
              LoopSignals, StderrChanges, RunReturns, CloseTimesOut
<1>6. CASE UNCHANGED vars
  BY <1>6 DEF IInv, TypeOK, Handled, InHand, Copied, Queued, vars
<1> QED BY <1>1, <1>2, <1>3, <1>4, <1>5, <1>6 DEF Next, Loop

\* The invariant says what stderr has got, and that a Close that waited for the
\* goroutine has all of it.
LEMMA InvariantSuffices == IInv => NothingGarbledOrDropped
<1> SUFFICES ASSUME IInv
             PROVE  NothingGarbledOrDropped
  OBVIOUS
<1> USE DEF IInv
<1> DEFINE n == Len(written)
<1>1. /\ n \in Nat /\ Len(accepted) \in Nat /\ n <= Len(accepted)
      /\ accepted \in Seq(Lines \cup {Shutdown}) /\ written \in Seq(Lines)
  BY LenProperties DEF TypeOK, Handled
<1>2. SubSeq(accepted, 1, n) \in Seq(Lines \cup {Shutdown})
      /\ Len(SubSeq(accepted, 1, n)) = n
      /\ \A i \in 1..n : SubSeq(accepted, 1, n)[i] = accepted[i]
  BY <1>1, SubSeqProperties
<1>3. written = SubSeq(written, 1, n)
  BY <1>1
<1>4. written = SubSeq(accepted, 1, n)
  BY <1>1, <1>2, SeqEqual DEF Copied
<1>5. IsPrefix(written, accepted)
  BY <1>1, <1>3, <1>4 DEF IsPrefix
<1>6. \A i \in DOMAIN written : written[i] # Shutdown
  <2>1. \A i \in DOMAIN written : written[i] \in Lines
    BY <1>1, ElementOfSeq, LenProperties
  <2> QED BY <2>1, ShutdownIsNoLine
<1>7. ASSUME cpc = "flushed"
      PROVE  Append(written, Shutdown) = SubSeq(accepted, 1, n + 1)
  <2>1. n + 1 = taken /\ n + 1 <= Len(accepted) /\ accepted[n + 1] = Shutdown
    BY <1>1, <1>7 DEF InHand, Handled, TypeOK
  <2>2. /\ SubSeq(accepted, 1, n + 1) \in Seq(Lines \cup {Shutdown})
        /\ Len(SubSeq(accepted, 1, n + 1)) = n + 1
        /\ \A i \in 1..(n + 1) : SubSeq(accepted, 1, n + 1)[i] = accepted[i]
    BY <1>1, <2>1, SubSeqProperties
  <2>3. /\ Append(written, Shutdown) \in Seq(Lines \cup {Shutdown})
        /\ Len(Append(written, Shutdown)) = n + 1
        /\ \A i \in 1..n : Append(written, Shutdown)[i] = written[i]
        /\ Append(written, Shutdown)[n + 1] = Shutdown
    <3>1. written \in Seq(Lines \cup {Shutdown})
      BY <1>1
    <3> QED BY <3>1, Appended
  <2>4. \A i \in 1..(n + 1) :
            Append(written, Shutdown)[i] = SubSeq(accepted, 1, n + 1)[i]
    <3> SUFFICES ASSUME NEW i \in 1..(n + 1)
                 PROVE  Append(written, Shutdown)[i] = SubSeq(accepted, 1, n + 1)[i]
      OBVIOUS
    <3>1. CASE i \in 1..n
      BY <3>1, <2>2, <2>3 DEF Copied
    <3>2. CASE i = n + 1
      BY <3>2, <2>1, <2>2, <2>3
    <3> QED BY <3>1, <3>2, <1>1
  <2> HIDE DEF n
  <2> QED BY <2>2, <2>3, <2>4, SeqEqual
<1> QED BY <1>5, <1>6, <1>7 DEF NothingGarbledOrDropped

-----------------------------------------------------------------------------

\* Every variable has its type; in particular the queue never exceeds its
\* capacity (logwriter.go:22-36).
THEOREM TypeCorrect == Spec => []TypeOK
<1>1. IInv => TypeOK
  BY DEF IInv
<1> QED BY InitInvariant, NextInvariant, <1>1, PTL DEF Spec

\* stderr gets what Write accepted, unchanged, in order and without a gap, and
\* everything before the nil if Close returned because the goroutine was done
\* (logwriter.go:22-57).
THEOREM LogIntact == Spec => []NothingGarbledOrDropped
<1> QED BY InitInvariant, NextInvariant, InvariantSuffices, PTL DEF Spec

-----------------------------------------------------------------------------
(* LogTail *)

\* Effects that have not run yet have asked for nothing.
Fresh == \A k \in Tails : k > used => place[k] = "unused"

\* The active effect's tail has not been given up.
Live == effect # NoTail => place[effect] \in {"calling", "replying", "known"}

\* There is no session before the call for it has arrived.
Begun == \A k \in sessions : place[k] \in {"replying", "known", "over"}

ViewIInv == ViewTypeOK /\ Fresh /\ Live /\ Begun /\ SessionsAccountedFor

-----------------------------------------------------------------------------

\* The program starts without tails and sessions.
LEMMA InitIInv == ViewInit => ViewIInv
<1> SUFFICES ASSUME ViewInit PROVE ViewIInv  OBVIOUS
<1> USE TailAssumption DEF ViewInit, Tails, NoTail
<1>1. ViewTypeOK
  <2>1. runOf \in [Tails -> Runs \cup {NoRun}]  OBVIOUS
  <2>2. place \in [Tails -> {"unused", "calling", "replying", "known", "over"}]  OBVIOUS
  <2>3. used \in 0..MaxTails  OBVIOUS
  <2> QED BY <2>1, <2>2, <2>3, Zenon DEF ViewTypeOK
<1>2. Fresh /\ Live /\ Begun /\ SessionsAccountedFor
  BY DEF Fresh, Live, Begun, SessionsAccountedFor
<1> QED BY <1>1, <1>2 DEF ViewIInv

\* A new effect, after the cleanup of the one before: the old session is known
\* and being stopped, or its id is on the way, or it does not exist yet.
LEMMA SelectRunKeeps ==
  ASSUME ViewIInv, NEW r \in Runs, SelectRun(r)
  PROVE  ViewIInv'
<1> USE TailAssumption DEF Tails, NoTail
<1>1. used + 1 \in Tails /\ place[used + 1] = "unused" /\ used + 1 \notin sessions
  BY DEF ViewIInv, ViewTypeOK, Fresh, Begun, SelectRun, Ask
<1>2. ViewTypeOK'
  BY <1>1 DEF ViewIInv, ViewTypeOK, SelectRun, Ask, Cleanup
<1>3. Fresh'
  BY <1>1 DEF ViewIInv, ViewTypeOK, Fresh, SelectRun, Ask
<1>4. Live'
  BY <1>1 DEF ViewIInv, ViewTypeOK, SelectRun, Ask, Live
<1>5. Begun'
  BY <1>1 DEF ViewIInv, ViewTypeOK, Begun, SelectRun, Ask
<1>6. SessionsAccountedFor'
  BY <1>1 DEF ViewIInv, ViewTypeOK, Live, Begun, SessionsAccountedFor, SelectRun, Ask, Cleanup
<1> QED BY <1>2, <1>3, <1>4, <1>5, <1>6 DEF ViewIInv

\* What the user does besides.
LEMMA UserKeeps ==
  ASSUME ViewIInv, User
  PROVE  ViewIInv'
<1> USE TailAssumption DEF ViewIInv, ViewTypeOK, Fresh, Live, Begun, SessionsAccountedFor, Tails, NoTail
<1>1. CASE OpenPage     BY <1>1 DEF OpenPage, tails
<1>2. CASE ClearLogs    BY <1>2 DEF ClearLogs, Cleanup
<1>3. CASE LeavePage    BY <1>3 DEF LeavePage, Cleanup
<1>4. CASE RefreshLogs  BY <1>4 DEF RefreshLogs, page, tails
<1>5. CASE Reload       BY <1>5 DEF Reload
<1>6. CASE CloseWindow
  <2>1. place' \in [Tails -> {"unused", "calling", "replying", "known", "over"}]
    BY <1>6 DEF CloseWindow
  <2>2. ViewTypeOK'  BY <1>6, <2>1 DEF CloseWindow
  <2>3. Fresh'  BY <1>6 DEF CloseWindow
  <2>4. Live' /\ Begun' /\ SessionsAccountedFor'  BY <1>6 DEF CloseWindow
  <2> QED BY <2>2, <2>3, <2>4
<1>7. CASE NewWindow    BY <1>7 DEF NewWindow, page, tails
<1>8. CASE \E r \in Runs : SelectRun(r)  BY <1>8, SelectRunKeeps
<1> QED BY <1>1, <1>2, <1>3, <1>4, <1>5, <1>6, <1>7, <1>8 DEF User

\* Whatever crosses between the two processes.
LEMMA CrossingKeeps ==
  ASSUME ViewIInv, NEW k \in Tails, Crossing(k)
  PROVE  ViewIInv'
<1> USE TailAssumption DEF ViewIInv, ViewTypeOK, Fresh, Live, Begun, SessionsAccountedFor, Tails, NoTail
<1>1. CASE ReplyArrives(k)  BY <1>1 DEF ReplyArrives, page
<1>2. CASE DataArrives(k)   BY <1>2 DEF DataArrives, page, tails
<1>3. CASE TailStart(k)     BY <1>3 DEF TailStart, page
<1>4. CASE TailStop(k)      BY <1>4 DEF TailStop, page
<1>5. CASE TimerFires(k)    BY <1>5 DEF TimerFires, page, tails
<1> QED BY <1>1, <1>2, <1>3, <1>4, <1>5 DEF Crossing

\* Every step keeps the invariant.
LEMMA StepIInv == ViewIInv /\ [ViewNext]_viewVars => ViewIInv'
<1> SUFFICES ASSUME ViewIInv, [ViewNext]_viewVars PROVE ViewIInv'  OBVIOUS
<1>1. CASE User  BY <1>1, UserKeeps
<1>2. ASSUME NEW r \in Runs, RefreshArrives(r) PROVE ViewIInv'
  BY <1>2 DEF RefreshArrives, page, tails, ViewIInv, ViewTypeOK, Fresh, Live, Begun, SessionsAccountedFor
<1>3. ASSUME NEW k \in Tails, Crossing(k) PROVE ViewIInv'  BY <1>3, CrossingKeeps
<1>4. CASE UNCHANGED viewVars
  BY <1>4 DEF viewVars, page, tails, ViewIInv, ViewTypeOK, Fresh, Live, Begun, SessionsAccountedFor
<1> QED BY <1>1, <1>2, <1>3, <1>4 DEF ViewNext

(***************************************************************************)
(* Every session in the main process is the page's current one, is being   *)
(* or will be stopped, or was lost by a reload, however many effects run   *)
(* and whatever they overtake (index.ts:12-30, LogsPage.tsx:88-110).       *)
(***************************************************************************)
THEOREM NoSessionForgotten == ViewSpec => []SessionsAccountedFor
<1>1. ViewIInv => SessionsAccountedFor  BY DEF ViewIInv
<1> QED BY <1>1, InitIInv, StepIInv, PTL DEF ViewSpec

(***************************************************************************)
(* Type correctness of both processes' state for all constants.            *)
(***************************************************************************)
THEOREM TailTypeCorrect == ViewSpec => []ViewTypeOK
<1>1. ViewIInv => ViewTypeOK  BY DEF ViewIInv
<1> QED BY <1>1, InitIInv, StepIInv, PTL DEF ViewSpec
=============================================================================
