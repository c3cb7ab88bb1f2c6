---------------------------- MODULE RequestProofs -----------------------------
(***************************************************************************)
(* Proofs about what happens to one request.                               *)
(*                                                                         *)
(* Tunnel: for every length of a TLS record and of both streams, what the  *)
(* upstream sees of the client's stream, what the client gets of the       *)
(* response, and that no connection is left open.                          *)
(*                                                                         *)
(* SniRewrite: for every record and every fake name, the lengths of a      *)
(* rewritten ClientHello agree with each other and the parser finds the    *)
(* fake name in it.  The argument is where the extensions start: those up  *)
(* to the patched one where they did, those behind it moved by the         *)
(* difference of the names.                                                *)
(*                                                                         *)
(* DialChain: the connection is handed over at the first blank line, and   *)
(* the addresses are tried in order.  readResponse looks at buf, the       *)
(* property at bytes; they agree while the input lasts. Past its end buf   *)
(* gets the last byte again and again, which never completes a blank line: *)
(* the last two bytes of one differ, and the buffer of a connection that   *)
(* sent nothing holds no line feed.                                        *)
(***************************************************************************)
EXTENDS Tunnel, SniRewrite, DialChain, SequenceLemmas, SequenceTheorems

-----------------------------------------------------------------------------
(* The inductive invariant *)

\* Only a ClientHello has a name to rewrite; a plain request is not looked at.
Settings ==
    /\ setting.rewritable => setting.hello
    /\ Plain => ~setting.fakeSNI

\* Which part of the work each routine is in, by the phase of the handler.
Phases ==
    /\ phase = "dial" => ~rightOpened
    /\ phase \in {"reply", "hijackFailed", "copying", "waiting"} => rightOpened
    /\ phase \in {"dial", "reply", "hijackFailed"} => ltr = "off" /\ rtl = "off"
    /\ phase \in {"dial", "reply"} => ~leftClosed /\ ~rightClosed
    /\ phase = "ended" => ltr \in {"off", "done"} /\ rtl \in {"off", "done"}
    /\ Plain => ltr = "off" /\ rtl # "copy"
    /\ ~Plain => rtl # "body"
    /\ ltr \in {"peek", "record"} => setting.fakeSNI

\* Each routine closes the other side's connection when it is done.
Closed ==
    /\ ltr = "done" => rightClosed
    /\ rtl = "done" => IF Plain THEN rightClosed ELSE leftClosed
    /\ NoConnectionLeak

\* What has been written to the upstream, unit by unit.
AsSent == Len(forwarded) = taken /\ \A i \in 1..taken : forwarded[i] = i

AsRewritten ==
    /\ setting.fakeSNI /\ setting.rewritable /\ taken >= RecordLen
    /\ Len(forwarded) = taken - RecordLen + 1
    /\ forwarded[1] = Rewritten
    /\ \A i \in 2..Len(forwarded) : forwarded[i] = RecordLen + i - 1

\* Nothing goes out before the stream is known for what it is.
Relayed ==
    /\ ltr \in {"off", "peek", "record"} => taken = 0 /\ forwarded = <<>>
    /\ AsSent \/ AsRewritten

\* Copying goes on behind the rewritten record only.
Hidden ==
    /\ ltr = "copy" /\ setting.fakeSNI /\ setting.rewritable
         => forwarded # <<>> /\ forwarded[1] = Rewritten
    /\ RealNameHidden

\* A reason for the tunnel to go down other than the end of this side's work;
\* once there is one, there always is.
Excused ==
    \/ client # "open" \/ upstream = "gone"
    \/ upstream = "half" /\ returned = upstreamSent

\* Nothing is torn down without a reason.
Answered ==
    /\ ctxDone => client # "open"
    /\ phase \in {"copying", "waiting"} /\ (leftClosed \/ rightClosed \/ rtl = "done")
         => Excused
    /\ phase = "ended" /\ rightOpened => Excused

IInv == TypeOK /\ Settings /\ Phases /\ Closed /\ Relayed /\ Hidden /\ Answered

-----------------------------------------------------------------------------
(* Type correctness *)

\* What ltr writes for a complete record has a length and an order of its own.
LEMMA RecordType ==
    /\ setting.rewritable => RecordForwarded = <<Rewritten>>
    /\ ~setting.rewritable => /\ RecordForwarded \in Seq(1..RecordLen)
                              /\ Len(RecordForwarded) = RecordLen
                              /\ \A i \in 1..RecordLen : RecordForwarded[i] = i
  BY TunnelAssumption DEF RecordForwarded

\* The parts of the types that need different arguments.
Cases ==
    setting \in [mode : {"http", "socks", "plain"}, fakeSNI : BOOLEAN,
                 hello : BOOLEAN, rewritable : BOOLEAN]

Kinds ==
    /\ phase \in {"dial", "reply", "hijackFailed", "copying", "waiting", "ended"}
    /\ client \in {"open", "half", "gone"} /\ upstream \in {"open", "half", "gone"}
    /\ ltr \in {"off", "peek", "record", "copy", "done"}
    /\ rtl \in {"off", "copy", "body", "done"}
    /\ leftClosed \in BOOLEAN /\ rightOpened \in BOOLEAN /\ rightClosed \in BOOLEAN
    /\ ctxDone \in BOOLEAN

Numbers ==
    /\ clientSent \in 0..MaxClient /\ upstreamSent \in 0..MaxUpstream
    /\ taken \in 0..clientSent /\ returned \in 0..upstreamSent

\* They are the whole of it.
LEMMA TypeParts ==
    TypeOK <=> Cases /\ Kinds /\ Numbers /\ forwarded \in Seq(0..MaxClient)
  BY DEF TypeOK, Cases, Kinds, Numbers

\* Every variable has its type at the start.
LEMMA InitType == Init => TypeOK
<1>1. Init => Cases /\ Kinds
  BY DEF Init, Cases, Kinds
<1>2. Init => Numbers
  BY TunnelAssumption DEF Init, Numbers
<1>3. Init => forwarded \in Seq(0..MaxClient)
  BY DEF Init
<1> QED BY <1>1, <1>2, <1>3, TypeParts

\* The case at hand is fixed.
LEMMA SettingFixed == [Next]_vars => setting' = setting
<1>1. Peers \/ UNCHANGED vars => setting' = setting
  BY DEF Peers, ClientSends, ClientEnds, UpstreamSends, UpstreamEnds, vars
<1>2. Handler => setting' = setting
  BY DEF Handler, DialFails, DialSucceeds, HijackFails, ReplyFails, StartCopying,
         RelayHeader, RequestDone, ContextCloses, HandlerReturns
<1>3. Rtl => setting' = setting
  BY DEF Rtl, RtlCopy, RtlEnds, RtlUnchanged, CopyBody
<1>4. Ltr => setting' = setting
  BY DEF Ltr, LtrPeek, LtrRecord, LtrInputCut, LtrCopy, LtrEnds, LtrUnchanged
<1> QED BY <1>1, <1>2, <1>3, <1>4 DEF Next

\* Every step keeps the states and flags in their sets.
LEMMA NextKinds == Kinds /\ [Next]_vars => Kinds'
<1> SUFFICES ASSUME Kinds, [Next]_vars PROVE Kinds'
  OBVIOUS
<1> USE DEF Kinds, clientVars, upstreamVars, copyVars, connVars
<1>1. CASE UNCHANGED vars
  BY <1>1 DEF vars
<1>2. CASE Peers
  BY <1>2 DEF Peers, ClientSends, ClientEnds, UpstreamSends, UpstreamEnds
<1>3. CASE DialFails \/ DialSucceeds \/ HijackFails \/ ReplyFails
  BY <1>3 DEF DialFails, DialSucceeds, HijackFails, ReplyFails
<1>4. CASE StartCopying \/ RelayHeader
  BY <1>4 DEF StartCopying, RelayHeader
<1>5. CASE RequestDone \/ ContextCloses \/ HandlerReturns
  BY <1>5 DEF RequestDone, ContextCloses, HandlerReturns
<1>6. CASE Rtl
  BY <1>6 DEF Rtl, RtlCopy, RtlEnds, RtlUnchanged, CopyBody
<1>7. CASE Ltr
  BY <1>7 DEF Ltr, LtrPeek, LtrRecord, LtrInputCut, LtrCopy, LtrEnds, LtrUnchanged
<1> QED BY <1>1, <1>2, <1>3, <1>4, <1>5, <1>6, <1>7 DEF Next, Handler

\* No step moves a routine past what its peer has written.
LEMMA NextNumbers == Numbers /\ [Next]_vars => Numbers'
<1> SUFFICES ASSUME Numbers, [Next]_vars PROVE Numbers'
  OBVIOUS
<1> USE TunnelAssumption DEF Numbers, clientVars, upstreamVars, copyVars, connVars
<1>1. CASE UNCHANGED vars
  BY <1>1 DEF vars
<1>2. CASE Peers
  BY <1>2 DEF Peers, ClientSends, ClientEnds, UpstreamSends, UpstreamEnds
<1>3. CASE DialFails \/ DialSucceeds \/ HijackFails \/ ReplyFails
  BY <1>3 DEF DialFails, DialSucceeds, HijackFails, ReplyFails
<1>4. CASE StartCopying
  <2>1. taken' = 0
    BY <1>4 DEF StartCopying, UnreadAfter
  <2> QED BY <1>4, <2>1 DEF StartCopying
<1>5. CASE RelayHeader \/ RequestDone \/ ContextCloses \/ HandlerReturns
  BY <1>5 DEF RelayHeader, RequestDone, ContextCloses, HandlerReturns
<1>6. CASE RtlCopy \/ RtlEnds
  BY <1>6 DEF RtlCopy, RtlEnds, RtlUnchanged
<1>7. CASE CopyBody
  <2>1. \E n \in 0..(upstreamSent - returned) : returned' = returned + n
    BY <1>7 DEF CopyBody
  <2>2. returned' \in 0..upstreamSent
    BY <2>1
  <2> QED BY <1>7, <2>2 DEF CopyBody
<1>8. CASE LtrInputCut
  <2>1. taken' \in 0..clientSent
    BY <1>8 DEF LtrInputCut
  <2> QED BY <1>8, <2>1 DEF LtrInputCut, LtrUnchanged
<1>9. CASE LtrPeek \/ LtrRecord \/ LtrCopy \/ LtrEnds
  BY <1>9 DEF LtrPeek, LtrRecord, LtrCopy, LtrEnds, LtrUnchanged
<1> QED BY <1>1, <1>2, <1>3, <1>4, <1>5, <1>6, <1>7, <1>8, <1>9
        DEF Next, Handler, Rtl, Ltr

\* Only three steps write to the upstream.
LEMMA Writers ==
    [Next]_vars => forwarded' = forwarded \/ LtrRecord \/ LtrInputCut \/ LtrCopy
<1> USE DEF copyVars
<1>1. Peers \/ UNCHANGED vars => forwarded' = forwarded
  BY DEF Peers, ClientSends, ClientEnds, UpstreamSends, UpstreamEnds, vars
<1>2. Handler => forwarded' = forwarded
  BY DEF Handler, DialFails, DialSucceeds, HijackFails, ReplyFails, StartCopying,
         RelayHeader, RequestDone, ContextCloses, HandlerReturns
<1>3. Rtl => forwarded' = forwarded
  BY DEF Rtl, RtlCopy, RtlEnds, RtlUnchanged, CopyBody
<1>4. LtrPeek \/ LtrEnds => forwarded' = forwarded
  BY DEF LtrPeek, LtrEnds
<1> QED BY <1>1, <1>2, <1>3, <1>4 DEF Next, Ltr

\* Every step keeps the types.
LEMMA NextType == TypeOK /\ [Next]_vars => TypeOK'
<1> SUFFICES ASSUME TypeOK, [Next]_vars PROVE TypeOK'
  OBVIOUS
<1>1. Kinds' /\ Numbers'
  BY NextKinds, NextNumbers, TypeParts
<1>2. forwarded' \in Seq(0..MaxClient)
  <2> USE TunnelAssumption
  <2>1. CASE forwarded' = forwarded
    BY <2>1 DEF TypeOK
  <2>2. CASE LtrRecord
    <3>1. RecordLen <= MaxClient /\ forwarded' = RecordForwarded
      BY <2>2 DEF LtrRecord, TypeOK
    <3>2. CASE setting.rewritable
      <4>1. forwarded' = <<0>> /\ 0 \in 0..MaxClient
        BY <3>1, <3>2, RecordType DEF Rewritten
      <4> QED BY <4>1
    <3>3. CASE ~setting.rewritable
      <4>1. forwarded' \in Seq(1..RecordLen) /\ 1..RecordLen \subseteq 0..MaxClient
        BY <3>1, <3>3, RecordType
      <4> QED BY <4>1
    <3> QED BY <3>2, <3>3
  <2>3. CASE LtrInputCut
    <3>1. PICK n \in 0..clientSent : forwarded' = [i \in 1..n |-> i]
      BY <2>3 DEF LtrInputCut
    <3>2. n \in Nat /\ \A i \in 1..n : i \in 0..MaxClient
      BY <3>1 DEF TypeOK
    <3> QED BY <3>1, <3>2
  <2>4. CASE LtrCopy
    <3>1. /\ forwarded' = Append(forwarded, taken + 1)
          /\ forwarded \in Seq(0..MaxClient) /\ taken + 1 \in 0..MaxClient
      BY <2>4 DEF LtrCopy, TypeOK
    <3> QED BY <3>1
  <2> QED BY <2>1, <2>2, <2>3, <2>4, Writers
<1>3. Cases'
  BY SettingFixed, TypeParts DEF Cases
<1>4. (Cases /\ Kinds /\ Numbers /\ forwarded \in Seq(0..MaxClient))' => TypeOK'
  BY TypeParts, PTL
<1> QED BY <1>1, <1>2, <1>3, <1>4

(***************************************************************************)
(* Every variable keeps its type: no routine is past what its peer has     *)
(* written, and only units of the client's stream are passed on.           *)
(***************************************************************************)
THEOREM TypeCorrect == Spec => []TypeOK
  BY InitType, NextType, PTL DEF Spec

-----------------------------------------------------------------------------
(* Phases and closed connections *)

\* What the settings rule out, they rule out for good.
LEMMA NextSettings == Settings /\ [Next]_vars => Settings'
  BY SettingFixed DEF Settings, Plain

\* The two routines work between the reply and the handler's return.
LEMMA NextPhases == Settings /\ Phases /\ [Next]_vars => Phases'
<1> SUFFICES ASSUME Settings, Phases, [Next]_vars PROVE Phases'
  OBVIOUS
<1> USE DEF Settings, Phases, clientVars, upstreamVars, copyVars, connVars
<1>0. Plain' = Plain /\ setting' = setting
  BY SettingFixed DEF Plain
<1>1. CASE UNCHANGED vars \/ Peers
  BY <1>0, <1>1 DEF vars, Peers, ClientSends, ClientEnds, UpstreamSends, UpstreamEnds
<1>2. CASE DialFails \/ DialSucceeds \/ HijackFails \/ ReplyFails
  BY <1>0, <1>2 DEF DialFails, DialSucceeds, HijackFails, ReplyFails
<1>3. CASE StartCopying \/ RelayHeader
  BY <1>0, <1>3 DEF StartCopying, RelayHeader
<1>4. CASE RequestDone \/ ContextCloses \/ HandlerReturns
  BY <1>0, <1>4 DEF RequestDone, ContextCloses, HandlerReturns
<1>5. CASE Rtl
  <2>1. phase \notin {"dial", "reply", "hijackFailed"} /\ phase' = phase
    BY <1>5 DEF Rtl, RtlCopy, RtlEnds, RtlUnchanged, CopyBody
  <2> QED BY <1>0, <1>5, <2>1 DEF Rtl, RtlCopy, RtlEnds, RtlUnchanged, CopyBody
<1>6. CASE Ltr
  <2>1. phase \notin {"dial", "reply", "hijackFailed"} /\ phase' = phase
    BY <1>6 DEF Ltr, LtrPeek, LtrRecord, LtrInputCut, LtrCopy, LtrEnds, LtrUnchanged
  <2> QED BY <1>0, <1>6, <2>1
          DEF Ltr, LtrPeek, LtrRecord, LtrInputCut, LtrCopy, LtrEnds, LtrUnchanged
<1> QED BY <1>1, <1>2, <1>3, <1>4, <1>5, <1>6 DEF Next, Handler

\* Whoever ends closes, and the handler ends behind both.
LEMMA NextClosed == Phases /\ Closed /\ [Next]_vars => Closed'
<1> SUFFICES ASSUME Phases, Closed, [Next]_vars PROVE Closed'
  OBVIOUS
<1> USE DEF Phases, Closed, NoConnectionLeak, clientVars, upstreamVars, copyVars, connVars
<1>0. Plain' = Plain
  BY SettingFixed DEF Plain
<1>1. CASE UNCHANGED vars \/ Peers
  BY <1>0, <1>1 DEF vars, Peers, ClientSends, ClientEnds, UpstreamSends, UpstreamEnds
<1>2. CASE DialFails \/ DialSucceeds \/ HijackFails \/ ReplyFails
  BY <1>0, <1>2 DEF DialFails, DialSucceeds, HijackFails, ReplyFails
<1>3. CASE StartCopying \/ RelayHeader
  BY <1>0, <1>3 DEF StartCopying, RelayHeader
<1>4. CASE RequestDone \/ ContextCloses \/ HandlerReturns
  BY <1>0, <1>4 DEF RequestDone, ContextCloses, HandlerReturns
<1>5. CASE Rtl
  BY <1>0, <1>5 DEF Rtl, RtlCopy, RtlEnds, RtlUnchanged, CopyBody
<1>6. CASE Ltr
  BY <1>0, <1>6 DEF Ltr, LtrPeek, LtrRecord, LtrInputCut, LtrCopy, LtrEnds, LtrUnchanged
<1> QED BY <1>1, <1>2, <1>3, <1>4, <1>5, <1>6 DEF Next, Handler

-----------------------------------------------------------------------------
(* The client's stream *)

\* Only the start of the copying and ltr itself touch what ltr works on.
LEMMA LtrOwnsStream ==
    [Next]_vars => UNCHANGED <<ltr, taken, forwarded>> \/ StartCopying \/ Ltr
<1> USE DEF copyVars
<1>1. Peers \/ UNCHANGED vars => UNCHANGED <<ltr, taken, forwarded>>
  BY DEF Peers, ClientSends, ClientEnds, UpstreamSends, UpstreamEnds, vars
<1>2. Handler => UNCHANGED <<ltr, taken, forwarded>> \/ StartCopying
  BY DEF Handler, DialFails, DialSucceeds, HijackFails, ReplyFails, RelayHeader,
         RequestDone, ContextCloses, HandlerReturns
<1>3. Rtl => UNCHANGED <<ltr, taken, forwarded>>
  BY DEF Rtl, RtlCopy, RtlEnds, RtlUnchanged, CopyBody
<1> QED BY <1>1, <1>2, <1>3 DEF Next

\* Copying starts with the client's first unit and nothing written.
LEMMA CopyingStarts ==
    ASSUME Phases, Relayed, StartCopying
    PROVE  taken' = 0 /\ forwarded' = <<>> /\ ltr' = IF setting.fakeSNI THEN "peek" ELSE "copy"
<1>1. ltr = "off" /\ taken' = 0
  BY DEF StartCopying, UnreadAfter, Phases
<1> QED BY <1>1 DEF StartCopying, Relayed

\* Each unit is written behind the one before it.
LEMMA NextRelayed ==
    TypeOK /\ Phases /\ Relayed /\ [Next]_vars => Relayed'
<1> SUFFICES ASSUME TypeOK, Phases, Relayed, [Next]_vars PROVE Relayed'
  OBVIOUS
<1> USE TunnelAssumption DEF AsSent, AsRewritten
<1>0. setting' = setting /\ taken \in Nat /\ forwarded \in Seq(0..MaxClient)
  BY SettingFixed DEF TypeOK
<1>1. CASE UNCHANGED <<ltr, taken, forwarded>>
  BY <1>0, <1>1 DEF Relayed
<1>2. CASE StartCopying
  BY <1>2, CopyingStarts DEF Relayed
<1>3. CASE LtrPeek \/ LtrEnds
  <2>1. UNCHANGED <<taken, forwarded>> /\ (ltr' \in {"record", "copy", "done"})
        /\ (ltr' = "record" => ltr = "peek")
    BY <1>3 DEF LtrPeek, LtrEnds
  <2> QED BY <1>0, <2>1 DEF Relayed
<1>4. CASE LtrRecord
  <2>1. /\ setting.fakeSNI /\ forwarded' = RecordForwarded
        /\ taken' = RecordLen /\ ltr' = "copy"
    BY <1>4 DEF LtrRecord, Phases
  <2>2. CASE setting.rewritable
    <3>1. forwarded' = <<Rewritten>>
      BY <2>1, <2>2, RecordType
    <3>2. Len(forwarded') = 1 /\ forwarded'[1] = Rewritten
      BY <3>1
    <3> QED BY <1>0, <2>1, <2>2, <3>2 DEF Relayed
  <2>3. CASE ~setting.rewritable
    BY <1>0, <2>1, <2>3, RecordType DEF Relayed
  <2> QED BY <2>2, <2>3
<1>5. CASE LtrInputCut
  <2>1. PICK n \in 0..clientSent : forwarded' = [i \in 1..n |-> i] /\ taken' = n
    BY <1>5 DEF LtrInputCut
  <2>2. n \in Nat /\ ltr' = "done"
    BY <1>5, <2>1 DEF LtrInputCut, TypeOK
  <2>3. Len(forwarded') = n /\ \A i \in 1..n : forwarded'[i] = i
    BY <2>1, <2>2
  <2> QED BY <2>1, <2>2, <2>3 DEF Relayed
<1>6. CASE LtrCopy
  <2> DEFINE L == Len(forwarded)
  <2>1. /\ ltr' = "copy" /\ taken' = taken + 1 /\ taken + 1 \in 0..MaxClient
        /\ forwarded' = Append(forwarded, taken + 1)
    BY <1>6 DEF LtrCopy, TypeOK
  <2>2. /\ L \in Nat /\ Len(forwarded') = L + 1
        /\ \A i \in 1..L : forwarded'[i] = forwarded[i]
        /\ forwarded'[L + 1] = taken + 1
        /\ \A i \in 1..(L + 1) : i \in 1..L \/ i = L + 1
    BY <1>0, <2>1
  <2>3. CASE AsSent
    BY <1>0, <2>1, <2>2, <2>3 DEF Relayed
  <2>4. CASE AsRewritten
    <3>1. 1 \in 1..L /\ L = taken - RecordLen + 1
      BY <1>0, <2>2, <2>4
    <3>2. \A i \in 2..(L + 1) : i \in 2..L \/ i = L + 1
      BY <2>2
    <3>3. \A i \in 2..L : forwarded'[i] = RecordLen + i - 1
      BY <2>2, <2>4
    <3>4. forwarded'[L + 1] = RecordLen + (L + 1) - 1
      BY <1>0, <2>2, <3>1
    <3>5. \A i \in 2..(L + 1) : forwarded'[i] = RecordLen + i - 1
      BY <3>2, <3>3, <3>4
    <3>6. forwarded'[1] = Rewritten
      BY <2>2, <2>4, <3>1
    <3> QED BY <1>0, <2>1, <2>2, <2>4, <3>1, <3>5, <3>6 DEF Relayed
  <2> QED BY <2>3, <2>4 DEF Relayed
<1> QED BY <1>1, <1>2, <1>3, <1>4, <1>5, <1>6, LtrOwnsStream DEF Ltr

\* What is written unit by unit is the stream, or its rewritten form.
LEMMA RelayedIntact == TypeOK /\ Relayed => StreamIntact
<1> SUFFICES ASSUME TypeOK, Relayed PROVE StreamIntact
  OBVIOUS
<1>0. taken \in Nat /\ forwarded \in Seq(0..MaxClient) /\ RecordLen \in Nat
  BY TunnelAssumption DEF TypeOK
<1>1. CASE AsSent
  <2>1. forwarded = [i \in 1..Len(forwarded) |-> forwarded[i]]
    BY <1>0
  <2> QED BY <1>1, <2>1 DEF StreamIntact, AsSent
<1>2. CASE AsRewritten
  <2> DEFINE tail == [i \in 1..(taken - RecordLen) |-> RecordLen + i]
             whole == <<Rewritten>> \o tail
  <2>1. taken - RecordLen \in Nat
    BY <1>0, <1>2 DEF AsRewritten
  <2>2. tail \in Seq(Nat) /\ Len(tail) = taken - RecordLen
    BY <1>0, <2>1
  <2>3. /\ whole \in Seq(Nat) /\ Len(whole) = taken - RecordLen + 1
        /\ whole[1] = Rewritten
        /\ \A i \in 2..Len(whole) : whole[i] = tail[i - 1]
    <3> HIDE DEF tail
    <3> QED BY <2>1, <2>2 DEF Rewritten
  <2>4. \A i \in 2..(taken - RecordLen + 1) : tail[i - 1] = RecordLen + i - 1
    BY <1>0, <2>1
  <2>5. Len(whole) = Len(forwarded)
    BY <1>2, <2>3 DEF AsRewritten
  <2>6. \A i \in 1..Len(forwarded) : forwarded[i] = whole[i]
    <3> HIDE DEF whole, tail
    <3>1. \A i \in 1..Len(forwarded) : i = 1 \/ i \in 2..Len(forwarded)
      BY <1>0
    <3> QED BY <1>2, <2>3, <2>4, <2>5, <3>1 DEF AsRewritten
  <2>7. forwarded = whole
    <3> HIDE DEF whole
    <3>1. forwarded \in Seq(Nat)
      BY <1>0, TunnelAssumption
    <3> QED BY <2>3, <2>5, <2>6, <3>1, SeqEqual
  <2> QED BY <1>2, <2>7 DEF StreamIntact, AsRewritten
<1> QED BY <1>1, <1>2 DEF Relayed

\* A peer that has ended its side does not come back or write more; nothing
\* closed is opened again.
LEMMA EndsAreFinal ==
    ASSUME [Next]_vars
    PROVE  /\ client = "gone" => client' = "gone"
           /\ client = "half" => client' \in {"half", "gone"} /\ clientSent' = clientSent
           /\ upstream = "gone" => upstream' = "gone"
           /\ upstream = "half" => /\ upstream' \in {"half", "gone"}
                                   /\ upstreamSent' = upstreamSent
           /\ leftClosed => leftClosed'
<1> USE DEF clientVars, upstreamVars, copyVars, connVars
<1>1. CASE UNCHANGED vars \/ Peers
  BY <1>1 DEF vars, Peers, ClientSends, ClientEnds, UpstreamSends, UpstreamEnds
<1>2. CASE DialFails \/ DialSucceeds \/ HijackFails \/ ReplyFails
  BY <1>2 DEF DialFails, DialSucceeds, HijackFails, ReplyFails
<1>3. CASE StartCopying \/ RelayHeader \/ RequestDone \/ ContextCloses \/ HandlerReturns
  BY <1>3 DEF StartCopying, RelayHeader, RequestDone, ContextCloses, HandlerReturns
<1>4. CASE Rtl
  BY <1>4 DEF Rtl, RtlCopy, RtlEnds, RtlUnchanged, CopyBody
<1>5. CASE Ltr
  BY <1>5 DEF Ltr, LtrPeek, LtrRecord, LtrInputCut, LtrCopy, LtrEnds, LtrUnchanged
<1> QED BY <1>1, <1>2, <1>3, <1>4, <1>5 DEF Next, Handler

\* An unrewritten first unit goes out of a record whose input was cut only.
LEMMA NextHidden ==
    TypeOK /\ Settings /\ Phases /\ Relayed /\ Hidden /\ [Next]_vars => Hidden'
<1> SUFFICES ASSUME TypeOK, Settings, Phases, Relayed, Hidden, [Next]_vars
             PROVE  Hidden'
  OBVIOUS
<1>0. setting' = setting
  BY SettingFixed
<1> DEFINE InputGone == \/ leftClosed \/ client = "gone"
                        \/ client = "half" /\ clientSent < RecordLen
<1>1. InputGone => InputGone'
  BY EndsAreFinal
<1>2. CASE UNCHANGED <<ltr, forwarded>>
  BY <1>0, <1>1, <1>2 DEF Hidden, RealNameHidden
<1>3. CASE StartCopying
  BY <1>0, <1>3, CopyingStarts DEF Hidden, RealNameHidden
<1>4. CASE LtrPeek
  <2>1. /\ forwarded' = <<>>
        /\ ltr' = "copy" => ~setting.rewritable
    BY <1>4 DEF LtrPeek, Relayed, Settings
  <2> QED BY <1>0, <2>1 DEF Hidden, RealNameHidden
<1>5. CASE LtrEnds
  <2>1. forwarded' = forwarded /\ ltr' = "done"
    BY <1>5 DEF LtrEnds
  <2> QED BY <1>0, <1>1, <2>1 DEF Hidden, RealNameHidden
<1>6. CASE LtrRecord
  <2>1. setting.rewritable => forwarded' = <<Rewritten>>
    BY <1>6, RecordType DEF LtrRecord
  <2>2. setting.rewritable => forwarded' # <<>> /\ forwarded'[1] = Rewritten
    BY <2>1
  <2> QED BY <1>0, <2>2 DEF Hidden, RealNameHidden
<1>7. CASE LtrInputCut
  <2>0. PICK n \in 0..clientSent :
           /\ n < IF ltr = "peek" THEN HeaderLen ELSE RecordLen
           /\ client = "half" /\ ~leftClosed => n = clientSent
    BY <1>7 DEF LtrInputCut
  <2>1. /\ ltr' = "done" /\ ClientInputEnds
        /\ client = "half" /\ ~leftClosed => clientSent < RecordLen
    BY <1>7, <2>0, TunnelAssumption DEF LtrInputCut, TypeOK
  <2>2. InputGone
    BY <2>1, TunnelAssumption DEF ClientInputEnds, TypeOK
  <2> QED BY <1>0, <1>1, <2>1, <2>2 DEF Hidden, RealNameHidden
<1>8. CASE LtrCopy
  <2>0. forwarded \in Seq(0..MaxClient) /\ taken + 1 \in 0..MaxClient
    <3>1. /\ forwarded \in Seq(0..MaxClient) /\ taken \in 0..clientSent
          /\ clientSent \in 0..MaxClient
      BY DEF TypeOK
    <3>2. taken < clientSent
      BY <1>8 DEF LtrCopy
    <3> QED BY <3>1, <3>2, TunnelAssumption
  <2>1. /\ ltr = "copy" /\ ltr' = "copy" /\ forwarded' = Append(forwarded, taken + 1)
    BY <1>8 DEF LtrCopy
  <2>2. CASE setting.fakeSNI /\ setting.rewritable
    <3>1. forwarded # <<>> /\ forwarded[1] = Rewritten
      BY <2>1, <2>2 DEF Hidden
    <3>2. forwarded' # <<>> /\ forwarded'[1] = Rewritten
      BY <2>0, <2>1, <3>1
    <3> QED BY <3>2 DEF Hidden, RealNameHidden
  <2>3. CASE ~(setting.fakeSNI /\ setting.rewritable)
    BY <1>0, <2>3 DEF Hidden, RealNameHidden
  <2> QED BY <2>2, <2>3
<1> QED BY <1>2, <1>3, <1>4, <1>5, <1>6, <1>7, <1>8, LtrOwnsStream DEF Ltr

-----------------------------------------------------------------------------
(* The response *)

\* A reason to go down stays one: what is drained is not filled again.
LEMMA ExcusedForGood == TypeOK /\ TypeOK' /\ Excused /\ [Next]_vars => Excused'
<1> SUFFICES ASSUME TypeOK, TypeOK', Excused, [Next]_vars PROVE Excused'
  OBVIOUS
<1>1. CASE client # "open" \/ upstream = "gone"
  BY <1>1, EndsAreFinal DEF Excused, TypeOK
<1>2. CASE upstream = "half" /\ returned = upstreamSent
  <2>1. upstreamSent' = upstreamSent /\ upstream' \in {"half", "gone"}
    BY <1>2, EndsAreFinal
  <2>2. returned' >= returned
    <3> USE DEF TypeOK, clientVars, upstreamVars, copyVars
    <3>1. CASE UNCHANGED vars \/ Peers
      <4>1. returned' = returned
        BY <3>1 DEF vars, Peers, ClientSends, ClientEnds, UpstreamSends, UpstreamEnds
      <4> QED BY <4>1
    <3>2. CASE Handler
      <4>1. returned' = returned
        BY <3>2 DEF Handler, DialFails, DialSucceeds, HijackFails, ReplyFails,
                    StartCopying, RelayHeader, RequestDone, ContextCloses, HandlerReturns
      <4> QED BY <4>1
    <3>3. CASE Ltr
      <4>1. returned' = returned
        BY <3>3 DEF Ltr, LtrPeek, LtrRecord, LtrInputCut, LtrCopy, LtrEnds, LtrUnchanged
      <4> QED BY <4>1
    <3>4. CASE Rtl
      <4>1. \/ returned' \in {returned, returned + 1}
            \/ \E n \in 0..(upstreamSent - returned) : returned' = returned + n
        BY <3>4 DEF Rtl, RtlCopy, RtlEnds, CopyBody
      <4> QED BY <4>1
    <3> QED BY <3>1, <3>2, <3>3, <3>4 DEF Next
  <2> QED BY <1>2, <2>1, <2>2 DEF Excused, TypeOK
<1> QED BY <1>1, <1>2 DEF Excused

\* Every step that tears something down has found a reason.
LEMMA NextAnswered ==
    TypeOK /\ TypeOK' /\ Phases /\ Closed /\ Answered /\ [Next]_vars => Answered'
<1> SUFFICES ASSUME TypeOK, TypeOK', Phases, Closed, Answered, [Next]_vars
             PROVE  Answered'
  OBVIOUS
<1>0. Excused => Excused'
  BY ExcusedForGood
<1> USE DEF clientVars, upstreamVars, copyVars, connVars
<1>1. CASE UNCHANGED vars \/ Peers
  <2>1. /\ UNCHANGED <<phase, rtl, connVars>>
        /\ ctxDone' => ctxDone \/ client' # "open"
        /\ client # "open" => client' # "open"
    BY <1>1 DEF vars, Peers, ClientSends, ClientEnds, UpstreamSends, UpstreamEnds, TypeOK
  <2> QED BY <1>0, <2>1 DEF Answered
<1>2. CASE DialFails \/ DialSucceeds \/ HijackFails
  BY <1>2 DEF DialFails, DialSucceeds, HijackFails, Answered, Phases, TypeOK
<1>3. CASE ReplyFails
  BY <1>3 DEF ReplyFails, Answered, Phases, Excused
<1>4. CASE StartCopying \/ RelayHeader
  BY <1>4 DEF StartCopying, RelayHeader, Answered, Phases, TypeOK
<1>5. CASE RequestDone \/ HandlerReturns
  <2>1. /\ phase \in {"copying", "waiting"} /\ rtl = "done" /\ phase' = "ended"
        /\ UNCHANGED <<ctxDone, client>>
    BY <1>5 DEF RequestDone, HandlerReturns
  <2>2. Excused
    BY <2>1 DEF Answered
  <2> QED BY <1>0, <2>1, <2>2 DEF Answered
<1>6. CASE ContextCloses
  <2>1. client # "open" /\ UNCHANGED <<ctxDone, client>>
    BY <1>6 DEF ContextCloses, Answered
  <2> QED BY <2>1 DEF Answered, Excused
<1>7. CASE Rtl
  <2>1. /\ phase \in {"copying", "waiting"}
        /\ UNCHANGED <<phase, ctxDone, client, upstream, upstreamSent, rightOpened>>
    BY <1>7 DEF Rtl, RtlCopy, RtlEnds, RtlUnchanged, CopyBody, Phases, TypeOK
  <2>2. CASE RtlCopy
    BY <1>0, <2>1, <2>2 DEF RtlCopy, RtlUnchanged, Answered
  <2>3. CASE RtlEnds
    <3>1. Excused'
      BY <1>0, <2>1, <2>3 DEF RtlEnds, RtlUnchanged, Answered, Excused
    <3> QED BY <2>1, <3>1 DEF Answered
  <2>4. CASE CopyBody
    <3>1. /\ leftClosed' = leftClosed
          /\ \/ UNCHANGED <<rtl, rightClosed>>
             \/ client = "gone" \/ \E n \in 0..(upstreamSent - returned) :
                                      returned' = returned + n /\ BodyEnds(n)
      BY <2>4 DEF CopyBody
    <3>2. ASSUME NEW n \in 0..(upstreamSent - returned), returned' = returned + n,
                 BodyEnds(n)
          PROVE  Excused'
      BY <2>1, <3>2 DEF BodyEnds, Answered, Excused
    <3>3. client = "gone" => Excused'
      BY <2>1 DEF Excused
    <3>4. CASE Excused'
      BY <2>1, <3>4 DEF Answered
    <3>5. CASE UNCHANGED <<rtl, rightClosed>>
      BY <1>0, <2>1, <3>1, <3>5 DEF Answered
    <3> QED BY <3>1, <3>2, <3>3, <3>4, <3>5
  <2> QED BY <1>7, <2>2, <2>3, <2>4 DEF Rtl
<1>8. CASE Ltr
  <2>1. /\ phase \in {"copying", "waiting"}
        /\ UNCHANGED <<phase, ctxDone, client, rtl, leftClosed, rightOpened>>
    BY <1>8 DEF Ltr, LtrPeek, LtrRecord, LtrInputCut, LtrCopy, LtrEnds, LtrUnchanged,
                Phases, TypeOK
  <2>2. CASE LtrPeek \/ LtrRecord \/ LtrCopy
    <3>1. rightClosed' = rightClosed
      BY <2>2 DEF LtrPeek, LtrRecord, LtrCopy
    <3> QED BY <1>0, <2>1, <3>1 DEF Answered
  <2>3. CASE LtrInputCut \/ LtrEnds
    <3>1. Excused
      BY <2>1, <2>3 DEF LtrInputCut, LtrEnds, LtrOver, ClientInputEnds, Answered, Excused
    <3> QED BY <1>0, <2>1, <3>1 DEF Answered
  <2> QED BY <1>8, <2>2, <2>3 DEF Ltr
<1> QED BY <1>1, <1>2, <1>3, <1>4, <1>5, <1>6, <1>7, <1>8 DEF Next, Handler

-----------------------------------------------------------------------------
(* The results *)

\* The inductive invariant holds throughout.
LEMMA Invariance == Spec => []IInv
<1>1. Init => Settings /\ Phases /\ Closed /\ Relayed /\ Hidden /\ Answered
  BY DEF Init, Settings, Plain, Phases, Closed, NoConnectionLeak, Relayed, AsSent,
         Hidden, RealNameHidden, Answered
<1>2. IInv /\ TypeOK' /\ [Next]_vars => IInv'
  BY NextSettings, NextPhases, NextClosed, NextRelayed, NextHidden, NextAnswered DEF IInv
<1>3. TypeOK /\ Settings /\ Phases /\ Closed /\ Relayed /\ Hidden /\ Answered => IInv
  BY DEF IInv
<1> QED BY <1>1, <1>2, <1>3, InitType, TypeCorrect, PTL DEF Spec

(***************************************************************************)
(* However reads, ends and failures interleave, the upstream sees a prefix *)
(* of the client's stream from its first unit, with the first record       *)
(* replaced by its rewritten form or by nothing.                           *)
(***************************************************************************)
THEOREM StreamKept == Spec => []StreamIntact
<1>1. IInv => StreamIntact
  BY RelayedIntact DEF IInv
<1> QED BY <1>1, Invariance, PTL

(***************************************************************************)
(* The name in a rewritable ClientHello stays hidden unless the client's   *)
(* input ended before its record was complete, or the tunnel was closed.   *)
(***************************************************************************)
THEOREM NameKeptHidden == Spec => []RealNameHidden
<1>1. IInv => RealNameHidden
  BY DEF IInv, Hidden
<1> QED BY <1>1, Invariance, PTL

(***************************************************************************)
(* A handler that has returned has closed both connections, or had none to *)
(* close: no order of the two routines' ends leaves one open.              *)
(***************************************************************************)
THEOREM NothingLeaks == Spec => []NoConnectionLeak
<1>1. IInv => NoConnectionLeak
  BY DEF IInv, Closed
<1> QED BY <1>1, Invariance, PTL

(***************************************************************************)
(* A response that the upstream ended in an orderly way has reached a      *)
(* client that is still there when the handler returns: nothing is torn    *)
(* down without a reason, and a drained upstream is the only one left.     *)
(***************************************************************************)
THEOREM ResponseDelivered == Spec => []ResponseComplete
<1>1. IInv => ResponseComplete
  BY DEF IInv, Answered, Excused, ResponseComplete
<1> QED BY <1>1, Invariance, PTL

-----------------------------------------------------------------------------
(* SniRewrite *)

-----------------------------------------------------------------------------
(* Where the extensions start *)

\* The parts of a record are numbers and a sequence of extensions.
LEMMA OffsetIs ==
  ASSUME NEW r \in ClientRecords
  PROVE  /\ ExtensionsLenOffset(r) \in Nat
         /\ ExtensionsEnd(r) = ExtensionsLenOffset(r) + 2 + r.extensions
         /\ r.exts \in Seq(Extensions) /\ Len(r.exts) \in Nat
         /\ \A i \in 1..Len(r.exts) : r.exts[i] \in Extensions /\ r.exts[i].len \in Nat
<1>1. r.session \in Nat /\ r.ciphers \in Nat /\ r.compression \in Nat /\ r.exts \in Seq(Extensions)
  <2>1. r.session \in Nat /\ r.ciphers \in Nat /\ r.compression \in Nat
    BY DEF ClientRecords
  <2>2. r.exts \in Seq(Extensions)
    BY DEF ClientRecords
  <2> QED BY <2>1, <2>2
<1>2. \A i \in 1..Len(r.exts) : r.exts[i] \in Extensions
  BY <1>1
<1>3. \A x \in Extensions : x.len \in Nat
  BY DEF Extensions
<1>4. ExtensionsLenOffset(r) \in Nat
  <2>1. \A x, y, z \in Nat : 2 + 32 + (1 + x) + (2 + y) + (1 + z) \in Nat
    OBVIOUS
  <2> QED BY <1>1, <2>1 DEF ExtensionsLenOffset
<1>5. ExtensionsEnd(r) = ExtensionsLenOffset(r) + 2 + r.extensions
  BY DEF ExtensionsEnd
<1> QED BY <1>1, <1>2, <1>3, <1>4, <1>5

\* Where the extensions start: one behind the other.
LEMMA ExtStartIs ==
  ASSUME NEW r \in ClientRecords
  PROVE  /\ ExtStart(r, 1) = ExtensionsLenOffset(r) + 2
         /\ \A i \in 1..Len(r.exts) :
               ExtStart(r, i + 1) = ExtStart(r, i) + 4 + r.exts[i].len
         /\ \A n \in 0..Len(r.exts) : ExtStart(r, n + 1) \in Nat
<1> DEFINE N == Len(r.exts)
           base == ExtensionsLenOffset(r) + 2
           D == Nat
           grow == [n \in 1..N |-> [x \in D |-> x + 4 + r.exts[n].len]]
           Body(d) == [n \in 0..N |-> IF n = 0 THEN base ELSE d[n - 1] + 4 + r.exts[n].len]
           e == CHOOSE d : d = Body(d)
<1>1. N \in Nat /\ base \in D /\ \A n \in 1..N : r.exts[n].len \in Nat
  BY OffsetIs
<1> HIDE DEF base
<1>2. grow \in [1..N -> [D -> D]]
  BY <1>1
<1>3. PICK f \in [0..N -> D] : f[0] = base /\ \A n \in 1..N : f[n] = grow[n][f[n - 1]]
  <2> HIDE DEF D, N, grow
  <2>1. \E f : Runs(f, N, D, base, grow)
    BY <1>1, <1>2, Recursion
  <2> QED BY <2>1 DEF Runs
<1>4. \A n \in 1..N : f[n - 1] \in D
  BY <1>3
<1>5. \A n \in 1..N : f[n] = f[n - 1] + 4 + r.exts[n].len
  BY <1>3, <1>4
<1>6. f = Body(f)
  BY <1>3, <1>5
<1>7. e = Body(e)
  <2> HIDE DEF Body
  <2> QED BY <1>6
<1>8. \A i : ExtStart(r, i) = e[i - 1]
  BY DEF ExtStart, base
<1> HIDE DEF e
<1>9. e[0] = base /\ \A n \in 1..N : e[n] = e[n - 1] + 4 + r.exts[n].len
  <2>1. \A n \in 0..N : e[n] = IF n = 0 THEN base ELSE e[n - 1] + 4 + r.exts[n].len
    BY <1>7
  <2>2. 0 \in 0..N /\ \A n \in 1..N : n \in 0..N /\ n # 0
    BY <1>1
  <2> HIDE DEF N
  <2> QED BY <2>1, <2>2
<1>10. \A n \in 0..N : e[n] \in Nat
  <2> DEFINE S == {n \in 0..N : e[n] \in Nat}
  <2>1. 0 \in S
    BY <1>1, <1>9
  <2>2. ASSUME NEW n \in 1..N, n - 1 \in S PROVE n \in S
    <3>1. e[n - 1] \in Nat /\ r.exts[n].len \in Nat /\ e[n] = e[n - 1] + 4 + r.exts[n].len
      BY <2>2, <1>1, <1>9
    <3>2. e[n] \in Nat
      BY <3>1
    <3> QED BY <3>2
  <2> HIDE DEF S
  <2>3. 0..N \subseteq S
    BY <1>1, <2>1, <2>2, UpTo
  <2> QED BY <2>3 DEF S
<1>11. \A n \in 0..N : ExtStart(r, n + 1) = e[n]
  <2> SUFFICES ASSUME NEW n \in 0..N PROVE ExtStart(r, n + 1) = e[n]
    OBVIOUS
  <2>1. (n + 1) - 1 = n
    BY <1>1
  <2> QED BY <1>8, <2>1
<1>12. ExtStart(r, 1) = base
  BY <1>8, <1>9
<1>13. \A i \in 1..N : ExtStart(r, i + 1) = ExtStart(r, i) + 4 + r.exts[i].len
  <2> SUFFICES ASSUME NEW i \in 1..N
               PROVE  ExtStart(r, i + 1) = ExtStart(r, i) + 4 + r.exts[i].len
    OBVIOUS
  <2>1. ExtStart(r, i) = e[i - 1] /\ i \in 0..N
    BY <1>1, <1>8
  <2> QED BY <2>1, <1>9, <1>11
<1> QED BY <1>10, <1>11, <1>12, <1>13 DEF base

\* Extensions start one behind the other.
LEMMA StartsAscend ==
  ASSUME NEW r \in ClientRecords, NEW i \in 1..(Len(r.exts) + 1)
  PROVE  \A j \in 1..i : /\ ExtStart(r, j) \in Nat
                         /\ ExtStart(r, j) <= ExtStart(r, i)
<1> DEFINE at(n) == ExtStart(r, n)
           S == {n \in 0..(i - 1) : at(i - n) <= at(i)}
<1>1. Len(r.exts) \in Nat /\ \A j \in 1..Len(r.exts) : r.exts[j].len \in Nat
  BY OffsetIs
<1>2. \A j \in 1..(Len(r.exts) + 1) : at(j) \in Nat
  <2> SUFFICES ASSUME NEW j \in 1..(Len(r.exts) + 1) PROVE at(j) \in Nat
    OBVIOUS
  <2>1. j - 1 \in 0..Len(r.exts) /\ (j - 1) + 1 = j
    BY <1>1
  <2> HIDE DEF at
  <2>2. at((j - 1) + 1) \in Nat
    BY <2>1, ExtStartIs DEF at
  <2> QED BY <2>1, <2>2
<1>3. \A j \in 1..Len(r.exts) : at(j) <= at(j + 1)
  <2> SUFFICES ASSUME NEW j \in 1..Len(r.exts) PROVE at(j) <= at(j + 1)
    OBVIOUS
  <2>1. at(j + 1) = at(j) + 4 + r.exts[j].len
    BY ExtStartIs
  <2>2. at(j) \in Nat
    BY <1>1, <1>2
  <2> HIDE DEF at
  <2> QED BY <1>1, <2>1, <2>2
<1> HIDE DEF at
<1>4. 0 \in S
  <2>1. i - 0 = i /\ i \in Nat
    BY <1>1
  <2> QED BY <2>1, <1>2
<1>5. ASSUME NEW n \in 1..(i - 1), n - 1 \in S PROVE n \in S
  <2>1. /\ i - n \in 1..Len(r.exts) /\ (i - n) + 1 = i - (n - 1)
        /\ i - n \in 1..(Len(r.exts) + 1) /\ i - (n - 1) \in 1..(Len(r.exts) + 1)
        /\ n \in 0..(i - 1)
    BY <1>1
  <2>2. at(i - n) <= at(i - (n - 1)) /\ at(i - (n - 1)) <= at(i)
    BY <1>3, <1>5, <2>1
  <2> QED BY <1>2, <2>1, <2>2
<1>6. 0..(i - 1) \subseteq S
  <2>1. i - 1 \in Nat
    BY <1>1
  <2> HIDE DEF S
  <2> QED BY <1>4, <1>5, <2>1, UpTo
<1>7. ASSUME NEW j \in 1..i PROVE at(j) \in Nat /\ at(j) <= at(i)
  <2>1. i - j \in 0..(i - 1) /\ i - (i - j) = j /\ j \in 1..(Len(r.exts) + 1)
    BY <1>1
  <2>2. at(i - (i - j)) <= at(i)
    BY <1>6, <2>1
  <2> QED BY <1>2, <2>1, <2>2
<1> QED BY <1>7 DEF at

\* One extension has changed its length: those behind it have moved.
LEMMA StartsMove ==
  ASSUME NEW r \in ClientRecords, NEW o \in ClientRecords,
         NEW i \in 1..Len(r.exts),
         ExtensionsLenOffset(o) = ExtensionsLenOffset(r),
         Len(o.exts) = Len(r.exts),
         \A j \in 1..Len(r.exts) : j # i => o.exts[j].len = r.exts[j].len
  PROVE  \A n \in 0..Len(r.exts) :
            ExtStart(o, n + 1)
            = ExtStart(r, n + 1) + (IF n < i THEN 0 ELSE o.exts[i].len - r.exts[i].len)
<1> DEFINE N == Len(r.exts)
           delta == o.exts[i].len - r.exts[i].len
           before(n) == ExtStart(r, n)
           after(n) == ExtStart(o, n)
           S == {n \in 0..N : after(n + 1) = before(n + 1) + (IF n < i THEN 0 ELSE delta)}
<1>1. /\ N \in Nat /\ delta \in Int /\ o.exts[i].len = r.exts[i].len + delta
      /\ \A j \in 1..N : r.exts[j].len \in Nat
  <2>1. N \in Nat /\ (\A j \in 1..N : r.exts[j].len \in Nat) /\ \A j \in 1..N : o.exts[j].len \in Nat
    BY OffsetIs
  <2> QED BY <2>1
<1> HIDE DEF delta
<1>2. /\ before(1) = after(1) /\ \A n \in 0..N : before(n + 1) \in Nat
      /\ \A j \in 1..N : before(j + 1) = before(j) + 4 + r.exts[j].len
      /\ \A j \in 1..N : after(j + 1) = after(j) + 4 + o.exts[j].len
  <2>1. before(1) = after(1)
    BY ExtStartIs
  <2>2. \A n \in 0..N : before(n + 1) \in Nat
    BY ExtStartIs
  <2>3. \A j \in 1..N : before(j + 1) = before(j) + 4 + r.exts[j].len
    BY ExtStartIs
  <2>4. \A j \in 1..N : after(j + 1) = after(j) + 4 + o.exts[j].len
    BY ExtStartIs
  <2> QED BY <2>1, <2>2, <2>3, <2>4
<1> HIDE DEF before, after
<1>3. 0 \in S
  BY <1>1, <1>2
<1>4. ASSUME NEW n \in 1..N, n - 1 \in S PROVE n \in S
  <2>1. after(n) = before(n) + (IF n - 1 < i THEN 0 ELSE delta)
    <3>1. (n - 1) + 1 = n
      BY <1>1
    <3> QED BY <1>4, <3>1
  <2>2. before(n) \in Nat
    <3>1. n - 1 \in 0..N /\ (n - 1) + 1 = n
      BY <1>1
    <3> QED BY <1>2, <3>1
  <2>3. after(n + 1) = after(n) + 4 + o.exts[n].len /\ before(n + 1) = before(n) + 4 + r.exts[n].len
    BY <1>2
  <2>4. r.exts[n].len \in Nat /\ o.exts[n].len = r.exts[n].len + (IF n = i THEN delta ELSE 0)
    BY <1>1
  <2>5. n \in Nat /\ i \in Nat
    BY <1>1
  <2>6. after(n + 1) = before(n + 1) + (IF n < i THEN 0 ELSE delta)
    <3>1. CASE n < i
      <4>1. n - 1 < i /\ n # i
        BY <2>5, <3>1
      <4>2. after(n) = before(n) /\ o.exts[n].len = r.exts[n].len
        BY <2>1, <2>2, <2>4, <4>1
      <4> QED BY <2>2, <2>3, <2>4, <3>1, <4>2
    <3>2. CASE n = i
      <4>1. n - 1 < i /\ ~(n < i)
        BY <2>5, <3>2
      <4>2. after(n) = before(n) /\ o.exts[n].len = r.exts[n].len + delta
        BY <1>1, <2>1, <2>2, <2>4, <4>1, <3>2
      <4>3. \A a, l \in Nat, d \in Int : a + 4 + (l + d) = (a + 4 + l) + d
        OBVIOUS
      <4>4. after(n + 1) = before(n + 1) + delta
        BY <1>1, <2>2, <2>3, <2>4, <4>2, <4>3
      <4> QED BY <4>1, <4>4
    <3>3. CASE n > i
      <4>1. ~(n - 1 < i) /\ n # i /\ ~(n < i)
        BY <2>5, <3>3
      <4>2. after(n) = before(n) + delta /\ o.exts[n].len = r.exts[n].len
        BY <2>1, <2>2, <2>4, <4>1
      <4>3. \A a, l \in Nat, d \in Int : (a + d) + 4 + l = (a + 4 + l) + d
        OBVIOUS
      <4>4. delta \in Int /\ r.exts[n].len \in Nat
        BY <1>1, <2>4
      <4>5. after(n + 1) = before(n + 1) + delta
        BY ZenonT(30), <2>2, <2>3, <4>2, <4>3, <4>4
      <4> QED BY <4>1, <4>5
    <3> QED BY <2>5, <3>1, <3>2, <3>3
  <2> QED BY <2>6
<1>5. 0..N \subseteq S
  <2> HIDE DEF S, N
  <2> QED BY <1>1, <1>3, <1>4, UpTo
<1> QED BY <1>5 DEF before, after, delta
-----------------------------------------------------------------------------
(* What the rewriting does *)

\* The record that Rewrite sends for r.
RecordOut(r, i) == Patch(r, i, NewLen(r.exts[i]), Delta(r, i))

\* What the parser has checked of the extension it found: the fields the
\* rewriting patches are no smaller than the name it takes out.
LEMMA FoundFits ==
  ASSUME NEW r \in ClientRecords, fake \in Nat, NEW i \in Found(r)
  PROVE  /\ i \in 1..Len(r.exts)
         /\ NewLen(r.exts[i]) = r.exts[i].len + (fake - r.exts[i].name)
         /\ Delta(r, i) = fake - r.exts[i].name
         /\ r.exts[i].name \in Nat /\ r.exts[i].len \in Nat
         /\ r.exts[i].name + 5 <= r.exts[i].len
         /\ ExtStart(r, i) \in Nat
         /\ ExtensionsLenOffset(r) + 2 <= ExtStart(r, i)
         /\ ExtStart(r, i) + 4 + r.exts[i].len <= ExtensionsEnd(r)
         /\ ExtensionsEnd(r) <= r.hello
         /\ r.hello + 4 <= r.payload
         /\ r.payload \in Nat /\ r.hello \in Nat /\ r.extensions \in Nat
<1>1. i \in 1..Len(r.exts) /\ Len(r.exts) \in Nat /\ r.exts[i] \in Extensions
  BY OffsetIs DEF Found
<1>2. r.exts[i].name \in Nat /\ r.exts[i].len \in Nat
  BY <1>1 DEF Extensions
<1>3. r.exts[i].name + 5 <= r.exts[i].len
  BY <1>2 DEF Found, NameFits
<1>4. /\ NewLen(r.exts[i]) = r.exts[i].len + (fake - r.exts[i].name)
      /\ Delta(r, i) = fake - r.exts[i].name
  BY <1>2 DEF NewLen, Delta
<1>5. ExtStart(r, i) \in Nat /\ ExtensionsLenOffset(r) + 2 <= ExtStart(r, i)
  <2>1. i \in 1..(Len(r.exts) + 1) /\ 1 \in 1..i /\ i \in 1..i
    BY <1>1
  <2> QED BY <2>1, ExtStartIs, StartsAscend
<1>6. ExtStart(r, i) + 4 + r.exts[i].len <= ExtensionsEnd(r)
  <2>1. i \in 1..i
    BY <1>1
  <2> QED BY <2>1 DEF Found, ExtFits
<1>7. r.payload \in Nat /\ r.hello \in Nat /\ r.extensions \in Nat
  BY DEF ClientRecords
<1>8. ExtensionsEnd(r) <= r.hello /\ r.hello + 4 <= r.payload
  BY <1>7 DEF Found, HelloParses, HandshakeHeader
<1> QED BY <1>1, <1>2, <1>3, <1>4, <1>5, <1>6, <1>7, <1>8

\* PatchExt changes the lengths and leaves the rest.
LEMMA PatchExtIs ==
  ASSUME NEW x \in Extensions, NEW a, NEW d, NEW f,
         Uint16(x.len + d) \in Nat, Uint16(a - 2) \in Nat, Uint16(f) \in Nat
  PROVE  /\ PatchExt(x, a, d, f) \in Extensions
         /\ PatchExt(x, a, d, f).serverName = x.serverName
         /\ PatchExt(x, a, d, f).hostName = x.hostName
         /\ PatchExt(x, a, d, f).len = Uint16(x.len + d)
         /\ PatchExt(x, a, d, f).list = Uint16(a - 2)
         /\ PatchExt(x, a, d, f).name = Uint16(f)
<1> DEFINE l == Uint16(x.len + d)
           t == Uint16(a - 2)
           n == Uint16(f)
           e == PatchExt(x, a, d, f)
<1>1. e = [x EXCEPT !.len = l, !.list = t, !.name = n]
  BY DEF PatchExt
<1> HIDE DEF e, l, t, n
<1>2. l \in Nat /\ t \in Nat /\ n \in Nat
  BY DEF l, t, n
<1>3. e \in Extensions
  BY <1>1, <1>2 DEF Extensions
<1>4. e.serverName = x.serverName
  BY <1>1 DEF Extensions
<1>5. e.hostName = x.hostName
  BY <1>1 DEF Extensions
<1>6. e.len = l /\ e.list = t /\ e.name = n
  BY <1>1 DEF Extensions
<1> QED BY <1>3, <1>4, <1>5, <1>6 DEF e, l, t, n

\* A field holds what is below its limit.
LEMMA FieldsHold ==
  /\ Limit16 \in Nat
  /\ \A n \in Nat : n < Limit16 => Uint16(n) = n /\ Uint24(n) = n
<1>1. \A k \in Nat, n \in Nat : n < k => n % k = n
  OBVIOUS
<1>2. Limit16 \in Nat /\ Limit24 \in Nat /\ Limit16 < Limit24
  BY DEF Limit16, Limit24
<1>3. \A n \in Nat : n < Limit16 => n < Limit24
  BY <1>2
<1> QED BY <1>1, <1>2, <1>3 DEF Uint16, Uint24

\* As long as the new payload fits its field no patched length wraps around.
LEMMA RewrittenIs ==
  ASSUME NEW r \in ClientRecords, fake \in Nat, NEW i \in Found(r),
         NEW o, o = RecordOut(r, i), o.payload < Limit16,
         NEW delta, delta = fake - r.exts[i].name
  PROVE  /\ o \in ClientRecords
         /\ o.header = o.payload
         /\ o.payload = r.payload + delta
         /\ o.hello = r.hello + delta
         /\ o.extensions = r.extensions + delta
         /\ ExtensionsLenOffset(o) = ExtensionsLenOffset(r)
         /\ o.clientHello = r.clientHello
         /\ Len(o.exts) = Len(r.exts)
         /\ \A j \in 1..Len(r.exts) : j # i => o.exts[j] = r.exts[j]
         /\ o.exts[i].serverName = r.exts[i].serverName
         /\ o.exts[i].hostName = r.exts[i].hostName
         /\ o.exts[i].len = r.exts[i].len + delta
         /\ o.exts[i].list = o.exts[i].len - 2
         /\ o.exts[i].name = fake
<1> DEFINE len == r.exts[i].len
           ext == PatchExt(r.exts[i], len + delta, delta, fake)
<1>1. /\ NewLen(r.exts[i]) = len + delta /\ Delta(r, i) = delta
      /\ i \in 1..Len(r.exts) /\ Len(r.exts) \in Nat
      /\ r.exts \in Seq(Extensions) /\ r.exts[i] \in Extensions
  BY FoundFits, OffsetIs
<1>2. o = Patch(r, i, len + delta, delta)
  BY <1>1 DEF RecordOut
<1>3. /\ delta \in Int /\ len \in Nat /\ len + delta >= 5 + fake
      /\ r.payload \in Nat /\ r.hello \in Nat /\ r.extensions \in Nat
      /\ len <= r.extensions /\ r.extensions <= r.hello /\ r.hello <= r.payload
  <2> DEFINE name == r.exts[i].name
             start == ExtStart(r, i)
             offset == ExtensionsLenOffset(r)
  <2>1. /\ name \in Nat /\ len \in Nat /\ name + 5 <= len /\ start \in Nat
        /\ offset + 2 <= start /\ start + 4 + len <= offset + 2 + r.extensions
        /\ offset + 2 + r.extensions <= r.hello /\ r.hello + 4 <= r.payload
        /\ r.payload \in Nat /\ r.hello \in Nat /\ r.extensions \in Nat /\ offset \in Nat
    BY FoundFits, OffsetIs
  <2>2. delta = fake - name
    OBVIOUS
  <2> HIDE DEF name, start, offset, len
  <2> QED BY <2>1, <2>2
<1> HIDE DEF len, ext
<1>4. /\ o.header = Uint16(r.payload + delta) /\ o.payload = r.payload + delta
      /\ o.hello = Uint24(r.hello + delta) /\ o.extensions = Uint16(r.extensions + delta)
      /\ o.clientHello = r.clientHello /\ o.session = r.session /\ o.ciphers = r.ciphers
      /\ o.compression = r.compression /\ o.exts = [r.exts EXCEPT ![i] = ext]
  BY <1>2 DEF Patch, ClientRecords, ext
<1> DEFINE K == Limit16
           Fits(n) == n \in Nat /\ n < K
<1>5. /\ K \in Nat
      /\ \A n : Fits(n) => n \in Nat /\ Uint16(n) = n /\ Uint24(n) = n
  BY FieldsHold
<1> HIDE DEF K
<1>6. /\ Fits(r.payload + delta) /\ Fits(r.hello + delta) /\ Fits(r.extensions + delta)
      /\ Fits(len + delta) /\ Fits((len + delta) - 2) /\ Fits(fake)
  <2>1. \A p, h, e, l \in Nat, d \in Int, f \in Nat :
           /\ l + d >= 5 + f /\ l <= e /\ e <= h /\ h <= p /\ p + d < K
           => /\ Fits(p + d) /\ Fits(h + d) /\ Fits(e + d)
              /\ Fits(l + d) /\ Fits((l + d) - 2) /\ Fits(f)
    BY <1>5
  <2>2. r.payload + delta < K
    BY <1>4 DEF K
  <2> HIDE DEF Fits
  <2> QED BY ZenonT(30), <1>3, <2>1, <2>2
<1> HIDE DEF Fits
<1>7. /\ o.header = o.payload /\ o.hello = r.hello + delta /\ o.extensions = r.extensions + delta
  <2>1. /\ Uint16(r.payload + delta) = r.payload + delta
        /\ Uint24(r.hello + delta) = r.hello + delta
        /\ Uint16(r.extensions + delta) = r.extensions + delta
    BY <1>5, <1>6
  <2> QED BY <2>1, <1>4
<1>8. /\ ext \in Extensions
      /\ ext.serverName = r.exts[i].serverName /\ ext.hostName = r.exts[i].hostName
      /\ ext.len = len + delta /\ ext.list = (len + delta) - 2 /\ ext.name = fake
  <2> DEFINE x == r.exts[i]
  <2>1. /\ Uint16(len + delta) = len + delta /\ Uint16((len + delta) - 2) = (len + delta) - 2
        /\ Uint16(fake) = fake
        /\ len + delta \in Nat /\ (len + delta) - 2 \in Nat
    BY <1>5, <1>6
  <2>2. x \in Extensions /\ x.len = len
    BY <1>1 DEF len
  <2> HIDE DEF x
  <2>3. /\ PatchExt(x, len + delta, delta, fake) \in Extensions
        /\ PatchExt(x, len + delta, delta, fake).serverName = x.serverName
        /\ PatchExt(x, len + delta, delta, fake).hostName = x.hostName
        /\ PatchExt(x, len + delta, delta, fake).len = Uint16(x.len + delta)
        /\ PatchExt(x, len + delta, delta, fake).list = Uint16((len + delta) - 2)
        /\ PatchExt(x, len + delta, delta, fake).name = Uint16(fake)
    <3>1. /\ Uint16(x.len + delta) \in Nat /\ Uint16((len + delta) - 2) \in Nat
          /\ Uint16(fake) \in Nat
      BY <2>1, <2>2
    <3> QED BY <2>2, <3>1, PatchExtIs
  <2>4. ext = PatchExt(x, len + delta, delta, fake)
    BY DEF ext, x
  <2>5. ext.len = len + delta
    BY <2>1, <2>2, <2>3, <2>4, Zenon
  <2>6. ext.list = (len + delta) - 2
    BY <2>1, <2>2, <2>3, <2>4, Zenon
  <2>7. ext.name = fake
    BY <2>1, <2>3, <2>4, Zenon
  <2>8. ext.serverName = x.serverName /\ ext.hostName = x.hostName
    BY <2>3, <2>4, Zenon
  <2> QED BY <2>3, <2>4, <2>5, <2>6, <2>7, <2>8, Zenon DEF x
<1>9. /\ Len(o.exts) = Len(r.exts) /\ o.exts \in Seq(Extensions) /\ o.exts[i] = ext
      /\ \A j \in 1..Len(r.exts) : j # i => o.exts[j] = r.exts[j]
  BY <1>1, <1>4, <1>8
<1>10. o \in ClientRecords
  <2> DEFINE exts == [r.exts EXCEPT ![i] = ext]
  <2>1. exts \in Seq(Extensions)
    BY <1>4, <1>9
  <2>2. /\ Uint16(r.payload + delta) \in Nat /\ r.payload + delta \in Nat
        /\ Uint24(r.hello + delta) \in Nat /\ Uint16(r.extensions + delta) \in Nat
    BY <1>5, <1>6
  <2>3. o = [r EXCEPT !.header = Uint16(r.payload + delta), !.payload = r.payload + delta,
                      !.hello = Uint24(r.hello + delta),
                      !.extensions = Uint16(r.extensions + delta), !.exts = exts]
    BY <1>2 DEF Patch, ext
  <2> HIDE DEF exts
  <2> QED BY <2>1, <2>2, <2>3 DEF ClientRecords
<1>11. ExtensionsLenOffset(o) = ExtensionsLenOffset(r)
  BY <1>4 DEF ExtensionsLenOffset
<1>12. /\ o.exts[i].serverName = r.exts[i].serverName /\ o.exts[i].hostName = r.exts[i].hostName
       /\ o.exts[i].len = r.exts[i].len + delta /\ o.exts[i].list = o.exts[i].len - 2
       /\ o.exts[i].name = fake
  <2> DEFINE y == o.exts[i]
  <2>0. y = ext
    BY <1>9
  <2> HIDE DEF y
  <2>1. y.list = y.len - 2 /\ y.name = fake
    BY <1>8, <2>0
  <2>2. o.exts[i].len = r.exts[i].len + delta
    BY <1>8, <1>9 DEF len
  <2>3. o.exts[i].serverName = r.exts[i].serverName
    BY <1>8, <1>9
  <2>4. o.exts[i].hostName = r.exts[i].hostName
    BY <1>8, <1>9
  <2> QED BY <2>1, <2>2, <2>3, <2>4 DEF y
<1> QED BY <1>4, <1>7, <1>9, <1>10, <1>11, <1>12

\* The parser finds the same extension in the new record.
LEMMA FindsAgain ==
  ASSUME NEW r \in ClientRecords, fake \in Nat, NEW i \in Found(r),
         NEW o, o = RecordOut(r, i), o.payload < Limit16
  PROVE  /\ Slack(o) = Slack(r)
         /\ Found(o) = {i} /\ Found(r) = {i}
<1> DEFINE delta == fake - r.exts[i].name
           N == Len(r.exts)
           offset == ExtensionsLenOffset(r)
           at(n) == ExtStart(r, n)
           now(n) == ExtStart(o, n)
           len == r.exts[i].len
           name == r.exts[i].name
           last == ExtensionsEnd(r)
           end == ExtensionsEnd(o)
           payload == r.payload
           hello == r.hello
           payload2 == o.payload
           hello2 == o.hello
           newLen == o.exts[i].len
<1>1. /\ o \in ClientRecords
      /\ o.payload = r.payload + delta /\ o.hello = r.hello + delta
      /\ o.extensions = r.extensions + delta /\ ExtensionsLenOffset(o) = offset
      /\ Len(o.exts) = N
      /\ o.exts[i].len = len + delta /\ o.exts[i].list = (len + delta) - 2 /\ o.exts[i].name = fake
  BY RewrittenIs
<1>2. \A j \in 1..N : j # i => o.exts[j] = r.exts[j]
  BY RewrittenIs
<1>3. o.exts[i].serverName = r.exts[i].serverName
  BY RewrittenIs
<1>4. o.exts[i].hostName = r.exts[i].hostName
  BY RewrittenIs
<1>5. o.clientHello = r.clientHello
  BY RewrittenIs
<1>6. /\ i \in 1..N /\ N \in Nat /\ name \in Nat /\ len \in Nat /\ name + 5 <= len
      /\ at(i) \in Nat /\ offset + 2 <= at(i) /\ at(i) + 4 + len <= last
      /\ last <= r.hello /\ r.hello + 4 <= r.payload
      /\ r.payload \in Nat /\ r.hello \in Nat /\ r.extensions \in Nat
      /\ delta = fake - name
  BY FoundFits, OffsetIs
<1>7. /\ offset \in Nat /\ last = offset + 2 + r.extensions /\ end = offset + 2 + o.extensions
      /\ DOMAIN r.exts = 1..N /\ DOMAIN o.exts = 1..N
  BY <1>1, OffsetIs
<1>8. \A n \in 0..N : now(n + 1) = at(n + 1) + (IF n < i THEN 0 ELSE delta) /\ at(n + 1) \in Nat
  <2>1. o.exts[i].len - r.exts[i].len = delta
    <3>1. newLen = len + delta /\ delta = fake - name /\ len \in Nat /\ name \in Nat
      BY <1>1, <1>6
    <3>2. newLen - len = delta
      <4> HIDE DEF newLen, len, delta, name
      <4> QED BY <3>1
    <3> QED BY <3>2
  <2>2. \A j \in 1..Len(r.exts) : j # i => o.exts[j].len = r.exts[j].len
    BY <1>2
  <2>3. /\ i \in 1..Len(r.exts) /\ Len(o.exts) = Len(r.exts)
        /\ ExtensionsLenOffset(o) = ExtensionsLenOffset(r)
        /\ o \in ClientRecords
    BY <1>1, <1>6
  <2>4. \A n \in 0..Len(r.exts) :
           ExtStart(o, n + 1)
           = ExtStart(r, n + 1) + (IF n < i THEN 0 ELSE o.exts[i].len - r.exts[i].len)
    BY <2>2, <2>3, StartsMove
  <2> HIDE DEF delta
  <2>5. \A n \in 0..Len(r.exts) : ExtStart(r, n + 1) \in Nat
    BY ExtStartIs
  <2> QED BY <2>1, <2>4, <2>5
<1>9. \A j \in 1..i : now(j) = at(j) /\ at(j) \in Nat /\ at(j) <= at(i)
  <2> SUFFICES ASSUME NEW j \in 1..i PROVE now(j) = at(j) /\ at(j) \in Nat /\ at(j) <= at(i)
    OBVIOUS
  <2>1. j - 1 \in 0..N /\ (j - 1) + 1 = j /\ j - 1 < i
    BY <1>6
  <2> HIDE DEF at, now, delta, N
  <2>2. now(j) = at(j) + 0 /\ at(j) \in Nat
    BY <1>8, <2>1
  <2>3. at(j) <= at(i)
    <3>1. i \in 1..(N + 1)
      BY <1>6
    <3> QED BY <3>1, StartsAscend DEF at, N
  <2> QED BY <2>2, <2>3
<1>10. \A j \in 1..(i - 1) : at(j) + 4 + r.exts[j].len <= at(i) /\ r.exts[j].len \in Nat
  <2> SUFFICES ASSUME NEW j \in 1..(i - 1)
               PROVE  at(j) + 4 + r.exts[j].len <= at(i) /\ r.exts[j].len \in Nat
    OBVIOUS
  <2>1. j \in 1..N /\ j + 1 \in 1..i
    BY <1>6
  <2>2. at(j + 1) = at(j) + 4 + r.exts[j].len /\ r.exts[j].len \in Nat
    BY <2>1, ExtStartIs, OffsetIs
  <2> HIDE DEF at
  <2> QED BY <1>9, <2>1, <2>2
<1>11. /\ payload2 = payload + delta /\ hello2 = hello + delta
       /\ newLen = len + delta /\ delta = fake - name
  BY <1>1
<1>12. end = offset + 2 + (r.extensions + delta)
  BY <1>1, <1>7
<1>13. /\ i \in 1..N /\ N \in Nat /\ name \in Nat /\ len \in Nat /\ name + 5 <= len
       /\ at(i) \in Nat /\ offset \in Nat /\ offset + 2 <= at(i) /\ at(i) + 4 + len <= last
       /\ last <= hello /\ hello + 4 <= payload /\ payload \in Nat /\ hello \in Nat
  BY <1>6, <1>7
<1> HIDE DEF delta, N, offset, at, now, len, name, last, end, payload, hello, payload2, hello2, newLen
<1>14. /\ delta \in Int /\ delta + name = fake /\ end = last + delta /\ last \in Nat /\ end \in Int
       /\ payload2 \in Int /\ hello2 \in Int /\ newLen \in Int
  <2>1. delta \in Int /\ delta + name = fake
    BY <1>11, <1>13
  <2>2. last \in Nat
    BY <1>6, <1>7
  <2>3. \A a, m \in Nat, d \in Int : a + 2 + (m + d) = (a + 2 + m) + d
    OBVIOUS
  <2>4. end = last + delta
    <3>1. last = offset + 2 + r.extensions /\ r.extensions \in Nat /\ offset \in Nat
      BY <1>6, <1>7
    <3> QED BY <1>12, <2>1, <2>3, <3>1
  <2>5. payload2 \in Int /\ hello2 \in Int /\ newLen \in Int
    BY <1>11, <1>13, <2>1
  <2> QED BY <2>1, <2>2, <2>4, <2>5
<1>15. at(i) + 4 + len + delta <= end /\ at(i) <= end /\ offset + 2 <= end /\ 0 <= end
  <2>1. \A a, l, n, f, e, m \in Nat, d \in Int :
           d + n = f /\ n + 5 <= l /\ a + 4 + l <= e /\ m + 2 <= a
           => a + 4 + l + d <= e + d /\ a <= e + d /\ m + 2 <= e + d /\ 0 <= e + d
    OBVIOUS
  <2> QED BY <1>14, <1>13, <2>1
<1>16. Slack(o) = Slack(r)
  <2>1. N \in 0..N /\ ~(N < i)
    BY <1>6
  <2>2. now(N + 1) = at(N + 1) + delta /\ at(N + 1) \in Nat
    BY <1>8, <2>1
  <2>3. delta \in Int
    BY <1>6
  <2>4. /\ payload2 - hello2 = payload - hello
        /\ hello2 - end = hello - last
        /\ end - now(N + 1) = last - at(N + 1)
    <3>1. \A a, m \in Nat, d \in Int : (a + d) - (m + d) = a - m
      OBVIOUS
    <3> QED BY <1>14, <1>11, <1>13, <2>2, <3>1
  <2> QED BY <1>1, <2>4 DEF Slack, now, at, N, end, last, payload, hello, payload2, hello2
<1>17. HelloParses(o)
  <2>1. HelloParses(r)
    BY DEF Found
  <2>2. o.clientHello
    BY <2>1, <1>5 DEF HelloParses
  <2>3. /\ payload2 >= 4 /\ hello2 <= payload2 - 4
        /\ offset + 2 <= hello2 /\ end <= hello2
    <3>1. \A p, h, e \in Nat, m \in Nat, d \in Int :
             h + 4 <= p /\ e <= h /\ m + 2 <= e + d /\ 0 <= e + d
             => /\ p + d >= 4 /\ h + d <= (p + d) - 4 /\ m + 2 <= h + d /\ e + d <= h + d
      OBVIOUS
    <3> QED BY <1>14, <1>15, <1>11, <1>13, <3>1
  <2> QED BY <1>1, <2>2, <2>3 DEF HelloParses, HandshakeHeader, end, payload2, hello2
<1>18. \A j \in 1..i : ExtFits(o, j)
  <2> SUFFICES ASSUME NEW j \in 1..i PROVE now(j) + 4 + o.exts[j].len <= end
    BY DEF ExtFits, now, end
  <2>1. now(j) = at(j) /\ at(j) \in Nat
    BY <1>9
  <2>2. CASE j = i
    <3>1. o.exts[j].len = len + delta
      BY <1>1, <2>2
    <3>2. at(j) = at(i)
      BY <2>2
    <3>3. at(i) + 4 + (len + delta) = at(i) + 4 + len + delta
      BY <1>6, <1>14
    <3> QED BY <1>15, <2>1, <3>1, <3>2, <3>3
  <2>3. CASE j # i
    <3>1. j \in 1..(i - 1) /\ j \in 1..N
      BY <1>6, <2>3
    <3>2. o.exts[j].len = r.exts[j].len /\ at(j) + 4 + r.exts[j].len <= at(i) /\ r.exts[j].len \in Nat
      BY <1>2, <1>10, <2>3, <3>1
    <3>3. now(j) + 4 + o.exts[j].len <= at(i)
      BY <2>1, <3>2
    <3>4. now(j) + 4 + o.exts[j].len \in Nat /\ at(i) \in Nat
      BY <1>6, <2>1, <3>2
    <3> QED BY <1>14, <1>15, <3>3, <3>4
  <2> QED BY <2>2, <2>3
<1>19. NameFits(o.exts[i])
  <2>1. o.exts[i].hostName
    BY <1>4 DEF Found, NameFits
  <2>2. /\ o.exts[i].len >= 5 /\ 2 + o.exts[i].list <= o.exts[i].len
        /\ 5 + o.exts[i].name <= o.exts[i].len
    BY <1>1, <1>6
  <2> QED BY <2>1, <2>2 DEF NameFits
<1>20. \A j \in 1..N : o.exts[j].serverName <=> r.exts[j].serverName
  BY <1>2, <1>3
<1>21. r.exts[i].serverName /\ \A j \in 1..(i - 1) : ~r.exts[j].serverName
  BY DEF Found
<1>22. i \in Found(o)
  <2>1. \A j \in 1..(i - 1) : j \in 1..N
    BY <1>6
  <2> QED BY <1>6, <1>7, <1>17, <1>18, <1>19, <1>20, <1>21, <2>1 DEF Found
<1>23. ASSUME NEW x \in ClientRecords, NEW j \in Found(x), NEW k \in Found(x)
       PROVE  j = k
  <2>1. j \in 1..Len(x.exts) /\ k \in 1..Len(x.exts)
    <3>1. DOMAIN x.exts = 1..Len(x.exts)
      BY OffsetIs
    <3> QED BY <3>1 DEF Found
  <2>2. ~(j < k) /\ ~(k < j)
    BY <2>1 DEF Found
  <2> QED BY <2>1, <2>2
<1> QED BY <1>1, <1>16, <1>22, <1>23

-----------------------------------------------------------------------------

\* The record read and the name are what they were, and what goes out is that
\* record or its rewriting.
SniIInv ==
    /\ record \in Records /\ fake \in FakeNames
    /\ out = record \/ \E i \in Found(record) : out = RecordOut(record, i)

\* The invariant implies the property.
LEMMA InvariantSound ==
  ASSUME SniIInv
  PROVE  RewriteSound
<1> SUFFICES ASSUME out # record, out.payload < Limit16
             PROVE  /\ out.header = out.payload
                    /\ Slack(out) = Slack(record)
                    /\ Found(out) = Found(record)
                    /\ \A i \in Found(out) :
                          LET new == out.exts[i]  old == record.exts[i]
                              difference == fake - old.name IN
                          /\ new.name = fake
                          /\ new.len = old.len + difference
                          /\ new.list >= old.list + difference
                          /\ 2 + old.list = old.len => new.list = old.list + difference
  BY DEF RewriteSound
<1>1. record \in ClientRecords /\ fake \in Nat
  BY SniAssumption DEF SniIInv
<1>2. PICK i \in Found(record) : out = RecordOut(record, i)
  BY DEF SniIInv
<1>3. Slack(out) = Slack(record) /\ Found(out) = {i} /\ Found(record) = {i}
  BY <1>1, <1>2, FindsAgain
<1> DEFINE new == out.exts[i]
           old == record.exts[i]
           difference == fake - old.name
<1>4. /\ out.header = out.payload /\ new.name = fake
      /\ new.len = old.len + difference /\ new.list = new.len - 2
  BY <1>1, <1>2, RewrittenIs
<1>5. old.name \in Nat /\ old.len \in Nat /\ old.list \in Nat
  <2>1. i \in 1..Len(record.exts)
    BY <1>1, FoundFits
  <2>2. old \in Extensions
    BY <1>1, <2>1, OffsetIs
  <2> QED BY <2>2 DEF Extensions
\* The list reached to the end of its extension at most; now it does.
<1>6. 2 + old.list <= old.len
  BY DEF Found, NameFits
<1> HIDE DEF new, old
<1>7. /\ new.list >= old.list + difference
      /\ 2 + old.list = old.len => new.list = old.list + difference
  BY <1>1, <1>4, <1>5, <1>6
<1> QED BY <1>3, <1>4, <1>7 DEF new, old

\* rewriteTLSClientHelloRecordServerName: for every record a client may send
\* and every fake name, the lengths of what goes out cover what they did plus the
\* difference of the names - the list's at least that - and its parser finds the
\* fake name where the old one was.
THEOREM RewriteSoundHolds == SniSpec => []RewriteSound
<1>1. SniInit => SniIInv
  BY DEF SniInit, SniIInv
<1>2. SniIInv /\ [SniNext]_sniVars => SniIInv'
  BY DEF SniIInv, SniNext, Rewrite, sniVars, RecordOut, Patch, NewLen, Delta
<1>3. SniIInv => RewriteSound
  BY InvariantSound
<1> QED BY <1>1, <1>2, <1>3, PTL DEF SniSpec

-----------------------------------------------------------------------------
(* DialChain *)

Char == {CR, LF, Other, Nul}
Steps == {"lookup", "connect", "write", "read", "status", "returned", "failed"}

DialTypeOK ==
    /\ chain \in [outer : {"bypass", "fixed", "resolving"}, proxied : BOOLEAN,
                  tls : BOOLEAN]
    /\ step \in Steps
    /\ dialDone \in BOOLEAN
    /\ count \in 0..(MaxAddresses + 1) /\ turn \in Nat \ {0}
    /\ bytes \in Seq({CR, LF, Other})
    /\ ending \in {"silent", "after", "with", "mute"}
    /\ pos \in 0..Len(bytes)
    /\ b \in Char
    /\ buf \in Seq(Char)

\* The turns before this one have failed, and there is an address for this one.
Turns ==
    /\ FirstThatWorks
    /\ step = "lookup" => turn = 1
    /\ step \notin {"lookup", "failed"} => turn <= count

\* No blank line has been read when the loop goes on.
NoBlankLineYet == \A n \in 1..pos : ~EndsHeader(n)

\* What the buffers hold in the loop: the bytes read, and then copies of the
\* last one if the input has ended.
Collecting ==
    step = "read" =>
        /\ b = IF pos = 0 THEN Nul ELSE bytes[pos]
        /\ Len(buf) >= pos
        /\ Len(buf) > pos => pos = Len(bytes)
        /\ \A i \in 1..Len(buf) : buf[i] = IF i <= pos THEN bytes[i] ELSE b
        /\ NoBlankLineYet

\* Nothing has been read before the request is written.
Unread == step = "write" => pos = 0 /\ b = Nul /\ buf = <<>>

\* Only a proxied connection is spoken to.
Proxied == step \in {"write", "read", "status"} => chain.proxied

DialIInv == DialTypeOK /\ Turns /\ Collecting /\ Unread /\ Proxied /\ CleanHandover

-----------------------------------------------------------------------------
(* The end of a response *)

\* A sequence read backwards.
LEMMA ReverseProperties ==
    ASSUME NEW S, NEW s \in Seq(S)
    PROVE  /\ Reverse(s) \in Seq(S)
           /\ Len(Reverse(s)) = Len(s)
           /\ \A i \in 1..Len(s) : Reverse(s)[i] = s[(Len(s) - i) + 1]
<1>1. Len(s) \in Nat /\ \A i \in 1..Len(s) : s[(Len(s) - i) + 1] \in S
  BY LenProperties, ElementOfSeq
<1>2. Reverse(s) \in [1..Len(s) -> S]
  BY <1>1 DEF Reverse
<1>3. Reverse(s) \in Seq(S)
  BY <1>1, <1>2, SeqDef
<1>4. DOMAIN Reverse(s) = 1..Len(s) /\ DOMAIN Reverse(s) = 1..Len(Reverse(s))
  BY <1>2, <1>3, LenProperties
<1>5. Len(Reverse(s)) = Len(s)
  BY <1>1, <1>3, <1>4, LenProperties
<1>6. \A i \in 1..Len(s) : Reverse(s)[i] = s[(Len(s) - i) + 1]
  BY DEF Reverse
<1> QED BY <1>3, <1>5, <1>6

\* bytes.HasSuffix with a blank line, spelt out.
LEMMA EndsResponseMeaning ==
    ASSUME NEW s \in Seq(Char)
    PROVE  EndsResponse(s) <=>
             /\ Len(s) >= 4
             /\ s[Len(s) - 3] = CR /\ s[Len(s) - 2] = LF
             /\ s[Len(s) - 1] = CR /\ s[Len(s)] = LF
<1> DEFINE e == EndOfResponse
           r == Reverse(e)
           t == Reverse(s)
<1>1. /\ e \in Seq(Char) /\ Len(e) = 4
      /\ e[1] = CR /\ e[2] = LF /\ e[3] = CR /\ e[4] = LF
  BY DEF EndOfResponse, Char
<1>2. /\ r \in Seq(Char) /\ Len(r) = 4
      /\ \A i \in 1..4 : r[i] = e[(4 - i) + 1]
  <2> HIDE DEF e
  <2>1. /\ r \in Seq(Char) /\ Len(r) = Len(e)
        /\ \A i \in 1..Len(e) : r[i] = e[(Len(e) - i) + 1]
    BY <1>1, ReverseProperties
  <2> QED BY <1>1, <2>1
<1>3. r[1] = LF /\ r[2] = CR /\ r[3] = LF /\ r[4] = CR
  BY <1>1, <1>2
<1>4. /\ t \in Seq(Char) /\ Len(t) = Len(s) /\ Len(s) \in Nat
      /\ \A i \in 1..Len(s) : t[i] = s[(Len(s) - i) + 1]
  BY ReverseProperties, LenProperties
<1>5. EndsResponse(s) <=> 4 <= Len(t) /\ SubSeq(r, 1, 4) = SubSeq(t, 1, 4)
  BY <1>2 DEF EndsResponse, IsSuffix, IsPrefix
<1> HIDE DEF e, r, t
<1>6. ASSUME Len(s) >= 4
      PROVE  SubSeq(r, 1, 4) = SubSeq(t, 1, 4) <=> \A i \in 1..4 : r[i] = t[i]
  <2>1. \A i \in 1..4 : r[i] \in Char /\ t[i] \in Char
    <3> SUFFICES ASSUME NEW i \in 1..4 PROVE r[i] \in Char /\ t[i] \in Char
      OBVIOUS
    <3>1. i \in 1..Len(r) /\ i \in 1..Len(t)
      BY <1>2, <1>4, <1>6
    <3> QED BY <1>2, <1>4, <3>1, ElementOfSeq
  <2>2. /\ SubSeq(r, 1, 4) \in Seq(Char) /\ Len(SubSeq(r, 1, 4)) = 4
        /\ \A i \in 1..4 : SubSeq(r, 1, 4)[i] = r[i]
    BY <2>1, SubSeqProperties
  <2>3. /\ SubSeq(t, 1, 4) \in Seq(Char) /\ Len(SubSeq(t, 1, 4)) = 4
        /\ \A i \in 1..4 : SubSeq(t, 1, 4)[i] = t[i]
    BY <2>1, SubSeqProperties
  <2> QED BY <2>2, <2>3, SeqEqual
<1>7. ASSUME Len(s) >= 4
      PROVE  /\ t[1] = s[Len(s)] /\ t[2] = s[Len(s) - 1]
             /\ t[3] = s[Len(s) - 2] /\ t[4] = s[Len(s) - 3]
  <2>1. t[1] = s[(Len(s) - 1) + 1] /\ t[2] = s[(Len(s) - 2) + 1]
        /\ t[3] = s[(Len(s) - 3) + 1] /\ t[4] = s[(Len(s) - 4) + 1]
    BY <1>4, <1>7
  <2> QED BY <2>1, <1>4
<1>8. ASSUME Len(s) >= 4
      PROVE  (\A i \in 1..4 : r[i] = t[i]) <=>
                /\ s[Len(s) - 3] = CR /\ s[Len(s) - 2] = LF
                /\ s[Len(s) - 1] = CR /\ s[Len(s)] = LF
  <2>1. (\A i \in 1..4 : r[i] = t[i]) <=>
           r[1] = t[1] /\ r[2] = t[2] /\ r[3] = t[3] /\ r[4] = t[4]
    OBVIOUS
  <2> QED BY <2>1, <1>3, <1>7, <1>8
<1> QED BY <1>4, <1>5, <1>6, <1>8

\* The end of the header, spelt out.
LEMMA EndsHeaderMeaning ==
    ASSUME bytes \in Seq({CR, LF, Other}), NEW n \in 1..Len(bytes)
    PROVE  EndsHeader(n) <=>
             /\ n >= 4
             /\ bytes[n - 3] = CR /\ bytes[n - 2] = LF
             /\ bytes[n - 1] = CR /\ bytes[n] = LF
<1> DEFINE e == EndOfResponse
           w == SubSeq(bytes, n - 3, n)
<1>1. /\ e \in Seq(Char) /\ Len(e) = 4
      /\ e[1] = CR /\ e[2] = LF /\ e[3] = CR /\ e[4] = LF
  BY DEF EndOfResponse, Char
<1>2. ASSUME n >= 4
      PROVE  /\ w \in Seq(Char) /\ Len(w) = 4
             /\ w[1] = bytes[n - 3] /\ w[2] = bytes[n - 2]
             /\ w[3] = bytes[n - 1] /\ w[4] = bytes[n]
  <2>1. Len(bytes) \in Nat /\ \A i \in (n - 3)..n : bytes[i] \in Char
    BY <1>2, LenProperties, ElementOfSeq DEF Char
  <2>2. /\ w \in Seq(Char) /\ Len(w) = 4
        /\ \A i \in 1..4 : w[i] = bytes[(n - 3) + i - 1]
    <3>1. n \in Int /\ n - 3 \in Int /\ n - 3 <= n
          /\ n - (n - 3) + 1 = 4
      BY <2>1
    <3>2. w \in Seq(Char)
      BY <2>1, <3>1, SubSeqProperties
    <3>3. Len(w) = 4
      BY <2>1, <3>1, SubSeqProperties
    <3>4. \A i \in 1..4 : w[i] = bytes[(n - 3) + i - 1]
      BY <2>1, <3>1, SubSeqProperties
    <3> QED BY <3>2, <3>3, <3>4
  <2> HIDE DEF w
  <2>3. /\ w[1] = bytes[(n - 3) + 1 - 1] /\ w[2] = bytes[(n - 3) + 2 - 1]
        /\ w[3] = bytes[(n - 3) + 3 - 1] /\ w[4] = bytes[(n - 3) + 4 - 1]
    BY <2>2
  <2>4. /\ (n - 3) + 1 - 1 = n - 3 /\ (n - 3) + 2 - 1 = n - 2
        /\ (n - 3) + 3 - 1 = n - 1 /\ (n - 3) + 4 - 1 = n
    BY <2>1
  <2> QED BY <2>2, <2>3, <2>4
<1>3. EndsHeader(n) <=> n >= 4 /\ w = e
  BY DEF EndsHeader
<1> HIDE DEF e, w
<1>4. ASSUME n >= 4
      PROVE  w = e <=> w[1] = e[1] /\ w[2] = e[2] /\ w[3] = e[3] /\ w[4] = e[4]
  <2>1. ASSUME w[1] = e[1], w[2] = e[2], w[3] = e[3], w[4] = e[4]
        PROVE  w = e
    <3>1. \A i \in 1..4 : w[i] = e[i]
      BY <2>1
    <3> QED BY <1>1, <1>2, <1>4, <3>1, SeqEqual
  <2> QED BY <2>1
<1> QED BY <1>1, <1>2, <1>3, <1>4

-----------------------------------------------------------------------------
(* The turns *)

\* A failed turn is recorded, and the next one starts or the dial has failed.
LEMMA TurnFailsKeepsTurns ==
    ASSUME DialTypeOK, Turns, step \notin {"lookup", "failed"}, TurnFails, UNCHANGED count
    PROVE  /\ Turns' /\ step' \in {"connect", "failed"} /\ turn' \in Nat \ {0}
<1>1. turn \in Nat \ {0} /\ count \in Nat /\ turn <= count /\ failed = 1..(turn - 1)
  BY DialChainAssumption DEF DialTypeOK, Turns, FirstThatWorks
<1>2. failed' = 1..turn
  BY <1>1 DEF TurnFails
<1>3. CASE turn < count
  BY <1>1, <1>2, <1>3 DEF TurnFails, Turns, FirstThatWorks
<1>4. CASE ~(turn < count)
  BY <1>1, <1>2, <1>4 DEF TurnFails, Turns, FirstThatWorks
<1> QED BY <1>3, <1>4

\* A dial that goes back to connecting, or fails, leaves no claim about the
\* upstream behind.
LEMMA TurnOver ==
    ASSUME DialIInv, step \notin {"lookup", "failed"}, TurnFails,
           UNCHANGED <<settings, count, stream>>,
           pos' \in 0..Len(bytes), b' \in Char, buf' \in Seq(Char)
    PROVE  DialIInv'
<1>1. Turns' /\ step' \in {"connect", "failed"} /\ turn' \in Nat \ {0}
  BY TurnFailsKeepsTurns DEF DialIInv
<1>2. DialTypeOK'
  BY <1>1 DEF DialIInv, DialTypeOK, settings, stream, Steps
<1>3. Collecting' /\ Unread' /\ Proxied' /\ CleanHandover'
  BY <1>1 DEF Collecting, Unread, Proxied, CleanHandover
<1> QED BY <1>1, <1>2, <1>3 DEF DialIInv

\* The lookup: the first turn, or the failure of an empty answer.
LEMMA LookupInvariant == DialIInv /\ (Lookup \/ LookupFails) => DialIInv'
<1> SUFFICES ASSUME DialIInv, Lookup \/ LookupFails
             PROVE  DialIInv'
  OBVIOUS
<1> USE DEF DialIInv
<1>1. turn = 1 /\ failed = {} /\ step = "lookup"
  BY DEF Turns, FirstThatWorks, Lookup, LookupFails
<1>2. /\ count' \in 0..MaxAddresses
      /\ step' = IF count' = 0 THEN "failed" ELSE "connect"
      /\ UNCHANGED <<settings, turn, failed, stream, reader>>
  BY DialChainAssumption DEF Lookup, LookupFails
<1>3. DialTypeOK'
  BY <1>2, DialChainAssumption DEF DialTypeOK, settings, stream, reader, Steps
<1>4. Turns'
  BY <1>1, <1>2, DialChainAssumption DEF Turns, FirstThatWorks
<1>5. Collecting' /\ Unread' /\ Proxied' /\ CleanHandover'
  BY <1>2 DEF Collecting, Unread, Proxied, CleanHandover
<1> QED BY <1>3, <1>4, <1>5

\* A fresh connection: nothing of it has been read.
LEMMA ConnectInvariant == DialIInv /\ Connect => DialIInv'
<1> SUFFICES ASSUME DialIInv, Connect
             PROVE  DialIInv'
  OBVIOUS
<1> USE DEF DialIInv
<1>1. CASE chain.proxied
  <2>1. bytes' \in Seq({CR, LF, Other})
    <3>1. \A m \in 0..MaxBytes : [1..m -> {CR, LF, Other}] \subseteq Seq({CR, LF, Other})
      BY SeqDef, DialChainAssumption
    <3>2. Streams \subseteq Seq({CR, LF, Other})
      BY <3>1 DEF Streams, SeqOf
    <3>3. <<>> \in Seq({CR, LF, Other})
      BY EmptySeq
    <3> QED BY <1>1, <3>2, <3>3 DEF Connect
  <2>2. /\ ending' \in {"silent", "after", "with", "mute"} /\ step' = "write"
        /\ pos' = 0 /\ b' = Nul /\ buf' = <<>>
        /\ UNCHANGED <<settings, count, turn, failed>>
    BY <1>1 DEF Connect
  <2>3. pos' \in 0..Len(bytes') /\ b' \in Char /\ buf' \in Seq(Char)
    BY <2>1, <2>2, LenProperties, EmptySeq DEF Char
  <2>4. DialTypeOK'
    BY <2>1, <2>2, <2>3 DEF DialTypeOK, settings, Steps
  <2>5. Turns'
    BY <2>2 DEF Turns, FirstThatWorks, Connect
  <2>6. Collecting' /\ Unread' /\ Proxied' /\ CleanHandover'
    BY <1>1, <2>2 DEF Collecting, Unread, Proxied, CleanHandover, settings
  <2> QED BY <2>4, <2>5, <2>6
<1>2. CASE ~chain.proxied
  <2>1. /\ step' = "returned" /\ step = "connect"
        /\ UNCHANGED <<settings, count, turn, failed, stream, reader>>
    BY <1>2 DEF Connect
  <2>2. DialTypeOK'
    BY <2>1 DEF DialTypeOK, settings, stream, reader, Steps
  <2>3. Turns'
    BY <2>1 DEF Turns, FirstThatWorks
  <2>4. Collecting' /\ Unread' /\ Proxied' /\ CleanHandover'
    BY <1>2, <2>1 DEF Collecting, Unread, Proxied, CleanHandover, settings
  <2> QED BY <2>2, <2>3, <2>4
<1> QED BY <1>1, <1>2

\* A failure before or after the answer of the upstream.
LEMMA FailureInvariant ==
    DialIInv /\ (ConnectFails \/ WriteFails \/ StatusBad) => DialIInv'
<1> SUFFICES ASSUME DialIInv, ConnectFails \/ WriteFails \/ StatusBad
             PROVE  DialIInv'
  OBVIOUS
<1>1. /\ step \notin {"lookup", "failed"} /\ TurnFails
      /\ UNCHANGED <<settings, count, stream, reader>>
  BY DEF ConnectFails, WriteFails, StatusBad
<1>2. pos' \in 0..Len(bytes) /\ b' \in Char /\ buf' \in Seq(Char)
  BY <1>1 DEF DialIInv, DialTypeOK, reader
<1>3. UNCHANGED <<settings, count, stream>>
  BY <1>1
<1> QED BY <1>1, <1>2, <1>3, TurnOver

\* The request is written: the loop starts with empty hands.
LEMMA WriteInvariant == DialIInv /\ Write => DialIInv'
<1> SUFFICES ASSUME DialIInv, Write
             PROVE  DialIInv'
  OBVIOUS
<1> USE DEF DialIInv
<1>1. /\ step = "write" /\ step' = "read" /\ pos = 0 /\ b = Nul /\ buf = <<>>
      /\ UNCHANGED <<settings, count, turn, failed, stream, reader>>
  BY DEF Write, Unread
<1>2. DialTypeOK'
  BY <1>1 DEF DialTypeOK, settings, stream, reader, Steps
<1>3. Turns'
  BY <1>1 DEF Turns, FirstThatWorks
<1>4. Len(buf) = 0
  BY <1>1, EmptySeq
<1>5. Collecting'
  BY <1>1, <1>4 DEF Collecting, NoBlankLineYet, reader
<1>6. Unread' /\ Proxied' /\ CleanHandover'
  BY <1>1 DEF Unread, Proxied, CleanHandover, settings
<1> QED BY <1>2, <1>3, <1>5, <1>6

-----------------------------------------------------------------------------
(* One turn of the loop of readResponse *)

\* What a turn leaves in the buffers, whether it read a byte or not.
LEMMA ReadCollects ==
    ASSUME DialIInv, ReadByte
    PROVE  /\ buf' \in Seq(Char) /\ b' \in Char /\ pos' \in 0..Len(bytes)
           /\ Len(buf') = Len(buf) + 1 /\ Len(buf') >= pos'
           /\ b' = IF pos' = 0 THEN Nul ELSE bytes[pos']
           /\ Len(buf') > pos' => pos' = Len(bytes)
           /\ \A i \in 1..Len(buf') : buf'[i] = IF i <= pos' THEN bytes[i] ELSE b'
<1> USE DEF DialIInv
<1> DEFINE x == IF pos < Len(bytes) THEN bytes[pos + 1] ELSE b
<1>1. /\ Len(bytes) \in Nat /\ Len(buf) \in Nat /\ pos \in 0..Len(bytes)
      /\ b = IF pos = 0 THEN Nul ELSE bytes[pos]
      /\ Len(buf) >= pos /\ (Len(buf) > pos => pos = Len(bytes))
      /\ \A i \in 1..Len(buf) : buf[i] = IF i <= pos THEN bytes[i] ELSE b
  BY LenProperties DEF DialTypeOK, Collecting, ReadByte
<1>2. x \in Char
  BY <1>1, ElementOfSeq DEF DialTypeOK, Char
<1>3. buf' = Append(buf, x) /\ b' = x
      /\ pos' = IF pos < Len(bytes) THEN pos + 1 ELSE pos
  BY DEF ReadByte, Collected
<1>4. /\ buf' \in Seq(Char) /\ Len(buf') = Len(buf) + 1
      /\ \A i \in 1..Len(buf) : buf'[i] = buf[i]
      /\ buf'[Len(buf) + 1] = x
  <2>1. buf \in Seq(Char)
    BY DEF DialTypeOK
  <2> HIDE DEF x
  <2> QED BY <2>1, <1>2, <1>3, AppendProperties
<1>5. CASE pos < Len(bytes)
  <2>1. x = bytes[pos + 1] /\ pos' = pos + 1 /\ Len(buf) = pos
    BY <1>1, <1>3, <1>5
  <2>2. \A i \in 1..Len(buf') : buf'[i] = bytes[i]
    <3> SUFFICES ASSUME NEW i \in 1..Len(buf') PROVE buf'[i] = bytes[i]
      OBVIOUS
    <3>1. CASE i \in 1..Len(buf)
      BY <3>1, <1>1, <1>4, <2>1
    <3>2. CASE i = Len(buf) + 1
      BY <3>2, <1>4, <2>1
    <3> QED BY <1>1, <1>4, <3>1, <3>2
  <2> HIDE DEF x
  <2> QED BY <1>1, <1>2, <1>3, <1>4, <1>5, <2>1, <2>2
<1>6. CASE pos = Len(bytes)
  <2>1. x = b /\ pos' = pos
    BY <1>1, <1>3, <1>6
  <2>2. \A i \in 1..Len(buf') : buf'[i] = IF i <= pos THEN bytes[i] ELSE b
    <3> SUFFICES ASSUME NEW i \in 1..Len(buf')
                 PROVE  buf'[i] = IF i <= pos THEN bytes[i] ELSE b
      OBVIOUS
    <3>1. CASE i \in 1..Len(buf)
      BY <3>1, <1>1, <1>4, <2>1
    <3>2. CASE i = Len(buf) + 1
      BY <3>2, <1>1, <1>4, <2>1
    <3> QED BY <1>1, <1>4, <3>1, <3>2
  <2> HIDE DEF x
  <2> QED BY <1>1, <1>2, <1>3, <1>4, <1>6, <2>1, <2>2
<1> QED BY <1>1, <1>5, <1>6

\* The loop stops with success only at the byte that ends the header: copies
\* of the last byte cannot make a blank line.
LEMMA NoFalseEnd ==
    ASSUME DialIInv, ReadByte
    PROVE  EndsResponse(buf') <=> pos < Len(bytes) /\ EndsHeader(pos')
<1> USE DEF DialIInv
<1> DEFINE n == Len(buf')
<1>1. /\ Len(bytes) \in Nat /\ Len(buf) \in Nat /\ pos \in 0..Len(bytes)
      /\ Len(buf) >= pos /\ (Len(buf) > pos => pos = Len(bytes))
      /\ b = IF pos = 0 THEN Nul ELSE bytes[pos]
  BY LenProperties DEF DialTypeOK, Collecting, ReadByte
<1>2. /\ buf' \in Seq(Char) /\ n = Len(buf) + 1
      /\ \A i \in 1..n : buf'[i] = IF i <= pos' THEN bytes[i] ELSE b'
  BY ReadCollects
<1>3. /\ b' = IF pos < Len(bytes) THEN bytes[pos + 1] ELSE b
      /\ pos' = IF pos < Len(bytes) THEN pos + 1 ELSE pos
  BY DEF ReadByte
<1>4. EndsResponse(buf') <=>
         n >= 4 /\ buf'[n - 3] = CR /\ buf'[n - 2] = LF
                /\ buf'[n - 1] = CR /\ buf'[n] = LF
  BY <1>2, EndsResponseMeaning
<1> HIDE DEF n
<1>5. CASE pos < Len(bytes)
  <2>1. n = pos' /\ pos' = pos + 1 /\ pos' \in 1..Len(bytes)
    BY <1>1, <1>2, <1>3, <1>5
  <2>2. \A i \in 1..n : buf'[i] = bytes[i]
    BY <1>2, <2>1
  <2>3. EndsHeader(pos') <=>
           n >= 4 /\ bytes[n - 3] = CR /\ bytes[n - 2] = LF
                  /\ bytes[n - 1] = CR /\ bytes[n] = LF
    BY <2>1, EndsHeaderMeaning DEF DialTypeOK
  <2>4. n >= 4 => /\ buf'[n - 3] = bytes[n - 3] /\ buf'[n - 2] = bytes[n - 2]
                  /\ buf'[n - 1] = bytes[n - 1] /\ buf'[n] = bytes[n]
    BY <2>1, <2>2
  <2> QED BY <1>4, <1>5, <2>3, <2>4
<1>6. CASE pos = Len(bytes)
  <2>1. n >= pos + 1 /\ pos' = pos /\ b' = b
    BY <1>1, <1>2, <1>3, <1>6
  <2>2. buf'[n] = b
    BY <1>1, <1>2, <2>1
  <2>3. CASE pos = 0
    <3>1. b = Nul
      BY <1>1, <2>3
    <3>2. Nul # LF
      BY DEF Nul, LF
    <3> QED BY <1>4, <1>6, <2>2, <3>1, <3>2
  <2>4. CASE pos > 0
    <3>1. buf'[n - 1] = b
      <4>1. n - 1 \in 1..n /\ n - 1 >= pos
        BY <1>1, <1>2, <2>1, <2>4
      <4>2. CASE n - 1 = pos
        BY <1>1, <1>2, <2>1, <2>4, <4>1, <4>2
      <4>3. CASE n - 1 > pos
        BY <1>1, <1>2, <2>1, <4>1, <4>3
      <4> QED BY <1>1, <1>2, <4>1, <4>2, <4>3
    <3>2. CR # LF
      BY DEF CR, LF
    <3> QED BY <1>4, <1>6, <2>2, <3>1, <3>2
  <2> QED BY <1>1, <2>3, <2>4
<1> QED BY <1>1, <1>5, <1>6

\* One turn of the loop keeps the invariant.
LEMMA ReadInvariant == DialIInv /\ ReadByte => DialIInv'
<1> SUFFICES ASSUME DialIInv, ReadByte
             PROVE  DialIInv'
  OBVIOUS
<1> USE DEF DialIInv
<1>1. /\ buf' \in Seq(Char) /\ b' \in Char /\ pos' \in 0..Len(bytes)
      /\ Len(buf') >= pos'
      /\ b' = IF pos' = 0 THEN Nul ELSE bytes[pos']
      /\ Len(buf') > pos' => pos' = Len(bytes)
      /\ \A i \in 1..Len(buf') : buf'[i] = IF i <= pos' THEN bytes[i] ELSE b'
  BY ReadCollects
<1>2. /\ Len(bytes) \in Nat /\ Len(buf') \in Nat /\ pos \in 0..Len(bytes)
      /\ step = "read" /\ chain.proxied
      /\ \A n \in 1..pos : ~EndsHeader(n)
      /\ UNCHANGED <<settings, count, stream>>
  BY <1>1, LenProperties DEF DialTypeOK, ReadByte, Collecting, NoBlankLineYet, Proxied
<1>3. UNCHANGED <<bytes, chain>>
  BY <1>2 DEF stream, settings
<1>4. pos' = IF pos < Len(bytes) THEN pos + 1 ELSE pos
  BY DEF ReadByte
<1>5. EndsResponse(buf') <=> pos < Len(bytes) /\ EndsHeader(pos')
  BY NoFalseEnd
<1>6. CASE Len(buf') >= 4 /\ EndsResponse(buf')
  <2>1. step' = "status" /\ UNCHANGED <<turn, failed>>
    BY <1>6 DEF ReadByte
  <2>2. pos' = pos + 1 /\ EndsHeader(pos')
    BY <1>4, <1>5, <1>6
  <2>3. DialTypeOK'
    BY <1>1, <1>2, <2>1 DEF DialTypeOK, settings, stream, Steps
  <2>4. Turns'
    BY <1>2, <2>1 DEF Turns, FirstThatWorks
  <2>5. CleanHandover'
    <3>1. EndsHeader(pos)' /\ \A n \in 1..(pos' - 1) : ~EndsHeader(n)'
      BY <1>2, <1>3, <2>2 DEF EndsHeader
    <3> QED BY <3>1 DEF CleanHandover
  <2>6. Collecting' /\ Unread' /\ Proxied'
    BY <1>2, <1>3, <2>1 DEF Collecting, Unread, Proxied
  <2> QED BY <2>3, <2>4, <2>5, <2>6
<1>7. CASE ~(Len(buf') >= 4 /\ EndsResponse(buf'))
           /\ Len(buf') >= 4
           /\ (pos = Len(bytes) \/ (pos + 1 = Len(bytes) /\ ending = "with"))
  <2>1. TurnFails
    BY <1>7 DEF ReadByte
  <2>2. step \notin {"lookup", "failed"} /\ UNCHANGED <<settings, count, stream>>
    BY <1>2
  <2> QED BY <1>1, <2>1, <2>2, TurnOver
<1>8. CASE ~(Len(buf') >= 4 /\ EndsResponse(buf'))
           /\ ~(Len(buf') >= 4
                /\ (pos = Len(bytes) \/ (pos + 1 = Len(bytes) /\ ending = "with")))
  <2>1. UNCHANGED <<step, turn, failed>>
    BY <1>8 DEF ReadByte
  <2>2. DialTypeOK'
    BY <1>1, <1>2, <2>1 DEF DialTypeOK, settings, stream
  <2>3. Turns'
    BY <1>2, <2>1 DEF Turns, FirstThatWorks
  <2>4. \A n \in 1..pos' : ~EndsHeader(n)
    <3>1. CASE pos < Len(bytes)
      <4>1. ~EndsHeader(pos')
        <5>1. CASE Len(buf') >= 4
          BY <1>5, <1>8, <3>1, <5>1
        <5>2. CASE Len(buf') < 4
          <6>1. pos' \in Int /\ ~(pos' >= 4)
            BY <1>1, <1>2, <5>2
          <6> QED BY <6>1 DEF EndsHeader
        <5> QED BY <1>2, <5>1, <5>2
      <4> QED BY <1>2, <1>4, <3>1, <4>1
    <3>2. CASE ~(pos < Len(bytes))
      BY <1>2, <1>4, <3>2
    <3> QED BY <3>1, <3>2
  <2>5. NoBlankLineYet'
    <3>1. \A n \in 1..pos' : ~EndsHeader(n)'
      BY <1>3, <2>4 DEF EndsHeader
    <3> QED BY <3>1 DEF NoBlankLineYet
  <2>6. Collecting'
    BY <1>1, <1>3, <2>5 DEF Collecting
  <2>7. Unread' /\ Proxied' /\ CleanHandover'
    BY <1>2, <1>3, <2>1 DEF Unread, Proxied, CleanHandover
  <2> QED BY <2>2, <2>3, <2>6, <2>7
<1> QED BY <1>6, <1>7, <1>8

\* The status is looked at, the context ends: the claims about the upstream
\* stay as they are.
LEMMA RestInvariant ==
    DialIInv /\ (StatusOK \/ ContextEnds \/ UNCHANGED dialVars) => DialIInv'
<1> SUFFICES ASSUME DialIInv, StatusOK \/ ContextEnds \/ UNCHANGED dialVars
             PROVE  DialIInv'
  OBVIOUS
<1> USE DEF DialIInv
<1>1. /\ UNCHANGED <<chain, count, turn, failed, bytes, ending, pos, b, buf>>
      /\ dialDone' \in BOOLEAN
      /\ step' = step \/ (step = "status" /\ step' = "returned")
  BY DEF StatusOK, ContextEnds, dialVars, settings, stream, reader, DialTypeOK
<1>2. DialTypeOK'
  BY <1>1 DEF DialTypeOK, Steps
<1>3. Turns'
  BY <1>1 DEF Turns, FirstThatWorks
<1>4. Collecting' /\ Unread' /\ Proxied'
  BY <1>1 DEF Collecting, NoBlankLineYet, EndsHeader, Unread, Proxied
<1>5. CleanHandover'
  BY <1>1 DEF CleanHandover, EndsHeader
<1> QED BY <1>2, <1>3, <1>4, <1>5

-----------------------------------------------------------------------------

\* The invariant holds at the start.
LEMMA InitInvariant == DialInit => DialIInv
<1> SUFFICES ASSUME DialInit
             PROVE  DialIInv
  OBVIOUS
<1>1. step \in {"lookup", "connect"} /\ count = 1 /\ turn = 1 /\ failed = {}
  BY DEF DialInit
<1>2. /\ bytes \in Seq({CR, LF, Other}) /\ Len(bytes) = 0 /\ buf \in Seq(Char)
  BY EmptySeq DEF DialInit
<1>3. DialTypeOK
  <2>1. count \in 0..(MaxAddresses + 1)
    BY <1>1, DialChainAssumption
  <2>2. pos \in 0..Len(bytes)
    BY <1>2 DEF DialInit
  <2>3. /\ chain \in [outer : {"bypass", "fixed", "resolving"}, proxied : BOOLEAN,
                       tls : BOOLEAN]
        /\ dialDone \in BOOLEAN /\ ending \in {"silent", "after", "with", "mute"}
    BY DEF DialInit
  <2>4. step \in Steps /\ turn \in Nat \ {0} /\ b \in Char
    BY <1>1 DEF DialInit, Steps, Char
  <2> QED BY <1>2, <2>1, <2>2, <2>3, <2>4 DEF DialTypeOK
<1>4. Turns
  BY <1>1 DEF Turns, FirstThatWorks
<1>5. Collecting /\ Unread /\ Proxied /\ CleanHandover
  BY <1>1 DEF Collecting, Unread, Proxied, CleanHandover
<1> QED BY <1>3, <1>4, <1>5 DEF DialIInv

\* The invariant is inductive.
LEMMA NextInvariant == DialIInv /\ [DialNext]_dialVars => DialIInv'
BY LookupInvariant, ConnectInvariant, FailureInvariant, WriteInvariant, ReadInvariant,
   RestInvariant DEF DialNext, Dial

\* Every variable has its type.
THEOREM DialTypeCorrect == DialSpec => []DialTypeOK
<1>1. DialIInv => DialTypeOK
  BY DEF DialIInv
<1> QED BY InitInvariant, NextInvariant, <1>1, PTL DEF DialSpec

\* A connection is handed over at the first blank line of the upstream's
\* answer, not a byte earlier or later (upstream.go:189-214).
THEOREM HandoverClean == DialSpec => []CleanHandover
<1>1. DialIInv => CleanHandover
  BY DEF DialIInv
<1> QED BY InitInvariant, NextInvariant, <1>1, PTL DEF DialSpec

\* The address in use is the first that works, and a failure is that of all
\* addresses (dialer/resolver.go:47-60).
THEOREM AddressesInOrder == DialSpec => []FirstThatWorks
<1>1. DialIInv => FirstThatWorks
  BY DEF DialIInv, Turns
<1> QED BY InitInvariant, NextInvariant, <1>1, PTL DEF DialSpec
=============================================================================
