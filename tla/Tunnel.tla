------------------------------- MODULE Tunnel -------------------------------
(***************************************************************************)
(* One client's request: HandleTunnel and proxy (handler/handler.go) for   *)
(* an HTTP/1 CONNECT, HandleRequest and copyBody for any other HTTP        *)
(* method, handleSocksConnect (handler/socks.go) for SOCKS5, and           *)
(* copyWithSNIRewrite (handler/tls_sni.go), which holds back a TLS         *)
(* ClientHello until its record is complete.                               *)
(*                                                                         *)
(* A stream is counted in units: the first HeaderLen units stand for the   *)
(* five bytes of a TLS record header, the first RecordLen for the whole    *)
(* first record.  The client's stream is sent[1..clientSent]; forwarded    *)
(* holds the units upstream got, in order, with Rewritten standing for a   *)
(* rewritten first record.  A plain request has no body; what its client   *)
(* sends is the start of its next request.  HTTP/2 is left out: the listener is plain      *)
(* http.ListenAndServe, which never hands ProtoMajor 2 CONNECTs over.      *)
(***************************************************************************)
EXTENDS Integers, Sequences

CONSTANTS HeaderLen, RecordLen,
          MaxClient,    \* bound on the units a client sends
          MaxUpstream   \* bound on the units an upstream sends

ASSUME TunnelAssumption ==
    /\ HeaderLen \in Nat \ {0} /\ RecordLen \in Nat /\ RecordLen > HeaderLen
    /\ MaxClient \in Nat /\ MaxUpstream \in Nat

Rewritten == 0

VARIABLES
    setting,      \* [mode, fakeSNI, hello, rewritable]: the case at hand, fixed
    phase,        \* where the handler is
    client,       \* the client's side: "open", "half" (sent FIN) or "gone"
    clientSent,   \* units the client has written
    upstream,     \* the upstream's side, likewise
    upstreamSent, \* units the upstream has written
    ltr, rtl,     \* the two copying goroutines
    taken,        \* client units ltr is past
    forwarded,    \* what ltr has written to the upstream
    returned,     \* upstream units rtl has written to the client
    leftClosed,   \* this side has closed the client connection, or is through with
                  \* it: net/http may use it for the client's next request
    rightOpened, rightClosed, \* the upstream connection was dialed; was closed, or
                              \* is the transport's again
    ctxDone       \* the request's context is done

clientVars == <<client, clientSent>>
upstreamVars == <<upstream, upstreamSent>>
copyVars == <<ltr, rtl, taken, forwarded, returned>>
connVars == <<leftClosed, rightOpened, rightClosed>>
vars == <<setting, phase, clientVars, upstreamVars, copyVars, connVars, ctxDone>>

Plain == setting.mode = "plain"

Init ==
    /\ setting \in [mode : {"http", "socks", "plain"}, fakeSNI : BOOLEAN,
                    hello : BOOLEAN, rewritable : BOOLEAN]
    /\ setting.rewritable => setting.hello
    /\ Plain => ~setting.fakeSNI /\ ~setting.hello
    /\ phase = "dial"
    /\ client = "open" /\ clientSent = 0
    /\ upstream = "open" /\ upstreamSent = 0
    /\ ltr = "off" /\ rtl = "off"
    /\ taken = 0 /\ forwarded = <<>> /\ returned = 0
    /\ leftClosed = FALSE /\ rightOpened = FALSE /\ rightClosed = FALSE
    /\ ctxDone = FALSE

-----------------------------------------------------------------------------
(* The two peers *)

\* The client may write before its CONNECT is answered.
ClientSends ==
    /\ client = "open" /\ ~leftClosed /\ clientSent < MaxClient
    /\ clientSent' = clientSent + 1
    /\ UNCHANGED <<setting, phase, client, upstreamVars, copyVars, connVars, ctxDone>>

\* The HTTP server reads ahead while its handler runs.
Watched ==
    /\ clientSent = 0
    /\ \/ setting.mode = "http" /\ phase = "dial"
       \/ Plain /\ phase \in {"dial", "reply", "copying"}

\* It shuts down its sending side, or goes away altogether.  Until a hijack the
\* HTTP server cancels the request's context when it reads the end of an idle
\* connection.
ClientEnds ==
    /\ client # "gone"
    /\ client' \in (IF client = "open" THEN {"half", "gone"} ELSE {"gone"})
    /\ ctxDone' = (ctxDone \/ Watched)
    /\ UNCHANGED <<setting, phase, clientSent, upstreamVars, copyVars, connVars>>

UpstreamSends ==
    /\ rightOpened /\ ~rightClosed
    /\ upstream = "open" /\ upstreamSent < MaxUpstream
    /\ upstreamSent' = upstreamSent + 1
    /\ UNCHANGED <<setting, phase, clientVars, upstream, copyVars, connVars, ctxDone>>

UpstreamEnds ==
    /\ rightOpened /\ upstream # "gone"
    /\ upstream' \in (IF upstream = "open" THEN {"half", "gone"} ELSE {"gone"})
    /\ UNCHANGED <<setting, phase, clientVars, upstreamSent, copyVars, connVars, ctxDone>>

-----------------------------------------------------------------------------
(* The handler, up to the two goroutines *)

\* DialContext or RoundTrip fails, also on a done context: 502, 500, or a SOCKS
\* error reply.
DialFails ==
    /\ phase = "dial"
    /\ phase' = "ended"
    /\ leftClosed' = TRUE
    /\ UNCHANGED <<setting, clientVars, upstreamVars, copyVars, rightOpened,
                   rightClosed, ctxDone>>

DialSucceeds ==
    /\ phase = "dial"
    /\ phase' = "reply"
    /\ rightOpened' = TRUE
    /\ UNCHANGED <<setting, clientVars, upstreamVars, copyVars, leftClosed,
                   rightClosed, ctxDone>>

\* hijack fails: the handler answers 500 and returns; nobody closes upstream.
HijackFails ==
    /\ phase = "reply" /\ setting.mode = "http"
    /\ phase' = "hijackFailed"
    /\ leftClosed' = TRUE
    /\ UNCHANGED <<setting, clientVars, upstreamVars, copyVars, rightOpened,
                   rightClosed, ctxDone>>

\* Mutant: the reply's failure returns without target.Close().
ReplyFailsLeaking ==
    /\ phase = "reply" /\ setting.mode = "socks" /\ client = "gone"
    /\ phase' = "ended"
    /\ leftClosed' = TRUE
    /\ UNCHANGED <<setting, clientVars, upstreamVars, copyVars, rightOpened,
                   rightClosed, ctxDone>>

\* SendReply fails: the SOCKS handler closes upstream and returns.
ReplyFails ==
    /\ phase = "reply" /\ setting.mode = "socks" /\ client = "gone"
    /\ phase' = "ended"
    /\ leftClosed' = TRUE /\ rightClosed' = TRUE
    /\ UNCHANGED <<setting, clientVars, upstreamVars, copyVars, rightOpened, ctxDone>>

\* Mutant: the tunnel reads the hijacked connection, not the server's buffer.
UnreadAfterBuffer(buffered) == buffered

\* Units the tunnel's client reader skips, when the server had buffered some:
\* none, since io.MultiReader puts the buffer first.
UnreadAfter(buffered) == IF buffered > 0 THEN 0 ELSE buffered

\* The success reply is written and both goroutines start.  The HTTP handler
\* ignores a failure of that write.
StartCopying ==
    /\ phase = "reply" /\ ~Plain
    /\ phase' = "copying"
    /\ ltr' = IF setting.fakeSNI THEN "peek" ELSE "copy"
    /\ rtl' = "copy"
    /\ \E buffered \in 0..clientSent : taken' = UnreadAfter(buffered)
    /\ UNCHANGED <<setting, clientVars, upstreamVars, forwarded, returned,
                   connVars, ctxDone>>

\* HandleRequest passes the response's status and header on.
RelayHeader ==
    /\ phase = "reply" /\ Plain
    /\ phase' = "copying"
    /\ rtl' = "body"
    /\ UNCHANGED <<setting, clientVars, upstreamVars, ltr, taken, forwarded, returned,
                   connVars, ctxDone>>

-----------------------------------------------------------------------------
(* ltr: client to upstream *)

\* A read on the client connection would return an end or an error.  What is
\* buffered may be read or lost when this side has closed the connection.
ClientInputEnds == client # "open" \/ leftClosed

LtrUnchanged == UNCHANGED <<setting, phase, clientVars, upstreamVars, rtl,
                            returned, leftClosed, rightOpened, ctxDone>>

\* Mutant: the record is read before the header is looked at.
LtrPeekRecordAlways ==
    /\ ltr = "peek" /\ clientSent >= HeaderLen
    /\ ltr' = "record"
    /\ UNCHANGED <<taken, forwarded, rightClosed>> /\ LtrUnchanged

\* Peek has the five bytes: a ClientHello's record is read whole, anything
\* else is copied.
LtrPeek ==
    /\ ltr = "peek" /\ clientSent >= HeaderLen
    /\ ltr' = IF setting.hello THEN "record" ELSE "copy"
    /\ UNCHANGED <<taken, forwarded, rightClosed>> /\ LtrUnchanged

\* Mutant: the record is not replaced by its rewritten form.
RecordAsSent == [i \in 1..RecordLen |-> i]

\* What is written for a complete first record.
RecordForwarded ==
    IF setting.rewritable THEN <<Rewritten>> ELSE [i \in 1..RecordLen |-> i]

LtrRecord ==
    /\ ltr = "record" /\ clientSent >= RecordLen /\ ~rightClosed
    /\ forwarded' = RecordForwarded
    /\ taken' = RecordLen
    /\ ltr' = "copy"
    /\ UNCHANGED rightClosed /\ LtrUnchanged

\* The input ended inside the header or the record: what was read goes out as
\* it came, the copy after it finds nothing more, and right is closed.
LtrInputCut ==
    /\ ltr \in {"peek", "record"} /\ ClientInputEnds /\ ~rightClosed
    /\ LET needed == IF ltr = "peek" THEN HeaderLen ELSE RecordLen IN
         \E n \in 0..clientSent :
            /\ n < needed
            /\ client = "half" /\ ~leftClosed => n = clientSent
            /\ forwarded' = [i \in 1..n |-> i]
            /\ taken' = n
    /\ ltr' = "done" /\ rightClosed' = TRUE
    /\ LtrUnchanged

LtrCopy ==
    /\ ltr = "copy" /\ taken < clientSent /\ ~rightClosed
    /\ forwarded' = Append(forwarded, taken + 1)
    /\ taken' = taken + 1
    /\ UNCHANGED <<ltr, rightClosed>> /\ LtrUnchanged

\* The client's stream is drained, or a read or a write fails.
LtrOver ==
    \/ leftClosed \/ rightClosed
    \/ ltr = "copy" /\ client = "half" /\ taken = clientSent
    \/ ltr = "copy" /\ client = "gone"
    \/ ltr = "copy" /\ upstream = "gone" /\ taken < clientSent
    \/ ltr = "record" /\ upstream = "gone" /\ clientSent >= RecordLen

\* Mutant: ltr ends without dst.Close().
LtrEndsWithoutClose ==
    /\ ltr \in {"peek", "record", "copy"} /\ LtrOver
    /\ ltr' = "done"
    /\ UNCHANGED <<taken, forwarded, rightClosed>> /\ LtrUnchanged

\* copyWithSNIRewrite returns; then right.Close().
LtrEnds ==
    /\ ltr \in {"peek", "record", "copy"} /\ LtrOver
    /\ ltr' = "done"
    /\ rightClosed' = TRUE
    /\ UNCHANGED <<taken, forwarded>> /\ LtrUnchanged

-----------------------------------------------------------------------------
(* rtl: upstream to client *)

RtlUnchanged == UNCHANGED <<setting, phase, clientVars, upstreamVars, ltr, taken,
                            forwarded, rightOpened, rightClosed, ctxDone>>

RtlCopy ==
    /\ rtl = "copy" /\ returned < upstreamSent /\ ~leftClosed /\ ~rightClosed
    /\ returned' = returned + 1
    /\ UNCHANGED <<rtl, leftClosed>> /\ RtlUnchanged

\* The upstream has ended and is drained, or a read or write fails; then
\* left.Close().
RtlEnds ==
    /\ rtl = "copy"
    /\ \/ leftClosed \/ rightClosed \/ upstream = "gone"
       \/ client = "gone" /\ returned < upstreamSent
       \/ upstream = "half" /\ returned = upstreamSent
    /\ rtl' = "done"
    /\ leftClosed' = TRUE
    /\ UNCHANGED returned /\ RtlUnchanged

-----------------------------------------------------------------------------
(* copyBody: a plain response to its client *)

\* After n more units the body ends, or its Read fails.
BodyEnds(n) ==
    \/ upstream = "half" /\ returned + n = upstreamSent
    \/ upstream = "gone" \/ ctxDone

\* Mutant: a read that ends the body is not written.
CopyBodyDroppingLast ==
    /\ rtl = "body" /\ UNCHANGED <<setting, phase, clientVars, upstreamVars, ltr, taken,
                                   forwarded, leftClosed, rightOpened, ctxDone>>
    /\ \E n \in 0..(upstreamSent - returned) :
          \/ /\ n > 0 /\ returned' = returned + n
             /\ UNCHANGED <<rtl, rightClosed>>
          \/ /\ BodyEnds(n) \/ (n > 0 /\ client = "gone")
             /\ rtl' = "done" /\ rightClosed' = TRUE /\ UNCHANGED returned

\* One turn of the loop: what was read is written even if the read also brought
\* the end; an end, or a failed write, is the last turn and closes the body.
CopyBody ==
    /\ rtl = "body" /\ UNCHANGED <<setting, phase, clientVars, upstreamVars, ltr, taken,
                                   forwarded, leftClosed, rightOpened, ctxDone>>
    /\ \E n \in 0..(upstreamSent - returned) :
          /\ returned' = returned + n
          /\ \/ n > 0 /\ UNCHANGED <<rtl, rightClosed>>
             \/ /\ BodyEnds(n) \/ (n > 0 /\ client = "gone")
                /\ rtl' = "done" /\ rightClosed' = TRUE

\* HandleRequest returns.
RequestDone ==
    /\ Plain /\ phase = "copying" /\ rtl = "done"
    /\ phase' = "ended" /\ leftClosed' = TRUE
    /\ UNCHANGED <<setting, clientVars, upstreamVars, copyVars, rightOpened,
                   rightClosed, ctxDone>>

-----------------------------------------------------------------------------
(* proxy's waiting, and the return of the handler *)

ContextCloses ==
    /\ phase = "copying" /\ ctxDone /\ ~Plain
    /\ phase' = "waiting"
    /\ leftClosed' = TRUE /\ rightClosed' = TRUE
    /\ UNCHANGED <<setting, clientVars, upstreamVars, copyVars, rightOpened, ctxDone>>

\* Both goroutines are done.
HandlerReturns ==
    /\ phase \in {"copying", "waiting"}
    /\ ltr = "done" /\ rtl = "done"
    /\ phase' = "ended"
    /\ UNCHANGED <<setting, clientVars, upstreamVars, copyVars, connVars, ctxDone>>

Ltr == LtrPeek \/ LtrRecord \/ LtrInputCut \/ LtrCopy \/ LtrEnds
Rtl == RtlCopy \/ RtlEnds \/ CopyBody
Handler == \/ DialFails \/ DialSucceeds \/ HijackFails \/ ReplyFails \/ StartCopying
           \/ RelayHeader \/ RequestDone \/ ContextCloses \/ HandlerReturns
Peers == ClientSends \/ ClientEnds \/ UpstreamSends \/ UpstreamEnds

Next == Ltr \/ Rtl \/ Handler \/ Peers

\* The goroutines run: a dial ends, and a write ends because peers read what
\* they are sent or go away.  Nothing is assumed of what the peers send.
Fairness == WF_vars(Ltr) /\ WF_vars(Rtl) /\ WF_vars(Handler)

Spec == Init /\ [][Next]_vars /\ Fairness

-----------------------------------------------------------------------------

TypeOK ==
    /\ setting \in [mode : {"http", "socks", "plain"}, fakeSNI : BOOLEAN,
                    hello : BOOLEAN, rewritable : BOOLEAN]
    /\ phase \in {"dial", "reply", "hijackFailed", "copying", "waiting", "ended"}
    /\ client \in {"open", "half", "gone"} /\ clientSent \in 0..MaxClient
    /\ upstream \in {"open", "half", "gone"} /\ upstreamSent \in 0..MaxUpstream
    /\ ltr \in {"off", "peek", "record", "copy", "done"}
    /\ rtl \in {"off", "copy", "body", "done"}
    /\ taken \in 0..clientSent /\ returned \in 0..upstreamSent
    /\ forwarded \in Seq(0..MaxClient)
    /\ leftClosed \in BOOLEAN /\ rightOpened \in BOOLEAN /\ rightClosed \in BOOLEAN
    /\ ctxDone \in BOOLEAN

(***************************************************************************)
(* The upstream sees the client's stream from its first unit, in order and *)
(* without a gap - including what arrived together with the CONNECT - and  *)
(* the only change ever made to it is the rewritten first record           *)
(* (handler.go:69-72, tls_sni.go:19-72).                                   *)
(***************************************************************************)
StreamIntact ==
    \/ forwarded = [i \in 1..taken |-> i]
    \/ /\ setting.fakeSNI /\ setting.rewritable /\ taken >= RecordLen
       /\ forwarded = <<Rewritten>> \o [i \in 1..(taken - RecordLen) |-> RecordLen + i]

(***************************************************************************)
(* With fake-SNI, no part of a complete rewritable ClientHello reaches the *)
(* upstream as the client wrote it, however its bytes were split over      *)
(* reads: original units go out only if the input ended inside the record. *)
(***************************************************************************)
RealNameHidden ==
    setting.fakeSNI /\ setting.rewritable /\ forwarded # <<>> /\ forwarded[1] # Rewritten
        => leftClosed \/ client = "gone" \/ (client = "half" /\ clientSent < RecordLen)

(***************************************************************************)
(* A response the upstream ended in an orderly way reaches a client that   *)
(* is still there in full, before the tunnel is torn down or the plain     *)
(* request is through (handler.go:131-135, 239-252).                       *)
(***************************************************************************)
ResponseComplete ==
    (/\ phase = "ended" /\ rightOpened
     /\ client = "open" /\ upstream = "half")
        => returned = upstreamSent

(***************************************************************************)
(* A handler that has returned has closed both connections, whichever path *)
(* it took, except after a failed hijack.                                  *)
(***************************************************************************)
NoConnectionLeak ==
    phase = "ended" => leftClosed /\ (rightOpened => rightClosed)

(***************************************************************************)
(* A tunnel one of whose peers has ended its side is torn down: neither    *)
(* goroutine, nor the handler waiting for both, is left behind.  The same  *)
(* holds of a plain request, but for a client that had sent more and whose *)
(* end the HTTP server therefore has not read.                             *)
(***************************************************************************)
EndsWithEitherPeer ==
    (/\ phase = "copying"
     /\ upstream # "open" \/ (client # "open" /\ (Plain => clientSent = 0)))
        ~> (phase = "ended")

(***************************************************************************)
(* Everything the client sends is passed on while the tunnel is up, once   *)
(* the first units decide what the stream is.                              *)
(***************************************************************************)
Decided == \/ ~setting.fakeSNI \/ clientSent >= RecordLen
           \/ clientSent >= HeaderLen /\ ~setting.hello
AllForwarded ==
    (phase = "copying" /\ ~Plain /\ Decided) ~> (taken = clientSent \/ ltr = "done")
=============================================================================
