------------------------------ MODULE DialChain ------------------------------
(***************************************************************************)
(* One dial through the chain of dialers run() builds.  A client's dial    *)
(* goes to BypassDialer, then to the direct dialer or to the ProxyDialer   *)
(* of the selected endpoint; a dial of the API client goes to FixedDialer  *)
(* or ResolvingDialer, which tries the resolved addresses in turn, and     *)
(* then to the API proxy's ProxyDialer if there is one (dialer/bypass.go,  *)
(* fixed.go, resolver.go, upstream.go; main.go 785-809, 877-886).          *)
(*                                                                         *)
(* What an upstream sends is a sequence of bytes: the answer to CONNECT    *)
(* and whatever follows.  Only CR and LF are told apart.  The address,     *)
(* server name and credential callbacks of this program never fail.        *)
(***************************************************************************)
EXTENDS Integers, Sequences, SequencesExt

CONSTANTS MaxAddresses, \* bound on the addresses a lookup returns
          MaxBytes      \* bound on the bytes an upstream sends

ASSUME DialChainAssumption == MaxAddresses \in Nat /\ MaxBytes \in Nat

CR == "\r"
LF == "\n"
Other == "x"
Nul == "0"   \* what the read buffer holds before the first read

VARIABLES
    chain,    \* [outer, proxied, tls]: the dialers this dial goes through and
              \* whether the upstream proxy is spoken to in TLS; fixed
    step,     \* where the dial is
    dialDone, \* its context is done
    count,    \* addresses to try
    turn,     \* the one being tried
    failed,   \* those that have failed
    bytes,    \* what the upstream of this turn sends
    ending,   \* then it is "silent", or ends "after" the last byte or "with" it;
              \* a "mute" one is silent from the TLS handshake on
    pos,      \* bytes read
    b,        \* the one-byte read buffer
    buf       \* what readResponse has collected

settings == <<chain, dialDone>>
stream == <<bytes, ending>>
reader == <<pos, b, buf>>
dialVars == <<settings, step, count, turn, failed, stream, reader>>

DialInit ==
    /\ chain \in [outer : {"bypass", "fixed", "resolving"}, proxied : BOOLEAN,
                  tls : BOOLEAN]
    /\ chain.tls => chain.proxied
    /\ step = (IF chain.outer = "resolving" THEN "lookup" ELSE "connect")
    /\ dialDone = FALSE
    /\ count = 1 /\ turn = 1 /\ failed = {}
    /\ bytes = <<>> /\ ending = "silent"
    /\ pos = 0 /\ b = Nul /\ buf = <<>>

ContextEnds ==
    /\ ~dialDone /\ step \notin {"returned", "failed"}
    /\ dialDone' = TRUE
    /\ UNCHANGED <<chain, step, count, turn, failed, stream, reader>>

-----------------------------------------------------------------------------
(* ResolvingDialer *)

Lookup ==
    /\ step = "lookup" /\ ~dialDone
    /\ count' \in 0..MaxAddresses
    /\ step' = IF count' = 0 THEN "failed" ELSE "connect"
    /\ UNCHANGED <<settings, turn, failed, stream, reader>>

LookupFails ==
    /\ step = "lookup"
    /\ step' = "failed" /\ count' = 0
    /\ UNCHANGED <<settings, turn, failed, stream, reader>>

\* Mutant: the loop over the addresses ends with the first error.
TurnFailsForGood ==
    /\ failed' = failed \cup {turn}
    /\ step' = "failed"
    /\ UNCHANGED turn

\* The dial of this turn's address has failed: the next one, or the error.
\* Outside of ResolvingDialer there is one turn.
TurnFails ==
    /\ failed' = failed \cup {turn}
    /\ IF turn < count
         THEN step' = "connect" /\ turn' = turn + 1
         ELSE step' = "failed" /\ UNCHANGED turn

-----------------------------------------------------------------------------
(* The dialer at the end of the chain, and ProxyDialer up to its request *)

Streams == SeqOf({CR, LF, Other}, MaxBytes)

\* A direct connection is returned.  One to an upstream proxy goes on to
\* CONNECT; the connection's TLS, if any, starts with the first write.
Connect ==
    /\ step = "connect" /\ ~dialDone
    /\ IF chain.proxied
         THEN /\ step' = "write"
              /\ \/ bytes' \in Streams /\ ending' \in {"silent", "after", "with"}
                 \/ chain.tls /\ bytes' = <<>> /\ ending' = "mute"
              /\ pos' = 0 /\ b' = Nul /\ buf' = <<>>
         ELSE step' = "returned" /\ UNCHANGED <<stream, reader>>
    /\ UNCHANGED <<settings, count, turn, failed>>

ConnectFails ==
    /\ step = "connect"
    /\ TurnFails
    /\ UNCHANGED <<settings, count, stream, reader>>

\* The first write performs the handshake.  Nothing from here on looks at the
\* context.
Write ==
    /\ step = "write" /\ ending # "mute"
    /\ step' = "read"
    /\ UNCHANGED <<settings, count, turn, failed, stream, reader>>

\* The handshake, the check of the certificate, or the write fails.
WriteFails ==
    /\ step = "write" /\ ending # "mute"
    /\ TurnFails
    /\ UNCHANGED <<settings, count, stream, reader>>

-----------------------------------------------------------------------------
(* readResponse *)

EndOfResponse == <<CR, LF, CR, LF>>

\* Mutant: any line end after a line end will do.
EndsResponseLoosely(s) == Len(s) >= 4 /\ s[Len(s)] = LF /\ s[Len(s) - 2] = LF

EndsResponse(s) == IsSuffix(EndOfResponse, s)

\* Mutant: buf.Write(b[:n]), nothing at the end of the input.
CollectedOnRead == IF pos < Len(bytes) THEN Append(buf, bytes[pos + 1]) ELSE buf

\* buf.Write(b): at the end of the input the last byte once more, or the zero
\* it held from the start.
Collected == Append(buf, IF pos < Len(bytes) THEN bytes[pos + 1] ELSE b)

\* One turn of the loop: a byte, the end of the input, or both.
ReadByte ==
    /\ step = "read"
    /\ pos < Len(bytes) \/ ending # "silent"
    /\ buf' = Collected
    /\ pos' = IF pos < Len(bytes) THEN pos + 1 ELSE pos
    /\ b' = IF pos < Len(bytes) THEN bytes[pos + 1] ELSE b
    /\ LET err == pos = Len(bytes) \/ (pos + 1 = Len(bytes) /\ ending = "with")
       IN IF Len(buf') >= 4 /\ EndsResponse(buf')
            THEN step' = "status" /\ UNCHANGED <<turn, failed>>
          ELSE IF Len(buf') >= 4 /\ err
            THEN TurnFails
          ELSE UNCHANGED <<step, turn, failed>>
    /\ UNCHANGED <<settings, count, stream>>

StatusOK ==
    /\ step = "status"
    /\ step' = "returned"
    /\ UNCHANGED <<settings, count, turn, failed, stream, reader>>

\* The header does not parse, or its status is not 200.
StatusBad ==
    /\ step = "status"
    /\ TurnFails
    /\ UNCHANGED <<settings, count, stream, reader>>

-----------------------------------------------------------------------------

Dial == \/ Lookup \/ LookupFails \/ Connect \/ ConnectFails
        \/ Write \/ WriteFails \/ ReadByte \/ StatusOK \/ StatusBad

DialNext == Dial \/ ContextEnds

\* Every call ends, except a read, or a handshake, with a silent upstream.
DialFairness == WF_dialVars(Dial)

DialSpec == DialInit /\ [][DialNext]_dialVars /\ DialFairness

-----------------------------------------------------------------------------

EndsHeader(n) == n >= 4 /\ SubSeq(bytes, n - 3, n) = EndOfResponse

(***************************************************************************)
(* A connection is handed over exactly at the end of the upstream's        *)
(* header: at the first blank line, so that neither a byte of the tunnel   *)
(* is swallowed - a server may speak first - nor a cut-off header is taken *)
(* for a whole one, although the last byte read is collected once more at  *)
(* the end of the input (upstream.go:189-214).                             *)
(***************************************************************************)
CleanHandover ==
    step = "status" \/ (step = "returned" /\ chain.proxied) =>
        EndsHeader(pos) /\ \A n \in 1..(pos - 1) : ~EndsHeader(n)

(***************************************************************************)
(* The address a resolving dial ends up with is the first that works: all  *)
(* before it have failed, whether in connecting, in the handshake or in    *)
(* the CONNECT; and it reports failure only after all of them.             *)
(***************************************************************************)
FirstThatWorks ==
    /\ step # "failed" => failed = 1..(turn - 1)
    /\ step = "failed" => failed = 1..count

(***************************************************************************)
(* A dial ends, whatever an upstream sends and however it ends, also with  *)
(* an answer shorter than a blank line.  The one thing that can keep it is *)
(* an upstream that stays silent, in the TLS handshake or in the middle of *)
(* its answer: neither has a deadline or a look at the context.            *)
(***************************************************************************)
OnlySilenceHangs ==
    \/ <>(step \in {"returned", "failed"})
    \/ <>[](step = "write" /\ ending = "mute")
    \/ <>[](step = "read" /\ ending = "silent")
=============================================================================
