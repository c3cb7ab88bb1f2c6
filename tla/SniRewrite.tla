----------------------------- MODULE SniRewrite -----------------------------
(***************************************************************************)
(* rewriteTLSClientHelloRecordServerName (handler/tls_sni.go): the server  *)
(* name in a complete ClientHello record is replaced, and the four nested  *)
(* lengths around it are patched in place.                                 *)
(*                                                                         *)
(* A record is its lengths: those its fields claim and the one it has.     *)
(* Names and the other bytes are copied, so they count by their length.    *)
(* exts are the extension headers the parser meets, one after the other.   *)
(***************************************************************************)
EXTENDS Integers, Sequences

CONSTANTS Records,  \* what a client may send as its first record
          FakeNames \* possible lengths of args.fakeSNI

\* Lengths as a client may claim them, however wide their fields are.
Extensions == [serverName : BOOLEAN, len : Nat, list : Nat, hostName : BOOLEAN, name : Nat]
ClientRecords ==
    [clientHello : BOOLEAN, header : Nat, payload : Nat, hello : Nat, session : Nat,
     ciphers : Nat, compression : Nat, extensions : Nat, exts : Seq(Extensions)]

ASSUME SniAssumption == Records \subseteq ClientRecords /\ FakeNames \subseteq Nat

VARIABLES record, \* what was read from the client
          fake,   \* length of fakeSNI
          out     \* what goes to the upstream; record itself until then

sniVars == <<record, fake, out>>

SniInit == record \in Records /\ fake \in FakeNames /\ out = record

\* A length in two bytes, and one in three.
Limit16 == 65536
Limit24 == 16777216
Uint16(n) == n % Limit16
Uint24(n) == n % Limit24

HandshakeHeader == 4

\* Offsets within the hello: where the extensions' length field starts, after
\* version and random, session id, cipher suites and compression methods; and
\* where the i-th extension starts.
ExtensionsLenOffset(r) == 2 + 32 + (1 + r.session) + (2 + r.ciphers) + (1 + r.compression)
ExtStart(r, i) ==
    LET end[n \in 0..Len(r.exts)] ==
            IF n = 0 THEN ExtensionsLenOffset(r) + 2 ELSE end[n - 1] + 4 + r.exts[n].len
    IN end[i - 1]
ExtensionsEnd(r) == ExtensionsLenOffset(r) + 2 + r.extensions

\* The checks before the extensions.  A hello without extensions stops here;
\* one that claims more than the record holds is fragmented.
HelloParses(r) ==
    /\ r.clientHello
    /\ r.payload >= HandshakeHeader /\ r.hello <= r.payload - HandshakeHeader
    /\ ExtensionsLenOffset(r) + 2 <= r.hello
    /\ ExtensionsEnd(r) <= r.hello

ExtFits(r, i) == ExtStart(r, i) + 4 + r.exts[i].len <= ExtensionsEnd(r)

\* The server_name extension holds a list that starts with a host name.
NameFits(ext) ==
    /\ ext.len >= 5
    /\ 2 + ext.list <= ext.len
    /\ ext.hostName
    /\ 5 + ext.name <= ext.len

\* The first server_name extension, if the parser gets to it and accepts it.
Found(r) ==
    {i \in DOMAIN r.exts :
        /\ HelloParses(r)
        /\ r.exts[i].serverName /\ \A j \in 1..(i - 1) : ~r.exts[j].serverName
        /\ \A j \in 1..i : ExtFits(r, j)
        /\ NameFits(r.exts[i])}

\* Mutant: the list ends behind the name, whatever else it held.
PatchExtNameOnly(ext, newLen, delta, name) ==
    [ext EXCEPT !.len = Uint16(@ + delta), !.list = Uint16(3 + name), !.name = Uint16(name)]

\* The server_name extension: its length, that of its list, which is made anew
\* to reach to the end of the extension, and the name.
PatchExt(ext, newLen, delta, name) ==
    [ext EXCEPT !.len = Uint16(@ + delta), !.list = Uint16(newLen - 2), !.name = Uint16(name)]

\* The new extension is spliced in and the lengths around it are patched.
Patch(r, i, newLen, delta) ==
    [r EXCEPT !.header = Uint16(r.payload + delta), !.payload = @ + delta,
              !.hello = Uint24(@ + delta),
              !.extensions = Uint16(@ + delta),
              !.exts = [r.exts EXCEPT ![i] = PatchExt(r.exts[i], newLen, delta, fake)]]

\* What followed the old name in its extension is kept behind the new one.
NewLen(ext) == 2 + 1 + 2 + fake + (ext.len - 5 - ext.name)
Delta(r, i) == NewLen(r.exts[i]) - r.exts[i].len

Rewrite ==
    /\ out = record
    /\ \E i \in Found(record) :
          out' = Patch(record, i, NewLen(record.exts[i]), Delta(record, i))
    /\ UNCHANGED <<record, fake>>

SniNext == Rewrite

SniSpec == SniInit /\ [][SniNext]_sniVars

-----------------------------------------------------------------------------

\* What lies between the claimed ends of the nested structures.
Slack(r) == <<r.payload - r.hello, r.hello - ExtensionsEnd(r),
              ExtensionsEnd(r) - ExtStart(r, Len(r.exts) + 1)>>

(***************************************************************************)
(* What tls_sni_test.go asserts of one record, for all: as long as the new *)
(* record's length fits its two-byte field, that field is the length of    *)
(* its payload; the lengths of the hello, of all extensions and of the     *)
(* server_name extension cover what they covered before plus the           *)
(* difference of the names; and a server reading the result by the same    *)
(* rules finds the fake name, and the same bytes around it.  The length of *)
(* the list grows by the difference, too, if the list filled its           *)
(* extension, as it does in a hello that keeps to the standard.  Bytes the *)
(* extension held behind a shorter list are taken into the list: then it   *)
(* covers more than before, and never less (tls_sni.go:162-164, 182-185).  *)
(***************************************************************************)
RewriteSound ==
    out # record /\ out.payload < Limit16 =>
        /\ out.header = out.payload
        /\ Slack(out) = Slack(record)
        /\ Found(out) = Found(record)
        /\ \A i \in Found(out) :
              LET new == out.exts[i]  old == record.exts[i]  difference == fake - old.name IN
              /\ new.name = fake
              /\ new.len = old.len + difference
              /\ new.list >= old.list + difference
              /\ 2 + old.list = old.len => new.list = old.list + difference
=============================================================================
