---------------------------- MODULE MCSniRewrite ----------------------------
(* Records around a hello with up to two extensions, some of them cut off, *)
(* fragmented or inconsistent, and some that almost fill a record.         *)
EXTENDS SniRewrite, FiniteSetsExt

Ext(serverName, len, list, hostName, name) ==
    [serverName |-> serverName, len |-> len, list |-> list, hostName |-> hostName, name |-> name]

Other == Ext(FALSE, 3, 0, FALSE, 0)
ServerNames == {Ext(TRUE, 5 + name + tail, 3 + name + extra, host, name) :
                    name \in {0, 11}, tail \in {0, 2}, extra \in {0, 2}, host \in BOOLEAN}
               \cup {Ext(TRUE, 4, 2, TRUE, 0), Ext(TRUE, 5, 3, TRUE, 2)}

ExtLists == {<<>>, <<Other>>} \cup {<<e>> : e \in ServerNames}
            \cup {<<e, Other>> : e \in ServerNames} \cup {<<Other, e>> : e \in ServerNames}

\* missing: bytes of the hello that are not in this record; after: bytes of
\* the record after the hello.
Hello(ciphers, exts, missing, after) ==
    LET extensions == MapThenSumSet(LAMBDA j : 4 + exts[j].len, DOMAIN exts)
        hello == 34 + 1 + (2 + ciphers) + 2 + 2 + extensions
        payload == 4 + hello - missing + after
    IN [clientHello |-> TRUE, header |-> payload, payload |-> payload, hello |-> hello,
        session |-> 0, ciphers |-> ciphers, compression |-> 1,
        extensions |-> extensions, exts |-> exts]

MCRecords == {Hello(ciphers, exts, missing, after) :
                  ciphers \in {2, 65400}, exts \in ExtLists, missing \in {0, 1}, after \in {0, 3}}
             \cup {[Hello(2, exts, 0, 0) EXCEPT !.extensions = @ + d] :
                  exts \in ExtLists \ {<<>>}, d \in {-1, 1}}
=============================================================================
