----------------------------- MODULE MCStartup -----------------------------
(* Lists of up to two lines and pages of up to two rows.                   *)
EXTENDS Startup

MCLines == {<<1, "bare">>, <<1, "url">>, <<1, "other">>, <<2, "url">>,
            <<0, "comment">>, <<0, "bad">>}
MCListFiles == BoundedSeq(MCLines, 2)
MCExplicits == {<<1, "bare">>, <<2, "url">>, <<3, "bare">>, <<0, "bad">>, Direct}

\* Two whole rows, one without its port, one that does not decode.
MCRows == {<<1, 1>>, <<2, 2>>, <<2, Missing>>, <<Garbled, 1>>}
MCPages == BoundedSeq(MCRows, 2)

\* One line and no pages, where the lists do not matter.
MCOneLine == {<<<<1, "url">>>>}
=============================================================================
