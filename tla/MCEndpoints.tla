---------------------------- MODULE MCEndpoints ----------------------------
(* Two countries, two addresses and two ports: every way in which entries  *)
(* can repeat, overlap and be blacklisted in part.                         *)
EXTENDS Endpoints

Entry(country, host, ip, ports) == [country |-> country, host |-> host, ip |-> ip, ports |-> ports]

MCAnswers == {
    <<>>,
    <<Entry(1, 1, 1, <<443>>)>>,
    <<Entry(1, 0, 1, <<>>), Entry(2, 2, 2, <<8443, 443>>)>>,
    <<Entry(2, 2, 2, <<8443, 8443>>), Entry(1, 1, 1, <<8443, 443>>)>>,
    <<Entry(1, 2, 2, <<443>>), Entry(1, 2, 2, <<>>), Entry(2, 2, 2, <<443>>)>>}

Row(country, ip, port, valid) ==
    [country |-> country, host |-> 3, ip |-> ip, port |-> port, valid |-> valid]

MCCsvFiles == {
    <<>>,
    <<Row(2, 1, 443, TRUE), Row(1, 2, 8443, TRUE), Row(2, 1, 443, TRUE), Row(2, 1, 8443, TRUE)>>,
    <<Row(1, 1, 443, FALSE), Row(2, 2, 443, TRUE)>>}

MCBlacklists == {{}, {<<1, 443>>}, {<<1, 443>>, <<2, 8443>>}}
=============================================================================
