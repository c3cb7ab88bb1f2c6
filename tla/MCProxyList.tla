---------------------------- MODULE MCProxyList ----------------------------
(* Two countries that share an address, one of them under two names; an     *)
(* entry without ports or host, and one with two ports: four endpoints.     *)
EXTENDS ProxyList

MCEntries == <<
    [country |-> 2, name |-> 3, host |-> 5, ip |-> 1, ports |-> <<443>>],
    [country |-> 1, name |-> 1, host |-> 6, ip |-> 2, ports |-> <<443, 8443>>],
    [country |-> 1, name |-> 2, host |-> 0, ip |-> 1, ports |-> <<>>]>>
=============================================================================
