-------------------------- MODULE EndpointsProofs --------------------------
(***************************************************************************)
(* Proofs about Endpoints for every CSV file, every answer of the API and  *)
(* every blacklist: nothing is lost, nothing blacklisted comes through,    *)
(* the list is sorted and has every endpoint once.                         *)
(*                                                                         *)
(* The invariant relates the keys (country, ip, port) at hand to those     *)
(* that were offered: what has been gathered has the keys offered so far   *)
(* without the blacklisted ones.  Every operation on lists is              *)
(* characterised by what it does to the keys and by Once, under which a    *)
(* list is its keys; the steps of discovery then follow by set algebra.    *)
(***************************************************************************)
EXTENDS Endpoints, SequenceLemmas

\* A list in which every endpoint stands once.
Once(list) ==
    /\ list \in Seq(Entries)
    /\ \A i \in DOMAIN list : list[i].ports # <<>> /\ IsInjective(list[i].ports)
    /\ \A i, j \in DOMAIN list : i # j => KeysOf(list[i]) \cap KeysOf(list[j]) = {}

\* What appendUniqueProxies has gathered.
Gathering(acc) ==
    /\ acc = [list |-> acc.list, seen |-> acc.seen]
    /\ Once(acc.list) /\ acc.seen = Keys(acc.list)

Allowed(keys, blacklist) == {key \in keys : Address(key) \notin blacklist}

InPlace(list) == \A i, j \in DOMAIN list : i < j => Before(list[i], list[j])

IInv ==
    /\ request.file \in CsvFiles
    /\ Gathering(one) /\ Gathering(all)
    /\ one.seen = Allowed(asked, request.blacklist)
    /\ pc # "done" => /\ all.seen = Allowed(offered, request.blacklist) /\ result = <<>>
                      /\ ~request.all => offered = {}
    /\ Once(result) /\ InPlace(result)
    /\ NothingLost

-----------------------------------------------------------------------------
(* Entries and their keys *)

\* The ports and the keys of an entry.
LEMMA PortsAre ==
  ASSUME NEW e \in Entries
  PROVE  /\ e = [country |-> e.country, host |-> e.host, ip |-> e.ip, ports |-> e.ports]
         /\ e.country \in Nat /\ e.ip \in Nat /\ e.ports \in Seq(Nat)
         /\ PortsOf(e) \in Seq(Nat) /\ PortsOf(e) # <<>>
         /\ e.ports # <<>> => PortsOf(e) = e.ports
         /\ \A key : key \in KeysOf(e) <=>
                        \E p \in ToSet(PortsOf(e)) : key = <<e.country, e.ip, p>>
  BY DEF Entries, PortsOf, KeysOf

\* With other ports, the country and the address are the same.
LEMMA WithPorts ==
  ASSUME NEW e \in Entries, NEW ports \in Seq(Nat), ports # <<>>
  PROVE  LET d == [e EXCEPT !.ports = ports]
         IN /\ d \in Entries /\ d.ports = ports /\ PortsOf(d) = ports
            /\ KeysOf(d) = {<<e.country, e.ip, p>> : p \in ToSet(ports)}
  BY DEF Entries, PortsOf, KeysOf

\* The keys of a list are those of its entries.
LEMMA KeysAre ==
  ASSUME NEW list \in Seq(Entries)
  PROVE  \A key : key \in Keys(list) <=> \E i \in 1..Len(list) : key \in KeysOf(list[i])
<1>1. ToSet(list) = {list[i] : i \in 1..Len(list)}
  BY DEF ToSet
<1> QED BY <1>1 DEF Keys

\* The ports of an entry that are not blacklisted.
LEMMA UnlistedIs ==
  ASSUME NEW e \in Entries, NEW blacklist
  PROVE  /\ Unlisted(e, blacklist) \in Seq(Nat)
         /\ \A p : p \in ToSet(Unlisted(e, blacklist)) <=>
                      p \in ToSet(PortsOf(e)) /\ <<e.ip, p>> \notin blacklist
         /\ IsInjective(PortsOf(e)) => IsInjective(Unlisted(e, blacklist))
<1> DEFINE s == PortsOf(e)
           S == {p \in ToSet(s) : <<e.ip, p>> \notin blacklist}
           u == Unlisted(e, blacklist)
<1>1. s \in Seq(Nat) /\ u = Keep(s, S)
  BY PortsAre DEF Unlisted
<1>2. \A p : p \in S <=> p \in ToSet(s) /\ <<e.ip, p>> \notin blacklist
  OBVIOUS
<1> HIDE DEF s, S, u
<1>3. u \in Seq(Nat) /\ ToSet(u) = ToSet(s) \cap S
  BY <1>1, KeepIs
<1>4. PICK f \in [1..Len(u) -> 1..Len(s)] :
         /\ \A p \in 1..Len(u) : u[p] = s[f[p]]
         /\ \A p, q \in 1..Len(u) : p < q => f[p] < f[q]
  BY <1>1, KeepIs
<1>5. ASSUME IsInjective(s), NEW p \in DOMAIN u, NEW q \in DOMAIN u, u[p] = u[q] PROVE p = q
  <2>1. p \in 1..Len(u) /\ q \in 1..Len(u) /\ f[p] \in 1..Len(s) /\ f[q] \in 1..Len(s) /\ Len(u) \in Nat
    BY <1>3, <1>4
  <2>2. f[p] = f[q]
    <3>1. DOMAIN s = 1..Len(s)
      BY <1>1
    <3> QED BY <3>1, <1>4, <1>5, <2>1 DEF IsInjective
  <2> QED BY <2>1, <2>2, <1>4
<1>6. IsInjective(s) => IsInjective(u)
  BY <1>5 DEF IsInjective
<1> QED BY <1>2, <1>3, <1>6 DEF s, u

\* What the filter leaves of an entry.
LEMMA KeptIs ==
  ASSUME NEW e \in Entries, NEW blacklist, Unlisted(e, blacklist) # <<>>
  PROVE  /\ Kept(e, blacklist) \in Entries
         /\ KeysOf(Kept(e, blacklist)) = Allowed(KeysOf(e), blacklist)
         /\ e.ports # <<>> /\ IsInjective(e.ports) =>
               Kept(e, blacklist).ports # <<>> /\ IsInjective(Kept(e, blacklist).ports)
<1> DEFINE u == Unlisted(e, blacklist)
           k == Kept(e, blacklist)
<1>1. /\ u \in Seq(Nat) /\ (IsInjective(PortsOf(e)) => IsInjective(u))
      /\ \A p : p \in ToSet(u) <=> p \in ToSet(PortsOf(e)) /\ <<e.ip, p>> \notin blacklist
  BY UnlistedIs
<1>4. u # <<>>
  OBVIOUS
<1>2. CASE e.ports = <<>>
  <2>1. k = e /\ PortsOf(e) = <<443>>
    BY <1>2 DEF Kept, PortsOf
  <2>2. ToSet(u) # {}
    <3>1. 1 \in DOMAIN u
      <4> HIDE DEF u
      <4> QED BY <1>1, <1>4
    <3> QED BY <3>1 DEF ToSet
  <2>3. ToSet(PortsOf(e)) = {443}
    BY <2>1 DEF ToSet
  <2>4. ToSet(u) = {443}
    <3>1. \A p \in ToSet(u) : p = 443
      BY <1>1, <2>3
    <3> HIDE DEF u
    <3> QED BY <2>2, <3>1
  <2>5. \A key \in KeysOf(e) : Address(key) \notin blacklist
    BY <1>1, <2>3, <2>4 DEF KeysOf, Address
  <2> QED BY <1>2, <2>1, <2>5 DEF Allowed
<1>3. CASE e.ports # <<>>
  <2>1. k = [e EXCEPT !.ports = u, !.host = 0]
    BY <1>3 DEF Kept
  <2>2. k \in Entries /\ k.ports = u /\ k.country = e.country /\ k.ip = e.ip
    <3> HIDE DEF u, k
    <3> QED BY <2>1, <1>1 DEF Entries
  <2>3. PortsOf(k) = u /\ PortsOf(e) = e.ports
    BY <2>2, <1>3 DEF PortsOf
  <2>4. KeysOf(k) = {<<e.country, e.ip, p>> : p \in ToSet(u)}
    BY <2>2, <2>3 DEF KeysOf
  <2>5. KeysOf(k) = Allowed(KeysOf(e), blacklist)
    <3>1. ASSUME NEW key \in KeysOf(k) PROVE key \in Allowed(KeysOf(e), blacklist)
      <4>1. PICK p \in ToSet(u) : key = <<e.country, e.ip, p>>
        BY <2>4
      <4> QED BY <4>1, <1>1 DEF Allowed, KeysOf, Address
    <3>2. ASSUME NEW key \in Allowed(KeysOf(e), blacklist) PROVE key \in KeysOf(k)
      <4>1. PICK p \in ToSet(PortsOf(e)) : key = <<e.country, e.ip, p>>
        BY DEF Allowed, KeysOf
      <4>2. <<e.ip, p>> \notin blacklist
        BY <4>1 DEF Allowed, Address
      <4> QED BY <4>1, <4>2, <1>1, <2>4
    <3> QED BY <3>1, <3>2
  <2> QED BY <1>1, <2>2, <2>3, <2>5
<1> QED BY <1>2, <1>3

\* The blacklisted endpoints go and nothing else; a list without repeats has none after it.
LEMMA FilterIs ==
  ASSUME NEW entries \in Seq(Entries), NEW blacklist
  PROVE  /\ FilterBlacklisted(entries, blacklist) \in Seq(Entries)
         /\ Keys(FilterBlacklisted(entries, blacklist)) = Allowed(Keys(entries), blacklist)
         /\ Once(entries) => Once(FilterBlacklisted(entries, blacklist))
<1> DEFINE F == FilterBlacklisted(entries, blacklist)
           S == {e \in ToSet(entries) : Unlisted(e, blacklist) # <<>>}
           k == Keep(entries, S)
           g == [i \in DOMAIN k |-> Kept(k[i], blacklist)]
<1>1. CASE blacklist = {}
  <2>1. F = entries
    BY <1>1 DEF FilterBlacklisted
  <2>2. Allowed(Keys(entries), blacklist) = Keys(entries)
    BY <1>1 DEF Allowed
  <2> QED BY <2>1, <2>2
<1>2. CASE blacklist # {}
  <2>1. F = g
    BY <1>2 DEF FilterBlacklisted
  <2>2. \A e \in ToSet(entries) : e \in S <=> Unlisted(e, blacklist) # <<>>
    OBVIOUS
  <2> HIDE DEF F, S
  <2>3. k \in Seq(Entries) /\ ToSet(k) = ToSet(entries) \cap S
    BY KeepIs
  <2>4. PICK f \in [1..Len(k) -> 1..Len(entries)] :
           /\ \A p \in 1..Len(k) : k[p] = entries[f[p]]
           /\ \A p, q \in 1..Len(k) : p < q => f[p] < f[q]
           /\ \A i \in 1..Len(entries) : entries[i] \in S => \E p \in 1..Len(k) : f[p] = i
    BY KeepIs
  <2> HIDE DEF k
  <2>5. DOMAIN k = 1..Len(k) /\ Len(k) \in Nat
    BY <2>3
  <2>6. ASSUME NEW i \in 1..Len(k)
        PROVE  /\ g[i] \in Entries
               /\ KeysOf(g[i]) = Allowed(KeysOf(k[i]), blacklist)
               /\ k[i].ports # <<>> /\ IsInjective(k[i].ports) =>
                     g[i].ports # <<>> /\ IsInjective(g[i].ports)
    <3>1. k[i] \in Entries /\ k[i] \in ToSet(k)
      BY <2>3, <2>5 DEF ToSet
    <3>2. Unlisted(k[i], blacklist) # <<>>
      BY <3>1, <2>2, <2>3
    <3>3. g[i] = Kept(k[i], blacklist)
      BY <2>5
    <3> HIDE DEF g
    <3> QED BY <3>1, <3>2, <3>3, KeptIs
  <2>7. g \in Seq(Entries) /\ Len(g) = Len(k) /\ DOMAIN g = 1..Len(k)
    <3>1. DOMAIN g = 1..Len(k) /\ g = [i \in 1..Len(k) |-> g[i]]
      BY <2>5
    <3> HIDE DEF g
    <3>2. g \in [1..Len(k) -> Entries]
      BY <2>6, <3>1
    <3> QED BY <2>5, <3>2, IsSequence
  <2> HIDE DEF g
  <2>8. ASSUME NEW key \in Keys(g) PROVE key \in Allowed(Keys(entries), blacklist)
    <3>1. PICK i \in 1..Len(k) : key \in KeysOf(g[i])
      BY <2>7, KeysAre
    <3>2. key \in KeysOf(entries[f[i]]) /\ Address(key) \notin blacklist /\ f[i] \in 1..Len(entries)
      BY <3>1, <2>4, <2>6 DEF Allowed
    <3>3. key \in Keys(entries)
      BY <3>2, KeysAre
    <3> QED BY <3>2, <3>3 DEF Allowed
  <2>9. ASSUME NEW key \in Allowed(Keys(entries), blacklist) PROVE key \in Keys(g)
    <3>1. PICK i \in 1..Len(entries) : key \in KeysOf(entries[i])
      BY KeysAre DEF Allowed
    <3>2. Address(key) \notin blacklist
      BY DEF Allowed
    <3>3. entries[i] \in Entries /\ entries[i] \in ToSet(entries)
      BY DEF ToSet
    <3>4. PICK p \in ToSet(PortsOf(entries[i])) : key = <<entries[i].country, entries[i].ip, p>>
      BY <3>1 DEF KeysOf
    <3>5. p \in ToSet(Unlisted(entries[i], blacklist))
      BY <3>2, <3>3, <3>4, UnlistedIs DEF Address
    <3>6. entries[i] \in S
      <4>1. Unlisted(entries[i], blacklist) # <<>>
        BY <3>5 DEF ToSet
      <4> QED BY <4>1, <3>3, <2>2
    <3>7. PICK r \in 1..Len(k) : f[r] = i
      BY <3>6, <2>4
    <3>8. key \in KeysOf(g[r])
      BY <3>1, <3>2, <3>7, <2>4, <2>6 DEF Allowed
    <3> QED BY <3>8, <2>7, KeysAre
  <2>10. Keys(g) = Allowed(Keys(entries), blacklist)
    BY <2>8, <2>9
  <2>11. ASSUME Once(entries) PROVE Once(g)
    <3>1. DOMAIN entries = 1..Len(entries)
      OBVIOUS
    <3>2. \A i \in 1..Len(k) : g[i].ports # <<>> /\ IsInjective(g[i].ports)
      BY <2>4, <2>6, <2>11, <3>1 DEF Once
    <3>3. ASSUME NEW i \in 1..Len(k), NEW j \in 1..Len(k), i # j
          PROVE  KeysOf(g[i]) \cap KeysOf(g[j]) = {}
      <4>1. f[i] # f[j] /\ f[i] \in 1..Len(entries) /\ f[j] \in 1..Len(entries)
        BY <2>4, <2>5, <3>3
      <4>2. KeysOf(entries[f[i]]) \cap KeysOf(entries[f[j]]) = {}
        BY <4>1, <2>11, <3>1 DEF Once
      <4> QED BY <4>2, <2>4, <2>6 DEF Allowed
    <3> QED BY <2>7, <3>2, <3>3 DEF Once
  <2> QED BY <2>1, <2>7, <2>10, <2>11 DEF F
<1> QED BY <1>1, <1>2

\* An entry is added: to the keys at hand come its own.
LEMMA AddEntryIs ==
  ASSUME NEW acc, Gathering(acc), NEW e \in Entries
  PROVE  /\ Gathering(AddEntry(acc, e))
         /\ AddEntry(acc, e).seen = acc.seen \cup KeysOf(e)
<1> DEFINE s == PortsOf(e)
           unseen == {p \in ToSet(s) : <<e.country, e.ip, p>> \notin acc.seen}
           k == Keep(s, unseen)
           fresh == Distinct(k)
           d == [e EXCEPT !.ports = fresh]
           next == [list |-> Append(acc.list, d),
                    seen |-> acc.seen \cup {<<e.country, e.ip, p>> : p \in ToSet(fresh)}]
<1>1. AddEntry(acc, e) = IF fresh = <<>> THEN acc ELSE next
  BY DEF AddEntry
<1>2. s \in Seq(Nat) /\ \A key : key \in KeysOf(e) <=> \E p \in ToSet(s) : key = <<e.country, e.ip, p>>
  BY PortsAre
<1>3. \A p : p \in unseen <=> p \in ToSet(s) /\ <<e.country, e.ip, p>> \notin acc.seen
  OBVIOUS
<1> HIDE DEF s, unseen
<1>4. k \in Seq(Nat) /\ ToSet(k) = unseen
  <2>1. k \in Seq(Nat) /\ ToSet(k) = ToSet(s) \cap unseen
    BY <1>2, KeepIs
  <2> QED BY <2>1, <1>3
<1> HIDE DEF k
<1>5. fresh \in Seq(Nat) /\ IsInjective(fresh) /\ ToSet(fresh) = unseen
  BY <1>4, DistinctSet
<1> HIDE DEF fresh
<1>6. CASE fresh = <<>>
  <2>1. unseen = {}
    BY <1>5, <1>6 DEF ToSet
  <2>2. KeysOf(e) \subseteq acc.seen
    BY <2>1, <1>2, <1>3
  <2> QED BY <1>1, <1>6, <2>2
<1>7. CASE fresh # <<>>
  <2> DEFINE new == {<<e.country, e.ip, p>> : p \in unseen}
             list == acc.list
             n == Len(list)
             more == Append(list, d)
  <2>1. d \in Entries /\ d.ports = fresh /\ KeysOf(d) = new
    BY <1>5, <1>7, WithPorts
  <2>2. AddEntry(acc, e) = [list |-> more, seen |-> acc.seen \cup new]
    BY <1>1, <1>5, <1>7
  <2>3. new \cap acc.seen = {} /\ acc.seen \cup new = acc.seen \cup KeysOf(e)
    <3>1. new \cap acc.seen = {} /\ new \subseteq KeysOf(e)
      BY <1>2, <1>3
    <3>2. ASSUME NEW key \in KeysOf(e), key \notin acc.seen PROVE key \in new
      BY <1>2, <1>3, <3>2
    <3> QED BY <3>1, <3>2
  <2> HIDE DEF d, new
  <2>4. list \in Seq(Entries) /\ acc.seen = Keys(list) /\ Once(list)
    BY DEF Gathering, Once
  <2> HIDE DEF list
  <2>5. /\ more \in Seq(Entries) /\ Len(more) = n + 1 /\ DOMAIN more = 1..(n + 1) /\ more[n + 1] = d
        /\ n \in Nat /\ DOMAIN list = 1..n
        /\ \A i \in 1..n : more[i] = list[i]
        /\ \A i \in 1..(n + 1) : i = n + 1 \/ i \in 1..n
        /\ \A i \in 1..n : i \in 1..(n + 1)
        /\ n + 1 \in 1..(n + 1)
    BY <2>1, <2>4
  <2> HIDE DEF more, n
  <2>6. Keys(more) = Keys(list) \cup new
    <3>1. \A key : key \in Keys(more) <=> \E i \in 1..(n + 1) : key \in KeysOf(more[i])
      BY <2>5, KeysAre
    <3>2. \A key : key \in Keys(list) <=> \E i \in 1..n : key \in KeysOf(list[i])
      BY <2>4, KeysAre DEF n
    <3> QED BY <3>1, <3>2, <2>1, <2>5
  <2>7. \A i \in 1..n : KeysOf(list[i]) \cap KeysOf(d) = {}
    BY <2>1, <2>3, <2>4, KeysAre DEF n
  <2>8. Once(more)
    <3>1. \A i \in 1..(n + 1) : more[i].ports # <<>> /\ IsInjective(more[i].ports)
      BY <1>5, <1>7, <2>1, <2>4, <2>5 DEF Once
    <3>2. ASSUME NEW i \in 1..(n + 1), NEW j \in 1..(n + 1), i # j
          PROVE  KeysOf(more[i]) \cap KeysOf(more[j]) = {}
      <4>1. CASE i \in 1..n /\ j \in 1..n
        BY <4>1, <3>2, <2>4, <2>5 DEF Once
      <4>2. CASE i = n + 1 /\ j \in 1..n
        BY <4>2, <2>5, <2>7
      <4>3. CASE i \in 1..n /\ j = n + 1
        BY <4>3, <2>5, <2>7
      <4> QED BY <4>1, <4>2, <4>3, <3>2, <2>5
    <3> QED BY <2>5, <3>1, <3>2 DEF Once
  <2> QED BY <2>2, <2>3, <2>4, <2>6, <2>8 DEF Gathering
<1> QED BY <1>6, <1>7

\* What a list can be gathered into.
Gatherings == {a \in [list : Seq(Entries), seen : SUBSET (Nat \X Nat \X Nat)] : Gathering(a)}

\* What has been gathered is of the type of the loop below.
LEMMA GatheringIs ==
  ASSUME NEW acc, Gathering(acc)
  PROVE  acc \in Gatherings
<1>1. acc.list \in Seq(Entries) /\ acc.seen = Keys(acc.list)
  BY DEF Gathering, Once
<1>2. ASSUME NEW key \in acc.seen PROVE key \in Nat \X Nat \X Nat
  <2>1. PICK i \in 1..Len(acc.list) : key \in KeysOf(acc.list[i])
    BY <1>1, KeysAre
  <2>2. acc.list[i] \in Entries
    BY <1>1
  <2>3. PICK p \in ToSet(PortsOf(acc.list[i])) : key = <<acc.list[i].country, acc.list[i].ip, p>>
    BY <2>1, <2>2, PortsAre
  <2>4. acc.list[i].country \in Nat /\ acc.list[i].ip \in Nat /\ p \in Nat
    BY <2>2, PortsAre DEF ToSet
  <2> QED BY <2>3, <2>4
<1>3. acc = [list |-> acc.list, seen |-> acc.seen]
  BY DEF Gathering
<1>4. acc \in [list : Seq(Entries), seen : SUBSET (Nat \X Nat \X Nat)]
  BY <1>1, <1>2, <1>3
<1> QED BY <1>4 DEF Gatherings

\* The turns of appendUniqueProxies.
LEMMA AppendUniqueSteps ==
  ASSUME NEW acc, Gathering(acc), NEW entries \in Seq(Entries)
  PROVE  \E d :
            /\ d[0] = acc
            /\ \A n \in 1..Len(entries) : d[n] = AddEntry(d[n - 1], entries[n])
            /\ AppendUnique(acc, entries) = d[Len(entries)]
<1> DEFINE N == Len(entries)
           D == Gatherings
           step == [n \in 1..N |-> [a \in D |-> AddEntry(a, entries[n])]]
           Body(d) == [n \in 0..N |-> IF n = 0 THEN acc ELSE AddEntry(d[n - 1], entries[n])]
           e == CHOOSE d : d = Body(d)
<1>1. N \in Nat /\ acc \in D
  BY GatheringIs
<1>2. step \in [1..N -> [D -> D]]
  <2>1. ASSUME NEW a \in D, NEW n \in 1..N PROVE AddEntry(a, entries[n]) \in D
    <3>1. Gathering(AddEntry(a, entries[n]))
      BY AddEntryIs DEF Gatherings
    <3> QED BY <3>1, GatheringIs
  <2> QED BY <2>1
<1>3. PICK f \in [0..N -> D] : f[0] = acc /\ \A n \in 1..N : f[n] = step[n][f[n - 1]]
  <2> HIDE DEF D, N, step
  <2>1. \E f : Runs(f, N, D, acc, step)
    BY <1>1, <1>2, Recursion
  <2> QED BY <2>1 DEF Runs
<1>4. \A n \in 1..N : f[n - 1] \in D
  BY <1>3
<1>5. \A n \in 1..N : f[n] = AddEntry(f[n - 1], entries[n])
  BY <1>3, <1>4
<1>6. f = Body(f)
  BY <1>3, <1>5
<1>7. e = Body(e)
  <2> HIDE DEF Body
  <2> QED BY <1>6
<1>8. AppendUnique(acc, entries) = e[N]
  BY DEF AppendUnique
<1> HIDE DEF e
<1>9. e[0] = acc /\ \A n \in 1..N : e[n] = AddEntry(e[n - 1], entries[n])
  BY <1>1, <1>7
<1> QED BY <1>8, <1>9

\* What was gathered has every endpoint of the entries, each once.
LEMMA AppendUniqueIs ==
  ASSUME NEW acc, Gathering(acc), NEW entries \in Seq(Entries)
  PROVE  /\ Gathering(AppendUnique(acc, entries))
         /\ AppendUnique(acc, entries).seen = acc.seen \cup Keys(entries)
<1>1. PICK d :
            /\ d[0] = acc
            /\ \A n \in 1..Len(entries) : d[n] = AddEntry(d[n - 1], entries[n])
            /\ AppendUnique(acc, entries) = d[Len(entries)]
  BY AppendUniqueSteps
<1> DEFINE N == Len(entries)
           First(n) == UNION {KeysOf(entries[i]) : i \in 1..n}
           S == {n \in 0..N : Gathering(d[n]) /\ d[n].seen = acc.seen \cup First(n)}
<1>2. N \in Nat
  OBVIOUS
<1>3. 0 \in S
  <2>1. First(0) = {}
    OBVIOUS
  <2> QED BY <2>1, <1>1, <1>2
<1>4. ASSUME NEW n \in 1..N, n - 1 \in S PROVE n \in S
  <2>1. Gathering(d[n - 1]) /\ d[n - 1].seen = acc.seen \cup First(n - 1)
    BY <1>4
  <2>2. entries[n] \in Entries /\ d[n] = AddEntry(d[n - 1], entries[n])
    BY <1>1
  <2>3. Gathering(d[n]) /\ d[n].seen = d[n - 1].seen \cup KeysOf(entries[n])
    <3> HIDE DEF First
    <3>1. /\ Gathering(AddEntry(d[n - 1], entries[n]))
          /\ AddEntry(d[n - 1], entries[n]).seen = d[n - 1].seen \cup KeysOf(entries[n])
      BY <2>1, <2>2, AddEntryIs
    <3> QED BY <2>2, <3>1
  <2>4. First(n) = First(n - 1) \cup KeysOf(entries[n])
    <3>1. 1..n = 1..(n - 1) \cup {n}
      BY <1>2
    <3> QED BY <3>1
  <2> HIDE DEF First
  <2> QED BY <2>1, <2>3, <2>4
<1>5. N \in S
  <2> HIDE DEF S, N
  <2>1. 0..N \subseteq S
    BY <1>2, <1>3, <1>4, UpTo
  <2> QED BY <1>2, <2>1
<1>6. First(N) = Keys(entries)
  <2>1. \A key : key \in First(N) <=> \E i \in 1..N : key \in KeysOf(entries[i])
    OBVIOUS
  <2> HIDE DEF First
  <2> QED BY <2>1, KeysAre
<1> QED BY <1>1, <1>5, <1>6

\* Sorted ports are the same ports.
LEMMA SortedPorts ==
  ASSUME NEW s \in Seq(Nat), s # <<>>, IsInjective(s)
  PROVE  LET t == Sort(s, Ascending(ToSet(s)))
         IN t \in Seq(Nat) /\ t # <<>> /\ IsInjective(t) /\ ToSet(t) = ToSet(s)
<1> DEFINE B == Ascending(ToSet(s))
           t == Sort(s, B)
<1>1. ToSet(s) \subseteq Nat /\ DOMAIN s = 1..Len(s) /\ Len(s) \in Nat /\ Len(s) # 0
  BY DEF ToSet
<1>2. \A x, y \in ToSet(s) : <<x, y>> \in B <=> x < y
  BY DEF Ascending
<1>3. \A i, j \in DOMAIN s : i # j => s[i] # s[j]
  BY DEF IsInjective
<1> HIDE DEF B
<1>4. /\ t \in Seq(Nat) /\ Len(t) = Len(s) /\ ToSet(t) = ToSet(s)
      /\ \A p, q \in 1..Len(s) : p < q => <<t[p], t[q]>> \in B
  <2>1. \A x \in ToSet(s) : <<x, x>> \notin B
    BY <1>1, <1>2
  <2>2. \A x, y \in ToSet(s) : x # y => <<x, y>> \in B \/ <<y, x>> \in B
    BY <1>1, <1>2
  <2>3. \A x, y, z \in ToSet(s) : <<x, y>> \in B /\ <<y, z>> \in B => <<x, z>> \in B
    BY <1>1, <1>2
  <2> QED BY <2>1, <2>2, <2>3, <1>3, SortIs
<1> HIDE DEF t
<1>5. \A p \in 1..Len(s) : t[p] \in ToSet(s)
  <2>1. DOMAIN t = 1..Len(s)
    BY <1>4
  <2>2. \A p \in 1..Len(s) : t[p] \in ToSet(t)
    BY <2>1 DEF ToSet
  <2> QED BY <1>4, <2>2
<1>6. IsInjective(t)
  <2>1. ASSUME NEW p \in 1..Len(s), NEW q \in 1..Len(s), p < q PROVE t[p] # t[q]
    <3>1. t[p] \in ToSet(s) /\ t[q] \in ToSet(s) /\ <<t[p], t[q]>> \in B
      BY <1>4, <1>5, <2>1
    <3>2. t[p] < t[q] /\ t[p] \in Nat /\ t[q] \in Nat
      BY <3>1, <1>1, <1>2
    <3> QED BY <3>2
  <2> QED BY <1>1, <1>4, <2>1 DEF IsInjective
<1>7. t # <<>>
  BY <1>1, <1>4
<1> QED BY <1>4, <1>6, <1>7 DEF t, B

\* Two entries that share no endpoint are told apart by the order.
LEMMA BeforeIs ==
  /\ \A a, b \in Entries : Before(a, b) \in BOOLEAN
  /\ \A a \in Entries : ~Before(a, a)
  /\ \A a, b \in Entries : KeysOf(a) \cap KeysOf(b) = {} => Before(a, b) \/ Before(b, a)
  /\ \A a, b, c \in Entries : Before(a, b) /\ Before(b, c) => Before(a, c)
<1>1. \A a \in Entries : /\ a.country \in Nat /\ a.ip \in Nat
                         /\ PortsOf(a)[1] \in Nat /\ PortsOf(a)[1] \in ToSet(PortsOf(a))
  <2> SUFFICES ASSUME NEW a \in Entries
               PROVE  /\ a.country \in Nat /\ a.ip \in Nat
                      /\ PortsOf(a)[1] \in Nat /\ PortsOf(a)[1] \in ToSet(PortsOf(a))
    OBVIOUS
  <2>1. a.country \in Nat /\ a.ip \in Nat /\ PortsOf(a) \in Seq(Nat) /\ PortsOf(a) # <<>>
    BY PortsAre
  <2>2. 1 \in DOMAIN PortsOf(a)
    BY <2>1
  <2> QED BY <2>1, <2>2 DEF ToSet
<1>2. \A a, b \in Entries : Before(a, b) \in BOOLEAN
  BY DEF Before
<1>3. \A a \in Entries : ~Before(a, a)
  BY <1>1 DEF Before
<1>4. ASSUME NEW a \in Entries, NEW b \in Entries, KeysOf(a) \cap KeysOf(b) = {}
      PROVE  Before(a, b) \/ Before(b, a)
  <2>1. <<a.country, a.ip, PortsOf(a)[1]>> \in KeysOf(a) /\ <<b.country, b.ip, PortsOf(b)[1]>> \in KeysOf(b)
    BY <1>1 DEF KeysOf
  <2>2. ~(a.country = b.country /\ a.ip = b.ip /\ PortsOf(a)[1] = PortsOf(b)[1])
    BY <2>1, <1>4
  <2> QED BY <1>1, <2>2 DEF Before
<1>5. \A a, b, c \in Entries : Before(a, b) /\ Before(b, c) => Before(a, c)
  BY <1>1 DEF Before
<1> QED BY <1>2, <1>3, <1>4, <1>5

\* sortProxyEntries keeps the keys and puts the list in order.
LEMMA SortedIs ==
  ASSUME NEW list, Once(list)
  PROVE  /\ Once(Sorted(list)) /\ InPlace(Sorted(list))
         /\ Keys(Sorted(list)) = Keys(list)
         /\ Len(Sorted(list)) = Len(list)
<1> DEFINE N == Len(list)
           byPort(e) == [e EXCEPT !.ports = Sort(@, Ascending(ToSet(@)))]
           es == [i \in DOMAIN list |-> byPort(list[i])]
           M == ToSet(es)
           B == {q \in M \X M : Before(q[1], q[2])}
           t == Sorted(list)
<1>1. list \in Seq(Entries) /\ N \in Nat /\ DOMAIN list = 1..N
  BY DEF Once
<1>2. t = Sort(es, B)
  BY DEF Sorted
<1>3. ASSUME NEW i \in 1..N
      PROVE  /\ es[i] \in Entries /\ es[i].ports # <<>> /\ IsInjective(es[i].ports)
             /\ KeysOf(es[i]) = KeysOf(list[i]) /\ KeysOf(es[i]) # {}
  <2> DEFINE e == list[i]
             ports == Sort(e.ports, Ascending(ToSet(e.ports)))
  <2>1. e \in Entries /\ e.ports # <<>> /\ IsInjective(e.ports)
    BY <1>1 DEF Once
  <2>2. es[i] = [e EXCEPT !.ports = ports]
    BY <1>1
  <2> HIDE DEF e, es
  <2>3. e.ports \in Seq(Nat) /\ PortsOf(e) = e.ports
    BY <2>1, PortsAre
  <2>4. ports \in Seq(Nat) /\ ports # <<>> /\ IsInjective(ports) /\ ToSet(ports) = ToSet(e.ports)
    BY <2>1, <2>3, SortedPorts
  <2> HIDE DEF ports
  <2>5. /\ es[i] \in Entries /\ es[i].ports = ports
        /\ KeysOf(es[i]) = {<<e.country, e.ip, p>> : p \in ToSet(ports)}
    BY <2>1, <2>2, <2>4, WithPorts
  <2>6. KeysOf(e) = {<<e.country, e.ip, p>> : p \in ToSet(ports)}
    BY <2>3, <2>4 DEF KeysOf
  <2>7. KeysOf(es[i]) # {}
    <3>1. 1 \in DOMAIN ports
      BY <2>4
    <3>2. ports[1] \in ToSet(ports)
      BY <3>1 DEF ToSet
    <3> QED BY <3>2, <2>5
  <2> QED BY <2>4, <2>5, <2>6, <2>7 DEF e
<1>4. es \in Seq(Entries) /\ Len(es) = N /\ DOMAIN es = 1..N
  <2>1. DOMAIN es = 1..N /\ es = [i \in 1..N |-> es[i]]
    BY <1>1
  <2> HIDE DEF es
  <2>2. es \in [1..N -> Entries]
    BY <1>3, <2>1
  <2> QED BY <1>1, <2>2, IsSequence
<1>5. \A x, y \in M : <<x, y>> \in B <=> Before(x, y)
  OBVIOUS
<1> HIDE DEF es, B, t
<1>6. \A i, j \in 1..N : i # j => KeysOf(es[i]) \cap KeysOf(es[j]) = {}
  <2>1. \A i, j \in 1..N : i # j => KeysOf(list[i]) \cap KeysOf(list[j]) = {}
    BY <1>1 DEF Once
  <2> QED BY <1>3, <2>1
<1>7. \A x \in M : x \in Entries /\ \E i \in 1..N : x = es[i]
  BY <1>3, <1>4 DEF ToSet
<1>8. \A x, y \in M : x # y => KeysOf(x) \cap KeysOf(y) = {}
  BY <1>6, <1>7
<1>9. /\ t \in Seq(Entries) /\ Len(t) = N /\ ToSet(t) = M
      /\ \A p, q \in 1..N : p < q => <<t[p], t[q]>> \in B
  <2>1. \A i, j \in DOMAIN es : i # j => es[i] # es[j]
    BY <1>3, <1>4, <1>6
  <2> HIDE DEF M
  <2>2. \A x \in M : <<x, x>> \notin B
    BY <1>5, <1>7, BeforeIs
  <2>3. \A x, y \in M : x # y => <<x, y>> \in B \/ <<y, x>> \in B
    BY <1>5, <1>7, <1>8, BeforeIs
  <2>4. \A x, y, z \in M : <<x, y>> \in B /\ <<y, z>> \in B => <<x, z>> \in B
    BY <1>5, <1>7, BeforeIs
  <2> QED BY <1>2, <1>4, <2>1, <2>2, <2>3, <2>4, SortIs DEF M
<1> HIDE DEF M
<1>10. \A p \in 1..N : t[p] \in M
  BY <1>9 DEF ToSet
<1>11. DOMAIN t = 1..N
  BY <1>9
<1>12. InPlace(t)
  BY <1>5, <1>9, <1>10, <1>11 DEF InPlace
<1>13. Once(t)
  <2>1. \A p \in 1..N : t[p].ports # <<>> /\ IsInjective(t[p].ports)
    BY <1>3, <1>7, <1>10
  <2>2. \A p, q \in 1..N : p # q => t[p] # t[q]
    <3>1. \A p, q \in 1..N : p < q => t[p] # t[q]
      BY <1>5, <1>7, <1>9, <1>10, BeforeIs
    <3> QED BY <3>1, <1>1
  <2>3. \A p, q \in 1..N : p # q => KeysOf(t[p]) \cap KeysOf(t[q]) = {}
    BY <2>2, <1>8, <1>10
  <2> QED BY <1>9, <1>11, <2>1, <2>3 DEF Once
<1>14. Keys(t) = Keys(list)
  <2>1. Keys(t) = UNION {KeysOf(x) : x \in M}
    BY <1>9 DEF Keys
  <2>2. \A key : key \in Keys(list) <=> \E i \in 1..N : key \in KeysOf(list[i])
    BY <1>1, KeysAre
  <2>3. \A i \in 1..N : es[i] \in M
    BY <1>4 DEF M, ToSet
  <2>4. ASSUME NEW key \in Keys(t) PROVE key \in Keys(list)
    BY <2>1, <2>2, <1>3, <1>7
  <2>5. ASSUME NEW key \in Keys(list) PROVE key \in Keys(t)
    BY <2>1, <2>2, <2>3, <1>3
  <2> QED BY <2>4, <2>5
<1> QED BY <1>9, <1>12, <1>13, <1>14 DEF t

\* At the start there is nothing.
LEMMA EmptyIs == Gathering(Empty) /\ Empty.seen = {} /\ Once(<<>>) /\ InPlace(<<>>) /\ Keys(<<>>) = {}
<1>1. Keys(<<>>) = {}
  BY DEF Keys, ToSet
<1>2. Once(<<>>) /\ InPlace(<<>>)
  BY DEF Once, InPlace
<1> QED BY <1>1, <1>2 DEF Gathering, Empty

\* loadProxyEntriesFromCSV: the endpoints of the wanted rows, without the
\* blacklisted ones, once and in order.
LEMMA LoadCSVIs ==
  ASSUME NEW file \in Seq(Rows), NEW wanted, NEW blacklist
  PROVE  /\ Once(LoadCSV(file, wanted, blacklist)) /\ InPlace(LoadCSV(file, wanted, blacklist))
         /\ LoadCSV(file, wanted, blacklist) # <<>> =>
               Keys(LoadCSV(file, wanted, blacklist)) = Allowed(CsvKeys(file, wanted), blacklist)
<1> DEFINE rows == RowsOf(file, wanted)
           N == Len(rows)
           es == [i \in DOMAIN rows |-> RowEntry(rows[i])]
           unique == AppendUnique(Empty, es).list
           filtered == FilterBlacklisted(unique, blacklist)
           load == LoadCSV(file, wanted, blacklist)
<1>1. load = <<>> \/ load = Sorted(filtered)
  BY DEF LoadCSV
<1>2. rows \in Seq(Rows)
  BY KeepIs DEF RowsOf
<1> HIDE DEF load, rows
<1>3. \A i \in 1..N : /\ es[i] \in Entries
                      /\ KeysOf(es[i]) = {<<rows[i].country, rows[i].ip, rows[i].port>>}
  <2> SUFFICES ASSUME NEW i \in 1..N
               PROVE  /\ es[i] \in Entries
                      /\ KeysOf(es[i]) = {<<rows[i].country, rows[i].ip, rows[i].port>>}
    OBVIOUS
  <2> DEFINE r == rows[i]
  <2>1. r \in Rows /\ es[i] = [country |-> r.country, host |-> r.host, ip |-> r.ip, ports |-> <<r.port>>]
    BY <1>2 DEF RowEntry
  <2> HIDE DEF es, r
  <2>2. <<r.port>> \in Seq(Nat) /\ <<r.port>> # <<>> /\ ToSet(<<r.port>>) = {r.port}
    BY <2>1 DEF Rows, ToSet
  <2>3. es[i] \in Entries
    BY <2>1, <2>2 DEF Rows, Entries
  <2>4. PortsOf(es[i]) = <<r.port>> /\ es[i].country = r.country /\ es[i].ip = r.ip
    BY <2>1, <2>2 DEF PortsOf
  <2>5. KeysOf(es[i]) = {<<r.country, r.ip, p>> : p \in {r.port}}
    BY <2>2, <2>4 DEF KeysOf
  <2> QED BY <2>3, <2>5 DEF r
<1>4. es \in Seq(Entries) /\ Len(es) = N
  <2>1. N \in Nat /\ DOMAIN es = 1..N /\ es = [i \in 1..N |-> es[i]]
    BY <1>2
  <2> HIDE DEF es, N
  <2>2. es \in [1..N -> Entries]
    BY <1>3, <2>1
  <2> QED BY <2>1, <2>2, IsSequence
<1> HIDE DEF es
<1>5. Keys(es) = CsvKeys(file, wanted)
  <2>1. ToSet(rows) = {rows[i] : i \in 1..N}
    BY <1>2 DEF ToSet
  <2>2. \A key : key \in CsvKeys(file, wanted) <=>
                    \E i \in 1..N : key = <<rows[i].country, rows[i].ip, rows[i].port>>
    BY <2>1 DEF CsvKeys, rows
  <2>3. \A key : key \in Keys(es) <=> \E i \in 1..N : key \in KeysOf(es[i])
    BY <1>4, KeysAre
  <2>4. \A key : key \in Keys(es) <=> key \in CsvKeys(file, wanted)
    BY <1>3, <2>2, <2>3
  <2> QED BY <2>4
<1>6. Once(unique) /\ Keys(unique) = CsvKeys(file, wanted)
  <2> DEFINE gathered == AppendUnique(Empty, es)
  <2>1. Gathering(gathered) /\ gathered.seen = Empty.seen \cup Keys(es)
    BY <1>4, EmptyIs, AppendUniqueIs
  <2> HIDE DEF gathered
  <2>2. Once(gathered.list) /\ Keys(gathered.list) = CsvKeys(file, wanted)
    BY <2>1, <1>5, EmptyIs DEF Gathering
  <2> QED BY <2>2 DEF gathered
<1> HIDE DEF unique
<1>7. Once(filtered) /\ Keys(filtered) = Allowed(CsvKeys(file, wanted), blacklist)
  <2>1. unique \in Seq(Entries)
    BY <1>6 DEF Once
  <2> QED BY <1>6, <2>1, FilterIs
<1> HIDE DEF filtered
<1>8. /\ Once(Sorted(filtered)) /\ InPlace(Sorted(filtered))
      /\ Keys(Sorted(filtered)) = Allowed(CsvKeys(file, wanted), blacklist)
  BY <1>7, SortedIs
<1> QED BY <1>1, <1>8, EmptyIs DEF load

-----------------------------------------------------------------------------
(* The invariant holds initially and every step keeps it *)

\* The invariant holds when discovery begins.
LEMMA IInvInit == Init => IInv
<1> SUFFICES ASSUME Init PROVE IInv
  OBVIOUS
<1>1. /\ request.file \in CsvFiles /\ pc = "start" /\ one = Empty /\ all = Empty
      /\ asked = {} /\ offered = {} /\ result = <<>>
  BY DEF Init
<1>2. Allowed({}, request.blacklist) = {}
  BY DEF Allowed
<1> QED BY <1>1, <1>2, EmptyIs DEF IInv, NothingLost

\* A step that ends with a list whose sources have been accounted for.
LEMMA ReturnKeeps ==
  ASSUME IInv, NEW list, Return(list), Once(list), InPlace(list),
         Gathering(one'), one'.seen = Allowed(asked', request.blacklist),
         UNCHANGED <<request, all>>,
         list # <<>> => Keys(list) = Allowed(offered', request.blacklist)
  PROVE  IInv'
<1>1. pc' = "done" /\ result' = list
  BY DEF Return
<1>2. NothingLost'
  BY <1>1 DEF NothingLost, Allowed
<1> QED BY <1>1, <1>2 DEF IInv

\* A country that is done adds what it was offered.
LEMMA CountryDoneKeeps ==
  ASSUME IInv, pc = "discover", NEW list, NEW source, CountryDone(list, source),
         Once(list), InPlace(list),
         list # <<>> \/ request.all => Keys(list) = Allowed(source, request.blacklist)
  PROVE  IInv'
<1> USE DEF IInv
<1>1. /\ offered' = offered \cup source /\ one' = Empty /\ asked' = {}
      /\ UNCHANGED request
  BY DEF CountryDone
<1>2. Allowed({}, request.blacklist) = {}
  BY DEF Allowed
<1>3. CASE request.all
  <2>1. all' = AppendUnique(all, list) /\ UNCHANGED <<pc, result>>
    BY <1>3 DEF CountryDone
  <2>2. Gathering(all') /\ all'.seen = all.seen \cup Keys(list)
    <3>1. list \in Seq(Entries)
      BY DEF Once
    <3> QED BY <2>1, <3>1, AppendUniqueIs
  <2>3. all'.seen = Allowed(offered', request.blacklist)
    <3>1. all.seen = Allowed(offered, request.blacklist)
      OBVIOUS
    <3> QED BY <1>1, <1>3, <2>2, <3>1 DEF Allowed
  <2> QED BY <1>1, <1>2, <1>3, <2>1, <2>2, <2>3, EmptyIs DEF NothingLost
<1>4. CASE ~request.all
  <2>1. Return(list) /\ UNCHANGED all
    BY <1>4 DEF CountryDone
  <2>2. offered' = source
    BY <1>1, <1>4
  <2> QED BY <1>1, <1>2, <2>1, <2>2, EmptyIs, ReturnKeeps
<1> QED BY <1>3, <1>4

\* The API's answer for a country.
LEMMA DiscoverAnswersKeeps == IInv /\ DiscoverAnswers => IInv'
<1> SUFFICES ASSUME IInv, DiscoverAnswers PROVE IInv'
  OBVIOUS
<1> USE DEF IInv
<1>1. PICK answer \in Answers :
         LET next == AppendUnique(one, FilterBlacklisted(answer, request.blacklist))
             seenNow == asked \cup Keys(answer)
         IN IF pass < DiscoverRepeat
              THEN /\ one' = next /\ asked' = seenNow /\ pass' = pass + 1
                   /\ UNCHANGED <<request, pc, left, all, offered, result>>
              ELSE CountryDone(Sorted(next.list), seenNow)
  BY DEF DiscoverAnswers
<1> DEFINE filtered == FilterBlacklisted(answer, request.blacklist)
           next == AppendUnique(one, filtered)
           seenNow == asked \cup Keys(answer)
<1>2. filtered \in Seq(Entries) /\ Keys(filtered) = Allowed(Keys(answer), request.blacklist)
  BY EndpointsAssumption, FilterIs
<1>3. pc = "discover"
  BY DEF DiscoverAnswers
<1>4. CASE pass < DiscoverRepeat
  <2>1. one' = next /\ asked' = seenNow /\ UNCHANGED <<request, pc, all, offered, result>>
    BY <1>1, <1>4
  <2> HIDE DEF filtered
  <2>2. Gathering(next) /\ next.seen = one.seen \cup Keys(filtered)
    BY <1>2, AppendUniqueIs
  <2> HIDE DEF next
  <2>3. next.seen = Allowed(seenNow, request.blacklist)
    BY <1>2, <2>2 DEF Allowed
  <2> QED BY <1>3, <2>1, <2>2, <2>3 DEF NothingLost
<1>5. CASE ~(pass < DiscoverRepeat)
  <2>1. CountryDone(Sorted(next.list), seenNow)
    BY <1>1, <1>5
  <2> HIDE DEF filtered
  <2>2. Gathering(next) /\ next.seen = one.seen \cup Keys(filtered)
    BY <1>2, AppendUniqueIs
  <2> HIDE DEF next
  <2>3. next.seen = Allowed(seenNow, request.blacklist)
    BY <1>2, <2>2 DEF Allowed
  <2> DEFINE list == Sorted(next.list)
  <2>4. Once(list) /\ InPlace(list) /\ Keys(list) = Allowed(seenNow, request.blacklist)
    BY <2>2, <2>3, SortedIs DEF Gathering
  <2> HIDE DEF list, seenNow
  <2> QED BY <1>3, <2>1, <2>4, CountryDoneKeeps DEF list
<1> QED BY <1>4, <1>5

\* The API's error 801, which the CSV file stands in for.
LEMMA Discover801Keeps == IInv /\ Discover801 => IInv'
<1> SUFFICES ASSUME IInv, Discover801 PROVE IInv'
  OBVIOUS
<1> USE DEF IInv
<1> DEFINE countries == Head(left)
           list == LoadCSV(request.file, countries, request.blacklist)
<1>1. /\ pc = "discover"
      /\ IF list = <<>>
           THEN Return(<<>>) /\ UNCHANGED <<request, left, pass, one, all, asked, offered>>
           ELSE CountryDone(list, CsvKeys(request.file, countries))
  BY DEF Discover801
<1>2. request.file \in Seq(Rows)
  BY EndpointsAssumption
<1> HIDE DEF countries
<1>3. /\ Once(list) /\ InPlace(list)
      /\ list # <<>> => Keys(list) = Allowed(CsvKeys(request.file, countries), request.blacklist)
  BY <1>2, LoadCSVIs
<1> HIDE DEF list
<1>4. CASE list = <<>>
  BY <1>1, <1>4, EmptyIs, ReturnKeeps
<1>5. CASE list # <<>>
  BY <1>1, <1>3, <1>5, CountryDoneKeeps
<1> QED BY <1>4, <1>5

\* Every step keeps the invariant.
LEMMA IInvNext == IInv /\ [Next]_vars => IInv'
<1> SUFFICES ASSUME IInv, [Next]_vars PROVE IInv'
  OBVIOUS
<1>1. CASE ReadCSV
  <2> DEFINE list == LoadCSV(request.file, request.wanted, request.blacklist)
  <2>1. /\ Return(list) /\ offered' = CsvKeys(request.file, request.wanted)
        /\ UNCHANGED <<request, one, all, asked>>
    BY <1>1 DEF ReadCSV
  <2>2. request.file \in Seq(Rows)
    BY EndpointsAssumption DEF IInv
  <2>3. /\ Once(list) /\ InPlace(list)
        /\ list # <<>> => Keys(list) = Allowed(offered', request.blacklist)
    BY <2>1, <2>2, LoadCSVIs
  <2> HIDE DEF list
  <2> QED BY <2>1, <2>3, ReturnKeeps DEF IInv
<1>2. CASE Begin
  BY <1>2 DEF Begin, IInv, NothingLost
<1>3. CASE GeoListFails \/ DiscoverFails
  BY <1>3, EmptyIs, ReturnKeeps DEF GeoListFails, DiscoverFails, IInv
<1>4. CASE DiscoverAnswers
  BY <1>4, DiscoverAnswersKeeps
<1>5. CASE Discover801
  BY <1>5, Discover801Keeps
<1>6. CASE AllDone
  <2>1. /\ pc = "discover" /\ Return(Sorted(all.list))
        /\ UNCHANGED <<request, one, all, asked, offered>>
    BY <1>6 DEF AllDone
  <2>2. Once(all.list) /\ Keys(all.list) = Allowed(offered, request.blacklist)
    BY <2>1 DEF IInv, Gathering
  <2> DEFINE list == Sorted(all.list)
  <2>3. Once(list) /\ InPlace(list) /\ Keys(list) = Allowed(offered, request.blacklist)
    BY <2>2, SortedIs
  <2> HIDE DEF list
  <2> QED BY <2>1, <2>3, ReturnKeeps DEF list, IInv
<1>7. CASE Retry
  <2>1. /\ pc' = "start" /\ one' = Empty /\ all' = Empty
        /\ asked' = {} /\ offered' = {} /\ result' = <<>> /\ UNCHANGED request
    BY <1>7 DEF Retry
  <2>2. Allowed({}, request.blacklist) = {}
    BY DEF Allowed
  <2> QED BY <2>1, <2>2, EmptyIs DEF IInv, NothingLost
<1>8. CASE UNCHANGED vars
  BY <1>8 DEF vars, IInv, NothingLost
<1> QED BY <1>1, <1>2, <1>3, <1>4, <1>5, <1>6, <1>7, <1>8 DEF Next

(***************************************************************************)
(* discover, for every answer of the API, CSV file, blacklist and number   *)
(* of passes: what the passes and the countries before have given is what  *)
(* they were offered less the blacklist, each endpoint once.               *)
(***************************************************************************)
THEOREM Invariant == Spec => []IInv
<1>1. Init => IInv
  BY IInvInit
<1>2. IInv /\ [Next]_vars => IInv'
  BY IInvNext
<1> QED BY <1>1, <1>2, PTL DEF Spec

(***************************************************************************)
(* A list that is returned has exactly the endpoints its sources offered,  *)
(* less the blacklisted ones.                                              *)
(***************************************************************************)
THEOREM NothingLostHolds == Spec => []NothingLost
<1>1. IInv => NothingLost
  BY DEF IInv
<1> QED BY <1>1, Invariant, PTL

(***************************************************************************)
(* No blacklisted endpoint is ever in the list that is returned.           *)
(***************************************************************************)
THEOREM NoBlacklistedHolds == Spec => []NoBlacklisted
<1>1. IInv => NoBlacklisted
  <2> SUFFICES ASSUME IInv, NEW key \in Keys(result) PROVE Address(key) \notin request.blacklist
    BY DEF NoBlacklisted
  <2>1. result # <<>>
    BY EmptyIs
  <2>2. Keys(result) = {k \in offered : Address(k) \notin request.blacklist}
    BY <2>1 DEF IInv, NothingLost
  <2> QED BY <2>2
<1> QED BY <1>1, Invariant, PTL

\* An entry has as many keys as ports.
LEMMA KeysCounted ==
  ASSUME NEW e \in Entries, e.ports # <<>>, IsInjective(e.ports)
  PROVE  Cardinality(KeysOf(e)) = Len(PortsOf(e))
<1> DEFINE n == Len(e.ports)
           f == [i \in 1..n |-> <<e.country, e.ip, e.ports[i]>>]
<1>1. e.ports \in Seq(Nat) /\ PortsOf(e) = e.ports /\ n \in Nat /\ DOMAIN e.ports = 1..n
  BY PortsAre
<1>2. KeysOf(e) = {<<e.country, e.ip, e.ports[i]>> : i \in 1..n}
  BY <1>1 DEF KeysOf, ToSet
<1>4. f \in Bijection(1..n, KeysOf(e))
  <2>1. f \in [1..n -> KeysOf(e)]
    BY <1>2
  <2>2. \A i, j \in 1..n : f[i] = f[j] => i = j
    BY <1>1 DEF IsInjective
  <2>3. \A key \in KeysOf(e) : \E i \in 1..n : f[i] = key
    BY <1>2
  <2> HIDE DEF f, n
  <2>4. f \in Injection(1..n, KeysOf(e)) /\ f \in Surjection(1..n, KeysOf(e))
    BY <2>1, <2>2, <2>3, Fun_IsInj DEF Surjection
  <2> QED BY <2>4 DEF Bijection
<1> HIDE DEF f, n
<1>5. Cardinality(KeysOf(e)) = n
  BY <1>1, <1>4, FS_CountingElements DEF ExistsBijection, n
<1> QED BY <1>1, <1>5 DEF n

(***************************************************************************)
(* An endpoint is listed once per country, however often its sources       *)
(* repeat it, and the list is sorted.                                      *)
(***************************************************************************)
THEOREM SortedOnceHolds == Spec => []SortedOnce
<1>1. IInv => SortedOnce
  <2> SUFFICES ASSUME IInv PROVE SortedOnce
    OBVIOUS
  <2>1. \A i, j \in DOMAIN result : i < j => Before(result[i], result[j])
    BY DEF IInv, InPlace
  <2>2. \A i, j \in DOMAIN result : i # j => KeysOf(result[i]) \cap KeysOf(result[j]) = {}
    BY DEF IInv, Once
  <2>3. ASSUME NEW i \in DOMAIN result
        PROVE  Cardinality(KeysOf(result[i])) = Len(PortsOf(result[i]))
    <3>1. result[i] \in Entries /\ result[i].ports # <<>> /\ IsInjective(result[i].ports)
      BY DEF IInv, Once
    <3> QED BY <3>1, KeysCounted
  <2> QED BY <2>1, <2>2, <2>3 DEF SortedOnce
<1> QED BY <1>1, Invariant, PTL
=============================================================================
