---------------------------- MODULE StartupProofs ----------------------------
(***************************************************************************)
(* Proofs about Startup for every list of servers, every free-proxy page   *)
(* and every number of retries: what is served was prepared, the exit code *)
(* is honest, and the candidates are those of the list, each once, in      *)
(* order.                                                                  *)
(*                                                                         *)
(* The invariant says of every step what the path to it has settled        *)
(* (Path); what was gathered from the pages (Fetched); and that a list     *)
(* read but not completed by the explicit proxy is exactly the list of its *)
(* lines (Loaded).  CandidatesSound alone is not inductive: it speaks of   *)
(* the moment when the list is complete, Loaded of the step before.        *)
(***************************************************************************)
EXTENDS Startup, SequenceLemmas

Steps == {"fetch", "save", "blacklist", "ca", "base", "bypassList", "listURL",
          "listFile", "explicit", "candidates", "apiDialer", "register", "device",
          "geolist", "discover", "print", "select", "override", "bypass",
          "refresh", "listen", "serving", "exited"}

TypeOK ==
    /\ args \in Arguments
    /\ step \in Steps
    /\ fetch.proxies \in Seq(Int \X Int)
    /\ list.candidates \in Seq(Nat \X {"comment", "bad", "bare", "url", "other"})

\* What the path to a step has settled, of the arguments and of what is prepared.
Path ==
    /\ step \in {"fetch", "save"} <=> step # "exited" /\ args.output = "fetch"
    /\ step \in {"geolist", "discover", "override", "print", "select", "bypass",
                 "refresh", "listen", "serving"} => client = "ready"
    /\ step = "geolist" => args.output = "countries"
    /\ step = "discover" => \/ args.output \in {"list", "export"}
                            \/ args.output = "serve" /\ args.override = "none"
    /\ step = "print" => /\ args.output \in {"countries", "list", "export"}
                         /\ args.output \in {"list", "export"} => endpoints
    /\ step = "select" => args.output = "serve" /\ endpoints
    /\ step = "override" => args.output = "serve" /\ args.override # "none"
    /\ step \in {"bypass", "refresh", "listen", "serving"} =>
          /\ args.output = "serve"
          /\ \/ dialer = "selected" /\ endpoints
             \/ dialer = "override" /\ args.override = "fine"
    /\ step \in {"listen", "serving"} => refreshing

\* What was read of the free-proxy site so far.
Fetched ==
    /\ IsInjective(fetch.proxies)
    /\ RowsWhole => ToSet(fetch.proxies) = fetch.offered

\* Where no list has been read.
Unread == {"blacklist", "ca", "base", "bypassList", "listURL", "listFile"}

\* A list that was accepted, before the explicit proxy is put in front.
Loaded ==
    /\ step \in Unread => list = NoList
    /\ step = "explicit" =>
        /\ list.lines \in ListFiles /\ ListLoads(list.lines)
        /\ list.candidates = ListOf(list.lines)
        /\ list.explicit = NoLine

IInv == TypeOK /\ Path /\ Fetched /\ Loaded /\ ExitHonest /\ CandidatesSound

-----------------------------------------------------------------------------
(* Lists of API proxies *)

Line == Nat \X {"comment", "bad", "bare", "url", "other"}

Places(lines, c) == {i \in DOMAIN lines : Normalized(lines[i]) = c}

\* What a line is, and what normalizeAPIProxy makes of it.
LEMMA LineIs ==
  ASSUME NEW l \in Line
  PROVE  /\ l = <<l[1], l[2]>> /\ l[1] \in Nat
         /\ l[2] \in {"comment", "bad", "bare", "url", "other"}
         /\ Normalized(l) \in Line
         /\ Normalized(l)[2] # "bare"
         /\ l[2] # "bare" => Normalized(l) = l
  BY DEF Line, Normalized

\* The list of a file: its entries normalised, each once, in the order of
\* the lines that name them first.
LEMMA ListOfIs ==
  ASSUME NEW lines \in Seq(Line), ListLoads(lines)
  PROVE  /\ ListOf(lines) \in Seq(Line) /\ ListOf(lines) # <<>>
         /\ ToSet(ListOf(lines)) = {Normalized(l) : l \in ToSet(EntriesOf(lines))}
         /\ \A p \in 1..Len(ListOf(lines)) : ListOf(lines)[p][2] \in {"url", "other"}
         /\ \A p, q \in 1..Len(ListOf(lines)) : p < q =>
               /\ ListOf(lines)[p] # ListOf(lines)[q]
               /\ \E i \in Places(lines, ListOf(lines)[p]) :
                    \A j \in Places(lines, ListOf(lines)[q]) : i < j
<1> DEFINE S == {l \in ToSet(lines) : l[2] # "comment"}
           k == EntriesOf(lines)
           e == [i \in DOMAIN k |-> Normalized(k[i])]
           c == ListOf(lines)
<1>1. k = Keep(lines, S)
  BY DEF EntriesOf
<1> HIDE DEF S
<1>2. PICK f \in [1..Len(k) -> 1..Len(lines)] :
         /\ \A p \in 1..Len(k) : k[p] = lines[f[p]]
         /\ \A p, q \in 1..Len(k) : p < q => f[p] < f[q]
         /\ \A i \in 1..Len(lines) : lines[i] \in S => \E p \in 1..Len(k) : f[p] = i
  BY <1>1, KeepIs
<1>3. k \in Seq(Line) /\ ToSet(k) = ToSet(lines) \cap S
  BY <1>1, KeepIs
<1> HIDE DEF k
<1>4. e \in [1..Len(k) -> Line] /\ Len(k) \in Nat /\ DOMAIN k = 1..Len(k)
  BY <1>3, LineIs
<1>5. e \in Seq(Line) /\ Len(e) = Len(k) /\ DOMAIN e = 1..Len(k)
  <2> HIDE DEF e
  <2> QED BY <1>4, IsSequence
<1>6. c = Distinct(e)
  BY DEF ListOf, k
<1>7. \A i \in 1..Len(k) : e[i] = Normalized(k[i])
  BY <1>4
<1> HIDE DEF e, c
<1>8. c \in Seq(Line) /\ Gathered(c, e, Len(e))
  BY <1>5, <1>6, DistinctIs
<1>16. Gathered(c, e, Len(k))
  BY <1>5, <1>8
<1>9. \A i \in 1..Len(lines) : lines[i][2] # "bad" /\ lines[i] \in Line
  BY DEF ListLoads
<1>10. \A p \in 1..Len(k) : k[p][2] \notin {"comment", "bad"} /\ k[p] \in Line
  <2> SUFFICES ASSUME NEW p \in 1..Len(k)
               PROVE  k[p][2] \notin {"comment", "bad"} /\ k[p] \in Line
    OBVIOUS
  <2>1. k[p] \in S /\ k[p] \in Line
    BY <1>3, <1>4 DEF ToSet
  <2>2. k[p][2] # "comment"
    BY <2>1 DEF S
  <2>3. k[p][2] # "bad"
    BY <1>2, <1>9
  <2> QED BY <2>1, <2>2, <2>3
<1>11. \A p \in 1..Len(k) : e[p][2] \in {"url", "other"}
  <2> SUFFICES ASSUME NEW p \in 1..Len(k) PROVE e[p][2] \in {"url", "other"}
    OBVIOUS
  <2>1. k[p] \in Line /\ k[p][2] \notin {"comment", "bad"} /\ e[p] = Normalized(k[p])
    BY <1>7, <1>10
  <2>2. k[p][2] \in {"bare", "url", "other"}
    BY <2>1, LineIs
  <2> QED BY <2>1, <2>2 DEF Normalized
<1>12. \A p \in 1..Len(c) : c[p][2] \in {"url", "other"}
  BY <1>5, <1>8, <1>11 DEF Gathered
<1>13. c # <<>>
  <2>1. k # <<>>
    BY DEF ListLoads, k
  <2>2. 1 \in 1..Len(k)
    BY <2>1, <1>3
  <2>3. \E p \in 1..Len(c) : c[p] = e[1]
    BY <2>2, <1>5, <1>8 DEF Gathered
  <2> QED BY <2>3
<1>14. ToSet(c) = {Normalized(l) : l \in ToSet(k)}
  <2>1. ToSet(c) = {c[p] : p \in 1..Len(c)}
    BY <1>8 DEF ToSet
  <2>2. ToSet(k) = {k[p] : p \in 1..Len(k)}
    BY <1>4 DEF ToSet
  <2>3. \A p \in 1..Len(c) : \E i \in 1..Len(k) : c[p] = Normalized(k[i])
    BY <1>5, <1>7, <1>8 DEF Gathered
  <2>4. \A i \in 1..Len(k) : \E p \in 1..Len(c) : c[p] = Normalized(k[i])
    <3>1. \A i \in 1..Len(k) : \E p \in 1..Len(c) : c[p] = e[i]
      BY <1>16 DEF Gathered
    <3> QED BY <3>1, <1>7
  <2>5. ASSUME NEW x \in ToSet(c) PROVE x \in {Normalized(l) : l \in ToSet(k)}
    BY <2>1, <2>2, <2>3
  <2>6. ASSUME NEW l \in ToSet(k) PROVE Normalized(l) \in ToSet(c)
    BY <2>1, <2>2, <2>4
  <2> QED BY <2>5, <2>6
<1>15. ASSUME NEW p \in 1..Len(c), NEW q \in 1..Len(c), p < q
       PROVE  c[p] # c[q] /\ \E i \in Places(lines, c[p]) : \A j \in Places(lines, c[q]) : i < j
  <2>1. Len(c) \in Nat
    BY <1>8
  <2>2. c[p] # c[q]
    BY <2>1, <1>8, <1>15 DEF Gathered
  <2>3. PICK i \in 1..Len(k) : e[i] = c[p] /\ \A j \in 1..Len(k) : e[j] = c[q] => i < j
    <3>1. \A a, b \in 1..Len(c) : a < b =>
             \E i \in 1..Len(k) : e[i] = c[a] /\ \A j \in 1..Len(k) : e[j] = c[b] => i < j
      BY <1>16 DEF Gathered
    <3> QED BY <3>1, <1>15
  <2>4. f[i] \in 1..Len(lines) /\ lines[f[i]] = k[i]
    BY <1>2
  <2>5. f[i] \in Places(lines, c[p])
    BY <2>3, <2>4, <1>7 DEF Places
  <2>6. ASSUME NEW j \in Places(lines, c[q]) PROVE f[i] < j
    <3>1. j \in 1..Len(lines) /\ Normalized(lines[j]) = c[q]
      BY DEF Places
    <3>2. lines[j] \in Line /\ lines[j] \in ToSet(lines)
      BY <3>1 DEF ToSet
    <3>3. lines[j][2] # "comment"
      <4>1. c[q][2] # "comment"
        BY <1>12
      <4> QED BY <4>1, <3>1, <3>2, LineIs
    <3>4. lines[j] \in S
      BY <3>2, <3>3 DEF S
    <3>5. PICK r \in 1..Len(k) : f[r] = j
      BY <3>1, <3>4, <1>2
    <3>6. e[r] = c[q]
      BY <3>1, <3>5, <1>2, <1>7
    <3> QED BY <2>3, <3>5, <3>6, <1>2
  <2> QED BY <2>2, <2>5, <2>6
<1> QED BY <1>8, <1>12, <1>13, <1>14, <1>15 DEF c, k

\* CandidatesSound of a list at hand.
Sound(l) ==
    LET c == l.candidates
        named == {Normalized(x) : x \in ToSet(EntriesOf(l.lines))}
        explicit == IF l.explicit = NoLine THEN {} ELSE {Normalized(l.explicit)}
    IN /\ c # <<>> /\ ToSet(c) = named \cup explicit
       /\ \A e \in explicit : c[1] = e
       /\ \A i, j \in DOMAIN c : i < j =>
            /\ c[i] # c[j]
            /\ c[i][1] = c[j][1] => c[i][2] = "other" \/ c[j][2] = "other"
            /\ c[i] \notin explicit => Min(Places(l.lines, c[i])) < Min(Places(l.lines, c[j]))

\* CandidatesSound is Sound of the list when it is complete.
LEMMA SoundIs ==
  /\ CandidatesSound <=> (step = "candidates" => Sound(list))
  /\ CandidatesSound' <=> (step' = "candidates" => Sound(list'))
  BY DEF CandidatesSound, Sound, FirstNamed, Places

\* Min is the least member.
LEMMA MinIs ==
  ASSUME NEW S, S \subseteq Nat, S # {}
  PROVE  Min(S) \in S /\ \A x \in S : Min(S) <= x
<1>1. \E x \in S : \A y \in S : x <= y
  BY LeastElement
<1> QED BY <1>1 DEF Min

\* Of two candidates the one in front is named first.
LEMMA NamedInOrder ==
  ASSUME NEW lines \in Seq(Line), ListLoads(lines),
         NEW p \in 1..Len(ListOf(lines)), NEW q \in 1..Len(ListOf(lines)), p < q
  PROVE  Min(Places(lines, ListOf(lines)[p])) < Min(Places(lines, ListOf(lines)[q]))
<1> DEFINE P == Places(lines, ListOf(lines)[p])
           Q == Places(lines, ListOf(lines)[q])
<1>1. P \subseteq Nat /\ Q \subseteq Nat
  BY DEF Places
<1>2. PICK i \in P : \A j \in Q : i < j
  BY ListOfIs
<1>3. Q # {}
  <2>1. ListOf(lines)[q] \in ToSet(ListOf(lines))
    BY ListOfIs DEF ToSet
  <2>2. PICK l \in ToSet(EntriesOf(lines)) : Normalized(l) = ListOf(lines)[q]
    BY <2>1, ListOfIs
  <2>3. ToSet(EntriesOf(lines)) \subseteq ToSet(lines)
    BY KeepIs DEF EntriesOf
  <2>4. PICK j \in DOMAIN lines : lines[j] = l
    BY <2>2, <2>3 DEF ToSet
  <2> QED BY <2>2, <2>4 DEF Places
<1> HIDE DEF P, Q
<1>4. Min(P) <= i /\ Min(P) \in P /\ Min(Q) \in Q
  BY <1>1, <1>2, <1>3, MinIs
<1> QED BY <1>1, <1>2, <1>4 DEF P, Q

\* Two different candidates of the same server: one is written in its own way.
LEMMA SameServer ==
  ASSUME NEW a \in Line, NEW b \in Line, a # b, a[1] = b[1],
         a[2] \in {"url", "other"}, b[2] \in {"url", "other"}
  PROVE  a[2] = "other" \/ b[2] = "other"
  BY DEF Line

\* A list without an explicit proxy is sound.
LEMMA ListSound ==
  ASSUME NEW l, l.lines \in Seq(Line), ListLoads(l.lines),
         l.candidates = ListOf(l.lines), l.explicit = NoLine
  PROVE  Sound(l)
<1> DEFINE c == ListOf(l.lines)
<1>1. c \in Seq(Line) /\ c # <<>> /\ DOMAIN c = 1..Len(c)
  BY ListOfIs
<1>2. ToSet(c) = {Normalized(x) : x \in ToSet(EntriesOf(l.lines))}
  BY ListOfIs
<1>3. ASSUME NEW i \in 1..Len(c), NEW j \in 1..Len(c), i < j
      PROVE  /\ c[i] # c[j]
             /\ c[i][1] = c[j][1] => c[i][2] = "other" \/ c[j][2] = "other"
             /\ Min(Places(l.lines, c[i])) < Min(Places(l.lines, c[j]))
  <2>1. c[i] # c[j] /\ c[i][2] \in {"url", "other"} /\ c[j][2] \in {"url", "other"}
    BY <1>3, ListOfIs
  <2>2. c[i] \in Line /\ c[j] \in Line
    BY <1>1
  <2>3. Min(Places(l.lines, c[i])) < Min(Places(l.lines, c[j]))
    BY <1>3, NamedInOrder
  <2> HIDE DEF c
  <2> QED BY <2>1, <2>2, <2>3, SameServer
<1> HIDE DEF c
<1> QED BY <1>1, <1>2, <1>3 DEF Sound, c

\* So is one that has the explicit proxy in front.
LEMMA ExplicitSound ==
  ASSUME NEW l, l.lines \in Seq(Line), ListLoads(l.lines),
         NEW e \in Line, e[2] \in {"bare", "url", "other"}, l.explicit = e,
         l.candidates = ExplicitFirst(e, ListOf(l.lines))
  PROVE  Sound(l) /\ l.candidates \in Seq(Line)
<1> DEFINE n == Normalized(e)
           d == ListOf(l.lines)
           S == ToSet(d) \ {n}
           k == Keep(d, S)
           c == ExplicitFirst(e, d)
<1>1. /\ d \in Seq(Line)
      /\ ToSet(d) = {Normalized(x) : x \in ToSet(EntriesOf(l.lines))}
      /\ \A p \in 1..Len(d) : d[p][2] \in {"url", "other"}
      /\ \A p, q \in 1..Len(d) : p < q => d[p] # d[q]
  BY ListOfIs
<1>2. n \in Line /\ n[2] \in {"url", "other"} /\ e # NoLine
  <2>1. n[2] \in {"url", "other"}
    BY DEF Normalized
  <2>2. e # NoLine
    BY DEF NoLine
  <2> QED BY <2>1, <2>2, LineIs
<1>3. c = <<n>> \o k
  BY DEF ExplicitFirst
<1>4. \A p, q \in 1..Len(d) : p < q => Min(Places(l.lines, d[p])) < Min(Places(l.lines, d[q]))
  BY NamedInOrder
<1> HIDE DEF d, n, c
<1>5. k \in Seq(Line) /\ ToSet(k) = ToSet(d) \cap S
  <2> HIDE DEF S
  <2> QED BY <1>1, KeepIs
<1>6. PICK f \in [1..Len(k) -> 1..Len(d)] :
         /\ \A p \in 1..Len(k) : k[p] = d[f[p]]
         /\ \A p, q \in 1..Len(k) : p < q => f[p] < f[q]
  BY <1>1, KeepIs
<1> HIDE DEF k
<1>7. \A p \in 1..Len(k) : k[p] # n
  BY <1>5 DEF ToSet
<1>8. /\ c \in Seq(Line) /\ Len(c) = Len(k) + 1 /\ DOMAIN c = 1..(Len(k) + 1)
      /\ c[1] = n
      /\ \A p \in 1..(Len(k) + 1) : p = 1 \/ (p - 1 \in 1..Len(k) /\ c[p] = k[p - 1])
  BY <1>2, <1>3, <1>5
<1>9. ToSet(c) = ToSet(d) \cup {n}
  <2> DEFINE one == <<n>>
  <2>1. one \in Seq(Line) /\ DOMAIN one = {1} /\ one[1] = n /\ c = one \o k
    BY <1>2, <1>3
  <2> HIDE DEF one
  <2>2. ToSet(c) = {n} \cup ToSet(k)
    <3>1. ToSet(one) = {n}
      BY <2>1 DEF ToSet
    <3> QED BY <3>1, <2>1, <1>5, ConcatSet
  <2>3. {n} \cup ToSet(k) = ToSet(d) \cup {n}
    BY <1>5
  <2> QED BY <2>2, <2>3
<1>10. ASSUME NEW i \in DOMAIN c, NEW j \in DOMAIN c, i < j
       PROVE  /\ c[i] # c[j]
              /\ c[i][2] \in {"url", "other"} /\ c[j][2] \in {"url", "other"}
              /\ c[i] # n => Min(Places(l.lines, c[i])) < Min(Places(l.lines, c[j]))
  <2>1. j - 1 \in 1..Len(k) /\ c[j] = k[j - 1]
    BY <1>8, <1>10
  <2>2. f[j - 1] \in 1..Len(d) /\ c[j] = d[f[j - 1]] /\ c[j] # n
    BY <2>1, <1>6, <1>7
  <2>3. CASE i = 1
    BY <2>2, <2>3, <1>1, <1>2, <1>8
  <2>4. CASE i # 1
    <3>1. i - 1 \in 1..Len(k) /\ c[i] = k[i - 1] /\ i - 1 < j - 1
      BY <1>8, <1>10, <2>4
    <3>2. f[i - 1] \in 1..Len(d) /\ c[i] = d[f[i - 1]] /\ f[i - 1] < f[j - 1]
      BY <3>1, <2>1, <1>6
    <3> QED BY <3>2, <2>2, <1>1, <1>4
  <2> QED BY <2>3, <2>4
<1>11. \A i, j \in DOMAIN c : i < j /\ c[i][1] = c[j][1] => c[i][2] = "other" \/ c[j][2] = "other"
  <2>1. \A i \in DOMAIN c : c[i] \in Line
    BY <1>8
  <2> QED BY <2>1, <1>10, SameServer
<1>12. c # <<>>
  BY <1>8, <1>5
<1>13. l.candidates = c
  BY DEF c, d
<1>14. Sound(l)
  BY <1>1, <1>2, <1>8, <1>9, <1>10, <1>11, <1>12, <1>13 DEF Sound, n
<1> QED BY <1>8, <1>13, <1>14

-----------------------------------------------------------------------------
(* Pages of a free-proxy site *)

Page == Seq(Int \X Int)
Whole(rows) == \A row \in rows : row[1] # Missing /\ row[2] # Missing

\* A column of a page: without its missing values, and with all of them if none is.
LEMMA ColumnIs ==
  ASSUME NEW page \in Page, NEW column \in {1, 2}
  PROVE  /\ Matched(page, column) \in Seq(Int)
         /\ (\A i \in DOMAIN page : page[i][column] # Missing) =>
               Matched(page, column) = [i \in DOMAIN page |-> page[i][column]]
<1> DEFINE values == [i \in DOMAIN page |-> page[i][column]]
           S == ToSet(values) \ {Missing}
<1>1. values \in Seq(Int)
  <2>1. values \in [1..Len(page) -> Int] /\ Len(page) \in Nat
    BY DEF Page
  <2> HIDE DEF values
  <2> QED BY <2>1, IsSequence
<1>2. Matched(page, column) = Keep(values, S)
  BY DEF Matched
<1>3. (\A i \in DOMAIN page : page[i][column] # Missing) => ToSet(values) \subseteq S
  BY DEF ToSet
<1> HIDE DEF S
<1>4. Keep(values, S) \in Seq(Int)
  <2> HIDE DEF values
  <2> QED BY <1>1, KeepIs
<1>5. ToSet(values) \subseteq S => Keep(values, S) = values
  <2> HIDE DEF values
  <2> QED BY <1>1, KeepAll
<1> QED BY <1>2, <1>3, <1>4, <1>5

\* A page gives pairs; its rows, if none of them lacks an address or a port.
LEMMA PageIs ==
  ASSUME NEW page \in Page
  PROVE  PagePairs(page) \in Page /\ (Whole(ToSet(page)) => PagePairs(page) = page)
<1> DEFINE ips == Matched(page, 1)
           ports == Matched(page, 2)
           rowCount == IF Len(ips) < Len(ports) THEN Len(ips) ELSE Len(ports)
           pairs == [i \in 1..rowCount |-> <<ips[i], ports[i]>>]
<1>1. PagePairs(page) = pairs
  BY DEF PagePairs
<1>2. /\ ips \in Seq(Int) /\ ports \in Seq(Int)
      /\ (\A i \in DOMAIN page : page[i][1] # Missing) => ips = [i \in DOMAIN page |-> page[i][1]]
      /\ (\A i \in DOMAIN page : page[i][2] # Missing) => ports = [i \in DOMAIN page |-> page[i][2]]
  BY ColumnIs
<1> HIDE DEF ips, ports
<1>3. pairs \in Page
  <2>1. rowCount \in Nat /\ pairs \in [1..rowCount -> Int \X Int]
    BY <1>2
  <2> HIDE DEF pairs, rowCount
  <2> QED BY <2>1, IsSequence DEF Page
<1>4. ASSUME Whole(ToSet(page)) PROVE pairs = page
  <2>1. \A i \in DOMAIN page : page[i][1] # Missing /\ page[i][2] # Missing
    BY <1>4 DEF Whole, ToSet
  <2>2. ips = [i \in DOMAIN page |-> page[i][1]] /\ ports = [i \in DOMAIN page |-> page[i][2]]
    BY <1>2, <2>1
  <2>3. DOMAIN page = 1..Len(page) /\ Len(page) \in Nat
    BY DEF Page
  <2>4. ips \in [1..Len(page) -> Int] /\ ports \in [1..Len(page) -> Int]
    BY <2>2, <2>3 DEF Page
  <2>5. Len(ips) = Len(page) /\ Len(ports) = Len(page)
    BY <2>3, <2>4, IsSequence
  <2>6. \A i \in 1..Len(page) : page[i] = <<page[i][1], page[i][2]>>
    BY DEF Page
  <2>7. pairs = [i \in 1..Len(page) |-> page[i]]
    BY <2>2, <2>3, <2>5, <2>6
  <2> HIDE DEF pairs
  <2> QED BY <2>3, <2>7 DEF Page
<1> QED BY <1>1, <1>3, <1>4

-----------------------------------------------------------------------------
(* The invariant holds initially and every step keeps it *)

\* The invariant holds when run() begins.
LEMMA IInvInit == Init => IInv
<1> SUFFICES ASSUME Init PROVE IInv
  OBVIOUS
<1> USE DEF Init
<1>1. step \in {"fetch", "blacklist"} /\ args \in Arguments
  OBVIOUS
<1>2. TypeOK
  BY <1>1 DEF TypeOK, Steps, NoList
<1>3. Path
  BY <1>1 DEF Path
<1>4. Fetched
  BY DEF Fetched, IsInjective, ToSet
<1>5. Loaded /\ ExitHonest /\ CandidatesSound
  BY <1>1 DEF Loaded, Unread, ExitHonest, CandidatesSound
<1> QED BY <1>2, <1>3, <1>4, <1>5 DEF IInv

\* A step that leaves the lists alone and does not arrive where they matter.
LEMMA ListsKept ==
  ASSUME IInv, UNCHANGED <<list, fetch>>, step' \in Steps, args' \in Arguments,
         step' \in {"candidates", "explicit"} => step' = step,
         step' \in Unread => step \in Unread
  PROVE  TypeOK' /\ Fetched' /\ Loaded' /\ CandidatesSound'
<1> USE DEF IInv
<1>1. TypeOK'
  BY DEF TypeOK
<1>2. Fetched'
  BY DEF Fetched, RowsWhole
<1>3. Loaded'
  BY DEF Loaded, NoList
<1>4. CandidatesSound'
  BY SoundIs
<1> QED BY <1>1, <1>2, <1>3, <1>4

\* An exit leaves everything else as it was.
LEMMA ExitKeeps ==
  ASSUME IInv, NEW c, Exit(c), step # "exited",
         c = 0 => /\ step = LastStep
                  /\ args.output = "fetch" => fetch.proxies # <<>>,
         step \in Tried => c = ExitCode(step)
  PROVE  IInv'
<1> USE DEF IInv
<1>1. /\ step' = "exited" /\ code' = c /\ cause' = step
      /\ UNCHANGED <<args, list, fetch, client, endpoints, dialer, refreshing>>
  BY DEF Exit, progress, lists, prepared
<1>2. TypeOK' /\ Fetched' /\ Loaded' /\ CandidatesSound'
  BY <1>1, ListsKept DEF TypeOK, Steps, Unread
<1>3. Path'
  BY <1>1 DEF Path
<1>4. ExitHonest'
  <2>1. args.output \in {"serve", "countries", "list", "export", "fetch"}
    BY DEF TypeOK, Arguments
  <2>2. step = LastStep =>
           /\ args.output # "fetch" => client = "ready"
           /\ args.output \in {"list", "export"} => endpoints
    BY <2>1 DEF LastStep, Path
  <2>3. LastStep' = LastStep /\ RowsWhole' = RowsWhole
    BY <1>1 DEF LastStep, RowsWhole
  <2>4. step \in Tried => code' = ExitCode(step)
    BY <1>1
  <2> QED BY <1>1, <2>2, <2>3, <2>4 DEF ExitHonest, Fetched, ExitCode
<1> QED BY <1>2, <1>3, <1>4

\* A step that goes on, with the lists as they were.
LEMMA GoKeeps ==
  ASSUME IInv, NEW next \in Steps \ {"candidates", "explicit", "exited"}, Go(next),
         next \in Unread => step \in Unread, UNCHANGED <<list, fetch>>, Path'
  PROVE  IInv'
<1>1. step' = next /\ args' = args
  BY DEF Go
<1>2. TypeOK' /\ Fetched' /\ Loaded' /\ CandidatesSound'
  BY <1>1, ListsKept DEF IInv, TypeOK
<1>3. ExitHonest'
  BY <1>1 DEF ExitHonest
<1> QED BY <1>2, <1>3 DEF IInv

\* A page adds its proxies to those fetched.
LEMMA FetchPageKeeps == IInv /\ FetchPage => IInv'
<1> SUFFICES ASSUME IInv, FetchPage PROVE IInv'
  OBVIOUS
<1> USE DEF IInv
<1>1. PICK page \in Pages :
         /\ IF PagePairs(page) = <<>>
              THEN Go("save") /\ UNCHANGED fetch
              ELSE /\ fetch' = [pages |-> IF args.endless THEN fetch.pages ELSE fetch.pages - 1,
                                offered |-> fetch.offered \cup ToSet(page),
                                proxies |-> Distinct(fetch.proxies \o PagePairs(page))]
                   /\ UNCHANGED <<args, step, attempt, code, cause, apiUp>>
  BY DEF FetchPage
<1>2. step = "fetch" /\ UNCHANGED <<list, rules, client, endpoints, dialer, refreshing>>
  BY DEF FetchPage, prepared
<1>3. CASE PagePairs(page) = <<>>
  <2>1. Go("save") /\ UNCHANGED fetch
    BY <1>1, <1>3
  <2>2. Path'
    BY <2>1, <1>2 DEF Go, Path
  <2> QED BY <2>1, <2>2, <1>2, GoKeeps DEF Steps, Unread
<1>4. CASE PagePairs(page) # <<>>
  <2> DEFINE read == fetch.proxies \o PagePairs(page)
  <2>1. /\ UNCHANGED <<args, step>>
        /\ fetch'.offered = fetch.offered \cup ToSet(page)
        /\ fetch'.proxies = Distinct(read)
    BY <1>1, <1>4
  <2>2. page \in Page
    BY StartupAssumption DEF Page
  <2>3. PagePairs(page) \in Page /\ (Whole(ToSet(page)) => PagePairs(page) = page)
    BY <2>2, PageIs
  <2>4. fetch.proxies \in Page
    BY DEF TypeOK, Page
  <2>5. read \in Page /\ ToSet(read) = ToSet(fetch.proxies) \cup ToSet(PagePairs(page))
    BY <2>3, <2>4, ConcatSet DEF Page
  <2>6. Distinct(read) \in Page /\ IsInjective(Distinct(read)) /\ ToSet(Distinct(read)) = ToSet(read)
    <3> HIDE DEF read
    <3> QED BY <2>5, DistinctSet DEF Page
  <2> HIDE DEF read
  <2>7. RowsWhole' => ToSet(fetch'.proxies) = fetch'.offered
    <3>1. RowsWhole' => RowsWhole /\ Whole(ToSet(page))
      BY <2>1 DEF RowsWhole, Whole
    <3> QED BY <3>1, <2>1, <2>3, <2>5, <2>6 DEF Fetched
  <2>8. TypeOK'
    BY <1>2, <2>1, <2>6 DEF TypeOK, Page
  <2>9. Fetched'
    BY <2>1, <2>6, <2>7 DEF Fetched
  <2>10. Path' /\ Loaded' /\ ExitHonest'
    BY <1>2, <2>1 DEF Path, Loaded, ExitHonest
  <2>11. CandidatesSound'
    BY <1>2, <2>1, SoundIs
  <2> QED BY <2>8, <2>9, <2>10, <2>11
<1> QED BY <1>3, <1>4

\* Every step of the free-proxy fetcher keeps the invariant.
LEMMA FetchKeeps == IInv /\ Fetch => IInv'
<1> SUFFICES ASSUME IInv, Fetch PROVE IInv'
  OBVIOUS
<1>1. CASE FetchPage
  BY <1>1, FetchPageKeeps
<1>2. CASE FetchFails
  BY <1>2, ExitKeeps DEF FetchFails, Tried
<1>3. CASE Save
  <2>1. step = "save" /\ ((fetch.proxies # <<>> /\ Exit(0)) \/ Exit(19))
    BY <1>3 DEF Save
  <2>2. step = LastStep
    BY <2>1 DEF IInv, Path, LastStep
  <2> QED BY <2>1, <2>2, ExitKeeps DEF Tried
<1> QED BY <1>1, <1>2, <1>3 DEF Fetch

\* So do the steps before the lists are read.
LEMMA PrepareKeeps == IInv /\ (Prepare \/ PreparationFails) => IInv'
<1> SUFFICES ASSUME IInv, Prepare \/ PreparationFails PROVE IInv'
  OBVIOUS
<1> DEFINE P == {"blacklist", "ca", "base", "bypassList", "apiDialer"}
<1>1. DOMAIN Preparation = P
  BY DEF Preparation
<1>2. CASE Prepare
  <2>1. /\ step \in P /\ Go(AfterPreparation)
        /\ UNCHANGED <<list, fetch, endpoints, dialer, refreshing>>
        /\ client' = IF step = "apiDialer" THEN "made" ELSE client
    BY <1>1, <1>2 DEF Prepare
  <2>2. AfterPreparation \in {"ca", "base", "bypassList", "apiDialer", "listFile", "listURL", "register"}
    BY <2>1 DEF AfterPreparation
  <2>3. AfterPreparation \in Unread => step \in Unread
    BY <2>1 DEF AfterPreparation, Unread
  <2>4. Path'
    BY <2>1, <2>2 DEF Go, Path, IInv
  <2> QED BY <2>1, <2>2, <2>3, <2>4, GoKeeps DEF Steps
<1>3. CASE PreparationFails
  <2>1. step \in P
    BY <1>1, <1>3 DEF PreparationFails
  <2>2. PICK c \in Preparation[step] : Exit(c)
    BY <1>3 DEF PreparationFails
  <2>3. c # 0
    BY <2>1, <2>2 DEF Preparation
  <2> QED BY <2>1, <2>2, <2>3, ExitKeeps DEF Tried
<1> QED BY <1>2, <1>3

\* The lists of API proxies: they are read, then the explicit one is put in
\* front.
LEMMA LoadListsKeeps == IInv /\ LoadLists => IInv'
<1> SUFFICES ASSUME IInv, LoadLists PROVE IInv'
  OBVIOUS
<1> USE DEF IInv
<1>1. CASE LoadList
  <2>1. /\ step \in {"listURL", "listFile"}
        /\ step' = "explicit"
        /\ UNCHANGED <<args, fetch, client, endpoints, dialer, refreshing>>
    BY <1>1 DEF LoadList, Go, prepared
  <2>2. PICK lines \in ListFiles :
           ListLoads(lines) /\ list' = [list EXCEPT !.lines = lines, !.candidates = ListOf(lines)]
    BY <1>1 DEF LoadList
  <2>3. lines \in Seq(Line)
    BY StartupAssumption DEF Line
  <2>4. ListOf(lines) \in Seq(Line)
    BY <2>2, <2>3, ListOfIs
  <2>5. list = NoList
    BY <2>1 DEF Loaded, Unread
  <2>6. list' = [lines |-> lines, explicit |-> NoLine, candidates |-> ListOf(lines)]
    BY <2>2, <2>5 DEF NoList
  <2>7. TypeOK'
    BY <2>1, <2>4, <2>6 DEF TypeOK, Line, Steps
  <2>8. Path' /\ Fetched' /\ ExitHonest'
    BY <2>1 DEF Path, Fetched, RowsWhole, ExitHonest
  <2>9. Loaded'
    <3>1. list'.lines = lines /\ list'.candidates = ListOf(lines) /\ list'.explicit = NoLine
      BY <2>6
    <3>2. step' \notin Unread
      BY <2>1 DEF Unread
    <3> QED BY <2>2, <3>1, <3>2 DEF Loaded
  <2>10. CandidatesSound'
    BY <2>1, SoundIs
  <2> QED BY <2>7, <2>8, <2>9, <2>10
<1>2. CASE LoadListFails
  <2>1. CASE step = "listURL" /\ args.listFrom = "both" /\ Go("listFile") /\ UNCHANGED progress
    <3>1. UNCHANGED <<list, fetch, client, endpoints, dialer, refreshing>>
      BY <2>1 DEF progress, lists, prepared
    <3>2. Path'
      BY <2>1, <3>1 DEF Path, Go
    <3> QED BY <2>1, <3>1, <3>2, GoKeeps DEF Steps, Unread, Go
  <2>2. CASE step \in {"listURL", "listFile"} /\ Exit(8)
    BY <2>2, ExitKeeps DEF Tried
  <2> QED BY <1>2, <2>1, <2>2 DEF LoadListFails
<1>3. CASE AddExplicit
  <2>1. /\ step = "explicit" /\ step' = "candidates"
        /\ UNCHANGED <<args, fetch, client, endpoints, dialer, refreshing>>
    BY <1>3 DEF AddExplicit, Go, prepared
  <2>2. /\ list.lines \in Seq(Line) /\ ListLoads(list.lines)
        /\ list.candidates = ListOf(list.lines) /\ list.explicit = NoLine
    BY <2>1, StartupAssumption DEF Loaded, Line
  <2>3. Path' /\ Fetched' /\ ExitHonest' /\ Loaded'
    BY <2>1 DEF Path, Fetched, RowsWhole, ExitHonest, Loaded, Unread
  <2>4. Sound(list') /\ list'.candidates \in Seq(Line)
    <3>1. CASE UNCHANGED list
      BY <3>1, <2>2, ListSound, ListOfIs
    <3>2. CASE \E e \in Explicits :
                  /\ e[2] # "bad"
                  /\ list' = [list EXCEPT !.explicit = e,
                                          !.candidates = ExplicitFirst(e, list.candidates)]
      <4>1. PICK e \in Explicits :
                  /\ e[2] # "bad"
                  /\ list' = [list EXCEPT !.explicit = e,
                                          !.candidates = ExplicitFirst(e, list.candidates)]
        BY <3>2
      <4>2. e \in Line /\ e[2] \in {"bare", "url", "other"}
        BY <4>1, StartupAssumption DEF Line
      <4>3. /\ list'.lines = list.lines /\ list'.explicit = e
            /\ list'.candidates = ExplicitFirst(e, ListOf(list'.lines))
        BY <4>1, <2>2 DEF TypeOK
      <4> QED BY <4>2, <4>3, <2>2, ExplicitSound
    <3> QED BY <1>3, <3>1, <3>2 DEF AddExplicit
  <2>5. TypeOK'
    BY <2>1, <2>4 DEF TypeOK, Line, Steps
  <2>6. CandidatesSound'
    BY <2>4, SoundIs
  <2> QED BY <2>3, <2>5, <2>6
<1>4. CASE ExplicitFails
  BY <1>4, ExitKeeps DEF ExplicitFails, Tried
<1> QED BY <1>1, <1>2, <1>3, <1>4 DEF LoadLists

\* A candidate is chosen of a list that is complete.
LEMMA SelectCandidateKeeps == IInv /\ SelectCandidate => IInv'
<1> SUFFICES ASSUME IInv, SelectCandidate PROVE IInv'
  OBVIOUS
<1> USE DEF IInv
<1> DEFINE next == IF args.output = "countries" THEN "print"
                   ELSE IF NeedDiscover THEN AfterDiscover ELSE "override"
<1>1. /\ step = "candidates" /\ step' = next /\ list' = NoList /\ client' = "ready"
      /\ endpoints' = NeedDiscover
      /\ UNCHANGED <<args, fetch, dialer, refreshing>>
  BY DEF SelectCandidate, Go
<1>2. args.output \in {"serve", "countries", "list", "export"}
  BY <1>1 DEF TypeOK, Arguments, Path
<1>3. next \in {"print", "select", "override"}
  BY <1>2 DEF AfterDiscover
<1>4. TypeOK'
  BY <1>1, <1>3 DEF TypeOK, Steps, NoList
<1>5. Path'
  BY <1>1, <1>2 DEF Path, NeedDiscover, AfterDiscover
<1>6. Fetched' /\ ExitHonest' /\ Loaded'
  BY <1>1, <1>3 DEF Fetched, RowsWhole, ExitHonest, Loaded, Unread
<1>7. CandidatesSound'
  BY <1>1, <1>3, SoundIs
<1> QED BY <1>4, <1>5, <1>6, <1>7

\* The steps under the retry policy.
LEMMA TryKeeps == IInv /\ Try => IInv'
<1> SUFFICES ASSUME IInv, Try PROVE IInv'
  OBVIOUS
<1> USE DEF IInv
<1>1. CASE TrySucceeds
  <2> DEFINE next == IF step = "register" THEN "device"
                     ELSE IF step = "device" THEN AfterClient
                     ELSE IF step = "geolist" THEN "print" ELSE AfterDiscover
  <2>1. /\ step \in Tried /\ Go(next) /\ step' = next /\ args' = args
        /\ client' = IF step = "register" THEN "registered"
                     ELSE IF step = "device" THEN "ready" ELSE client
        /\ endpoints' = (endpoints \/ step = "discover")
        /\ UNCHANGED <<list, fetch, dialer, refreshing>>
    BY <1>1 DEF TrySucceeds, lists, Go
  <2>2. args.output \in {"serve", "countries", "list", "export"}
    BY <2>1 DEF TypeOK, Arguments, Path, Tried
  <2>3. next \in {"device", "geolist", "discover", "override", "print", "select"}
    BY <2>2 DEF AfterClient, AfterDiscover
  <2>4. args.override = "none" \/ args.override # "none"
    OBVIOUS
  <2>5. Path'
    BY <2>1, <2>2 DEF Path, AfterClient, AfterDiscover, Tried
  <2> HIDE DEF next
  <2> QED BY <2>1, <2>3, <2>5, GoKeeps DEF Steps, Unread
<1>2. CASE TryFails
  <2>1. CASE \E c \in {ExitCode(step)} : Exit(c)
    BY <1>2, <2>1, ExitKeeps DEF TryFails, Tried, ExitCode
  <2>2. CASE UNCHANGED <<args, step, progress, code, cause, apiUp>>
    <3>1. UNCHANGED <<args, step, list, fetch, client, endpoints, dialer, refreshing, code, cause>>
      BY <2>2 DEF progress, lists, prepared
    <3>2. TypeOK' /\ Fetched' /\ Loaded' /\ CandidatesSound'
      BY <3>1, ListsKept DEF TypeOK
    <3>3. Path' /\ ExitHonest'
      BY <3>1, <1>2 DEF Path, ExitHonest, TryFails, Tried
    <3> QED BY <3>2, <3>3
  <2> QED BY <1>2, <2>1, <2>2 DEF TryFails
<1> QED BY <1>1, <1>2 DEF Try

\* The output modes end with their list.
LEMMA OutputKeeps == IInv /\ Output => IInv'
<1> SUFFICES ASSUME IInv, Output PROVE IInv'
  OBVIOUS
<1>1. step = "print" /\ \E c : Exit(c)
  BY DEF Output
<1>2. step = LastStep /\ args.output # "fetch"
  BY <1>1 DEF IInv, Path, LastStep
<1> QED BY <1>1, <1>2, ExitKeeps DEF Tried

\* The way from the selection of a server to the end of serving.
LEMMA ServeKeeps ==
  IInv /\ (\/ Select \/ SelectFails \/ Override \/ Bypass \/ StartRefresh
           \/ Listen \/ ServerStops) => IInv'
<1> SUFFICES ASSUME IInv, \/ Select \/ SelectFails \/ Override \/ Bypass \/ StartRefresh
                          \/ Listen \/ ServerStops
             PROVE  IInv'
  OBVIOUS
<1> USE DEF IInv
<1> DEFINE Onward(next) == /\ Go(next) /\ UNCHANGED <<list, fetch, client, endpoints>>
<1>1. CASE Select
  <2>1. step = "select" /\ dialer' = "selected" /\ Onward("bypass") /\ UNCHANGED refreshing
    BY <1>1 DEF Select, lists
  <2>2. Path'
    BY <2>1 DEF Path, Go
  <2> QED BY <2>1, <2>2, GoKeeps DEF Steps, Unread
<1>2. CASE SelectFails
  BY <1>2, ExitKeeps DEF SelectFails, Tried
<1>3. CASE Override
  <2>1. CASE Exit(12)
    BY <1>3, <2>1, ExitKeeps DEF Override, Tried
  <2>2. CASE args.override # "blacklisted"
    <3>1. step = "override" /\ dialer' = "override" /\ Onward("bypass") /\ UNCHANGED refreshing
      BY <1>3, <2>2 DEF Override, lists
    <3>2. args.override \in {"none", "fine", "blacklisted"}
      BY DEF TypeOK, Arguments
    <3>3. Path'
      BY <3>1, <3>2, <2>2 DEF Path, Go
    <3> QED BY <3>1, <3>3, GoKeeps DEF Steps, Unread
  <2> QED BY <1>3, <2>1, <2>2 DEF Override
<1>4. CASE Bypass
  <2>1. CASE Exit(7)
    BY <1>4, <2>1, ExitKeeps DEF Bypass, Tried
  <2>2. CASE step = "bypass" /\ Onward("refresh") /\ UNCHANGED <<dialer, refreshing>>
    <3>1. Path'
      BY <2>2 DEF Path, Go
    <3> QED BY <2>2, <3>1, GoKeeps DEF Steps, Unread
  <2> QED BY <1>4, <2>1, <2>2 DEF Bypass, progress, lists, prepared
<1>5. CASE StartRefresh
  <2>1. step = "refresh" /\ Onward("listen") /\ UNCHANGED dialer /\ refreshing' = TRUE
    BY <1>5 DEF StartRefresh, lists
  <2>2. Path'
    BY <2>1 DEF Path, Go
  <2> QED BY <2>1, <2>2, GoKeeps DEF Steps, Unread
<1>6. CASE Listen
  <2>1. CASE Exit(16)
    BY <1>6, <2>1, ExitKeeps DEF Listen, Tried
  <2>2. CASE step = "listen" /\ Onward("serving") /\ UNCHANGED <<dialer, refreshing>>
    <3>1. Path'
      BY <2>2 DEF Path, Go
    <3> QED BY <2>2, <3>1, GoKeeps DEF Steps, Unread
  <2> QED BY <1>6, <2>1, <2>2 DEF Listen, progress, lists, prepared
<1>7. CASE ServerStops
  <2>1. step = "serving" /\ Exit(0)
    BY <1>7 DEF ServerStops
  <2>2. step = LastStep /\ args.output # "fetch"
    BY <2>1 DEF Path, LastStep
  <2> QED BY <2>1, <2>2, ExitKeeps DEF Tried
<1> QED BY <1>1, <1>2, <1>3, <1>4, <1>5, <1>6, <1>7

\* Nothing of the invariant depends on the API.
LEMMA StayKeeps == IInv /\ (ApiChanges \/ UNCHANGED vars) => IInv'
<1> SUFFICES ASSUME IInv, ApiChanges \/ UNCHANGED vars PROVE IInv'
  OBVIOUS
<1> USE DEF IInv
<1>1. UNCHANGED <<args, step, list, fetch, client, endpoints, dialer, refreshing, code, cause>>
  BY DEF ApiChanges, vars, progress, lists, prepared
<1>2. TypeOK' /\ Fetched' /\ Loaded' /\ CandidatesSound'
  BY <1>1, ListsKept DEF TypeOK
<1>3. Path'
  BY <1>1 DEF Path
<1>4. ExitHonest'
  <2>1. LastStep' = LastStep /\ RowsWhole' = RowsWhole
    BY <1>1 DEF LastStep, RowsWhole
  <2> QED BY <1>1, <2>1 DEF ExitHonest
<1> QED BY <1>2, <1>3, <1>4

\* Every step keeps the invariant.
LEMMA IInvNext == IInv /\ [Next]_vars => IInv'
<1> SUFFICES ASSUME IInv, [Next]_vars PROVE IInv'
  OBVIOUS
<1>1. CASE ApiChanges \/ UNCHANGED vars
  BY <1>1, StayKeeps
<1>2. CASE Run
  <2>1. CASE Fetch
    BY <2>1, FetchKeeps
  <2>2. CASE Prepare \/ PreparationFails
    BY <2>2, PrepareKeeps
  <2>3. CASE LoadLists
    BY <2>3, LoadListsKeeps
  <2>4. CASE SelectCandidate
    BY <2>4, SelectCandidateKeeps
  <2>5. CASE AllCandidatesFail
    BY <2>5, ExitKeeps DEF AllCandidatesFail, Tried
  <2>6. CASE Try
    BY <2>6, TryKeeps
  <2>7. CASE Output
    BY <2>7, OutputKeeps
  <2>8. CASE Select \/ SelectFails \/ Override \/ Bypass \/ StartRefresh \/ Listen
    BY <2>8, ServeKeeps
  <2> QED BY <1>2, <2>1, <2>2, <2>3, <2>4, <2>5, <2>6, <2>7, <2>8 DEF Run
<1>3. CASE ServerStops
  BY <1>3, ServeKeeps
<1> QED BY <1>1, <1>2, <1>3 DEF Next

(***************************************************************************)
(* run() (main.go) and the fetcher (freeproxy_fetch.go), for every content *)
(* of lists and pages, every limit on retries and every number of pages:   *)
(* what each step finds prepared, what of the lists has been read.         *)
(***************************************************************************)
THEOREM Invariant == Spec => []IInv
<1>1. Init => IInv
  BY IInvInit
<1>2. IInv /\ [Next]_vars => IInv'
  BY IInvNext
<1> QED BY <1>1, <1>2, PTL DEF Spec

(***************************************************************************)
(* The proxy never listens half prepared, whatever path led there.         *)
(***************************************************************************)
THEOREM ServesPreparedHolds == Spec => []ServesPrepared
<1>1. IInv => ServesPrepared
  BY DEF IInv, Path, ServesPrepared
<1> QED BY <1>1, Invariant, PTL

(***************************************************************************)
(* 0 is returned only by the last step of the path asked for with what it  *)
(* prints at hand, a failed initialisation step exits with its own code,   *)
(* and a saved free-proxy file has every row of whole pages once.          *)
(***************************************************************************)
THEOREM ExitHonestHolds == Spec => []ExitHonest
<1>1. IInv => ExitHonest
  BY DEF IInv
<1> QED BY <1>1, Invariant, PTL

(***************************************************************************)
(* The API proxy candidates are what the list names in the order in which  *)
(* it is first named, behind the explicit one, and no one is tested twice: *)
(* for every list, whatever its length.                                    *)
(***************************************************************************)
THEOREM CandidatesSoundHolds == Spec => []CandidatesSound
<1>1. IInv => CandidatesSound
  BY DEF IInv
<1> QED BY <1>1, Invariant, PTL
=============================================================================
