--------------------------- MODULE SequenceLemmas ---------------------------
(***************************************************************************)
(* Facts about the sequences of Lists, for sequences of every length: a    *)
(* filter keeps what it is asked for and the order, a sort gives the same  *)
(* elements in order, gathering into a list without repetitions loses and  *)
(* repeats nothing.                                                        *)
(*                                                                         *)
(* Each loop is a recursive function on 0..N, which TLA+ defines as a      *)
(* CHOOSE.  Recursion gives a function that satisfies its equations, UpTo  *)
(* carries what a turn keeps over all the turns.  Both are stated for      *)
(* sets, so that they can be cited: a property of n is the set of n that   *)
(* have it.                                                                *)
(***************************************************************************)
EXTENDS Lists, FiniteSetTheorems, FunctionTheorems, WellFoundedInduction, TLAPS

\* A set of natural numbers that is not empty has a least element.
LEMMA LeastElement ==
  ASSUME NEW S, S \subseteq Nat, S # {}
  PROVE  \E m \in S : \A k \in S : m <= k
<1>1. PICK m \in S : \A k \in S : ~(<<k, m>> \in OpToRel(<, Nat))
  BY WFMin, NatLessThanWellFounded
<1>2. \A k \in S : ~(k < m)
  BY <1>1 DEF OpToRel
<1> QED BY <1>2

\* Induction, for sets.
LEMMA Induction ==
  ASSUME NEW S, 0 \in S, \A n \in Nat : n \in S => n + 1 \in S
  PROVE  Nat \subseteq S
<1> DEFINE T == {n \in Nat : n \notin S}
<1> SUFFICES ASSUME T # {} PROVE FALSE
  OBVIOUS
<1>1. PICK m \in T : \A k \in T : m <= k
  BY LeastElement
<1>2. m # 0 /\ m - 1 \in Nat /\ m - 1 \notin T
  BY <1>1
<1> QED BY <1>2

\* What holds at 0 and is kept by each of N turns holds after all of them.
LEMMA UpTo ==
  ASSUME NEW N \in Nat, NEW S, 0 \in S, \A n \in 1..N : n - 1 \in S => n \in S
  PROVE  0..N \subseteq S
<1> DEFINE T == {n \in Nat : n <= N => n \in S}
<1>1. 0 \in T
  OBVIOUS
<1>2. ASSUME NEW n \in Nat, n \in T PROVE n + 1 \in T
  <2>1. CASE n + 1 <= N
    <3>1. n \in S /\ n + 1 \in 1..N /\ (n + 1) - 1 = n
      BY <1>2, <2>1
    <3> QED BY <3>1
  <2> QED BY <2>1
<1>3. Nat \subseteq T
  <2> HIDE DEF T
  <2> QED BY <1>1, <1>2, Induction
<1> QED BY <1>3

\* f gives what a loop has at hand after each of its N turns.
Runs(f, N, D, base, step) ==
    /\ f \in [0..N -> D]
    /\ f[0] = base
    /\ \A n \in 1..N : f[n] = step[n][f[n - 1]]

\* There is a function that follows the equations of a loop.
LEMMA Recursion ==
  ASSUME NEW N \in Nat, NEW D, NEW base \in D, NEW step \in [1..N -> [D -> D]]
  PROVE  \E f : Runs(f, N, D, base, step)
<1> DEFINE Part(k, f) == /\ f \in [0..k -> D]
                         /\ f[0] = base
                         /\ \A n \in 1..k : f[n] = step[n][f[n - 1]]
           S == {k \in 0..N : \E f : Part(k, f)}
<1>1. 0 \in S
  <2> DEFINE f == [n \in 0..0 |-> base]
  <2>1. f \in [0..0 -> D] /\ f[0] = base /\ 1..0 = {}
    OBVIOUS
  <2>2. Part(0, f)
    BY <2>1
  <2> HIDE DEF Part, f
  <2> QED BY <2>2
<1>2. ASSUME NEW n \in 1..N, n - 1 \in S PROVE n \in S
  <2>1. PICK f : Part(n - 1, f)
    BY <1>2
  <2> DEFINE last == step[n][f[n - 1]]
             g == [k \in 0..n |-> IF k = n THEN last ELSE f[k]]
  <2>2. last \in D
    <3>1. f[n - 1] \in D
      BY <2>1
    <3> QED BY <3>1
  <2>3. \A k \in 0..n : k # n => k \in 0..(n - 1)
    OBVIOUS
  <2>4. g \in [0..n -> D]
    BY <2>1, <2>2, <2>3
  <2>5. g[0] = base
    BY <2>1
  <2>6. ASSUME NEW k \in 1..n PROVE g[k] = step[k][g[k - 1]]
    <3>1. g[k - 1] = f[k - 1]
      OBVIOUS
    <3>2. CASE k = n
      <4>1. g[k] = last
        BY <3>2
      <4> QED BY <4>1, <3>1, <3>2
    <3>3. CASE k # n
      <4>1. k \in 1..(n - 1) /\ g[k] = f[k]
        BY <3>3
      <4> QED BY <4>1, <3>1, <2>1
    <3> QED BY <3>2, <3>3
  <2>7. Part(n, g)
    BY <2>4, <2>5, <2>6
  <2> HIDE DEF Part
  <2> QED BY <2>7
<1>3. N \in S
  <2> HIDE DEF S
  <2>1. 0..N \subseteq S
    BY <1>1, <1>2, UpTo
  <2> QED BY <2>1
<1> QED BY <1>3 DEF Runs

-----------------------------------------------------------------------------

\* A strict total order on a finite set puts its members in that order.
LEMMA InOrderIs ==
  ASSUME NEW I, IsFiniteSet(I), NEW R,
         \A i \in I : <<i, i>> \notin R,
         \A i, j \in I : i # j => <<i, j>> \in R \/ <<j, i>> \in R,
         \A i, j, k \in I : <<i, j>> \in R /\ <<j, k>> \in R => <<i, k>> \in R
  PROVE  /\ Cardinality(I) \in Nat
         /\ InOrder(I, R) \in [1..Cardinality(I) -> I]
         /\ \A p, q \in 1..Cardinality(I) : p < q => <<InOrder(I, R)[p], InOrder(I, R)[q]>> \in R
         /\ \A i \in I : \E p \in 1..Cardinality(I) : InOrder(I, R)[p] = i
<1> DEFINE n == Cardinality(I)
           Below(i) == {j \in I : <<j, i>> \in R}
           c == [i \in I |-> Cardinality(Below(i)) + 1]
           e == InOrder(I, R)
<1>1. n \in Nat
  BY FS_CardinalityType
<1>2. \A i \in I : IsFiniteSet(Below(i)) /\ Cardinality(Below(i)) \in Nat
  BY FS_Subset, FS_CardinalityType
<1>3. ASSUME NEW i \in I, NEW j \in I, <<i, j>> \in R
      PROVE  Cardinality(Below(i)) < Cardinality(Below(j))
  <2>1. Below(i) \in SUBSET Below(j)
    BY <1>3
  <2>2. i \in Below(j) /\ i \notin Below(i)
    BY <1>3
  <2> HIDE DEF Below
  <2>3. Cardinality(Below(i)) <= Cardinality(Below(j)) /\ Cardinality(Below(i)) # Cardinality(Below(j))
    BY <2>1, <2>2, <1>2, FS_Subset
  <2> QED BY <2>3, <1>2
<1>4. \A i, j \in I : c[i] = c[j] => i = j
  <2> SUFFICES ASSUME NEW i \in I, NEW j \in I, i # j PROVE c[i] # c[j]
    OBVIOUS
  <2>1. <<i, j>> \in R \/ <<j, i>> \in R
    OBVIOUS
  <2>2. Cardinality(Below(i)) # Cardinality(Below(j))
    <3> HIDE DEF Below
    <3> QED BY <2>1, <1>2, <1>3
  <2> HIDE DEF Below
  <2> QED BY <2>2, <1>2
<1>5. c \in [I -> 1..n]
  <2> SUFFICES ASSUME NEW i \in I PROVE c[i] \in 1..n
    OBVIOUS
  <2>1. Below(i) \in SUBSET I /\ i \notin Below(i)
    OBVIOUS
  <2> HIDE DEF Below
  <2>2. Cardinality(Below(i)) <= n /\ Cardinality(Below(i)) # n
    BY <2>1, FS_Subset
  <2> QED BY <2>2, <1>1, <1>2
<1>6. \A p \in 1..n : \E i \in I : c[i] = p
  <2> HIDE DEF c
  <2>1. c \in Injection(I, 1..n)
    BY <1>4, <1>5, Fun_IsInj
  <2>2. IsFiniteSet(1..n) /\ Cardinality(1..n) = n
    <3>1. 1 \in Int /\ n \in Int
      BY <1>1
    <3> HIDE DEF n
    <3> QED BY <1>1, <3>1, FS_Interval
  <2>3. c \in Surjection(I, 1..n)
    BY <2>1, <2>2, FS_Injection
  <2> QED BY <2>3 DEF Surjection
<1>7. ASSUME NEW p \in 1..n PROVE e[p] \in I /\ c[e[p]] = p
  <2>1. e[p] = CHOOSE i \in I : Cardinality(Below(i)) = p - 1
    BY DEF InOrder
  <2>2. \E i \in I : Cardinality(Below(i)) = p - 1
    <3>1. PICK i \in I : c[i] = p
      BY <1>6
    <3> HIDE DEF Below
    <3> QED BY <3>1, <1>2
  <2> HIDE DEF Below, e
  <2>3. e[p] \in I /\ Cardinality(Below(e[p])) = p - 1
    BY <2>1, <2>2
  <2> QED BY <2>3, <1>1
<1>8. e \in [1..n -> I]
  <2> DEFINE b(p) == CHOOSE i \in I : Cardinality(Below(i)) = p - 1
  <2>1. e = [p \in 1..n |-> b(p)]
    BY DEF InOrder
  <2> HIDE DEF e, b
  <2> QED BY <2>1, <1>7
<1>9. ASSUME NEW p \in 1..n, NEW q \in 1..n, p < q PROVE <<e[p], e[q]>> \in R
  <2> HIDE DEF e, Below
  <2>1. e[p] \in I /\ e[q] \in I /\ c[e[p]] = p /\ c[e[q]] = q
    BY <1>7
  <2>2. <<e[q], e[p]>> \notin R
    BY <2>1, <1>2, <1>3, <1>9, <1>1
  <2> QED BY <2>1, <2>2, <1>9
<1>10. ASSUME NEW i \in I PROVE \E p \in 1..n : e[p] = i
  <2> HIDE DEF e, c
  <2>1. c[i] \in 1..n
    BY <1>5
  <2>2. e[c[i]] = i
    BY <2>1, <1>4, <1>7
  <2> QED BY <2>1, <2>2
<1> QED BY <1>1, <1>8, <1>9, <1>10

\* A function on places 1..n whose values are elements.
LEMMA IsSequence ==
  ASSUME NEW T, NEW n \in Nat, NEW s, s \in [1..n -> T]
  PROVE  s \in Seq(T) /\ Len(s) = n /\ DOMAIN s = 1..n
OBVIOUS

\* Keep has the elements of s that are in S, in the order of s.
LEMMA KeepIs ==
  ASSUME NEW T, NEW s \in Seq(T), NEW S
  PROVE  /\ Keep(s, S) \in Seq(T)
         /\ ToSet(Keep(s, S)) = ToSet(s) \cap S
         /\ \E f \in [1..Len(Keep(s, S)) -> 1..Len(s)] :
               /\ \A p \in 1..Len(Keep(s, S)) : Keep(s, S)[p] = s[f[p]]
               /\ \A p, q \in 1..Len(Keep(s, S)) : p < q => f[p] < f[q]
               /\ \A i \in 1..Len(s) : s[i] \in S => \E p \in 1..Len(Keep(s, S)) : f[p] = i
<1> DEFINE D == DOMAIN s
           I == {i \in D : s[i] \in S}
           R == Ascending(D)
           f == InOrder(I, R)
           n == Cardinality(I)
           k == Keep(s, S)
<1>1. D = 1..Len(s) /\ Len(s) \in Nat
  OBVIOUS
<1>2. IsFiniteSet(I)
  <2>1. IsFiniteSet(1..Len(s))
    <3>1. 1 \in Int /\ Len(s) \in Int
      BY <1>1
    <3> QED BY <3>1, FS_Interval
  <2>2. I \in SUBSET (1..Len(s))
    BY <1>1
  <2> QED BY <2>1, <2>2, FS_Subset
<1>3. \A i, j \in D : <<i, j>> \in R <=> i < j
  BY DEF Ascending
<1>4. I \subseteq D
  OBVIOUS
<1>5. /\ n \in Nat
      /\ f \in [1..n -> I]
      /\ \A p, q \in 1..n : p < q => <<f[p], f[q]>> \in R
      /\ \A i \in I : \E p \in 1..n : f[p] = i
  <2>1. \A i \in I : <<i, i>> \notin R
    BY <1>1, <1>3, <1>4
  <2>2. \A i, j \in I : i # j => <<i, j>> \in R \/ <<j, i>> \in R
    BY <1>1, <1>3, <1>4
  <2>3. \A i, j, l \in I : <<i, j>> \in R /\ <<j, l>> \in R => <<i, l>> \in R
    BY <1>1, <1>3, <1>4
  <2> HIDE DEF I, R
  <2> QED BY <1>2, <2>1, <2>2, <2>3, InOrderIs
<1> HIDE DEF f, R
<1>6. k = [p \in 1..n |-> s[f[p]]]
  BY <1>5 DEF Keep, At, f, R
<1>7. k \in [1..n -> T]
  BY <1>5, <1>6
<1> HIDE DEF k
<1>8. k \in Seq(T) /\ Len(k) = n
  BY <1>5, <1>7, IsSequence
<1>9. ToSet(k) = ToSet(s) \cap S
  <2>1. \A p \in 1..n : k[p] \in ToSet(s) /\ k[p] \in S
    BY <1>5, <1>6 DEF ToSet
  <2>2. \A i \in D : s[i] \in S => \E p \in 1..n : k[p] = s[i]
    <3> SUFFICES ASSUME NEW i \in D, s[i] \in S PROVE \E p \in 1..n : k[p] = s[i]
      OBVIOUS
    <3>1. i \in I
      OBVIOUS
    <3>2. PICK p \in 1..n : f[p] = i
      BY <3>1, <1>5
    <3> QED BY <3>2, <1>6
  <2>3. DOMAIN k = 1..n
    BY <1>7
  <2> HIDE DEF n, I
  <2> QED BY <2>1, <2>2, <2>3 DEF ToSet
<1>10. f \in [1..n -> 1..Len(s)] /\ \A p, q \in 1..n : p < q => f[p] < f[q]
  BY <1>1, <1>3, <1>4, <1>5
<1>11. \A i \in 1..Len(s) : s[i] \in S => \E p \in 1..n : f[p] = i
  BY <1>1, <1>5
<1> HIDE DEF n
<1> QED BY <1>6, <1>8, <1>9, <1>10, <1>11 DEF k

\* A filter that everything passes changes nothing.
LEMMA KeepAll ==
  ASSUME NEW T, NEW s \in Seq(T), NEW S, ToSet(s) \subseteq S
  PROVE  Keep(s, S) = s
<1> DEFINE N == Len(s)
           D == DOMAIN s
           R == Ascending(D)
           f == InOrder(D, R)
<1>1. D = 1..N /\ N \in Nat /\ {i \in D : s[i] \in S} = D
  <2>1. D = 1..N /\ N \in Nat
    OBVIOUS
  <2>2. \A i \in D : s[i] \in S
    BY DEF ToSet
  <2> HIDE DEF D
  <2> QED BY <2>1, <2>2
<1>2. ASSUME NEW i \in 1..N
      PROVE  Cardinality({j \in D : <<j, i>> \in R}) = i - 1
  <2>1. {j \in D : <<j, i>> \in R} = 1..(i - 1)
    BY <1>1 DEF Ascending
  <2>2. 1 \in Int /\ i - 1 \in Int
    BY <1>1
  <2>3. Cardinality(1..(i - 1)) = IF 1 > i - 1 THEN 0 ELSE (i - 1) - 1 + 1
    BY <2>2, FS_Interval
  <2>4. i \in Nat /\ i >= 1
    BY <1>1
  <2>5. Cardinality(1..(i - 1)) = i - 1
    BY <2>3, <2>4
  <2> HIDE DEF R, D
  <2> QED BY <2>1, <2>5
<1>3. Cardinality(D) = N
  <2>1. 1 \in Int /\ N \in Int
    BY <1>1
  <2>2. Cardinality(1..N) = IF 1 > N THEN 0 ELSE N - 1 + 1
    BY <2>1, FS_Interval
  <2> HIDE DEF D, N
  <2> QED BY <1>1, <2>2
<1>4. f = [p \in 1..N |-> CHOOSE i \in D : Cardinality({j \in D : <<j, i>> \in R}) = p - 1]
  BY <1>3 DEF InOrder
<1> HIDE DEF f, R
<1>5. \A p \in 1..N : f[p] = p
  <2> SUFFICES ASSUME NEW p \in 1..N PROVE f[p] = p
    OBVIOUS
  <2> DEFINE Q(i) == Cardinality({j \in D : <<j, i>> \in R}) = p - 1
  <2>1. f[p] = CHOOSE i \in D : Q(i)
    BY <1>4
  <2>2. \A i \in D : Q(i) <=> i = p
    BY <1>1, <1>2
  <2> HIDE DEF Q
  <2>3. p \in D
    BY <1>1
  <2> QED BY <2>1, <2>2, <2>3
<1>6. Keep(s, S) = At(s, f)
  BY <1>1 DEF Keep, f, R
<1>7. At(s, f) = s
  <2>1. DOMAIN f = 1..N
    BY <1>4
  <2>2. At(s, f) = [p \in 1..N |-> s[p]]
    BY <1>5, <2>1 DEF At
  <2> QED BY <2>2
<1> QED BY <1>6, <1>7

\* How places compare.
LEMMA SortOrderIs ==
  ASSUME NEW T, NEW s \in Seq(T), NEW B, NEW i \in DOMAIN s, NEW j \in DOMAIN s
  PROVE  <<i, j>> \in SortOrder(s, B) <=>
            (<<s[i], s[j]>> \in B \/ (<<s[j], s[i]>> \notin B /\ i < j))
  BY DEF SortOrder

\* A sort by a strict total order gives the same elements in that order.
LEMMA SortIs ==
  ASSUME NEW T, NEW s \in Seq(T), NEW B,
         \A i, j \in DOMAIN s : i # j => s[i] # s[j],
         \A x \in ToSet(s) : <<x, x>> \notin B,
         \A x, y \in ToSet(s) : x # y => <<x, y>> \in B \/ <<y, x>> \in B,
         \A x, y, z \in ToSet(s) : <<x, y>> \in B /\ <<y, z>> \in B => <<x, z>> \in B
  PROVE  /\ Sort(s, B) \in Seq(T)
         /\ Len(Sort(s, B)) = Len(s)
         /\ ToSet(Sort(s, B)) = ToSet(s)
         /\ \A p, q \in 1..Len(s) : p < q => <<Sort(s, B)[p], Sort(s, B)[q]>> \in B
<1> DEFINE D == DOMAIN s
           R == SortOrder(s, B)
           f == InOrder(D, R)
           t == Sort(s, B)
<1>1. D = 1..Len(s) /\ Len(s) \in Nat /\ IsFiniteSet(D) /\ Cardinality(D) = Len(s)
  <2>1. D = 1..Len(s) /\ Len(s) \in Nat /\ 1 \in Int /\ Len(s) \in Int
    OBVIOUS
  <2>2. /\ IsFiniteSet(1..Len(s))
        /\ Cardinality(1..Len(s)) = IF 1 > Len(s) THEN 0 ELSE Len(s) - 1 + 1
    BY <2>1, FS_Interval
  <2> QED BY <2>1, <2>2
<1>2. \A i \in D : s[i] \in ToSet(s)
  BY DEF ToSet
<1>3. \A i, j \in D : <<i, j>> \in R <=> <<s[i], s[j]>> \in B
  <2> SUFFICES ASSUME NEW i \in D, NEW j \in D PROVE <<i, j>> \in R <=> <<s[i], s[j]>> \in B
    OBVIOUS
  <2>1. <<i, j>> \in R <=> \/ <<s[i], s[j]>> \in B
                           \/ <<s[j], s[i]>> \notin B /\ i < j
    BY SortOrderIs
  <2>2. i < j => s[i] # s[j]
    BY <1>1
  <2> HIDE DEF R
  <2> QED BY <2>1, <2>2, <1>2
<1>4. /\ f \in [1..Len(s) -> D]
      /\ \A p, q \in 1..Len(s) : p < q => <<f[p], f[q]>> \in R
      /\ \A i \in D : \E p \in 1..Len(s) : f[p] = i
  <2> HIDE DEF R
  <2>1. \A i \in D : <<i, i>> \notin R
    BY <1>2, <1>3
  <2>2. \A i, j \in D : i # j => <<i, j>> \in R \/ <<j, i>> \in R
    BY <1>2, <1>3
  <2>3. \A i, j, l \in D : <<i, j>> \in R /\ <<j, l>> \in R => <<i, l>> \in R
    <3> SUFFICES ASSUME NEW i \in D, NEW j \in D, NEW l \in D, <<i, j>> \in R, <<j, l>> \in R
                 PROVE  <<i, l>> \in R
      OBVIOUS
    <3>1. s[i] \in ToSet(s) /\ s[j] \in ToSet(s) /\ s[l] \in ToSet(s)
      BY <1>2
    <3>2. <<s[i], s[j]>> \in B /\ <<s[j], s[l]>> \in B
      BY <1>3
    <3>3. <<s[i], s[l]>> \in B
      BY <3>1, <3>2
    <3> QED BY <3>3, <1>3
  <2>4. IsFiniteSet(D) /\ Cardinality(D) = Len(s)
    BY <1>1
  <2>5. /\ f \in [1..Cardinality(D) -> D]
        /\ \A p, q \in 1..Cardinality(D) : p < q => <<f[p], f[q]>> \in R
        /\ \A i \in D : \E p \in 1..Cardinality(D) : f[p] = i
    <3> HIDE DEF D
    <3> QED BY <2>4, <2>1, <2>2, <2>3, InOrderIs
  <2> HIDE DEF D, f
  <2> QED BY <2>4, <2>5
<1>5. t = [p \in 1..Len(s) |-> s[f[p]]]
  <2>1. t = At(s, f)
    BY DEF Sort
  <2> HIDE DEF f, t
  <2> QED BY <2>1, <1>4 DEF At
<1> HIDE DEF f, t, R
<1>6. t \in [1..Len(s) -> T]
  BY <1>4, <1>5, <1>1
<1>7. t \in Seq(T) /\ Len(t) = Len(s)
  BY <1>1, <1>6, IsSequence
<1>8. ToSet(t) = ToSet(s)
  <2>1. \A p \in 1..Len(s) : t[p] \in ToSet(s)
    BY <1>2, <1>4, <1>5
  <2>2. \A i \in D : \E p \in 1..Len(s) : t[p] = s[i]
    BY <1>4, <1>5
  <2>3. ToSet(t) = {t[p] : p \in 1..Len(s)}
    BY <1>6 DEF ToSet
  <2>4. ToSet(t) \subseteq ToSet(s)
    BY <2>1, <2>3
  <2>5. \A x \in ToSet(s) : \E i \in D : x = s[i]
    BY DEF ToSet
  <2>6. ToSet(s) \subseteq ToSet(t)
    BY <2>2, <2>3, <2>5
  <2> QED BY <2>4, <2>6
<1>9. \A p, q \in 1..Len(s) : p < q => <<t[p], t[q]>> \in B
  BY <1>3, <1>4, <1>5
<1> QED BY <1>7, <1>8, <1>9 DEF t

\* The turns of the loop that drops repetitions.
LEMMA DistinctSteps ==
  ASSUME NEW T, NEW s \in Seq(T)
  PROVE  \E d \in [0..Len(s) -> Seq(T)] :
            /\ d[0] = <<>>
            /\ \A n \in 1..Len(s) : d[n] = AddNew(d[n - 1], s[n])
            /\ Distinct(s) = d[Len(s)]
<1> DEFINE N == Len(s)
           D == Seq(T)
           step == [n \in 1..N |-> [acc \in D |-> AddNew(acc, s[n])]]
           Body(d) == [n \in 0..N |-> IF n = 0 THEN <<>> ELSE AddNew(d[n - 1], s[n])]
           e == CHOOSE d : d = Body(d)
<1>1. N \in Nat /\ <<>> \in D
  OBVIOUS
<1>2. step \in [1..N -> [D -> D]]
  <2>1. \A acc \in D, n \in 1..N : AddNew(acc, s[n]) \in D
    BY DEF AddNew
  <2> QED BY <2>1
<1>3. PICK f \in [0..N -> D] : f[0] = <<>> /\ \A n \in 1..N : f[n] = step[n][f[n - 1]]
  <2> DEFINE base == <<>>
  <2>1. base \in D
    BY <1>1
  <2> HIDE DEF D, N, step, base
  <2>2. \E f : Runs(f, N, D, base, step)
    BY <1>1, <2>1, <1>2, Recursion
  <2> QED BY <2>2 DEF base, Runs
<1>4. \A n \in 1..N : f[n - 1] \in D
  BY <1>3
<1>5. \A n \in 1..N : f[n] = AddNew(f[n - 1], s[n])
  BY <1>3, <1>4
<1>6. f = Body(f)
  BY <1>3, <1>5
<1>7. e = Body(e)
  <2> HIDE DEF Body
  <2> QED BY <1>6
<1>8. Distinct(s) = e[N]
  BY DEF Distinct
<1> HIDE DEF e
<1>9. e[0] = <<>> /\ \A n \in 1..N : e[n] = AddNew(e[n - 1], s[n])
  BY <1>1, <1>7
<1>10. DOMAIN e = 0..N /\ e = [n \in 0..N |-> e[n]]
  BY <1>7
<1>11. \A n \in 0..N : e[n] \in D
  <2> DEFINE S == {n \in 0..N : e[n] \in D}
  <2>1. 0 \in S
    <3>1. e[0] \in D /\ 0 \in 0..N
      BY <1>1, <1>9
    <3> HIDE DEF D, N
    <3> QED BY <3>1
  <2>2. ASSUME NEW n \in 1..N, n - 1 \in S PROVE n \in S
    <3>1. AddNew(e[n - 1], s[n]) \in D
      BY <2>2 DEF AddNew
    <3> QED BY <3>1, <1>9
  <2> HIDE DEF S, D
  <2>3. 0..N \subseteq S
    BY <1>1, <2>1, <2>2, UpTo
  <2> QED BY <2>3 DEF S
<1>12. e \in [0..N -> D]
  BY <1>10, <1>11
<1> QED BY <1>8, <1>9, <1>12

\* What is known of d after the first n elements of s have been added to it.
Gathered(d, s, n) ==
    /\ \A p, q \in 1..Len(d) : d[p] = d[q] => p = q
    /\ \A p \in 1..Len(d) : \E i \in 1..n : s[i] = d[p]
    /\ \A i \in 1..n : \E p \in 1..Len(d) : d[p] = s[i]
    /\ \A p, q \in 1..Len(d) : p < q =>
          \E i \in 1..n : s[i] = d[p] /\ \A j \in 1..n : s[j] = d[q] => i < j

\* A turn of that loop: one more element of s has been seen.
LEMMA AddNewGathers ==
  ASSUME NEW T, NEW s \in Seq(T), NEW d \in Seq(T), NEW n \in 1..Len(s),
         Gathered(d, s, n - 1)
  PROVE  Gathered(AddNew(d, s[n]), s, n)
<1> DEFINE x == s[n]
           c == AddNew(d, x)
           L == Len(d)
<1>1. n \in Nat /\ n - 1 \in Nat /\ L \in Nat /\ x \in T /\ DOMAIN d = 1..L
  OBVIOUS
<1>2. \A i \in 1..n : i = n \/ i \in 1..(n - 1)
  BY <1>1
<1>3. \A i \in 1..(n - 1) : i \in 1..n /\ i < n
  BY <1>1
<1>4. n \in 1..n
  BY <1>1
<1>5. CASE x \in ToSet(d)
  <2>1. c = d
    BY <1>5 DEF AddNew
  <2>2. PICK r \in 1..L : d[r] = x
    BY <1>5, <1>1 DEF ToSet
  <2>3. \A p \in 1..L : \E i \in 1..n : s[i] = d[p]
    BY <1>3 DEF Gathered
  <2>4. \A i \in 1..n : \E p \in 1..L : d[p] = s[i]
    BY <1>2, <2>2 DEF Gathered
  <2>5. ASSUME NEW p \in 1..L, NEW q \in 1..L, p < q
        PROVE  \E i \in 1..n : s[i] = d[p] /\ \A j \in 1..n : s[j] = d[q] => i < j
    <3>1. PICK i \in 1..(n - 1) : s[i] = d[p] /\ \A j \in 1..(n - 1) : s[j] = d[q] => i < j
      BY <2>5 DEF Gathered
    <3> QED BY <3>1, <1>2, <1>3
  <2> QED BY <2>1, <2>3, <2>4, <2>5 DEF Gathered
<1>6. CASE x \notin ToSet(d)
  <2>1. c = Append(d, x)
    BY <1>6 DEF AddNew
  <2>2. /\ Len(c) = L + 1 /\ c[L + 1] = x
        /\ \A p \in 1..L : c[p] = d[p]
        /\ \A p \in 1..(L + 1) : p = L + 1 \/ p \in 1..L
        /\ \A p \in 1..L : p \in 1..(L + 1) /\ p < L + 1
        /\ L + 1 \in 1..(L + 1)
    BY <2>1, <1>1
  <2>3. \A p \in 1..L : d[p] # x
    BY <1>6, <1>1 DEF ToSet
  <2>4. \A i \in 1..(n - 1) : s[i] # x
    BY <2>3 DEF Gathered
  <2> HIDE DEF c, x, L
  <2>5. \A p, q \in 1..(L + 1) : c[p] = c[q] => p = q
    <3>1. \A p, q \in 1..L : d[p] = d[q] => p = q
      BY DEF Gathered, L
    <3> SUFFICES ASSUME NEW p \in 1..(L + 1), NEW q \in 1..(L + 1), c[p] = c[q] PROVE p = q
      OBVIOUS
    <3>2. CASE p \in 1..L /\ q \in 1..L  BY <3>1, <3>2, <2>2
    <3>3. CASE p \in 1..L /\ q = L + 1  BY <3>3, <2>2, <2>3
    <3>4. CASE p = L + 1 /\ q \in 1..L  BY <3>4, <2>2, <2>3
    <3> QED BY <3>2, <3>3, <3>4, <2>2
  <2>6. \A p \in 1..(L + 1) : \E i \in 1..n : s[i] = c[p]
    <3> SUFFICES ASSUME NEW p \in 1..(L + 1) PROVE \E i \in 1..n : s[i] = c[p]
      OBVIOUS
    <3>1. CASE p = L + 1  BY <3>1, <2>2, <1>4 DEF x
    <3>2. CASE p \in 1..L  BY <3>2, <2>2, <1>3 DEF Gathered, L
    <3> QED BY <3>1, <3>2, <2>2
  <2>7. \A i \in 1..n : \E p \in 1..(L + 1) : c[p] = s[i]
    <3> SUFFICES ASSUME NEW i \in 1..n PROVE \E p \in 1..(L + 1) : c[p] = s[i]
      OBVIOUS
    <3>1. CASE i = n  BY <3>1, <2>2 DEF x
    <3>2. CASE i \in 1..(n - 1)  BY <3>2, <2>2 DEF Gathered, L
    <3> QED BY <3>1, <3>2, <1>2
  <2>8. ASSUME NEW p \in 1..(L + 1), NEW q \in 1..(L + 1), p < q
        PROVE  \E i \in 1..n : s[i] = c[p] /\ \A j \in 1..n : s[j] = c[q] => i < j
    <3>1. p \in 1..L /\ c[p] = d[p]
      BY <2>2, <2>8, <1>1 DEF L
    <3>2. CASE q = L + 1
      <4>1. PICK i \in 1..(n - 1) : s[i] = d[p]
        BY <3>1 DEF Gathered, L
      <4>2. \A j \in 1..n : s[j] = c[q] => j = n
        BY <3>2, <2>2, <2>4, <1>2
      <4> QED BY <4>1, <4>2, <3>1, <1>3
    <3>3. CASE q \in 1..L
      <4>1. PICK i \in 1..(n - 1) : s[i] = d[p] /\ \A j \in 1..(n - 1) : s[j] = d[q] => i < j
        BY <3>1, <3>3, <2>8 DEF Gathered, L
      <4>2. c[q] = d[q] /\ s[n] # c[q]
        BY <3>3, <2>2, <2>3 DEF x
      <4> QED BY <4>1, <4>2, <3>1, <1>2, <1>3
    <3> QED BY <3>2, <3>3, <2>2
  <2> QED BY <2>2, <2>5, <2>6, <2>7, <2>8 DEF Gathered, c, x
<1> QED BY <1>5, <1>6

\* Distinct has the elements in the order in which they are met first.
LEMMA DistinctIs ==
  ASSUME NEW T, NEW s \in Seq(T)
  PROVE  Distinct(s) \in Seq(T) /\ Gathered(Distinct(s), s, Len(s))
<1>1. PICK d \in [0..Len(s) -> Seq(T)] :
            /\ d[0] = <<>>
            /\ \A n \in 1..Len(s) : d[n] = AddNew(d[n - 1], s[n])
            /\ Distinct(s) = d[Len(s)]
  BY DistinctSteps
<1> DEFINE N == Len(s)
           S == {n \in 0..N : Gathered(d[n], s, n)}
<1>2. N \in Nat
  OBVIOUS
<1>3. 0 \in S
  <2>1. Gathered(<<>>, s, 0)
    BY DEF Gathered
  <2> QED BY <2>1, <1>1, <1>2
<1>4. ASSUME NEW n \in 1..N, n - 1 \in S PROVE n \in S
  <2>1. d[n - 1] \in Seq(T) /\ Gathered(d[n - 1], s, n - 1)
    BY <1>1, <1>4
  <2>2. Gathered(AddNew(d[n - 1], s[n]), s, n)
    BY <2>1, AddNewGathers
  <2> QED BY <2>2, <1>1
<1>5. 0..N \subseteq S
  <2> HIDE DEF S, N
  <2> QED BY <1>2, <1>3, <1>4, UpTo
<1>6. N \in S
  <2> HIDE DEF S
  <2> QED BY <1>2, <1>5
<1> QED BY <1>1, <1>2, <1>6

\* Distinct loses nothing and has nothing twice.
LEMMA DistinctSet ==
  ASSUME NEW T, NEW s \in Seq(T)
  PROVE  /\ Distinct(s) \in Seq(T)
         /\ IsInjective(Distinct(s))
         /\ ToSet(Distinct(s)) = ToSet(s)
<1> DEFINE d == Distinct(s)
<1>1. d \in Seq(T) /\ Gathered(d, s, Len(s))
  BY DistinctIs
<1> HIDE DEF d
<1>2. IsInjective(d)
  BY <1>1 DEF Gathered, IsInjective
<1>3. ToSet(d) = ToSet(s)
  <2>1. ToSet(d) = {d[p] : p \in 1..Len(d)} /\ ToSet(s) = {s[i] : i \in 1..Len(s)}
    BY <1>1 DEF ToSet
  <2>2. \A p \in 1..Len(d) : \E i \in 1..Len(s) : s[i] = d[p]
    BY <1>1 DEF Gathered
  <2>3. \A i \in 1..Len(s) : \E p \in 1..Len(d) : d[p] = s[i]
    BY <1>1 DEF Gathered
  <2> QED BY <2>1, <2>2, <2>3
<1> QED BY <1>1, <1>2, <1>3 DEF d

\* The elements of a concatenation.
LEMMA ConcatSet ==
  ASSUME NEW T, NEW a \in Seq(T), NEW b \in Seq(T)
  PROVE  a \o b \in Seq(T) /\ ToSet(a \o b) = ToSet(a) \cup ToSet(b)
<1> DEFINE c == a \o b
<1>1. /\ c \in Seq(T) /\ Len(c) = Len(a) + Len(b)
      /\ Len(a) \in Nat /\ Len(b) \in Nat
      /\ \A p \in 1..Len(c) : c[p] = IF p <= Len(a) THEN a[p] ELSE b[p - Len(a)]
  OBVIOUS
<1>2. ToSet(a) = {a[p] : p \in 1..Len(a)} /\ ToSet(b) = {b[p] : p \in 1..Len(b)}
  BY DEF ToSet
<1>3. ToSet(c) = {c[p] : p \in 1..Len(c)}
  BY <1>1 DEF ToSet
<1> HIDE DEF c
<1>4. \A p \in 1..Len(c) : c[p] \in ToSet(a) \cup ToSet(b)
  BY <1>1, <1>2
<1>5. \A p \in 1..Len(a) : a[p] \in ToSet(c)
  BY <1>1, <1>3
<1>6. \A p \in 1..Len(b) : b[p] \in ToSet(c)
  <2> SUFFICES ASSUME NEW p \in 1..Len(b) PROVE b[p] \in ToSet(c)
    OBVIOUS
  <2>1. p + Len(a) \in 1..Len(c) /\ ~(p + Len(a) <= Len(a)) /\ (p + Len(a)) - Len(a) = p
    BY <1>1
  <2>2. c[p + Len(a)] = b[p]
    BY <1>1, <2>1
  <2> QED BY <1>3, <2>1, <2>2
<1>7. ToSet(c) = ToSet(a) \cup ToSet(b)
  BY <1>2, <1>3, <1>4, <1>5, <1>6
<1> QED BY <1>1, <1>7 DEF c

\* Two sequences without repetitions that share nothing.
LEMMA ConcatInjective ==
  ASSUME NEW T, NEW a \in Seq(T), NEW b \in Seq(T), IsInjective(a), IsInjective(b),
         ToSet(a) \cap ToSet(b) = {}
  PROVE  IsInjective(a \o b)
<1> DEFINE c == a \o b
<1>1. /\ c \in Seq(T) /\ Len(c) = Len(a) + Len(b)
      /\ Len(a) \in Nat /\ Len(b) \in Nat
      /\ \A p \in 1..Len(c) : c[p] = IF p <= Len(a) THEN a[p] ELSE b[p - Len(a)]
      /\ DOMAIN c = 1..Len(c)
  OBVIOUS
<1>2. /\ \A p \in 1..Len(a) : a[p] \in ToSet(a)
      /\ \A p \in 1..Len(b) : b[p] \in ToSet(b)
  BY DEF ToSet
<1>3. \A p \in 1..Len(c) : p \in 1..Len(a) \/ (~(p <= Len(a)) /\ p - Len(a) \in 1..Len(b))
  BY <1>1
<1> HIDE DEF c
<1>4. /\ \A p, q \in 1..Len(a) : a[p] = a[q] => p = q
      /\ \A p, q \in 1..Len(b) : b[p] = b[q] => p = q
  BY DEF IsInjective
<1>5. ASSUME NEW p \in 1..Len(c), NEW q \in 1..Len(c), c[p] = c[q] PROVE p = q
  <2>1. CASE p \in 1..Len(a) /\ q \in 1..Len(a)
    BY <1>1, <1>4, <1>5, <2>1
  <2>2. CASE p \in 1..Len(a) /\ ~(q <= Len(a)) /\ q - Len(a) \in 1..Len(b)
    BY <1>1, <1>2, <1>5, <2>2
  <2>3. CASE q \in 1..Len(a) /\ ~(p <= Len(a)) /\ p - Len(a) \in 1..Len(b)
    BY <1>1, <1>2, <1>5, <2>3
  <2>4. CASE /\ ~(p <= Len(a)) /\ p - Len(a) \in 1..Len(b)
             /\ ~(q <= Len(a)) /\ q - Len(a) \in 1..Len(b)
    <3>1. c[p] = b[p - Len(a)] /\ c[q] = b[q - Len(a)]
      BY <1>1, <2>4
    <3>2. p - Len(a) = q - Len(a)
      BY <1>4, <1>5, <2>4, <3>1
    <3> QED BY <1>1, <3>2
  <2> QED BY <1>3, <2>1, <2>2, <2>3, <2>4
<1> QED BY <1>1, <1>5 DEF IsInjective, c
=============================================================================
