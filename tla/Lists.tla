------------------------------- MODULE Lists -------------------------------
(***************************************************************************)
(* Operations on sequences that the lists of the program go through, in a  *)
(* form the provers can expand: what SelectSeq and SortSeq compute, by the *)
(* place each element takes, and loops as recursive functions.             *)
(***************************************************************************)
EXTENDS Integers, Sequences, FiniteSets, SequencesExt

\* The members of I in the order R: each behind as many as come before it.
InOrder(I, R) ==
    [p \in 1..Cardinality(I) |->
        CHOOSE i \in I : Cardinality({j \in I : <<j, i>> \in R}) = p - 1]

Ascending(I) == {q \in I \X I : q[1] < q[2]}

At(s, places) == [p \in DOMAIN places |-> s[places[p]]]

\* The elements of s that are in S, in their order.
Keep(s, S) == At(s, InOrder({i \in DOMAIN s : s[i] \in S}, Ascending(DOMAIN s)))

\* Places of s by the pairs B of elements; what B does not tell apart stays put.
SortOrder(s, B) ==
    {q \in (DOMAIN s) \X (DOMAIN s) :
        \/ <<s[q[1]], s[q[2]]>> \in B
        \/ <<s[q[2]], s[q[1]]>> \notin B /\ q[1] < q[2]}

Sort(s, B) == At(s, InOrder(DOMAIN s, SortOrder(s, B)))

\* seen and append, of every reader of a list.
AddNew(acc, e) == IF e \in ToSet(acc) THEN acc ELSE Append(acc, e)

\* The elements of s, each where it is met first.
Distinct(s) ==
    LET distinct[n \in 0..Len(s)] ==
            IF n = 0 THEN <<>> ELSE AddNew(distinct[n - 1], s[n])
    IN distinct[Len(s)]
=============================================================================
