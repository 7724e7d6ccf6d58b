------------------------------ MODULE Sublists ------------------------------
(***************************************************************************)
(* The loops of the code that go through an array or a list: they keep     *)
(* some of its elements, in their order; or they look for the first        *)
(* element of some kind, and put another one in front of it.               *)
(***************************************************************************)
EXTENDS Naturals, Sequences, FiniteSets, SequencesExt

UpTo(keep, i) == {j \in keep : j <= i}

\* The elements of s at the positions `keep': the k-th of them is the one at
\* the position that has k positions of `keep' up to it.
Sublist(s, keep) ==
    [k \in 1 .. Cardinality(keep) |->
        s[CHOOSE i \in keep : Cardinality(UpTo(keep, i)) = k]]

\* s without the members of T.
LeaveOut(s, T) == Sublist(s, {i \in DOMAIN s : s[i] \notin T})

\* The members of T in s.
Only(s, T) == Sublist(s, {i \in DOMAIN s : s[i] \in T})

\* x in front of the first of the positions `before', or at the end.
InsertBefore(s, before, x) ==
    IF before = {} THEN Append(s, x) ELSE InsertAt(s, Min(before), x)
=============================================================================
