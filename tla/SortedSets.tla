----------------------------- MODULE SortedSets -----------------------------
(***************************************************************************)
(* Finite sets of numbers as sequences, and parts of sequences.            *)
(***************************************************************************)
EXTENDS Naturals, FiniteSets

\* The numbers of a set, lowest first.
Ascending(S) ==
    CHOOSE s \in [1 .. Cardinality(S) -> S] :
        \A i, j \in 1 .. Cardinality(S) : i < j => s[i] < s[j]

\* The elements of s at these positions, in their order.
ElementsAt(s, positions) ==
    [k \in 1 .. Cardinality(positions) |-> s[Ascending(positions)[k]]]
=============================================================================
