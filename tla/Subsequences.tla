---------------------------- MODULE Subsequences ----------------------------
(* The part of a sequence that meets a test, by the positions it is found at. *)
EXTENDS Integers, Sequences, FiniteSets

\* The elements of s at the positions I, in their order: the j-th is the one
\* with j - 1 others before it.
KeepAt(s, I) ==
    [j \in 1 .. Cardinality(I) |->
        s[CHOOSE i \in I : Cardinality({x \in I : x < i}) = j - 1]]
=============================================================================
