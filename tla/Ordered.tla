------------------------------ MODULE Ordered ------------------------------
(***************************************************************************)
(* Sets of numbers in ascending order: PCRs as the tools walk a bitmap,    *)
(* handles as a TPM returns them.                                          *)
(***************************************************************************)
EXTENDS Integers, FiniteSets

\* The element that has i - 1 smaller ones is the i-th.
Ascending(S) ==
    [i \in 1..Cardinality(S) |->
        CHOOSE n \in S : Cardinality({m \in S : m < n}) = i - 1]
=============================================================================
