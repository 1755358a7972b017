------------------------------- MODULE Places -------------------------------
(* The numbers of a set, from the least on.                                *)
EXTENDS Integers, FiniteSets

Ordered(S) == [k \in 1 .. Cardinality(S) |->
                 CHOOSE i \in S : Cardinality({j \in S : j <= i}) = k]

=============================================================================
