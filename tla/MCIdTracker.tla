---------------------------- MODULE MCIdTracker ----------------------------
(* The id tracker with processes that are interchangeable.                 *)
EXTENDS IdTracker, TLC

Symmetry == Permutations(Processes)

=============================================================================
