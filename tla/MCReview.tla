------------------------------ MODULE MCReview ------------------------------
(***************************************************************************)
(* Two classes of findings on one system.                                  *)
(***************************************************************************)
EXTENDS Review

CONSTANTS c1, c2, customer, dismissed, w1, w2

Symmetry == Permutations(Class) \cup Permutations(Decided) \cup Permutations(Wording)

=============================================================================
