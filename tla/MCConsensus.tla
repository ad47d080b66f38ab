----------------------------- MODULE MCConsensus -----------------------------
(***************************************************************************)
(* A small instance of Consensus for TLC: two CIDRs, one inside the other. *)
(***************************************************************************)
EXTENDS Consensus, TLC

CONSTANTS a, b, one, both

Inside == [c \in {one, both} |-> IF c = one THEN {a} ELSE {a, b}]

\* The second address is only ever seen with the first.
Reported == {{a}, {a, b}}

\* Systems are interchangeable.
Symmetry == Permutations(System)
=============================================================================
