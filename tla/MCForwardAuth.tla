---------------------------- MODULE MCForwardAuth ----------------------------
(***************************************************************************)
(* A small instance of ForwardAuth for TLC: two systems; one also asks for *)
(* an entitlement it may buy.                                              *)
(***************************************************************************)
EXTENDS ForwardAuth, TLC

CONSTANTS base, feed, a, b

Asked == {<<base, a>>, <<feed, a>>, <<base, b>>}
Entitled == [q \in Asked |-> IF q = <<feed, a>> THEN "forbidden" ELSE "valid"]

\* Requests are interchangeable.
RequestSymmetry == Permutations(Request)
=============================================================================
