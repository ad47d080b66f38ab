------------------------------ MODULE MCSizing ------------------------------
(***************************************************************************)
(* A small fleet for Sizing: a cluster of two nodes and one of one node,   *)
(* months of two days.                                                     *)
(***************************************************************************)
EXTENDS Sizing

MCNode == 1 .. 3
MCSystemOf == <<"s1", "s1", "s2">>
MCMonth(d) == d \div 2

\* A bad day of a mail node, and a day that it was mostly off.
MCContent == {
  [covered |-> TRUE, demand |-> TRUE, terms |-> [mem |-> {40, 60}, io |-> {40}, disk |-> {70}],
   hardware |-> "small", families |-> {"mail", "loki"}],
  [covered |-> FALSE, demand |-> FALSE, terms |-> << >>,
   hardware |-> "none", families |-> {"loki"}]}
=============================================================================
