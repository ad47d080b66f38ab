------------------------------ MODULE MCBudget ------------------------------
(***************************************************************************)
(* An instance of Analyzer for the budget: two systems, three windows       *)
(* without and one with a security line, a day of two ticks.               *)
(***************************************************************************)
EXTENDS Analyzer, TLC

CONSTANTS plain, other, auth, quiet, busy, q1, b1, b2, b3, family

Senders == [w \in Window |-> IF w = q1 THEN quiet ELSE busy]
AllAtOnce == [w \in Window |-> 0]
OneFamily == [t \in Template |-> family]
Ranks == [t \in Template |-> IF t = plain THEN 1 ELSE IF t = other THEN 2 ELSE 3]

Carried ==
  [w \in Window |-> CASE w = q1 -> {plain}
                      [] w = b1 -> {plain}
                      [] w = b2 -> {other}
                      [] OTHER  -> {auth}]

\* Workers are interchangeable.
WorkerSymmetry == Permutations(Worker)
=============================================================================
