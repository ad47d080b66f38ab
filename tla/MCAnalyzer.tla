----------------------------- MODULE MCAnalyzer -----------------------------
(***************************************************************************)
(* Small instances of Analyzer for TLC: one system, two lines of one       *)
(* module family, up to three windows, all open at once.                   *)
(***************************************************************************)
EXTENDS Analyzer, TLC

CONSTANTS plain, auth, sys, w1, w2, w3, family

OneSystem == [w \in Window |-> sys]
AllAtOnce == [w \in Window |-> 0]
OneFamily == [t \in Template |-> family]
PlainFirst == [t \in Template |-> IF t = plain THEN 1 ELSE 2]

\* Two windows that see each other's findings and one that does not.
OneLineEach == [w \in Window |-> IF w = w3 THEN {plain} ELSE {auth}]

\* w1 carries everything, w2 only the security line.
Carried == [w \in Window |-> IF w = w2 THEN {auth} ELSE {plain, auth}]

\* A plain line reads like a variant of the security line; not the converse.
PlainNearAuth == {<<plain, auth>>}

\* Workers are interchangeable, and so are windows that carry the same line.
WorkerAndWindowSymmetry == Permutations(Worker) \cup Permutations({w1, w2})
=============================================================================
